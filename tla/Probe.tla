--------------------------------- MODULE Probe ---------------------------------
(***************************************************************************)
(* What a machine finds out about itself before it becomes a hub           *)
(* (hub/capability.go: Probe, PickIPv6, canBindUDP).                       *)
(*                                                                         *)
(* A machine is a record of the addresses of its interfaces, in their      *)
(* order, whether its kernel has IPv6, and what opening sockets at the     *)
(* port of the hub leads to.  The loopback addresses are those of the      *)
(* loopback interface.  ObserveIPv4, which the program never sets, is left *)
(* out.                                                                    *)
(***************************************************************************)
EXTENDS SequencesExt, Address

Host == [ips    : Seq(Addr),
         stack6 : BOOLEAN,
         port   : {"free", "udp_busy", "tcp_busy", "denied"}]

\* What the interfaces are asked for, and with --dev ::1 after all the rest.
\* (That it may then be there twice makes no difference to the first found.)
Ips(h, dev) == IF dev THEN Append(h.ips, Loopback) ELSE h.ips

\* The first of the members of s at the indices I.
First(s, I) == IF I = {} THEN None ELSE s[Min(I)]

\* The indices of the addresses of interfaces that are asked.
Asked(h, dev) ==
  {i \in DOMAIN Ips(h, dev) : dev \/ Kind[Ips(h, dev)[i]] \notin {"loop4", "loop6"}}

LocalIPv4(h, dev) == {i \in Asked(h, dev) : Ips(h, dev)[i] \in V4}

\* c.GlobalIPv6: with --dev also unique local addresses and ::1.
GlobalIPv6(h, dev) ==
  {i \in Asked(h, dev) : LET ip == Ips(h, dev)[i]
                         IN  isGlobalIPv6(ip) \/ (dev /\ isUsableDevIPv6(ip))}

\* publicIPv4()
PublicIPv4(h, dev) ==
  First(Ips(h, dev), {i \in LocalIPv4(h, dev) : ~isPrivateIPv4(Ips(h, dev)[i])})

\* canBindUDP(): a port in use counts as one that can be bound, and after
\* another error an ephemeral IPv6 port decides.
CanBindUDP(h, wantv6) ==
  (h.port # "denied" /\ (wantv6 => h.stack6)) \/ h.stack6

\* Faulty variant: carrier-grade NAT next to a public address is overlooked.
ClaimAnyPublic(h, dev) == PublicIPv4(h, dev) # None

\* c.ClaimIPv4: there is a public address, and none of a carrier-grade NAT.
ClaimIPv4(h, dev) ==
  /\ PublicIPv4(h, dev) # None
  /\ \A i \in LocalIPv4(h, dev) : ~isCGNAT(Ips(h, dev)[i])

\* PickIPv6(): the first global address, or else the first.
PickIPv6(h, dev) ==
  LET found == GlobalIPv6(h, dev)
      global == {i \in found : isGlobalIPv6(Ips(h, dev)[i])}
  IN  First(Ips(h, dev), IF global # {} THEN global ELSE found)

\* Probe(): what runHub needs to know.
Cap(h, dev) ==
  LET has6 == GlobalIPv6(h, dev) # {}
  IN  [v6    |-> PickIPv6(h, dev),
       v4    |-> PublicIPv4(h, dev),
       claim |-> ClaimIPv4(h, dev),
       canBe |-> CanBindUDP(h, has6) /\ has6]
===============================================================================
