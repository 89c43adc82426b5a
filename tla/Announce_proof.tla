---------------------------- MODULE Announce_proof ----------------------------
(***************************************************************************)
(* What a hub announces is true and can be read back, for machines with    *)
(* any addresses, any commands and any invites that operators write.  Only *)
(* the hubs and the invites that were shown matter to these properties;    *)
(* what spokes do with them is the subject of AnnounceSpoke_proof.         *)
(***************************************************************************)
EXTENDS Announce, TLAPS, SequenceTheorems, WellFoundedInduction

-----------------------------------------------------------------------------
(* The first of several                                                    *)

LEMMA HasLeast ==
  ASSUME NEW I \in SUBSET Nat, I # {}
  PROVE  \E x \in I : \A y \in I : x =< y
<1>1. PICK x \in I : \A y \in I : ~(<<y, x>> \in OpToRel(<, Nat))
  BY NatLessThanWellFounded, WFMin
<1>2. OpToRel(<, Nat) = {p \in Nat \X Nat : p[1] < p[2]}
  BY Zenon DEF OpToRel
<1>3. ASSUME NEW y \in I, y < x PROVE FALSE
  <2>1. <<y, x>> \in {p \in Nat \X Nat : p[1] < p[2]}
    BY <1>3
  <2> QED
    BY <2>1, <1>1, <1>2, Zenon
<1>4. \A y \in I : x =< y
  BY <1>3
<1> QED
  BY <1>4

LEMMA MinIsLeast ==
  ASSUME NEW I \in SUBSET Nat, I # {}
  PROVE  Min(I) \in I /\ \A j \in I : Min(I) =< j
BY HasLeast DEF Min

LEMMA FirstIsOne ==
  ASSUME NEW s, NEW I \in SUBSET Nat, I # {}
  PROVE  \E i \in I : First(s, I) = s[i]
BY MinIsLeast DEF First

-----------------------------------------------------------------------------
(* The probe                                                               *)

\* The addresses a machine is taken to have are its own and, with --dev, ::1.
LEMMA IpsAreAddresses ==
  ASSUME NEW h \in Host, NEW dev \in BOOLEAN
  PROVE  /\ Ips(h, dev) \in Seq(Addr)
         /\ DOMAIN Ips(h, dev) \subseteq Nat
         /\ \A i \in DOMAIN h.ips : i \in DOMAIN Ips(h, dev) /\ Ips(h, dev)[i] = h.ips[i]
         /\ \A i \in DOMAIN Ips(h, dev) : i \in DOMAIN h.ips \/ Ips(h, dev)[i] = Loopback
<1>1. h.ips \in Seq(Addr)
  BY DEF Host
<1>2. Loopback \in Addr
  BY AddressAssumption
<1> QED
  BY <1>1, <1>2 DEF Ips

LEMMA LocalAreAddresses ==
  ASSUME NEW h \in Host, NEW dev \in BOOLEAN
  PROVE  /\ LocalIPv4(h, dev) \in SUBSET Nat
         /\ GlobalIPv6(h, dev) \in SUBSET Nat
         /\ \A i \in LocalIPv4(h, dev) :
              Ips(h, dev)[i] \in V4 /\ i \in DOMAIN h.ips /\ Ips(h, dev)[i] = h.ips[i]
         /\ \A i \in GlobalIPv6(h, dev) : Ips(h, dev)[i] \in V6
<1>1. \A i \in DOMAIN Ips(h, dev) : Ips(h, dev)[i] \in Addr
  BY IpsAreAddresses, ElementOfSeq
<1>2. Loopback \notin V4
  BY AddressAssumption DEF V4, Kinds4
<1> QED
  BY <1>1, <1>2, IpsAreAddresses
     DEF LocalIPv4, GlobalIPv6, Asked, V6, Kinds6, isGlobalIPv6, isUsableDevIPv6

\* An announced address is the machine's, or ::1 with --dev.
True6(ip, h, dev) == /\ ip \in V6 /\ ip # Unspecified
                     /\ ip \in Range(h.ips) \/ (dev /\ ip = Loopback)

LEMMA PickedIPv6 ==
  ASSUME NEW h \in Host, NEW dev \in BOOLEAN
  PROVE  PickIPv6(h, dev) = None \/ True6(PickIPv6(h, dev), h, dev)
<1> DEFINE found == GlobalIPv6(h, dev)
           global == {i \in found : isGlobalIPv6(Ips(h, dev)[i])}
           I == IF global # {} THEN global ELSE found
<1>1. I \in SUBSET Nat /\ \A i \in I : True6(Ips(h, dev)[i], h, dev)
  <2>1. I \subseteq GlobalIPv6(h, dev)
    OBVIOUS
  <2> HIDE DEF I
  <2> SUFFICES ASSUME NEW i \in I PROVE True6(Ips(h, dev)[i], h, dev)
    BY <2>1, LocalAreAddresses
  <2>2. Ips(h, dev)[i] \in V6
    BY <2>1, LocalAreAddresses
  <2>3. Ips(h, dev)[i] # Unspecified
    BY <2>1, AddressAssumption DEF GlobalIPv6, isGlobalIPv6, isUsableDevIPv6
  <2>4. i \in DOMAIN Ips(h, dev)
    BY <2>1 DEF GlobalIPv6, Asked
  <2>5. CASE i \in DOMAIN h.ips
    BY <2>2, <2>3, <2>5, IpsAreAddresses DEF True6, Range
  <2>6. CASE i \notin DOMAIN h.ips
    BY <2>2, <2>3, <2>4, <2>6, IpsAreAddresses DEF True6, Ips
  <2> QED
    BY <2>5, <2>6
<1>2. PickIPv6(h, dev) = First(Ips(h, dev), I)
  BY DEF PickIPv6
<1> HIDE DEF I
<1>3. CASE I = {}
  BY <1>2, <1>3 DEF First
<1>4. CASE I # {}
  BY <1>1, <1>2, <1>4, FirstIsOne
<1> QED
  BY <1>3, <1>4

\* A claimed address is the machine's, and none of its networks is behind NAT.
True4(ip, h) == /\ ip \in Range(h.ips)
                /\ Kind[ip] = "public4"
                /\ \A a \in Range(h.ips) : ~isCGNAT(a)

LEMMA ClaimedIPv4 ==
  ASSUME NEW h \in Host, NEW dev \in BOOLEAN
  PROVE  /\ PublicIPv4(h, dev) \in V4 \cup {None}
         /\ ClaimIPv4(h, dev) => True4(PublicIPv4(h, dev), h)
<1> DEFINE I == {i \in LocalIPv4(h, dev) : ~isPrivateIPv4(Ips(h, dev)[i])}
<1>1. /\ I \in SUBSET Nat
      /\ \A i \in I : /\ Ips(h, dev)[i] \in V4
                      /\ i \in DOMAIN h.ips
                      /\ Ips(h, dev)[i] = h.ips[i]
                      /\ ~isPrivateIPv4(Ips(h, dev)[i])
  BY LocalAreAddresses
<1>2. PublicIPv4(h, dev) = First(Ips(h, dev), I)
  BY DEF PublicIPv4
<1> HIDE DEF I
<1>3. CASE I = {}
  BY <1>2, <1>3 DEF First, ClaimIPv4
<1>4. CASE I # {}
  <2>1. PICK i \in I : PublicIPv4(h, dev) = Ips(h, dev)[i]
    BY <1>1, <1>2, <1>4, FirstIsOne
  <2>2. PublicIPv4(h, dev) \in V4 /\ ~isPrivateIPv4(PublicIPv4(h, dev))
    BY <2>1, <1>1
  <2>3. Kind[PublicIPv4(h, dev)] = "public4"
    BY <2>2 DEF V4, Kinds4, isPrivateIPv4
  <2>4. PublicIPv4(h, dev) \in Range(h.ips)
    BY <2>1, <1>1 DEF Range
  <2>5. ASSUME ClaimIPv4(h, dev), NEW a \in Range(h.ips)
        PROVE  ~isCGNAT(a)
    <3>1. PICK j \in DOMAIN h.ips : a = h.ips[j]
      BY DEF Range
    <3>2. j \in DOMAIN Ips(h, dev) /\ Ips(h, dev)[j] = a
      BY <3>1, IpsAreAddresses
    <3>3. a \in Addr
      BY <3>2, IpsAreAddresses, ElementOfSeq
    <3>4. isCGNAT(a) => j \in LocalIPv4(h, dev)
      BY <3>2, <3>3 DEF LocalIPv4, Asked, isCGNAT, V4, Kinds4
    <3> QED
      BY <3>2, <3>4, <2>5 DEF ClaimIPv4
  <2> QED
    BY <2>2, <2>3, <2>4, <2>5 DEF True4
<1> QED
  BY <1>3, <1>4

-----------------------------------------------------------------------------
(* The codec                                                               *)

\* A name that was cut is not cut again.
LEMMA CutOnce ==
  ASSUME NEW name \in Seq(STRING)
  PROVE  /\ CutName(name) \in Seq(STRING)
         /\ CutName(CutName(name)) = CutName(name)
<1> DEFINE n == Min({MaxNameBytes, Len(name)})
           cut == SubSeq(name, 1, n)
<1>1. MaxNameBytes \in Nat /\ Len(name) \in Nat
  BY InviteAssumption
<1>2. n \in {MaxNameBytes, Len(name)}
  BY <1>1, MinIsLeast
<1>3. n <= Len(name) /\ n <= MaxNameBytes
  BY <1>1, MinIsLeast
<1>4. cut \in Seq(STRING) /\ Len(cut) = n
  <2>1. \A i \in 1..n : name[i] \in STRING
    BY <1>1, <1>2, <1>3, ElementOfSeq
  <2>2. n \in Nat
    BY <1>1, <1>2
  <2> HIDE DEF n
  <2> QED
    BY <2>1, <2>2, SubSeqProperties
<1>5. Min({MaxNameBytes, n}) = n
  <2>1. Min({MaxNameBytes, n}) \in {MaxNameBytes, n} /\ Min({MaxNameBytes, n}) =< n
    BY <1>1, <1>2, MinIsLeast
  <2> QED
    BY <2>1, <1>1, <1>2, <1>3
<1>6. SubSeq(cut, 1, n) = cut
  BY <1>4, SubSeqFull
<1> HIDE DEF n
<1>7. CutName(name) = cut
  BY DEF CutName, n
<1> QED
  BY <1>4, <1>5, <1>6, <1>7 DEF CutName

\* What can be written can be read by both programs, and writes the same again.
LEMMA Codec ==
  ASSUME NEW inv \in InviteType, ~Refused(inv), inv.v6 # Unspecified
  PROVE  /\ Unmarshal(Payload(inv)) = [Payload(inv) EXCEPT !.v6 = inv.v6]
         /\ Marshal(inv) = Payload(inv)
         /\ Marshal(Unmarshal(Payload(inv))) = Payload(inv)
         /\ Utf8(CutName(inv.name)) =>
              /\ DartUnmarshal(Payload(inv)) = [Payload(inv) EXCEPT !.v6 = inv.v6]
              /\ DartMarshal(DartUnmarshal(Payload(inv))) = Payload(inv)
<1> DEFINE body == Payload(inv)
           back == [body EXCEPT !.v6 = inv.v6]
<1>1. /\ body.v6 = IF inv.v6 = None THEN Unspecified ELSE inv.v6
      /\ body.version = Version
      /\ body.seed = inv.seed
      /\ body.name = CutName(inv.name)
  BY DEF Payload
<1>2. [body EXCEPT !.v6 = IF @ = Unspecified THEN None ELSE @] = back
  BY <1>1
<1>3. inv.seed \/ inv.v6 \in V6
  BY DEF Refused
<1>4. Unspecified # None /\ None \notin V6 /\ None \notin V4
  BY AddressAssumption DEF V6, V4
<1>5. Unmarshal(body) = back
  BY <1>1, <1>2, <1>3, <1>4 DEF Unmarshal
<1>6. ~Refused(back)
  BY <1>3 DEF Refused, Payload, InviteType
<1>7. Payload(back) = body
  <2>1. CutName(inv.name) = CutName(CutName(inv.name))
    BY CutOnce DEF InviteType
  <2>2. DefaultPort # 0
    BY InviteAssumption
  <2> QED
    BY <2>1, <2>2, <1>4 DEF Payload
<1>8. ASSUME Utf8(CutName(inv.name))
      PROVE  DartUnmarshal(body) = back /\ DartMarshal(back) = body
  <2>1. DartUnmarshal(body) = back
    BY <1>8, <1>1, <1>2 DEF DartUnmarshal
  <2>2. back.v6 # None \/ back.seed
    BY <1>1, <1>3, <1>4 DEF Payload
  <2> QED
    BY <2>1, <2>2, <1>7 DEF DartMarshal
<1> QED
  BY <1>5, <1>6, <1>7, <1>8 DEF Marshal

-----------------------------------------------------------------------------
(* The invariant                                                           *)

HubsOK == /\ \A m \in Machine : host[m] \in Range(Hosts[m])
          /\ DOMAIN host = Machine
          /\ hub \in [Machine -> {None} \cup HubType]

\* Only --dev makes a hub announce ::1 when no interface has it.
Dev(m) == \E cmd \in Commands[m] : cmd.dev

\* What hub s of machine m announces is what it had when it was started: its
\* addresses, the families its sockets are open for, and their port.
Truthful(m, s) ==
  /\ s.born \in Range(Hosts[m])
  /\ s.inv.v6 # None => True6(s.inv.v6, s.born, Dev(m))
  /\ s.inv.v4 # None => True4(s.inv.v4, s.born) /\ ~s.v6only
  /\ s.inv.port = s.port

Honest == \A m \in Machine : hub[m] # None =>
            Truthful(m, hub[m]) /\ (hub[m].printed => hub[m].inv \in shown)

\* Only what can be encoded was shown.
Encoded == shown \subseteq {inv \in InviteType : ~Refused(inv)}

IInv == HubsOK /\ Honest /\ Encoded

LEMMA HostsAreHosts ==
  ASSUME NEW m \in Machine, NEW h \in Range(Hosts[m])
  PROVE  h \in Host
BY AnnounceAssumption, ElementOfSeq DEF Range

LEMMA StartedIsHonest ==
  ASSUME NEW m \in Machine, NEW cmd \in Commands[m], NEW expiry \in Expiries,
         host[m] \in Range(Hosts[m])
  PROVE  LET s == Started(m, cmd, Cap(host[m], cmd.dev), expiry)
         IN  s \in HubType /\ Truthful(m, s) /\ ~s.printed
<1> DEFINE c == Cap(host[m], cmd.dev)
           inv == BuildInvite(m, cmd, c, expiry)
           s == Started(m, cmd, c, expiry)
<1>1. cmd.dev \in BOOLEAN /\ cmd.port \in Nat /\ cmd.name \in Seq(STRING)
      /\ cmd.seed \in BOOLEAN
  BY AnnounceAssumption DEF Command
<1>2. host[m] \in Host
  BY HostsAreHosts
<1>3. c.v6 = None \/ True6(c.v6, host[m], cmd.dev)
  BY <1>1, <1>2, PickedIPv6 DEF Cap
<1>4. c.v4 \in V4 \cup {None} /\ (c.claim => True4(c.v4, host[m]))
  BY <1>1, <1>2, ClaimedIPv4 DEF Cap
<1>5. c.v6 \in V6 \cup {None} /\ (c.v6 # None => True6(c.v6, host[m], Dev(m)))
  BY <1>1, <1>3 DEF True6, Dev
<1>6. ListenPort(cmd) \in Nat \ {0} /\ expiry \in Nat
  BY <1>1, AnnounceAssumption DEF ListenPort
<1> HIDE DEF c
<1>7. inv \in InviteType
  BY <1>1, <1>4, <1>5, <1>6 DEF BuildInvite, InviteType, Version
<1>8. /\ inv.v6 = c.v6
      /\ inv.v4 # None => c.claim /\ c.v4 # None /\ inv.v4 = c.v4
      /\ inv.port = ListenPort(cmd)
  BY DEF BuildInvite
<1> HIDE DEF inv
<1>9. s = [inv |-> inv, v6only |-> V6Only(c), port |-> ListenPort(cmd),
           born |-> host[m], printed |-> FALSE]
  BY DEF Started, inv
<1>10. V6Only(c) \in BOOLEAN /\ (c.claim /\ c.v4 # None => ~V6Only(c))
  BY DEF V6Only
<1>11. s \in HubType /\ ~s.printed
  BY <1>2, <1>6, <1>7, <1>9, <1>10 DEF HubType
<1>12. Truthful(m, s)
  <2>1. s.inv = inv /\ s.born = host[m] /\ s.port = ListenPort(cmd)
        /\ (s.v6only <=> V6Only(c))
    BY <1>9
  <2>2. s.inv.v4 # None => True4(s.inv.v4, s.born) /\ ~s.v6only
    BY <2>1, <1>4, <1>8, <1>10
  <2> HIDE DEF s
  <2> QED
    BY <2>1, <2>2, <1>5, <1>8 DEF Truthful
<1> QED
  BY <1>11, <1>12 DEF c

LEMMA Initially == Init => IInv
<1> SUFFICES ASSUME Init PROVE IInv
  OBVIOUS
<1>1. \A m \in Machine : Hosts[m][1] \in Range(Hosts[m])
  BY AnnounceAssumption DEF Range
<1> QED
  BY <1>1 DEF Init, IInv, HubsOK, Honest, Encoded

LEMMA Step == IInv /\ [Next]_vars => IInv'
<1> SUFFICES ASSUME IInv, [Next]_vars PROVE IInv'
  OBVIOUS
<1> USE DEF IInv, HubsOK, Honest, Encoded
<1>1. ASSUME UNCHANGED <<host, hub, shown>> PROVE IInv'
  BY <1>1
<1>2. ASSUME NEW m \in Machine, NEW cmd \in Commands[m], Run(m, cmd) PROVE IInv'
  <2>1. PICK expiry \in Expiries :
          hub' = [hub EXCEPT ![m] = Started(m, cmd, Cap(host[m], cmd.dev), expiry)]
    BY <1>2 DEF Run
  <2>2. UNCHANGED <<host, shown>>
    BY <1>2 DEF Run
  <2> QED
    BY <2>1, <2>2, StartedIsHonest
<1>3. ASSUME NEW m \in Machine, PrintInvite(m) PROVE IInv'
  <2>1. hub[m] \in HubType /\ hub[m].inv \in InviteType /\ hub[m] # None
    BY <1>3 DEF PrintInvite, HubType
  <2>2. CASE Refused(hub[m].inv)
    BY <1>3, <2>2 DEF PrintInvite
  <2>3. CASE ~Refused(hub[m].inv)
    <3> DEFINE s == [hub[m] EXCEPT !.printed = TRUE]
    <3>1. hub' = [hub EXCEPT ![m] = s] /\ host' = host
          /\ shown' = shown \cup {hub[m].inv}
      BY <1>3, <2>3 DEF PrintInvite
    <3>2. s \in HubType /\ s.inv = hub[m].inv
      BY <2>1 DEF HubType
    <3>3. Truthful(m, s)
      BY <2>1 DEF Truthful, HubType
    <3> HIDE DEF s
    <3>4. HubsOK'
      BY <3>1, <3>2
    <3>5. Honest'
      BY <3>1, <3>2, <3>3
    <3>6. Encoded'
      BY <3>1, <2>1, <2>3
    <3> QED
      BY <3>4, <3>5, <3>6
  <2> QED
    BY <2>2, <2>3
<1>4. ASSUME NEW m \in Machine, Stop(m) PROVE IInv'
  BY <1>4 DEF Stop
<1>5. ASSUME NEW m \in Machine, NEW h \in Range(Hosts[m]), Move(m, h) PROVE IInv'
  BY <1>5 DEF Move
<1>6. ASSUME NEW inv \in ByHand, EncodeByHand(inv) PROVE IInv'
  BY <1>6, AnnounceAssumption DEF EncodeByHand
<1>7. CASE UNCHANGED vars
  BY <1>7, <1>1 DEF vars, world
<1>8. ASSUME NEW m \in Machine, Connect(m) PROVE IInv'
  BY <1>8, <1>1 DEF Connect, world
<1>9. ASSUME NEW text, AddInvite(text) PROVE IInv'
  BY <1>9, <1>1 DEF AddInvite, world
<1>10. CASE Candidates
  BY <1>10, <1>1 DEF Candidates, world
<1>14. CASE ReadText
  BY <1>14, <1>1 DEF ReadText, world
<1>11. ASSUME NEW e \in cands, StartDial(e) PROVE IInv'
  BY <1>11, <1>1 DEF StartDial, world
<1>12. CASE DialFails
  BY <1>12, <1>1 DEF DialFails, world
<1>13. CASE NextCandidate
  BY <1>13, <1>1 DEF NextCandidate, world
<1> QED
  BY <1>2, <1>3, <1>4, <1>5, <1>6, <1>7, <1>8, <1>9, <1>10, <1>11, <1>12, <1>13,
     <1>14 DEF Next

LEMMA Invariant == Spec => []IInv
BY Initially, Step, PTL DEF Spec

-----------------------------------------------------------------------------
(* What follows                                                            *)

\* hub/capability.go: Probe, hub/server.go: buildInvite.  No hub announces an
\* IPv4 address that its machine does not have, that is not public, or while
\* the machine is behind carrier-grade NAT, whatever is forced.
THEOREM NoNatClaimedHolds == Spec => []NoNatClaimed
<1>1. IInv => NoNatClaimed
  BY DEF IInv, Honest, NoNatClaimed, Truthful, True4
<1> QED
  BY <1>1, Invariant, PTL

\* invite/codec.go: marshal, unmarshal.  Every blob that is shown reads back as
\* the same hub, expiry and short code.
THEOREM RoundTripHolds == Spec => []RoundTrip
<1>1. IInv => RoundTrip
  <2> SUFFICES ASSUME IInv, NEW inv \in shown, inv.v6 # Unspecified
               PROVE  LET back == Decode(Blob(inv), <<>>)
                      IN  /\ back # None
                          /\ SameHub(back, inv) /\ back.v6 = inv.v6
                          /\ back.expiry = inv.expiry
                          /\ ShortCode(back) = ShortCode(inv)
    BY DEF RoundTrip
  <2> DEFINE back == [Payload(inv) EXCEPT !.v6 = inv.v6]
  <2>1. inv \in InviteType /\ ~Refused(inv)
    BY DEF IInv, Encoded
  <2>2. Marshal(inv) = Payload(inv) /\ Unmarshal(Payload(inv)) = back
        /\ Marshal(back) = Payload(inv)
    BY <2>1, Codec
  <2>3. Decode(Blob(inv), <<>>) = back
    BY <2>2 DEF Decode, Blob
  <2>4. /\ back.key = inv.key /\ back.v6 = inv.v6 /\ back.v4 = inv.v4
        /\ back.seed = inv.seed /\ back.expiry = inv.expiry
        /\ back.name = CutName(inv.name)
        /\ back.port = Port(inv)
    BY <2>1 DEF Payload, Port, InviteType
  <2>5. Port(back) = Port(inv)
    BY <2>4, InviteAssumption DEF Port
  <2>6. CutName(back.name) = CutName(inv.name)
    BY <2>1, <2>4, CutOnce DEF InviteType
  <2>7. back # None
    <3>1. /\ CutName(inv.name) \in Seq(STRING)
          /\ Port(inv) \in Nat
      BY <2>1, CutOnce, InviteAssumption DEF InviteType, Port
    <3>2. back \in InviteType
      BY <2>1, <2>4, <3>1 DEF InviteType, Payload
    <3> QED
      BY <3>2, AnnounceAssumption
  <2>8. ShortCode(back) = ShortCode(inv)
    BY <2>2 DEF ShortCode
  <2> QED
    BY <2>3, <2>4, <2>5, <2>6, <2>7, <2>8 DEF SameHub
<1> QED
  BY <1>1, Invariant, PTL

\* invite/codec.go and invite/dart/lib/invite.dart.  The app reads what is shown
\* as the program does, and writes it as the program does.
THEOREM TwinsAgreeHolds == Spec => []TwinsAgree
<1>1. IInv => TwinsAgree
  <2> SUFFICES ASSUME IInv, NEW inv \in shown, inv.v6 # Unspecified,
                      Utf8(Marshal(inv).name)
               PROVE  /\ DartUnmarshal(Marshal(inv)) = Unmarshal(Marshal(inv))
                      /\ DartMarshal(DartUnmarshal(Marshal(inv))) = Marshal(inv)
    BY DEF TwinsAgree
  <2>1. inv \in InviteType /\ ~Refused(inv)
    BY DEF IInv, Encoded
  <2>2. Marshal(inv) = Payload(inv)
    BY <2>1, Codec
  <2>3. Payload(inv).name = CutName(inv.name)
    BY DEF Payload
  <2> QED
    BY <2>1, <2>2, <2>3, Codec
<1> QED
  BY <1>1, Invariant, PTL

\* A machine that is given commands with --dev has ::1.
LoopbackUp ==
  \A m \in Machine : Dev(m) => \A h \in Range(Hosts[m]) : Loopback \in Range(h.ips)

\* hub/server.go: Start, hub/spoke.go: dialHub.  While a machine keeps the
\* addresses it had when its hub started, that hub listens at whatever a spoke
\* that reads its invite dials, and there is something to dial unless it is a
\* seed.  Without LoopbackUp, --dev --force announces ::1 where there is none.
THEOREM AnnouncedIsHeardHolds ==
  ASSUME LoopbackUp
  PROVE  Spec => []AnnouncedIsHeard
<1>1. IInv => AnnouncedIsHeard
  <2> SUFFICES ASSUME IInv, NEW m \in Machine,
                      hub[m] # None, hub[m].printed, hub[m].born.ips = host[m].ips
               PROVE  LET todo == Attempts(Entry(Decode(Blob(hub[m].inv), <<>>)))
                      IN  /\ \A i \in DOMAIN todo : Answers(m, todo[i])
                          /\ todo = <<>> => hub[m].inv.seed
    BY DEF AnnouncedIsHeard
  <2> DEFINE inv == hub[m].inv
             e == Entry(Decode(Blob(inv), <<>>))
             ips == Range(host[m].ips)
  <2>1. Truthful(m, hub[m]) /\ inv \in InviteType /\ ~Refused(inv) /\ hub[m] \in HubType
    BY DEF IInv, HubsOK, Honest, Encoded
  <2>2. inv.v6 # None => True6(inv.v6, hub[m].born, Dev(m))
    BY <2>1 DEF Truthful
  <2>3. inv.v4 # None => True4(inv.v4, hub[m].born) /\ ~hub[m].v6only
    BY <2>1 DEF Truthful
  <2>4. inv.port = hub[m].port /\ hub[m].port \in Nat \ {0}
    BY <2>1 DEF Truthful, HubType
  <2>5. inv.v6 # None =>
          inv.v6 \in V6 /\ inv.v6 # Unspecified /\ inv.v6 \in ips
    BY <2>1, <2>2 DEF Truthful, True6, LoopbackUp
  <2>6. inv.v4 # None => inv.v4 \in ips /\ Kind[inv.v4] = "public4"
    BY <2>3 DEF True4
  <2>7. inv.v6 # Unspecified
    BY <2>5, AddressAssumption
  <2>8. e.v6 = inv.v6 /\ e.v4 = inv.v4 /\ e.port = hub[m].port
    <3>1. Decode(Blob(inv), <<>>) = [Payload(inv) EXCEPT !.v6 = inv.v6]
      BY <2>1, <2>7, Codec DEF Decode, Blob
    <3> QED
      BY <3>1, <2>1, <2>4 DEF Entry, Payload, InviteType
  <2> HIDE DEF e, ips
  <2>9. Port(e) = hub[m].port
    BY <2>8, <2>4 DEF Port
  <2>10. ASSUME NEW a, a.ip \in ips, a.port = hub[m].port,
                a.ip = inv.v6 \/ a.ip = inv.v4,
                a.ip # None
         PROVE  Answers(m, a)
    <3>1. CASE a.ip = inv.v6
      BY <3>1, <2>5, <2>10 DEF Answers, V6, V4, Kinds6, Kinds4, isPrivateIPv4, ips
    <3>2. CASE a.ip = inv.v4
      BY <3>2, <2>3, <2>6, <2>10 DEF Answers, isPrivateIPv4, ips
    <3> QED
      BY <2>10, <3>1, <3>2
  <2> DEFINE todo == Attempts(e)
  <2>11. \A i \in DOMAIN todo : Answers(m, todo[i])
    <3> SUFFICES ASSUME NEW i \in DOMAIN todo PROVE Answers(m, todo[i])
      OBVIOUS
    <3>1. /\ todo[i].port = hub[m].port
          /\ \/ todo[i].ip = e.v6 /\ e.v6 # None
             \/ todo[i].ip = e.v4 /\ e.v4 # None
      BY <2>9 DEF Attempts
    <3> HIDE DEF todo
    <3> QED
      BY <3>1, <2>5, <2>6, <2>8, <2>10
  <2>12. todo = <<>> => inv.seed
    <3>1. todo = <<>> => e.v6 = None
      BY DEF Attempts
    <3>2. inv.v6 = None => inv.seed
      BY <2>1, AddressAssumption DEF Refused, V6
    <3> QED
      BY <3>1, <3>2, <2>8
  <2> QED
    BY <2>11, <2>12 DEF e
<1> QED
  BY <1>1, Invariant, PTL
===============================================================================
