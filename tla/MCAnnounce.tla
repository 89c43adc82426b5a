------------------------------ MODULE MCAnnounce ------------------------------
(* Instance of Announce: a station whose network changes, and a rented      *)
(* server that is to be a cloud seed.                                       *)
EXTENDS Announce

CONSTANTS osp, vps, g1, g2, u1, nat, pub, lan, any6, lo6

MCKind == (g1 :> "global6") @@ (g2 :> "global6") @@ (u1 :> "ula6") @@
          (nat :> "cgnat4") @@ (pub :> "public4") @@ (lan :> "private4") @@
          (any6 :> "zero6") @@ (lo6 :> "loop6")

At(ips, stack6, port) == [ips |-> ips, stack6 |-> stack6, port |-> port]

\* Stock Starlink; a Priority address; both at once; a lab; a host without
\* IPv6, one behind NAT, and one whose port is taken.
MCHosts == [m \in Machine |->
  IF m = osp
  THEN <<At(<<lo6, nat, g1>>, TRUE, "free"), At(<<lo6, g2, pub>>, TRUE, "free"),
         At(<<lo6, pub, nat, g1>>, TRUE, "free"), At(<<lo6, lan, u1>>, TRUE, "free"),
         At(<<lo6, nat, g1>>, TRUE, "tcp_busy")>>
  ELSE <<At(<<pub>>, FALSE, "free"), At(<<lo6, lan>>, TRUE, "free")>>]

Cmd(name, port, dev, seed, force) ==
  [name |-> name, port |-> port, dev |-> dev, seed |-> seed, force |-> force]

\* The second name is cut in the middle of a character.
MCCommands == [m \in Machine |->
  IF m = osp
  THEN {Cmd(<<"o", "s">>, 1, FALSE, FALSE, FALSE),
        Cmd(<<"o", "lead", "tail">>, 0, FALSE, FALSE, TRUE),
        Cmd(<<"o">>, 1, TRUE, FALSE, FALSE)}
  ELSE {Cmd(<<"v">>, 1, FALSE, TRUE, FALSE)}]

\* The station, and two slips.
MCByHand ==
  {[version |-> Version, key |-> osp, v6 |-> ip, v4 |-> None, port |-> 1,
    expiry |-> 0, name |-> <<"o", "s">>, seed |-> FALSE] : ip \in {g1, any6, None}}

\* The station's entry in the community list leaves the port out.
MCCommunity == <<[key |-> osp, v6 |-> g1, v4 |-> None, port |-> 0,
                  name |-> <<"o", "s", "p">>, seed |-> FALSE]>>
==============================================================================
