----------------------------- MODULE MCHubServer -----------------------------
(* Instances of HubServer: a spoke that reconnects, and a peer hub reached    *)
(* by two connections (both hubs dial).                                      *)
EXTENDS HubServer, TLC

CONSTANTS b1, b2, p1, p2, bob, peer, e1

MCConn == {b1, b2, p1, p2}
\* Temporal properties: the spoke connects once, without symmetry.
MCLiveConn == {b1, p1, p2}
MCKey  == {bob, peer}
MCKeyOf == [c \in Conn |->
              IF c \in {b1, b2} THEN bob ELSE peer]
MCRoleOf == [c \in Conn |-> IF c \in {p1, p2} THEN "hub" ELSE "spoke"]
MCTo == [e \in Env |-> bob]
Symmetry == Permutations({b1, b2}) \cup Permutations({p1, p2})
=============================================================================
