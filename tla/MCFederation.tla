----------------------------- MODULE MCFederation -----------------------------
(* Instances of Federation: two hubs, a line and a ring of three.            *)
EXTENDS Federation

CONSTANTS A, B, C, alice, bob, carol, e1, e2

TwoHubs == {<<B, A>>}
Line    == {<<B, A>>, <<C, B>>}
Ring    == {<<B, A>>, <<C, B>>, <<A, C>>}

\* The invites the spokes have: those of A and B; of one hub each, all
\* different; alice that of one hub and bob those of two, between which he moves.
Anywhere  == [p \in Spoke |-> {A, B}]
OnePerHub == [p \in Spoke |-> IF p = alice THEN {B}
                             ELSE IF p = bob THEN {A} ELSE {C}]
BobMoves  == [p \in Spoke |-> IF p = alice THEN {A} ELSE {A, B}]

With(dials, invites, leave, restart, cut, calm) ==
  [dials |-> dials, invites |-> invites, calm |-> calm,
   bound |-> [f \in Fault |-> IF f = "leave" THEN leave
                             ELSE IF f = "restart" THEN restart ELSE cut]]

\* Two hubs and all interleavings; two hubs that fail; a ring, of which spokes
\* move or links break.
MCSetups == {With(TwoHubs, Anywhere, 0, 0, 0, FALSE),
             With(TwoHubs, Anywhere, 1, 1, 0, TRUE),
             With(Ring, BobMoves, 1, 0, 0, TRUE),
             With(Ring, BobMoves, 0, 0, 1, TRUE)}
LineSetups == {With(Line, OnePerHub, 0, 0, 0, TRUE)}

MCFrom == [e \in Env |-> IF e = e1 THEN alice ELSE bob]
MCTo   == [e \in Env |-> IF e = e1 THEN bob ELSE alice]
===============================================================================
