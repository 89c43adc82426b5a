-------------------------------- MODULE Outbox --------------------------------
(***************************************************************************)
(* What a spoke promises its user about a message passed to Send: it is    *)
(* pending until it is handed to a hub or lost, and neither is ever taken  *)
(* back.  A message that was handed to a hub is never sent again, and one  *)
(* that was lost never turns up late.                                      *)
(***************************************************************************)
CONSTANT Msg

VARIABLE status

Init == status = [m \in Msg |-> "new"]

Submit(m) == /\ status[m] = "new"
             /\ status' = [status EXCEPT ![m] = "pending"]

Hand(m) == /\ status[m] = "pending"
           /\ status' = [status EXCEPT ![m] = "handed"]

\* Overflow loses one message, a crash of the process may lose several.
Lose(S) == /\ \A m \in S : status[m] = "pending"
           /\ status' = [m \in Msg |-> IF m \in S THEN "lost" ELSE status[m]]

Next == \/ \E m \in Msg : Submit(m) \/ Hand(m)
        \/ \E S \in (SUBSET Msg) \ {{}} : Lose(S)

Spec == Init /\ [][Next]_status
===============================================================================
