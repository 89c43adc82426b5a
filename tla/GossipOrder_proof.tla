--------------------------- MODULE GossipOrder_proof ---------------------------
(***************************************************************************)
(* A receiver of gossip ends up with the current table, for any number of  *)
(* overlapping calls.  The heart of the matter is InOrder: a number is     *)
(* drawn after the change and before the snapshot, hence a snapshot has    *)
(* the changes of all calls with smaller numbers.  Calls that a restart has *)
(* killed, and frames they left, do not count any more once the numbers    *)
(* have passed old.                                                        *)
(***************************************************************************)
EXTENDS GossipOrder, TLAPS

Drawn(c)   == pc[c] \in {"drawn", "read", "sent"}
Snapped(c) == pc[c] \in {"read", "sent"}

\* The table has the changes that were made, a snapshot no other ones.
Changed == /\ \A c \in Call : c \in table <=> pc[c] \notin {"idle", "gone"}
           /\ \A c \in Call : Snapped(c) => snap[c] \subseteq table

\* The newest number belongs to a call.
NewestDrawn == seq = 0 \/ \E c \in Call : Drawn(c) /\ num[c] = seq

InOrder == \A c, d \in Call :
             Snapped(c) /\ Drawn(d) /\ num[d] <= num[c] => d \in snap[c]

\* What the receiver holds and what is under way came from calls if its number
\* is higher than all before the restart, and nothing that is newer than the
\* receiver's view was lost.
Received ==
  /\ gseen > old =>
       \E c \in Call : pc[c] = "sent" /\ gseen = num[c] /\ view = snap[c]
  /\ \A m \in net : m[1] > old =>
       \E c \in Call : pc[c] = "sent" /\ m = <<num[c], snap[c]>>
  /\ \A c \in Call :
       pc[c] = "sent" => num[c] <= gseen \/ <<num[c], snap[c]>> \in net

\* A call has a positive number once it has drawn one.
Numbered == \A c \in Call : Drawn(c) => num[c] \in 1..seq

IInv == TypeOK /\ Changed /\ NewestDrawn /\ InOrder /\ Numbered /\ Received

-----------------------------------------------------------------------------

LEMMA TypeStep == ASSUME TypeOK, Numbered, [Next]_vars
                  PROVE  TypeOK' /\ Numbered'
<1> USE RestartAssumption DEF TypeOK, Numbered, Drawn, Highest, life
<1>1. CASE UNCHANGED vars
  BY <1>1 DEF vars
<1>2. ASSUME NEW c \in Call, Change(c)
      PROVE  TypeOK' /\ Numbered'
  BY <1>2 DEF Change, Goto
<1>3. ASSUME NEW c \in Call, Draw(c)
      PROVE  TypeOK' /\ Numbered'
  BY <1>3 DEF Draw, Goto
<1>4. ASSUME NEW c \in Call, Snapshot(c)
      PROVE  TypeOK' /\ Numbered'
  BY <1>4 DEF Snapshot, Goto
<1>5. ASSUME NEW c \in Call, Send(c)
      PROVE  TypeOK' /\ Numbered'
  BY <1>5 DEF Send, Goto
<1>6. ASSUME NEW m \in net, Receive(m)
      PROVE  TypeOK' /\ Numbered'
  BY <1>6 DEF Receive
<1>7. CASE Restart
  BY <1>7 DEF Restart
<1> QED
  BY <1>1, <1>2, <1>3, <1>4, <1>5, <1>6, <1>7 DEF Next

\* The calls' own bookkeeping; a receiver has no part in it.
LEMMA OrderStep == ASSUME IInv, [Next]_vars
                   PROVE  Changed' /\ NewestDrawn' /\ InOrder'
<1> USE DEF IInv, TypeOK, Changed, NewestDrawn, InOrder, Numbered, Drawn, Snapped,
            life
<1>1. CASE UNCHANGED vars
  BY <1>1 DEF vars
<1>2. ASSUME NEW c \in Call, Change(c)
      PROVE  Changed' /\ NewestDrawn' /\ InOrder'
  BY <1>2 DEF Change, Goto
<1>3. ASSUME NEW c \in Call, Draw(c)
      PROVE  Changed' /\ NewestDrawn' /\ InOrder'
  BY <1>3 DEF Draw, Goto
<1>4. ASSUME NEW c \in Call, Snapshot(c)
      PROVE  Changed' /\ NewestDrawn' /\ InOrder'
  BY <1>4 DEF Snapshot, Goto
<1>5. ASSUME NEW c \in Call, Send(c)
      PROVE  Changed' /\ NewestDrawn' /\ InOrder'
  BY <1>5 DEF Send, Goto
<1>6. ASSUME NEW m \in net, Receive(m)
      PROVE  Changed' /\ NewestDrawn' /\ InOrder'
  BY <1>6 DEF Receive
<1>7. CASE Restart
  BY <1>7 DEF Restart
<1> QED
  BY <1>1, <1>2, <1>3, <1>4, <1>5, <1>6, <1>7 DEF Next

LEMMA ReceivedStep == ASSUME IInv, [Next]_vars
                      PROVE  Received'
<1> USE DEF IInv, TypeOK, Received, life
<1>1. CASE UNCHANGED vars
  BY <1>1 DEF vars
<1>2. ASSUME NEW c \in Call, Change(c)
      PROVE  Received'
  BY <1>2 DEF Change, Goto
<1>3. ASSUME NEW c \in Call, Draw(c)
      PROVE  Received'
  BY <1>3 DEF Draw, Goto
<1>4. ASSUME NEW c \in Call, Snapshot(c)
      PROVE  Received'
  BY <1>4 DEF Snapshot, Goto
<1>5. ASSUME NEW c \in Call, Send(c)
      PROVE  Received'
  BY <1>5 DEF Send, Goto
<1>6. ASSUME NEW m \in net, Receive(m)
      PROVE  Received'
  <2>1. m \in Nat \X SUBSET Call
    BY DEF Highest
  <2>2. CASE m[1] <= gseen
    BY <1>6, <2>1, <2>2 DEF Receive
  <2>3. CASE gseen < m[1]
    BY <1>6, <2>1, <2>3 DEF Receive
  <2> QED
    BY <2>1, <2>2, <2>3
<1>7. CASE Restart
  BY <1>7 DEF Restart, Highest
<1> QED
  BY <1>1, <1>2, <1>3, <1>4, <1>5, <1>6, <1>7 DEF Next

\* At rest the newest number was received, and its snapshot has every change.
LEMMA RestIsCurrent == ASSUME IInv
                       PROVE  CurrentAtRest
<1> SUFFICES ASSUME AtRest, seq > old
             PROVE  view = table
  BY DEF CurrentAtRest
<1> USE DEF IInv, TypeOK, AtRest, Drawn, Snapped
<1>1. PICK c \in Call : pc[c] = "sent" /\ num[c] = seq
  BY DEF NewestDrawn
<1>2. gseen = seq
  BY <1>1 DEF Received, Highest
<1>3. PICK d \in Call : pc[d] = "sent" /\ num[d] = seq /\ view = snap[d]
  BY <1>2 DEF Received
<1>4. \A e \in table : e \in snap[d]
  BY <1>3 DEF Changed, Numbered, InOrder
<1> QED
  BY <1>3, <1>4 DEF Changed

LEMMA Inductive == Spec => []IInv
<1>1. Init => IInv
  BY RestartAssumption DEF Init, IInv, TypeOK, Changed, NewestDrawn, InOrder,
         Numbered, Received, Drawn, Snapped, Highest
<1>2. IInv /\ [Next]_vars => IInv'
  BY TypeStep, OrderStep, ReceivedStep DEF IInv
<1> QED
  BY <1>1, <1>2, PTL DEF Spec

\* gossipLocal()'s numbers bound what a receiver has seen (server.go:352, 294).
THEOREM TypeCorrect == Spec => []TypeOK
<1>1. IInv => TypeOK
  BY DEF IInv
<1> QED
  BY <1>1, Inductive, PTL

\* Whichever way any number of gossipLocal() calls and their frames overtake
\* each other (server.go:351-389), a receiver that applies only newer numbers
\* (server.go:294-297) holds the sender's current table once all is read and
\* the sender has counted past the numbers it had before a restart.
THEOREM CurrentAtRestHolds == Spec => []CurrentAtRest
BY RestIsCurrent, Inductive, PTL
================================================================================
