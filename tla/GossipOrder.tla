------------------------------ MODULE GossipOrder ------------------------------
(***************************************************************************)
(* How one hub's presence gossip survives its own concurrency.  Every      *)
(* handler that changes the session tables calls gossipLocal(), which      *)
(* draws a sequence number before it takes s.mu, reads the tables under    *)
(* s.mu, and writes to the peers after the unlock.  Calls overlap, so      *)
(* numbers, snapshots and frames can each come in a different order.       *)
(*                                                                         *)
(* The table is abstracted to the set of calls whose change it contains.   *)
(* The receiver is any hub that hears the gossip, directly or passed on by *)
(* others; copies may overtake each other and may arrive repeatedly.       *)
(*                                                                         *)
(* The hub may be restarted.  It counts from 1 again, while frames of its  *)
(* former life are still under way and the receiver keeps the old number.  *)
(***************************************************************************)
EXTENDS Naturals

CONSTANTS Call,       \* calls of gossipLocal(), each with the change before it
          MaxRestart  \* bound: restarts of the hub

ASSUME RestartAssumption == MaxRestart \in Nat

VARIABLES pc,      \* progress of each call
          table,   \* the calls whose change s.spokes / s.hubs contain
          seq,     \* s.seq
          num,     \* g.Seq of each call
          snap,    \* g.Entries of each call
          net,     \* <<number, entries>> on their way
          gseen,   \* the receiver's s.gseen for this hub
          view,    \* the entries the receiver applied last
          restarts,
          old      \* history: the highest number drawn before the last restart

life == <<restarts, old>>
vars == <<pc, table, seq, num, snap, net, gseen, view, life>>

Init ==
  /\ pc = [c \in Call |-> "idle"]
  /\ table = {}
  /\ seq = 0
  /\ num = [c \in Call |-> 0]
  /\ snap = [c \in Call |-> {}]
  /\ net = {}
  /\ gseen = 0
  /\ view = {}
  /\ restarts = 0
  /\ old = 0

Goto(c, from, to) == pc[c] = from /\ pc' = [pc EXCEPT ![c] = to]

\* A session is registered, re-announced or dropped under s.mu.
Change(c) ==
  /\ Goto(c, "idle", "changed")
  /\ table' = table \cup {c}
  /\ UNCHANGED <<seq, num, snap, net, gseen, view, life>>

\* s.seq.Add(1), an atomic counter outside the lock.
Draw(c) ==
  /\ Goto(c, "changed", "drawn")
  /\ seq' = seq + 1
  /\ num' = [num EXCEPT ![c] = seq + 1]
  /\ UNCHANGED <<table, snap, net, gseen, view, life>>

\* The tables are read under s.mu.
Snapshot(c) ==
  /\ Goto(c, "drawn", "read")
  /\ snap' = [snap EXCEPT ![c] = table]
  /\ UNCHANGED <<table, seq, num, net, gseen, view, life>>

\* Faulty variant: the number is drawn when the frame is built.
SendDraws(c) ==
  /\ Goto(c, "read", "sent")
  /\ seq' = seq + 1
  /\ num' = [num EXCEPT ![c] = seq + 1]
  /\ net' = net \cup {<<seq + 1, snap[c]>>}
  /\ UNCHANGED <<table, snap, gseen, view, life>>

\* The frames are written, without the lock.
Send(c) ==
  /\ Goto(c, "read", "sent")
  /\ net' = net \cup {<<num[c], snap[c]>>}
  /\ UNCHANGED <<table, seq, num, snap, gseen, view, life>>

\* Faulty variant: the number expected next is remembered.
ReceiveExpects(m) ==
  /\ m \in net
  /\ net' \in {net, net \ {m}}
  /\ IF m[1] < gseen
     THEN UNCHANGED <<gseen, view>>
     ELSE gseen' = m[1] + 1 /\ view' = m[2]
  /\ UNCHANGED <<pc, table, seq, num, snap, life>>

\* Faulty variant: every gossip is applied.
ReceiveAlways(m) ==
  /\ m \in net
  /\ net' \in {net, net \ {m}}
  /\ gseen' = m[1]
  /\ view' = m[2]
  /\ UNCHANGED <<pc, table, seq, num, snap, life>>

\* The receiver ignores what is not newer than the newest number it has seen.
Receive(m) ==
  /\ m \in net
  /\ net' \in {net, net \ {m}}
  /\ IF m[1] <= gseen
     THEN UNCHANGED <<gseen, view>>
     ELSE gseen' = m[1] /\ view' = m[2]
  /\ UNCHANGED <<pc, table, seq, num, snap, life>>

\* The highest number drawn so far.
Highest == IF seq > old THEN seq ELSE old

\* The hub dies, with its calls and sessions, and starts with empty tables.
Restart ==
  /\ restarts < MaxRestart
  /\ restarts' = restarts + 1
  /\ old' = Highest
  /\ pc' = [c \in Call |-> IF pc[c] = "idle" THEN "idle" ELSE "gone"]
  /\ table' = {}
  /\ seq' = 0
  /\ UNCHANGED <<num, snap, net, gseen, view>>

Next == \/ \E c \in Call : Change(c) \/ Draw(c) \/ Snapshot(c) \/ Send(c)
        \/ \E m \in net : Receive(m)
        \/ Restart

Spec == Init /\ [][Next]_vars

\* A call that has begun goes on, and a frame on a live link is read for the
\* last time at some point.
Fairness == /\ \A c \in Call : WF_vars(Draw(c) \/ Snapshot(c) \/ Send(c))
            /\ WF_vars(\E m \in net : Receive(m) /\ m \notin net')

FairSpec == Spec /\ Fairness

-----------------------------------------------------------------------------

TypeOK ==
  /\ pc \in [Call -> {"idle", "changed", "drawn", "read", "sent", "gone"}]
  /\ table \subseteq Call
  /\ seq \in Nat
  /\ old \in Nat
  /\ num \in [Call -> 0..Highest]
  /\ snap \in [Call -> SUBSET Call]
  /\ net \subseteq (1..Highest) \X SUBSET Call
  /\ gseen \in 0..Highest
  /\ view \subseteq Call
  /\ restarts \in 0..MaxRestart

AtRest == net = {} /\ \A c \in Call : pc[c] \in {"idle", "sent", "gone"}

\* Whatever overtook whatever, once every call has returned and every frame was
\* read the receiver holds the current table: the call with the last number
\* took its snapshot after every other call had made its change.  After a
\* restart this waits until the hub has counted past its old numbers.
CurrentAtRest == AtRest /\ seq > old => view = table

\* A change that no restart undoes is known to the receiver in the end, and
\* stays known, once the hub has counted past its old numbers: what a late
\* snapshot had brought an older one may take back, but not for good.
ChangesStick ==
  \A c \in Call : <>[](c \in table /\ seq > old) => <>[](c \in view)
===============================================================================
