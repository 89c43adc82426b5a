----------------------------- MODULE SpokeSession -----------------------------
(***************************************************************************)
(* One spoke process (hub/spoke.go, hub/queue.go): the Run goroutine that  *)
(* connects, flushes the queue and reads; concurrent calls of Send, one    *)
(* per message; Stop; the queue and its file; and a crash of the process   *)
(* with a restart from that file.                                          *)
(*                                                                         *)
(* Session objects are reused by the model once nobody refers to them.     *)
(* Which candidates connectOnce tries, and in which order, is left open.   *)
(***************************************************************************)
EXTENDS Integers, SequencesExt

CONSTANTS Msg,       \* messages, each passed to Send at most once
          Session,   \* session objects, more than there are messages
          MaxQueue,  \* Queue.max
          MaxCand,   \* bound: candidates of one connectOnce
          MaxCrash,  \* bound: crashes of the process
          None       \* a nil session

ASSUME SpokeAssumption ==
  /\ MaxQueue \in Nat \ {0}
  /\ MaxCand \in Nat
  /\ MaxCrash \in Nat
  /\ None \notin Session

VARIABLES rpc,      \* program counter of Run / connectOnce / readLoop
          left,     \* candidates connectOnce has not tried yet
          cur,      \* connectOnce's local session
          flush,    \* envelopes PopAll returned and connectOnce has to send
          sess,     \* sp.sess
          link,     \* state of each session's connection
          queue,    \* q.Items
          disk,     \* the items in queue.json
          spc,      \* program counter of each Send
          held,     \* the session a Send has read
          stop,     \* progress of Spoke.Stop
          crashes,
          handed,   \* history: how often a message reached a live hub
          pushed,   \* history: messages in the order of their first Push
          flushed   \* history: messages in the order a flush handed them over

runVars   == <<rpc, left, cur, flush, sess>>
queueVars == <<queue, disk, pushed>>
sendVars  == <<spc, held>>
vars == <<runVars, link, queueVars, sendVars, stop, crashes, handed, flushed>>

Init ==
  /\ rpc = "top" /\ left = 0 /\ cur = None /\ flush = <<>> /\ sess = None
  /\ link = [s \in Session |-> "closed"]
  /\ queue = <<>> /\ disk = <<>> /\ pushed = <<>>
  /\ spc = [m \in Msg |-> "new"]
  /\ held = [m \in Msg |-> None]
  /\ stop = "run"
  /\ crashes = 0
  /\ handed = [m \in Msg |-> 0]
  /\ flushed = <<>>

CtxDone == stop # "run"

\* A frame written to a session: it reaches the hub only over a live link; a
\* link that has died unnoticed may still accept it.
Delivers(s) == link[s] = "up"
MayAccept(s) == link[s] = "dead"

\* handed is counted up to 2, which is one too many.
HandOver(m) == handed' = [handed EXCEPT ![m] = IF @ < 2 THEN @ + 1 ELSE 2]

\* The newest MaxQueue items are kept.
Newest(q) == SubSeq(q, Len(q) - MaxQueue + 1, Len(q))

Enqueue(q, m) == LET r == Append(q, m)
                 IN  IF Len(r) > MaxQueue THEN Newest(r) ELSE r

-----------------------------------------------------------------------------
(* Run and connectOnce                                                     *)

\* Faulty variant: Run gives up after the first failed connectOnce.
WaitOnce ==
  /\ rpc = "wait"
  /\ rpc' = "end"
  /\ UNCHANGED <<left, cur, flush, sess, link, queueVars, sendVars, stop,
                 crashes, handed, flushed>>

\* The backoff ends, or the context does.
Wait ==
  /\ rpc = "wait"
  /\ rpc' \in IF CtxDone THEN {"top", "end"} ELSE {"top"}
  /\ UNCHANGED <<left, cur, flush, sess, link, queueVars, sendVars, stop,
                 crashes, handed, flushed>>

\* Top of Run's loop: connectOnce asks for the candidates.
Top ==
  /\ rpc = "top"
  /\ IF CtxDone THEN rpc' = "end" /\ UNCHANGED left
                ELSE rpc' = "try" /\ left' \in 0..MaxCand
  /\ UNCHANGED <<cur, flush, sess, link, queueVars, sendVars, stop, crashes,
                 handed, flushed>>

\* A candidate cannot be dialled.
DialFail ==
  /\ rpc = "try"
  /\ left > 0
  /\ left' = left - 1
  /\ UNCHANGED <<rpc, cur, flush, sess, link, queueVars, sendVars, stop,
                 crashes, handed, flushed>>

\* No candidate is left, or there was none: back to Run with an error.
GiveUp ==
  /\ rpc = "try"
  /\ left = 0
  /\ rpc' = "wait"
  /\ UNCHANGED <<left, cur, flush, sess, link, queueVars, sendVars, stop,
                 crashes, handed, flushed>>

\* A candidate is dialled, on the context that Stop cancels.
Dial(s) ==
  /\ rpc = "try"
  /\ left > 0
  /\ ~CtxDone
  /\ link[s] = "closed"
  /\ \A m \in Msg : held[m] # s
  /\ link' = [link EXCEPT ![s] = "up"]
  /\ cur' = s
  /\ rpc' = "hello"
  /\ UNCHANGED <<left, flush, sess, queueVars, sendVars, stop, crashes, handed,
                 flushed>>

HandshakeFail ==
  /\ rpc = "hello"
  /\ link' = [link EXCEPT ![cur] = "closed"]
  /\ cur' = None
  /\ left' = left - 1
  /\ rpc' = "try"
  /\ UNCHANGED <<flush, sess, queueVars, sendVars, stop, crashes, handed,
                 flushed>>

\* The hub answered: sp.sess is set.  The Presence frame that follows changes
\* nothing here.
Install ==
  /\ rpc = "hello"
  /\ link[cur] = "up"
  /\ sess' = cur
  /\ rpc' = "pop"
  /\ UNCHANGED <<left, cur, flush, link, queueVars, sendVars, stop, crashes,
                 handed, flushed>>

\* Faulty variant: the emptied queue is not saved.
PopAllUnsaved ==
  /\ rpc = "pop"
  /\ flush' = queue
  /\ queue' = <<>>
  /\ rpc' = "flush"
  /\ UNCHANGED <<left, cur, sess, link, disk, pushed, sendVars, stop, crashes,
                 handed, flushed>>

\* PopAll empties the queue and its file before anything is sent.
PopAll ==
  /\ rpc = "pop"
  /\ flush' = queue
  /\ queue' = <<>>
  /\ disk' = <<>>
  /\ rpc' = "flush"
  /\ UNCHANGED <<left, cur, sess, link, pushed, sendVars, stop, crashes,
                 handed, flushed>>

\* Faulty variant: an envelope that could not be sent goes back to the queue.
FlushRequeue ==
  /\ rpc = "flush"
  /\ flush # <<>>
  /\ flush' = Tail(flush)
  /\ IF Delivers(cur)
     THEN /\ HandOver(Head(flush))
          /\ flushed' = Append(flushed, Head(flush))
          /\ UNCHANGED <<queue, disk>>
     ELSE /\ queue' = Enqueue(queue, Head(flush))
          /\ disk' = queue'
          /\ UNCHANGED <<handed, flushed>>
  /\ UNCHANGED <<rpc, left, cur, sess, link, pushed, sendVars, stop, crashes>>

\* One sess.send of the flush; its error is ignored.
FlushOne ==
  /\ rpc = "flush"
  /\ flush # <<>>
  /\ flush' = Tail(flush)
  /\ IF Delivers(cur)
     THEN HandOver(Head(flush)) /\ flushed' = Append(flushed, Head(flush))
     ELSE UNCHANGED <<handed, flushed>>
  /\ UNCHANGED <<rpc, left, cur, sess, link, queueVars, sendVars, stop,
                 crashes>>

FlushDone ==
  /\ rpc = "flush"
  /\ flush = <<>>
  /\ rpc' = "check"
  /\ UNCHANGED <<left, cur, flush, sess, link, queueVars, sendVars, stop,
                 crashes, handed, flushed>>

\* Top of the read loop.
Check ==
  /\ rpc = "check"
  /\ rpc' = IF CtxDone THEN "clear" ELSE "read"
  /\ UNCHANGED <<left, cur, flush, sess, link, queueVars, sendVars, stop,
                 crashes, handed, flushed>>

\* A frame arrives and is handled, or ReadMsg fails.
ReadMsg ==
  /\ rpc = "read"
  /\ rpc' \in IF link[cur] = "up" THEN {"check", "clear"} ELSE {"clear"}
  /\ UNCHANGED <<left, cur, flush, sess, link, queueVars, sendVars, stop,
                 crashes, handed, flushed>>

\* connectOnce clears sp.sess ...
ClearSess ==
  /\ rpc = "clear"
  /\ sess' = None
  /\ rpc' = "close"
  /\ UNCHANGED <<left, cur, flush, link, queueVars, sendVars, stop, crashes,
                 handed, flushed>>

\* ... and closes the connection; it never goes on to the next candidate.
CloseConn ==
  /\ rpc = "close"
  /\ link' = [link EXCEPT ![cur] = "closed"]
  /\ cur' = None
  /\ left' = 0
  /\ rpc' = "wait"
  /\ UNCHANGED <<flush, sess, queueVars, sendVars, stop, crashes, handed,
                 flushed>>

-----------------------------------------------------------------------------
(* Send, which any goroutine may call at any time                          *)

\* sp.sess is read under sp.mu and used after the unlock.
SendRead(m) ==
  /\ spc[m] = "new"
  /\ held' = [held EXCEPT ![m] = sess]
  /\ spc' = [spc EXCEPT ![m] = IF sess = None THEN "push" ELSE "write"]
  /\ UNCHANGED <<runVars, link, queueVars, stop, crashes, handed, flushed>>

\* Faulty variant: the envelope is queued whether it was written or not.
SendWriteAndQueue(m) ==
  /\ spc[m] = "write"
  /\ IF Delivers(held[m]) THEN HandOver(m) ELSE UNCHANGED handed
  /\ spc' = [spc EXCEPT ![m] = "push"]
  /\ UNCHANGED <<runVars, link, queueVars, held, stop, crashes, flushed>>

\* sess.send succeeds on a live link, may succeed on a dead one, and fails on
\* a closed one.
SendWrite(m) ==
  /\ spc[m] = "write"
  /\ \/ /\ Delivers(held[m]) \/ MayAccept(held[m])
        /\ IF Delivers(held[m]) THEN HandOver(m) ELSE UNCHANGED handed
        /\ spc' = [spc EXCEPT ![m] = "done"]
        /\ held' = [held EXCEPT ![m] = None]
     \/ /\ ~Delivers(held[m])
        /\ spc' = [spc EXCEPT ![m] = "push"]
        /\ UNCHANGED <<held, handed>>
  /\ UNCHANGED <<runVars, link, queueVars, stop, crashes, flushed>>

\* Faulty variant: the queue overflows.
PushUnbounded(m) ==
  /\ spc[m] = "push"
  /\ queue' = Append(queue, m)
  /\ disk' = queue'
  /\ pushed' = Append(pushed, m)
  /\ spc' = [spc EXCEPT ![m] = IF held[m] = None THEN "done" ELSE "close"]
  /\ UNCHANGED <<runVars, link, held, stop, crashes, handed, flushed>>

\* Queue.Push, which saves the file before it returns.
Push(m) ==
  /\ spc[m] = "push"
  /\ queue' = Enqueue(queue, m)
  /\ disk' = queue'
  /\ pushed' = Append(pushed, m)
  /\ spc' = [spc EXCEPT ![m] = IF held[m] = None THEN "done" ELSE "close"]
  /\ UNCHANGED <<runVars, link, held, stop, crashes, handed, flushed>>

\* After a failed write Send closes the session it used.
SendClose(m) ==
  /\ spc[m] = "close"
  /\ link' = [link EXCEPT ![held[m]] = "closed"]
  /\ held' = [held EXCEPT ![m] = None]
  /\ spc' = [spc EXCEPT ![m] = "done"]
  /\ UNCHANGED <<runVars, queueVars, stop, crashes, handed, flushed>>

-----------------------------------------------------------------------------
(* Stop, and the environment                                               *)

StopCancel ==
  /\ stop = "run"
  /\ stop' = "cancelled"
  /\ UNCHANGED <<runVars, link, queueVars, sendVars, crashes, handed, flushed>>

\* Faulty variant: Stop relies on the context alone.
StopNoClose ==
  /\ stop = "cancelled"
  /\ stop' = "stopped"
  /\ UNCHANGED <<runVars, link, queueVars, sendVars, crashes, handed, flushed>>

StopClose ==
  /\ stop = "cancelled"
  /\ stop' = "stopped"
  /\ link' = IF sess = None THEN link ELSE [link EXCEPT ![sess] = "closed"]
  /\ UNCHANGED <<runVars, queueVars, sendVars, crashes, handed, flushed>>

\* The hub or the path goes away; the spoke has not noticed.
Break(s) ==
  /\ link[s] = "up"
  /\ link' = [link EXCEPT ![s] = "dead"]
  /\ UNCHANGED <<runVars, queueVars, sendVars, stop, crashes, handed, flushed>>

\* A goroutine is inside Queue.Push or PopAll, whose os.WriteFile truncates
\* the file before it writes.
Saving == rpc = "pop" \/ \E m \in Msg : spc[m] = "push"

\* The process dies and is started again; OpenQueue ignores a torn file.
Crash ==
  /\ crashes < MaxCrash
  /\ crashes' = crashes + 1
  /\ queue' \in {disk} \cup (IF Saving THEN {<<>>} ELSE {})
  /\ disk' = queue'
  /\ rpc' = "top" /\ left' = 0 /\ cur' = None /\ flush' = <<>> /\ sess' = None
  /\ link' = [s \in Session |-> "closed"]
  /\ spc' = [m \in Msg |-> IF spc[m] = "new" THEN "new" ELSE "done"]
  /\ held' = [m \in Msg |-> None]
  /\ stop' = "run"
  /\ UNCHANGED <<pushed, handed, flushed>>

-----------------------------------------------------------------------------

Run == \/ Top \/ Wait \/ DialFail \/ GiveUp \/ (\E s \in Session : Dial(s))
       \/ HandshakeFail \/ Install \/ PopAll \/ FlushOne \/ FlushDone
       \/ Check \/ ReadMsg \/ ClearSess \/ CloseConn

Send(m) == SendRead(m) \/ SendWrite(m) \/ Push(m) \/ SendClose(m)

Next == \/ Run
        \/ \E m \in Msg : Send(m)
        \/ StopCancel \/ StopClose
        \/ \E s \in Session : Break(s)
        \/ Crash

Spec == Init /\ [][Next]_vars

\* What the spoke does without the hub.  Run is scheduled, and the backoff and
\* DialTimeout end.  Reads and writes return on a closed connection, and on a dead
\* one sooner or later (IdleTimeout of QUIC, timeouts of TCP); on a live one they
\* take as long as the hub likes.  A Send that has begun goes on; nobody has to
\* call Send or Stop.
Fairness ==
  /\ WF_vars(/\ rpc \notin {"hello", "flush", "read"}
             /\ Run)
  /\ WF_vars(FlushDone)
  /\ WF_vars(/\ HandshakeFail \/ FlushOne \/ ReadMsg
             /\ link[cur] # "up")
  /\ \A m \in Msg : WF_vars(\/ SendWrite(m) /\ link[held[m]] # "up"
                            \/ Push(m) \/ SendClose(m))
  /\ WF_vars(StopClose)

\* An assumption about hubs, which the code does not enforce: a hub whose
\* connection stays up answers a hello, or closes the connection, and takes the
\* frames of a flush.  setReadDeadline sees to the former over TCP, but has no
\* effect over QUIC, where a silent hub may keep the connection open; writes have
\* no deadline at all.
HubReacts == /\ WF_vars(HandshakeFail \/ Install)
             /\ WF_vars(FlushOne)

\* The assumption under which queueing makes sense: a spoke that keeps trying
\* has a candidate, and an answer from it, again and again.
HubAnswers == /\ SF_vars(Top /\ left' > 0)
              /\ SF_vars(\E s \in Session : Dial(s))
              /\ SF_vars(Install)

FairSpec == Spec /\ Fairness

-----------------------------------------------------------------------------
(* Properties                                                              *)

TypeOK ==
  /\ rpc \in {"top", "try", "hello", "pop", "flush", "check", "read", "clear",
              "close", "wait", "end"}
  /\ left \in 0..MaxCand
  /\ cur \in Session \cup {None}
  /\ sess \in Session \cup {None}
  /\ link \in [Session -> {"closed", "up", "dead"}]
  /\ spc \in [Msg -> {"new", "write", "push", "close", "done"}]
  /\ held \in [Msg -> Session \cup {None}]
  /\ queue \in Seq(Msg) /\ Len(queue) <= MaxQueue
  /\ flush \in Seq(Msg) /\ Len(flush) <= MaxQueue
  /\ disk = queue
  /\ stop \in {"run", "cancelled", "stopped"}
  /\ crashes \in 0..MaxCrash
  /\ handed \in [Msg -> 0..2]

\* A message reaches a hub at most once, whatever sends, flushes, write errors
\* and crashes coincide: PopAll empties the file before it sends, and Send
\* queues only what its write has refused.
HandedOnce == \A m \in Msg : handed[m] <= 1

\* Messages that go through the queue reach the hubs in the order in which
\* they were queued, across sessions and restarts.
QueueOrder ==
  \A i, j \in DOMAIN flushed, k, l \in DOMAIN pushed :
    /\ i < j
    /\ flushed[i] = pushed[k]
    /\ flushed[j] = pushed[l]
    => k < l

\* The refinement mapping to Outbox.
Pending(m) == \/ spc[m] \in {"write", "push"}
              \/ m \in Range(queue)
              \/ m \in Range(flush)

\* A message that was handed over twice has a status that Outbox does not know.
Status == [m \in Msg |-> IF handed[m] > 1 THEN "resent"
                         ELSE IF handed[m] = 1 THEN "handed"
                         ELSE IF spc[m] = "new" THEN "new"
                         ELSE IF Pending(m) THEN "pending" ELSE "lost"]

Abstract == INSTANCE Outbox WITH status <- Status

\* The spoke keeps the promises of Outbox: no step hands over a message that a
\* hub has already, or revives one that was lost.
OutboxSpec == Abstract!Spec

\* If hubs answer, a queued message of a spoke without a live session leaves
\* the queue, unless the spoke is stopped: every new session flushes what was
\* queued before it.
QueueDrains ==
  HubAnswers /\ HubReacts =>
    \A m \in Msg :
      m \in Range(queue) /\ (sess = None \/ link[sess] # "up")
        ~> (m \notin Range(queue) \/ CtxDone)

\* Run returns once Stop was called, wherever it is: in the backoff, in a dial,
\* flushing, blocked in a read of a session; or in a handshake or the flush after
\* it, whose connection Stop does not know yet, if the hub reacts.
StopEndsRun == HubReacts => (CtxDone ~> rpc = "end")

\* docs/starlink.md:47, "Queue locally if nobody answers": a queued message
\* whose write is refused because the connection is closed is kept.
RefusedStaysQueued ==
  [][\A m \in Msg :
       m \in Range(flush) /\ m \notin Range(flush') /\ link[cur] = "closed"
       /\ crashes' = crashes
         => m \in Range(queue')]_vars
===============================================================================
