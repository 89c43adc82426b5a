-------------------------- MODULE SpokeSession_proof --------------------------
(***************************************************************************)
(* A message reaches a hub at most once, queued messages reach hubs in the *)
(* order in which they were queued, and a spoke implements Outbox: for any *)
(* number of messages, sessions and crashes.                               *)
(*                                                                         *)
(* The reason is that a message is in one place.  Before its Push it is    *)
(* with its Send alone, and no hub has it.  After that it is in queue or   *)
(* in flush, once, or in neither.  The places are emptied in the order     *)
(* pushed: flushed, then flush, then queue.                                *)
(***************************************************************************)
EXTENDS SpokeSession, TLAPS, SequenceTheorems

\* Message a was queued before message b.
Earlier(a, b) == \A k, l \in DOMAIN pushed :
                   pushed[k] = a /\ pushed[l] = b => k < l

InOrder(s)   == \A i, j \in DOMAIN s : i < j => Earlier(s[i], s[j])
Precedes(s, t) == \A i \in DOMAIN s, j \in DOMAIN t : Earlier(s[i], t[j])

Histories == pushed \in Seq(Msg) /\ flushed \in Seq(Msg)

\* Where Run is tells whether there is a candidate to count, and what is left
\* of a flush.
Progress == /\ rpc = "hello" => left > 0
            /\ rpc # "flush" => flush = <<>>

\* A Send has its message alone until it is queued or handed over.
Unsent == \A m \in Msg : spc[m] \in {"new", "write", "push"} =>
                           handed[m] = 0 /\ m \notin Range(pushed)

\* What is queued, and what is to be flushed, has been pushed and is with no hub.
Kept == /\ Range(queue) \cup Range(flush) \cup Range(flushed) \subseteq Range(pushed)
        /\ \A m \in Range(queue) \cup Range(flush) : handed[m] = 0

\* The three places hold pushed in order.
Ordered == /\ InOrder(queue) /\ InOrder(flush) /\ InOrder(flushed)
           /\ Precedes(flush, queue)
           /\ Precedes(flushed, flush) /\ Precedes(flushed, queue)

PushedOnce == \A k, l \in DOMAIN pushed : pushed[k] = pushed[l] => k = l

IInv == /\ TypeOK /\ Histories /\ Progress
        /\ Unsent /\ Kept /\ PushedOnce /\ Ordered /\ HandedOnce

-----------------------------------------------------------------------------
(* The queue                                                               *)

\* The queue after a Push: its items but for the oldest that do not fit, which
\* are one at most, and then the new one.
LEMMA EnqueueProperties ==
  ASSUME NEW q \in Seq(Msg), Len(q) <= MaxQueue, NEW m \in Msg
  PROVE  LET e == Enqueue(q, m)
         IN  /\ e \in Seq(Msg)
             /\ Len(e) \in 1..MaxQueue
             /\ e[Len(e)] = m
             /\ \/ /\ Len(e) = Len(q) + 1
                   /\ \A i \in 1..Len(q) : e[i] = q[i]
                \/ /\ Len(e) = Len(q)
                   /\ \A i \in 1..Len(q) - 1 : e[i] = q[i + 1]
<1> DEFINE r == Append(q, m)
<1>1. /\ r \in Seq(Msg) /\ Len(r) = Len(q) + 1
      /\ \A i \in 1..Len(q) : r[i] = q[i]
      /\ r[Len(q) + 1] = m
  BY AppendProperties
<1>2. Len(q) \in Nat /\ MaxQueue \in Nat \ {0}
  BY LenProperties, SpokeAssumption
<1>3. CASE Len(r) <= MaxQueue
  <2>1. Enqueue(q, m) = r
    BY <1>1, <1>2, <1>3 DEF Enqueue
  <2> HIDE DEF r
  <2> QED
    BY <1>1, <1>2, <1>3, <2>1
<1>4. CASE Len(r) > MaxQueue
  <2>1. Len(r) - MaxQueue + 1 = 2
    BY <1>1, <1>2, <1>4
  <2>2. Enqueue(q, m) = SubSeq(r, 2, Len(r))
    BY <1>4, <2>1 DEF Enqueue, Newest
  <2> HIDE DEF r
  <2>3. \A i \in 2..Len(r) : r[i] \in Msg
    BY <1>1, <1>2, ElementOfSeq
  <2>4. /\ SubSeq(r, 2, Len(r)) \in Seq(Msg)
        /\ Len(SubSeq(r, 2, Len(r))) = Len(r) - 1
        /\ \A i \in 1..Len(r) - 1 : SubSeq(r, 2, Len(r))[i] = r[i + 1]
    BY <1>1, <1>2, <2>3, SubSeqProperties
  <2>5. Len(q) = MaxQueue
    BY <1>1, <1>2, <1>4
  <2> DEFINE e == Enqueue(q, m)
  <2>6. e \in Seq(Msg) /\ Len(e) = MaxQueue /\ e[Len(e)] = m
    BY <1>1, <1>2, <2>2, <2>4, <2>5
  <2>7. Len(e) = Len(q) /\ \A i \in 1..Len(q) - 1 : e[i] = q[i + 1]
    BY <1>1, <1>2, <2>2, <2>4, <2>5
  <2> QED
    BY <1>2, <2>6, <2>7
<1> QED
  BY <1>1, <1>2, <1>3, <1>4

-----------------------------------------------------------------------------
(* Types                                                                   *)

LEMMA InitIInv == Init => IInv
<1> SUFFICES ASSUME Init PROVE IInv
  OBVIOUS
<1>1. <<>> \in Seq(Msg) /\ Len(<<>>) = 0 /\ DOMAIN <<>> = {}
  OBVIOUS
<1> QED
  BY <1>1, SpokeAssumption
  DEF Init, IInv, TypeOK, Histories, Progress, Unsent, Kept, PushedOnce, Ordered,
      HandedOnce, InOrder, Precedes, Earlier, Range

LEMMA Counted ==
  ASSUME NEW F \in [Msg -> 0..2], NEW m \in Msg
  PROVE  [F EXCEPT ![m] = IF @ < 2 THEN @ + 1 ELSE 2] \in [Msg -> 0..2]
<1>1. (IF F[m] < 2 THEN F[m] + 1 ELSE 2) \in 0..2
  OBVIOUS
<1> QED
  BY <1>1

LEMMA TypeStep == ASSUME TypeOK, Histories, Progress, [Next]_vars
                  PROVE  TypeOK' /\ Histories' /\ Progress'
<1> USE SpokeAssumption
    DEF TypeOK, Histories, Progress, runVars, queueVars, sendVars
<1>1. CASE UNCHANGED vars
  BY <1>1 DEF vars
<1>2. CASE Top \/ Wait \/ DialFail \/ GiveUp
  <2>1. CASE Top
    BY <2>1 DEF Top
  <2>2. CASE Wait
    BY <2>2 DEF Wait
  <2>3. CASE DialFail
    BY <2>3 DEF DialFail
  <2>4. CASE GiveUp
    BY <2>4 DEF GiveUp
  <2> QED
    BY <1>2, <2>1, <2>2, <2>3, <2>4
<1>3. ASSUME NEW s \in Session, Dial(s)
      PROVE  TypeOK' /\ Histories' /\ Progress'
  BY <1>3 DEF Dial
<1>4. CASE HandshakeFail \/ Install
  <2>1. CASE HandshakeFail
    <3>1. link' \in [Session -> {"closed", "up", "dead"}]
      BY <2>1 DEF HandshakeFail
    <3>2. /\ cur' = None /\ left' = left - 1 /\ rpc' = "try" /\ rpc = "hello"
          /\ UNCHANGED <<flush, sess, queueVars, sendVars, stop, crashes, handed, flushed>>
      BY <2>1 DEF HandshakeFail
    <3>3. left' \in 0..MaxCand
      BY <3>2
    <3> QED
      BY <3>1, <3>2, <3>3
  <2>2. CASE Install
    BY <2>2 DEF Install
  <2> QED
    BY <1>4, <2>1, <2>2
<1>5. CASE PopAll
  BY <1>5 DEF PopAll
<1>6. CASE FlushOne
  <2>1. /\ Head(flush) \in Msg
        /\ Tail(flush) \in Seq(Msg)
        /\ Len(Tail(flush)) = Len(flush) - 1
        /\ Append(flushed, Head(flush)) \in Seq(Msg)
    BY <1>6, HeadTailProperties, AppendProperties DEF FlushOne
  <2>2. Len(flush) \in Nat
    BY LenProperties
  <2>3. handed' \in [Msg -> 0..2]
    <3>1. handed \in [Msg -> 0..2]
      OBVIOUS
    <3>2. \/ handed' = handed
          \/ handed' = [handed EXCEPT ![Head(flush)] = IF @ < 2 THEN @ + 1 ELSE 2]
      BY <1>6 DEF FlushOne, HandOver
    <3>3. [handed EXCEPT ![Head(flush)] = IF @ < 2 THEN @ + 1 ELSE 2] \in [Msg -> 0..2]
      BY <2>1, <3>1, Counted, Zenon
    <3> QED
      BY <3>1, <3>2, <3>3
  <2>4. flush' \in Seq(Msg) /\ Len(flush') <= MaxQueue
    BY <1>6, <2>1, <2>2 DEF FlushOne
  <2>5. flushed' \in Seq(Msg)
    BY <1>6, <2>1, Zenon DEF FlushOne
  <2> QED
    BY <1>6, <2>3, <2>4, <2>5 DEF FlushOne, Delivers
<1>7. CASE FlushDone \/ Check \/ ReadMsg
  <2>1. CASE FlushDone
    BY <2>1 DEF FlushDone
  <2>2. CASE Check
    BY <2>2 DEF Check
  <2>3. CASE ReadMsg
    BY <2>3 DEF ReadMsg
  <2> QED
    BY <1>7, <2>1, <2>2, <2>3
<1>8. CASE ClearSess \/ CloseConn
  <2>1. CASE ClearSess
    BY <2>1 DEF ClearSess
  <2>2. CASE CloseConn
    <3>1. link' \in [Session -> {"closed", "up", "dead"}]
      BY <2>2 DEF CloseConn
    <3>2. /\ cur' = None /\ left' = 0 /\ rpc' = "wait" /\ rpc = "close"
          /\ UNCHANGED <<flush, sess, queueVars, sendVars, stop, crashes, handed, flushed>>
      BY <2>2 DEF CloseConn
    <3>3. 0 \in 0..MaxCand
      OBVIOUS
    <3> QED
      BY <3>1, <3>2, <3>3
  <2> QED
    BY <1>8, <2>1, <2>2
<1>9. ASSUME NEW m \in Msg, SendRead(m) \/ SendWrite(m) \/ SendClose(m)
      PROVE  TypeOK' /\ Histories' /\ Progress'
  <2>1. CASE SendRead(m)
    BY <2>1 DEF SendRead
  <2>2. CASE SendWrite(m)
    <3>1. /\ spc' \in [Msg -> {"new", "write", "push", "close", "done"}]
          /\ held' \in [Msg -> Session \cup {None}]
      BY <2>2 DEF SendWrite
    <3>2. handed' \in [Msg -> 0..2]
      <4>1. handed \in [Msg -> 0..2]
        OBVIOUS
      <4>2. \/ handed' = handed
            \/ handed' = [handed EXCEPT ![m] = IF @ < 2 THEN @ + 1 ELSE 2]
        BY <2>2 DEF SendWrite, HandOver
      <4>3. [handed EXCEPT ![m] = IF @ < 2 THEN @ + 1 ELSE 2] \in [Msg -> 0..2]
        BY <4>1, Counted, Zenon
      <4> QED
        BY <4>1, <4>2, <4>3
    <3>3. UNCHANGED <<runVars, link, queueVars, stop, crashes, flushed>>
      BY <2>2 DEF SendWrite
    <3> QED
      BY <3>1, <3>2, <3>3
  <2>3. CASE SendClose(m)
    BY <2>3 DEF SendClose
  <2> QED
    BY <1>9, <2>1, <2>2, <2>3
<1>10. ASSUME NEW m \in Msg, Push(m)
       PROVE  TypeOK' /\ Histories' /\ Progress'
  <2>1. Enqueue(queue, m) \in Seq(Msg) /\ Len(Enqueue(queue, m)) \in 1..MaxQueue
    BY EnqueueProperties
  <2>2. Append(pushed, m) \in Seq(Msg)
    BY AppendProperties
  <2> QED
    BY <1>10, <2>1, <2>2 DEF Push
<1>11. CASE StopCancel \/ StopClose
  <2>1. CASE StopCancel
    BY <2>1 DEF StopCancel
  <2>2. CASE StopClose
    BY <2>2 DEF StopClose
  <2> QED
    BY <1>11, <2>1, <2>2
<1>12. ASSUME NEW s \in Session, Break(s)
       PROVE  TypeOK' /\ Histories' /\ Progress'
  BY <1>12 DEF Break
<1>13. CASE Crash
  <2>1. <<>> \in Seq(Msg) /\ Len(<<>>) = 0
    BY EmptySeq
  <2>2. (queue' = queue \/ queue' = <<>>) /\ disk' = queue' /\ flush' = <<>>
    BY <1>13, Zenon DEF Crash
  <2>3. /\ queue' \in Seq(Msg) /\ Len(queue') <= MaxQueue
        /\ flush' \in Seq(Msg) /\ Len(flush') <= MaxQueue
    <3> USE <2>1, <2>2
    <3>1. CASE queue' = queue
      BY <3>1
    <3>2. CASE queue' = <<>>
      BY <3>2
    <3> QED
      BY <3>1, <3>2, Zenon
  <2>4. /\ spc' \in [Msg -> {"new", "write", "push", "close", "done"}]
        /\ link' \in [Session -> {"closed", "up", "dead"}]
        /\ held' \in [Msg -> Session \cup {None}]
    BY <1>13 DEF Crash
  <2> QED
    BY <1>13, <2>2, <2>3, <2>4 DEF Crash, Saving
<1> QED
  BY <1>1, <1>2, <1>3, <1>4, <1>5, <1>6, <1>7, <1>8, <1>9, <1>10, <1>11, <1>12,
     <1>13 DEF Next, Run, Send

-----------------------------------------------------------------------------
(* The places of a message                                                 *)

LEMMA RangeOf == ASSUME NEW q \in Seq(Msg)
                 PROVE  /\ Range(q) \subseteq Msg
                        /\ \A i \in DOMAIN q : i \in 1..Len(q) /\ q[i] \in Range(q)
                        /\ \A x \in Range(q) : \E i \in 1..Len(q) : q[i] = x
                        /\ DOMAIN q = 1..Len(q) /\ Len(q) \in Nat
BY LenProperties, ElementOfSeq DEF Range

\* A Push leaves the messages pushed earlier in their order, and the new one
\* comes after them.
LEMMA EarlierThanPush ==
  ASSUME Histories, NEW m \in Msg, m \notin Range(pushed),
         pushed' = Append(pushed, m)
  PROVE  /\ \A a, b \in Range(pushed) : Earlier(a, b) => Earlier(a, b)'
         /\ \A a \in Range(pushed) : Earlier(a, m)'
         /\ Range(pushed') = Range(pushed) \cup {m}
<1>1. /\ pushed' \in Seq(Msg) /\ Len(pushed') = Len(pushed) + 1
      /\ \A i \in 1..Len(pushed) : pushed'[i] = pushed[i]
      /\ pushed'[Len(pushed) + 1] = m
  BY AppendProperties DEF Histories
<1>2. DOMAIN pushed = 1..Len(pushed) /\ Len(pushed) \in Nat
      /\ DOMAIN pushed' = 1..Len(pushed) + 1
  BY <1>1, LenProperties DEF Histories
<1>3. ASSUME NEW a \in Range(pushed), NEW b \in Range(pushed), Earlier(a, b),
             NEW k \in DOMAIN pushed', NEW l \in DOMAIN pushed',
             pushed'[k] = a, pushed'[l] = b
      PROVE  k < l
  <2>1. k \in 1..Len(pushed) /\ l \in 1..Len(pushed)
    BY <1>1, <1>2, <1>3
  <2> QED
    BY <1>1, <1>2, <1>3, <2>1 DEF Earlier
<1>4. ASSUME NEW a \in Range(pushed),
             NEW k \in DOMAIN pushed', NEW l \in DOMAIN pushed',
             pushed'[k] = a, pushed'[l] = m
      PROVE  k < l
  <2>1. k \in 1..Len(pushed)
    BY <1>1, <1>2, <1>4
  <2>2. l \notin 1..Len(pushed)
    BY <1>1, <1>2, <1>4 DEF Range
  <2> QED
    BY <1>2, <2>1, <2>2
<1>5. Range(pushed') = Range(pushed) \cup {m}
  BY <1>1, <1>2 DEF Range
<1> QED
  BY <1>3, <1>4, <1>5 DEF Earlier

\* A message that was pushed is not earlier than itself.
LEMMA NotEarlierThanItself == ASSUME NEW a \in Range(pushed)
                              PROVE  Histories => ~Earlier(a, a)
<1> SUFFICES ASSUME Histories, Earlier(a, a) PROVE FALSE
  OBVIOUS
<1>1. PICK k \in DOMAIN pushed : pushed[k] = a
  BY DEF Range
<1>2. k < k
  BY <1>1 DEF Earlier
<1>3. k \in Nat
  BY LenProperties DEF Histories
<1> QED
  BY <1>2, <1>3

LEMMA OrderStep == ASSUME IInv, [Next]_vars
                   PROVE  PushedOnce' /\ Ordered'
<1> DEFINE Unmoved == UNCHANGED <<queue, flush, pushed, flushed>>
<1>1. ASSUME Unmoved
      PROVE  PushedOnce' /\ Ordered'
  BY <1>1 DEF IInv, PushedOnce, Ordered, InOrder, Precedes, Earlier
<1>2. CASE PopAll
  <2>1. /\ queue' = <<>> /\ flush' = queue /\ flush = <<>>
        /\ pushed' = pushed /\ flushed' = flushed
    BY <1>2 DEF PopAll, IInv, Progress
  <2>2. DOMAIN <<>> = {}
    OBVIOUS
  <2> QED
    BY <2>1, <2>2 DEF IInv, PushedOnce, Ordered, InOrder, Precedes, Earlier
<1>3. CASE FlushOne
  <2>1. /\ flush' = Tail(flush) /\ queue' = queue /\ pushed' = pushed
        /\ flush # <<>>
        /\ flushed' \in {flushed, Append(flushed, Head(flush))}
    BY <1>3, Zenon DEF FlushOne, queueVars
  <2> DEFINE h == Head(flush)
  <2>2. /\ flush \in Seq(Msg) /\ flushed \in Seq(Msg) /\ queue \in Seq(Msg)
        /\ h \in Msg /\ h = flush[1] /\ 1 \in DOMAIN flush
    BY <2>1, HeadTailProperties, LenProperties, EmptySeq
    DEF IInv, TypeOK, Histories
  <2>3. \A j \in DOMAIN flush' : j + 1 \in DOMAIN flush /\ flush'[j] = flush[j + 1]
                                /\ j \in Nat \ {0}
    BY <2>1, <2>2, HeadTailProperties, LenProperties
  <2>4. \A i \in DOMAIN flushed' :
          /\ i \in Nat
          /\ \/ i \in DOMAIN flushed /\ flushed'[i] = flushed[i]
             \/ flushed'[i] = flush[1] /\ \A j \in DOMAIN flushed' : j <= i
    <3>1. CASE flushed' = flushed
      BY <2>2, <3>1, LenProperties
    <3>2. CASE flushed' = Append(flushed, h)
      BY <2>2, <3>2, AppendProperties, LenProperties
    <3> QED
      BY <2>1, <3>1, <3>2
  <2>5. \A a, b : Earlier(a, b) => Earlier(a, b)'
    BY <2>1 DEF Earlier
  <2> HIDE DEF h
  <2>6. InOrder(flush)'
    BY <2>3, <2>5 DEF IInv, Ordered, InOrder
  <2>7. Precedes(flush, queue)'
    BY <2>1, <2>3, <2>5 DEF IInv, Ordered, Precedes
  <2>8. InOrder(flushed)'
    <3> SUFFICES ASSUME NEW i \in DOMAIN flushed', NEW j \in DOMAIN flushed', i < j
                 PROVE  Earlier(flushed[i], flushed[j])'
      BY DEF InOrder
    <3>1. i \in DOMAIN flushed /\ flushed'[i] = flushed[i]
      BY <2>4
    <3> QED
      BY <2>2, <2>4, <2>5, <3>1 DEF IInv, Ordered, InOrder, Precedes
  <2>9. Precedes(flushed, flush)'
    <3> SUFFICES ASSUME NEW i \in DOMAIN flushed', NEW j \in DOMAIN flush'
                 PROVE  Earlier(flushed[i], flush[j])'
      BY DEF Precedes
    <3>1. j + 1 \in DOMAIN flush /\ flush'[j] = flush[j + 1] /\ 1 < j + 1
      BY <2>3
    <3> QED
      BY <2>2, <2>4, <2>5, <3>1 DEF IInv, Ordered, InOrder, Precedes
  <2>10. Precedes(flushed, queue)'
    BY <2>1, <2>2, <2>4, <2>5 DEF IInv, Ordered, Precedes
  <2>11. InOrder(queue)' /\ PushedOnce'
    BY <2>1, <2>5 DEF IInv, Ordered, InOrder, PushedOnce
  <2> QED
    BY <2>6, <2>7, <2>8, <2>9, <2>10, <2>11 DEF Ordered
<1>4. ASSUME NEW m \in Msg, Push(m)
      PROVE  PushedOnce' /\ Ordered'
  <2>1. /\ m \notin Range(pushed) /\ pushed' = Append(pushed, m)
        /\ queue' = Enqueue(queue, m) /\ flush' = flush /\ flushed' = flushed
    BY <1>4 DEF Push, IInv, Unsent, runVars
  <2>2. /\ \A a, b \in Range(pushed) : Earlier(a, b) => Earlier(a, b)'
        /\ \A a \in Range(pushed) : Earlier(a, m)'
    BY <2>1, EarlierThanPush DEF IInv
  <2>3. PushedOnce'
    BY <2>1, AppendProperties, LenProperties
    DEF IInv, Histories, PushedOnce, Range
  <2>4. /\ queue \in Seq(Msg) /\ flush \in Seq(Msg) /\ flushed \in Seq(Msg)
        /\ \A i \in DOMAIN queue : i \in 1..Len(queue) /\ queue[i] \in Range(pushed)
        /\ \A i \in DOMAIN flush : i \in 1..Len(flush) /\ flush[i] \in Range(pushed)
        /\ \A i \in DOMAIN flushed : i \in 1..Len(flushed) /\ flushed[i] \in Range(pushed)
    BY RangeOf DEF IInv, TypeOK, Histories, Kept
  <2>5. Len(queue) \in Nat /\ Len(queue) <= MaxQueue /\ DOMAIN queue = 1..Len(queue)
    BY <2>4, LenProperties DEF IInv, TypeOK
  <2>6. /\ queue' \in Seq(Msg) /\ queue'[Len(queue')] = m
        /\ \/ /\ Len(queue') = Len(queue) + 1
              /\ \A i \in 1..Len(queue) : queue'[i] = queue[i]
           \/ /\ Len(queue') = Len(queue)
              /\ \A i \in 1..Len(queue) - 1 : queue'[i] = queue[i + 1]
    BY <2>1, <2>4, <2>5, EnqueueProperties
  <2>7. Len(queue') \in Nat /\ DOMAIN queue' = 1..Len(queue')
    BY <2>6, LenProperties
  <2>8. PICK d \in {0, 1} :
          \A i \in DOMAIN queue' :
            i = Len(queue') \/ (i + d \in DOMAIN queue /\ queue'[i] = queue[i + d])
    <3>1. CASE /\ Len(queue') = Len(queue) + 1
               /\ \A i \in 1..Len(queue) : queue'[i] = queue[i]
      <4>1. \A i \in DOMAIN queue' :
              i = Len(queue') \/ (i + 0 \in DOMAIN queue /\ queue'[i] = queue[i + 0])
        BY <2>5, <2>7, <3>1
      <4> QED
        BY <4>1
    <3>2. CASE /\ Len(queue') = Len(queue)
               /\ \A i \in 1..Len(queue) - 1 : queue'[i] = queue[i + 1]
      <4>1. \A i \in DOMAIN queue' :
              i = Len(queue') \/ (i + 1 \in DOMAIN queue /\ queue'[i] = queue[i + 1])
        BY <2>5, <2>7, <3>2
      <4> QED
        BY <4>1
    <3> QED
      BY <2>6, <3>1, <3>2
  <2>9. \A i, j \in DOMAIN queue' : i < j => i # Len(queue') /\ i + d < j + d
    BY <2>7, <2>8
  <2>10. InOrder(queue)'
    <3> SUFFICES ASSUME NEW i \in DOMAIN queue', NEW j \in DOMAIN queue', i < j
                 PROVE  Earlier(queue[i], queue[j])'
      BY DEF InOrder
    <3>1. i + d \in DOMAIN queue /\ queue'[i] = queue[i + d]
      BY <2>8, <2>9
    <3>2. CASE j = Len(queue')
      BY <2>2, <2>4, <2>6, <3>1, <3>2
    <3>3. CASE j + d \in DOMAIN queue /\ queue'[j] = queue[j + d]
      <4>1. i + d < j + d
        BY <2>9
      <4> QED
        BY <2>2, <2>4, <3>1, <3>3, <4>1 DEF IInv, Ordered, InOrder
    <3> QED
      BY <2>8, <3>2, <3>3
  <2>11. ASSUME NEW a \in Range(pushed), \A j \in DOMAIN queue : Earlier(a, queue[j]),
                NEW j \in DOMAIN queue'
         PROVE  Earlier(a, queue[j])'
    BY <2>2, <2>4, <2>6, <2>8, <2>11
  <2>12. Precedes(flush, queue)' /\ Precedes(flushed, queue)'
    BY <2>1, <2>4, <2>11 DEF IInv, Ordered, Precedes
  <2>13. InOrder(flush)' /\ InOrder(flushed)' /\ Precedes(flushed, flush)'
    BY <2>1, <2>2, <2>4 DEF IInv, Ordered, InOrder, Precedes
  <2> QED
    BY <2>3, <2>10, <2>12, <2>13 DEF Ordered
<1>5. CASE Crash
  <2>1. /\ queue' \in {queue, <<>>} /\ flush' = <<>>
        /\ pushed' = pushed /\ flushed' = flushed
    BY <1>5, Zenon DEF Crash, IInv, TypeOK
  <2>2. DOMAIN <<>> = {}
    OBVIOUS
  <2> QED
    BY <2>1, <2>2 DEF IInv, PushedOnce, Ordered, InOrder, Precedes, Earlier
<1>6. CASE \/ UNCHANGED vars
           \/ Top \/ Wait \/ DialFail \/ GiveUp
           \/ \E s \in Session : Dial(s) \/ Break(s)
           \/ HandshakeFail \/ Install \/ FlushDone
           \/ Check \/ ReadMsg \/ ClearSess \/ CloseConn
           \/ \E m \in Msg : SendRead(m) \/ SendWrite(m) \/ SendClose(m)
           \/ StopCancel \/ StopClose
  <2>1. Unmoved
    BY <1>6
    DEF vars, runVars, queueVars, Top, Wait, DialFail, GiveUp, Dial, Break,
        HandshakeFail, Install, FlushDone, Check, ReadMsg, ClearSess, CloseConn,
        SendRead, SendWrite, SendClose, StopCancel, StopClose
  <2> HIDE DEF Unmoved
  <2> QED
    BY <1>1, <2>1
<1> QED
  BY <1>2, <1>3, <1>4, <1>5, <1>6 DEF Next, Run, Send

\* What flush holds is in neither of its other parts nor in the queue.
LEMMA HeadIsAlone == ASSUME IInv, flush # <<>>
                     PROVE  /\ Head(flush) \in Range(flush)
                            /\ Head(flush) \notin Range(Tail(flush)) \cup Range(queue)
                            /\ Range(flush) = {Head(flush)} \cup Range(Tail(flush))
<1> DEFINE h == Head(flush)
<1>1. /\ flush \in Seq(Msg) /\ queue \in Seq(Msg) /\ pushed \in Seq(Msg)
      /\ Len(flush) \in Nat \ {0} /\ DOMAIN flush = 1..Len(flush)
      /\ h \in Msg /\ h = flush[1]
  BY HeadTailProperties, LenProperties, EmptySeq DEF IInv, TypeOK, Histories
<1>2. /\ Tail(flush) \in Seq(Msg)
      /\ DOMAIN Tail(flush) = 1..Len(flush) - 1
      /\ \A i \in 1..Len(flush) - 1 : Tail(flush)[i] = flush[i + 1]
  BY <1>1, HeadTailProperties, LenProperties
<1>3. h \in Range(flush) /\ h \in Range(pushed)
  <2>1. 1 \in DOMAIN flush /\ h = flush[1]
    BY <1>1
  <2>2. h \in Range(flush)
    BY <2>1, Zenon DEF Range
  <2> QED
    BY <2>2, Zenon DEF IInv, Kept
<1> HIDE DEF h
<1>4. ~Earlier(h, h)
  BY <1>3, NotEarlierThanItself DEF IInv
<1>5. h \notin Range(queue)
  BY <1>1, <1>4 DEF IInv, Ordered, Precedes, Range
<1>6. h \notin Range(Tail(flush))
  <2> SUFFICES ASSUME NEW i \in 1..Len(flush) - 1, flush[i + 1] = h
               PROVE  FALSE
    BY <1>2 DEF Range
  <2>1. 1 < i + 1 /\ 1 \in DOMAIN flush /\ i + 1 \in DOMAIN flush
    BY <1>1
  <2> QED
    BY <1>1, <1>4, <2>1 DEF IInv, Ordered, InOrder
<1>7. Range(flush) = {h} \cup Range(Tail(flush))
  <2>1. ASSUME NEW i \in DOMAIN flush
        PROVE  flush[i] \in {h} \cup Range(Tail(flush))
    <3>1. CASE i = 1
      BY <1>1, <3>1
    <3>2. CASE i # 1
      <4>1. i - 1 \in DOMAIN Tail(flush) /\ Tail(flush)[i - 1] = flush[i]
        BY <1>1, <1>2, <3>2
      <4> QED
        BY <4>1 DEF Range
    <3> QED
      BY <3>1, <3>2
  <2>2. ASSUME NEW i \in DOMAIN Tail(flush)
        PROVE  Tail(flush)[i] \in Range(flush)
    <3>1. i + 1 \in DOMAIN flush /\ Tail(flush)[i] = flush[i + 1]
      BY <1>1, <1>2
    <3> QED
      BY <3>1 DEF Range
  <2> QED
    BY <1>3, <2>1, <2>2 DEF Range
<1> QED
  BY <1>3, <1>5, <1>6, <1>7 DEF h

\* A Push adds the message to the queue, and may push out others.
LEMMA EnqueueRange ==
  ASSUME NEW q \in Seq(Msg), Len(q) <= MaxQueue, NEW m \in Msg
  PROVE  /\ m \in Range(Enqueue(q, m))
         /\ Range(Enqueue(q, m)) \subseteq Range(q) \cup {m}
<1> DEFINE e == Enqueue(q, m)
<1>1. /\ e \in Seq(Msg) /\ Len(e) \in 1..MaxQueue /\ e[Len(e)] = m
      /\ \/ /\ Len(e) = Len(q) + 1
            /\ \A i \in 1..Len(q) : e[i] = q[i]
         \/ /\ Len(e) = Len(q)
            /\ \A i \in 1..Len(q) - 1 : e[i] = q[i + 1]
  BY EnqueueProperties
<1> HIDE DEF e
<1>2. DOMAIN e = 1..Len(e) /\ DOMAIN q = 1..Len(q) /\ Len(q) \in Nat /\ Len(e) \in Nat
  BY <1>1, LenProperties
<1>3. m \in Range(e)
  <2>1. Len(e) \in 1..MaxQueue /\ DOMAIN e = 1..Len(e)
    BY <1>1, <1>2, Zenon
  <2>2. Len(e) \in 1..Len(e)
    BY <2>1, SpokeAssumption
  <2>3. Len(e) \in DOMAIN e
    BY <2>1, <2>2, Zenon
  <2> QED
    BY <1>1, <2>3, Zenon DEF Range
<1>4. ASSUME NEW i \in DOMAIN e, e[i] # m
      PROVE  e[i] \in Range(q)
  <2>1. i # Len(e)
    BY <1>1, <1>4
  <2>2. CASE /\ Len(e) = Len(q) + 1
             /\ \A j \in 1..Len(q) : e[j] = q[j]
    <3>1. i \in DOMAIN q /\ e[i] = q[i]
      BY <1>2, <2>1, <2>2
    <3> QED
      BY <3>1 DEF Range
  <2>3. CASE /\ Len(e) = Len(q)
             /\ \A j \in 1..Len(q) - 1 : e[j] = q[j + 1]
    <3>1. i + 1 \in DOMAIN q /\ e[i] = q[i + 1]
      BY <1>2, <2>1, <2>3
    <3> QED
      BY <3>1 DEF Range
  <2> QED
    BY <1>1, <2>2, <2>3
<1>5. Range(e) \subseteq Range(q) \cup {m}
  BY <1>4 DEF Range
<1> QED
  BY <1>3, <1>5 DEF e

\* A message is with its Send, in the queue, in flush or with a hub.
LEMMA PlacesStep == ASSUME IInv, [Next]_vars
                    PROVE  Unsent' /\ Kept' /\ HandedOnce'
<1> DEFINE Unmoved == UNCHANGED <<queue, flush, pushed, flushed, handed>>
           Goal == Unsent' /\ Kept' /\ HandedOnce'
<1> USE DEF IInv, Unsent, Kept, HandedOnce
<1>1. ASSUME Unmoved, NEW m \in Msg,
             \/ spc' = spc
             \/ spc[m] = "new" /\ spc' = [spc EXCEPT ![m] = "push"]
             \/ spc[m] = "new" /\ spc' = [spc EXCEPT ![m] = "write"]
             \/ spc[m] = "write" /\ spc' = [spc EXCEPT ![m] = "push"]
             \/ spc' = [spc EXCEPT ![m] = "done"]
      PROVE  Goal
  BY <1>1 DEF TypeOK
<1>2. ASSUME NEW m \in Msg, SendRead(m) \/ SendClose(m)
      PROVE  Goal
  <2>1. Unmoved
    BY <1>2 DEF SendRead, SendClose, runVars, queueVars
  <2>2. \/ spc[m] = "new" /\ spc' = [spc EXCEPT ![m] = "push"]
        \/ spc[m] = "new" /\ spc' = [spc EXCEPT ![m] = "write"]
        \/ spc' = [spc EXCEPT ![m] = "done"]
    BY <1>2 DEF SendRead, SendClose
  <2> QED
    BY <1>1, <2>1, <2>2
<1>3. ASSUME NEW m \in Msg, SendWrite(m)
      PROVE  Goal
  <2>1. CASE Unmoved
    <3>1. \/ spc[m] = "write" /\ spc' = [spc EXCEPT ![m] = "push"]
          \/ spc' = [spc EXCEPT ![m] = "done"]
      BY <1>3 DEF SendWrite
    <3> QED
      BY <1>1, <2>1, <3>1
  <2>2. CASE HandOver(m)
    <3>1. /\ UNCHANGED <<queue, flush, pushed, flushed>>
          /\ spc[m] = "write"
      BY <1>3 DEF SendWrite, runVars, queueVars
    <3>2. handed[m] = 0 /\ m \notin Range(pushed)
      BY <3>1
    <3>3. handed' = [handed EXCEPT ![m] = 1]
      BY <2>2, <3>2 DEF HandOver, TypeOK
    <3>4. spc' = [spc EXCEPT ![m] = "push"] => handed' = handed
      BY <1>3 DEF SendWrite, TypeOK
    <3>5. spc' = [spc EXCEPT ![m] = "done"]
      BY <1>3, <3>2, <3>3, <3>4 DEF SendWrite, TypeOK
    <3> QED
      BY <3>1, <3>2, <3>3, <3>5 DEF TypeOK
  <2> QED
    BY <1>3, <2>1, <2>2, Zenon DEF SendWrite, runVars, queueVars
<1>4. ASSUME NEW m \in Msg, Push(m)
      PROVE  Goal
  <2>1. /\ spc[m] = "push" /\ pushed' = Append(pushed, m)
        /\ queue' = Enqueue(queue, m)
        /\ UNCHANGED <<flush, flushed, handed>>
        /\ spc' \in {[spc EXCEPT ![m] = "done"], [spc EXCEPT ![m] = "close"]}
    BY <1>4 DEF Push, runVars
  <2>2. handed[m] = 0 /\ m \notin Range(pushed)
    BY <2>1
  <2>3. Range(pushed') = Range(pushed) \cup {m}
    BY <2>1, <2>2, EarlierThanPush
  <2>4. Range(queue') \subseteq Range(queue) \cup {m}
    BY <2>1, EnqueueRange DEF TypeOK
  <2> QED
    BY <2>1, <2>2, <2>3, <2>4 DEF TypeOK
<1>5. CASE PopAll
  <2>1. /\ queue' = <<>> /\ flush' = queue
        /\ UNCHANGED <<pushed, flushed, handed, spc>>
    BY <1>5 DEF PopAll, sendVars
  <2>2. Range(<<>>) = {}
    BY DEF Range
  <2> QED
    BY <2>1, <2>2
<1>6. CASE FlushOne
  <2>1. /\ flush # <<>> /\ flush' = Tail(flush)
        /\ UNCHANGED <<queue, pushed, spc>>
        /\ \/ HandOver(Head(flush)) /\ flushed' = Append(flushed, Head(flush))
           \/ handed' = handed /\ flushed' = flushed
    BY <1>6, Zenon DEF FlushOne, queueVars, sendVars
  <2>2. /\ Head(flush) \in Range(flush)
        /\ Head(flush) \notin Range(flush') \cup Range(queue)
        /\ Range(flush) = {Head(flush)} \cup Range(flush')
    BY <2>1, HeadIsAlone
  <2>3. handed[Head(flush)] = 0 /\ Head(flush) \in Msg /\ Head(flush) \in Range(pushed)
    BY <2>2, RangeOf DEF TypeOK
  <2>4. CASE handed' = handed /\ flushed' = flushed
    BY <2>1, <2>2, <2>4
  <2>5. CASE HandOver(Head(flush)) /\ flushed' = Append(flushed, Head(flush))
    <3>1. handed' = [handed EXCEPT ![Head(flush)] = 1]
      BY <2>3, <2>5 DEF HandOver, TypeOK
    <3>2. Range(flushed') = Range(flushed) \cup {Head(flush)}
      <4>1. flushed \in Seq(Msg)
        BY DEF Histories
      <4>2. /\ flushed' \in Seq(Msg) /\ Len(flushed') = Len(flushed) + 1
            /\ \A i \in 1..Len(flushed) : flushed'[i] = flushed[i]
            /\ flushed'[Len(flushed) + 1] = Head(flush)
        BY <2>3, <2>5, <4>1, AppendProperties
      <4> QED
        BY <4>1, <4>2, LenProperties DEF Range
    <3>3. Unsent'
      BY <2>1, <2>3, <3>1 DEF TypeOK
    <3>4. Kept'
      BY <2>1, <2>2, <2>3, <3>1, <3>2, RangeOf DEF TypeOK
    <3>5. HandedOnce'
      BY <3>1 DEF TypeOK
    <3> QED
      BY <3>3, <3>4, <3>5
  <2> QED
    BY <2>1, <2>4, <2>5
<1>7. CASE Crash
  <2>1. /\ queue' = queue \/ queue' = <<>>
        /\ flush' = <<>> /\ pushed' = pushed /\ flushed' = flushed /\ handed' = handed
        /\ spc' = [m \in Msg |-> IF spc[m] = "new" THEN "new" ELSE "done"]
    BY <1>7, Zenon DEF Crash, TypeOK
  <2>2. Range(<<>>) = {}
    BY DEF Range
  <2>3. Range(queue') \subseteq Range(queue) /\ Range(flush') = {}
    BY <2>1, <2>2
  <2> QED
    BY <2>1, <2>3
<1>8. CASE \/ UNCHANGED vars
           \/ Top \/ Wait \/ DialFail \/ GiveUp
           \/ \E s \in Session : Dial(s) \/ Break(s)
           \/ HandshakeFail \/ Install \/ FlushDone
           \/ Check \/ ReadMsg \/ ClearSess \/ CloseConn
           \/ StopCancel \/ StopClose
  <2>1. Unmoved /\ spc' = spc
    BY <1>8
    DEF vars, runVars, queueVars, sendVars, Top, Wait, DialFail, GiveUp, Dial,
        Break, HandshakeFail, Install, FlushDone, Check, ReadMsg, ClearSess,
        CloseConn, StopCancel, StopClose
  <2> QED
    BY <2>1
<1> QED
  BY <1>2, <1>3, <1>4, <1>5, <1>6, <1>7, <1>8 DEF Next, Run, Send

LEMMA Invariant == Spec => []IInv
<1>1. IInv /\ [Next]_vars => IInv'
  <2> SUFFICES ASSUME IInv, [Next]_vars PROVE IInv'
    OBVIOUS
  <2>1. TypeOK' /\ Histories' /\ Progress'
    BY TypeStep DEF IInv
  <2> QED
    BY <2>1, OrderStep, PlacesStep DEF IInv
<1> QED
  BY InitIInv, <1>1, PTL DEF Spec

-----------------------------------------------------------------------------
(* The theorems                                                            *)

\* Whatever Run, the Sends, Stop and the environment do, the spoke's variables
\* keep their types, the queue its limit, and queue.json is the queue.
THEOREM TypeCorrect == Spec => []TypeOK
<1>1. IInv => TypeOK
  BY DEF IInv
<1> QED
  BY <1>1, Invariant, PTL

\* However sends, flushes, write errors and crashes coincide, no message is
\* handed to a hub twice (Queue.PopAll, Spoke.Send).
THEOREM NeverTwice == Spec => []HandedOnce
<1>1. IInv => HandedOnce
  BY DEF IInv
<1> QED
  BY <1>1, Invariant, PTL

\* Messages that go through the queue reach hubs in the order of their Push,
\* across sessions and restarts.
THEOREM QueueIsFifo == Spec => []QueueOrder
<1>1. IInv => QueueOrder
  BY DEF IInv, Ordered, InOrder, Earlier, QueueOrder
<1> QED
  BY <1>1, Invariant, PTL

-----------------------------------------------------------------------------
(* The refinement                                                          *)

LEMMA StatusOf ==
  ASSUME NEW m \in Msg
  PROVE  /\ handed[m] = 1 => Status[m] = "handed"
         /\ handed[m] = 0 /\ spc[m] = "new" => Status[m] = "new"
         /\ handed[m] = 0 /\ spc[m] # "new" /\ Pending(m) => Status[m] = "pending"
         /\ handed[m] = 0 /\ spc[m] # "new" /\ ~Pending(m) => Status[m] = "lost"
BY DEF Status

\* A step that changes no message's status, but that some pending ones may be
\* lost, is allowed by Outbox.
LEMMA StutterOrLose ==
  ASSUME \A m \in Msg : Status'[m] = Status[m]
                        \/ (Status[m] = "pending" /\ Status'[m] = "lost")
  PROVE  [Abstract!Next]_Status
<1> DEFINE S == {m \in Msg : Status[m] = "pending" /\ Status'[m] = "lost"}
<1>1. Status = [m \in Msg |-> Status[m]] /\ Status' = [m \in Msg |-> Status'[m]]
  BY DEF Status
<1> HIDE DEF S
<1>2. CASE S = {}
  <2>1. Status' = Status
    BY <1>1, <1>2 DEF S
  <2> QED
    BY <2>1
<1>3. CASE S # {}
  <2>1. Status' = [m \in Msg |-> IF m \in S THEN "lost" ELSE Status[m]]
    BY <1>1 DEF S
  <2>2. Abstract!Lose(S)
    BY <2>1 DEF Abstract!Lose, S
  <2>3. S \in SUBSET Msg
    BY DEF S
  <2>4. S \in (SUBSET Msg) \ {{}}
    BY <1>3, <2>3
  <2> QED
    BY <2>2, <2>4 DEF Abstract!Next
<1> QED
  BY <1>2, <1>3

\* A step that changes the status of one message.
LEMMA OneChanges ==
  ASSUME NEW m \in Msg, NEW v, Status'[m] = v,
         \A x \in Msg \ {m} : Status'[x] = Status[x]
  PROVE  Status' = [Status EXCEPT ![m] = v]
<1>1. Status = [x \in Msg |-> Status[x]] /\ Status' = [x \in Msg |-> Status'[x]]
  BY DEF Status
<1> QED
  BY <1>1

LEMMA RefineInit == Init => Abstract!Init
<1> SUFFICES ASSUME Init PROVE Status = [m \in Msg |-> "new"]
  BY DEF Abstract!Init
<1>1. ASSUME NEW m \in Msg
      PROVE  Status[m] = "new"
  BY StatusOf DEF Init
<1>2. Status = [m \in Msg |-> Status[m]]
  BY DEF Status
<1> QED
  BY <1>1, <1>2

LEMMA RefineStep == ASSUME IInv, [Next]_vars
                    PROVE  [Abstract!Next]_Status
<1> DEFINE Unmoved == UNCHANGED <<queue, flush, handed>>
<1>1. ASSUME Unmoved, spc' = spc
      PROVE  [Abstract!Next]_Status
  BY <1>1 DEF Status, Pending
<1>2. ASSUME NEW m \in Msg, SendRead(m)
      PROVE  [Abstract!Next]_Status
  <2>1. Unmoved /\ spc[m] = "new"
        /\ spc' = [spc EXCEPT ![m] = IF sess = None THEN "push" ELSE "write"]
    BY <1>2 DEF SendRead, runVars, queueVars
  <2>2. handed[m] = 0
    BY <2>1 DEF IInv, Unsent
  <2>3. Status[m] = "new" /\ Status'[m] = "pending"
    BY <2>1, <2>2 DEF Status, Pending, IInv, TypeOK
  <2>4. \A x \in Msg \ {m} : Status'[x] = Status[x]
    BY <2>1 DEF Status, Pending, IInv, TypeOK
  <2>5. Abstract!Submit(m)
    BY <2>3, <2>4, OneChanges DEF Abstract!Submit
  <2> QED
    BY <2>5 DEF Abstract!Next
<1>3. ASSUME NEW m \in Msg, SendWrite(m)
      PROVE  [Abstract!Next]_Status
  <2>1. spc[m] = "write" /\ UNCHANGED <<queue, flush, pushed, flushed>>
    BY <1>3 DEF SendWrite, runVars, queueVars
  <2>2. handed[m] = 0 /\ m \notin Range(queue) \cup Range(flush)
    BY <2>1 DEF IInv, Unsent, Kept
  <2>3. Status[m] = "pending"
    BY <2>1, <2>2 DEF Status, Pending
  <2>4. \/ HandOver(m) /\ spc' = [spc EXCEPT ![m] = "done"]
        \/ handed' = handed /\ spc' = [spc EXCEPT ![m] = "done"]
        \/ handed' = handed /\ spc' = [spc EXCEPT ![m] = "push"]
    BY <1>3, Zenon DEF SendWrite
  <2>5. CASE HandOver(m) /\ spc' = [spc EXCEPT ![m] = "done"]
    <3>1. handed' = [handed EXCEPT ![m] = 1]
      BY <2>2, <2>5 DEF HandOver, IInv, TypeOK
    <3>2. Status'[m] = "handed"
      BY <3>1 DEF Status, IInv, TypeOK
    <3>3. \A x \in Msg \ {m} : Status'[x] = Status[x]
      BY <2>1, <2>5, <3>1 DEF Status, Pending, IInv, TypeOK
    <3>4. Abstract!Hand(m)
      BY <2>3, <3>2, <3>3, OneChanges DEF Abstract!Hand
    <3> QED
      BY <3>4 DEF Abstract!Next
  <2>6. CASE handed' = handed /\ spc' = [spc EXCEPT ![m] = "done"]
    <3>1. Status'[m] = "lost"
      BY <2>1, <2>2, <2>6 DEF Status, Pending, IInv, TypeOK
    <3>2. \A x \in Msg \ {m} : Status'[x] = Status[x]
      BY <2>1, <2>6 DEF Status, Pending, IInv, TypeOK
    <3> QED
      BY <2>3, <3>1, <3>2, StutterOrLose
  <2>7. CASE handed' = handed /\ spc' = [spc EXCEPT ![m] = "push"]
    <3>1. \A x \in Msg : Status'[x] = Status[x]
      BY <2>1, <2>7 DEF Status, Pending, IInv, TypeOK
    <3> QED
      BY <3>1, StutterOrLose
  <2> QED
    BY <2>4, <2>5, <2>6, <2>7
<1>4. ASSUME NEW m \in Msg, Push(m)
      PROVE  [Abstract!Next]_Status
  <2>1. /\ spc[m] = "push" /\ queue' = Enqueue(queue, m)
        /\ UNCHANGED <<flush, handed>>
        /\ spc' \in {[spc EXCEPT ![m] = "done"], [spc EXCEPT ![m] = "close"]}
    BY <1>4 DEF Push, runVars
  <2>2. m \in Range(queue') /\ Range(queue') \subseteq Range(queue) \cup {m}
    BY <2>1, EnqueueRange DEF IInv, TypeOK
  <2>3. Status'[m] = Status[m]
    BY <2>1, <2>2 DEF Status, Pending, IInv, TypeOK
  <2>4. ASSUME NEW x \in Msg, x # m
        PROVE  \/ Status'[x] = Status[x]
               \/ Status[x] = "pending" /\ Status'[x] = "lost"
    BY <2>1, <2>2, <2>4 DEF Status, Pending, IInv, TypeOK
  <2> QED
    BY <2>3, <2>4, StutterOrLose
<1>5. ASSUME NEW m \in Msg, SendClose(m)
      PROVE  [Abstract!Next]_Status
  <2>1. Unmoved /\ spc[m] = "close" /\ spc' = [spc EXCEPT ![m] = "done"]
    BY <1>5 DEF SendClose, runVars, queueVars
  <2>2. \A x \in Msg : Status'[x] = Status[x]
    BY <2>1 DEF Status, Pending, IInv, TypeOK
  <2> QED
    BY <2>2, StutterOrLose
<1>6. CASE PopAll
  <2>1. queue' = <<>> /\ flush' = queue /\ flush = <<>> /\ UNCHANGED <<handed, spc>>
    BY <1>6 DEF PopAll, sendVars, IInv, Progress
  <2>2. \A x \in Msg : Pending(x)' <=> Pending(x)
    BY <2>1 DEF Pending
  <2>3. \A x \in Msg : Status'[x] = Status[x]
    BY <2>1, <2>2, Zenon DEF Status
  <2> QED
    BY <2>3, StutterOrLose
<1>7. CASE FlushOne
  <2> DEFINE h == Head(flush)
  <2>1. /\ flush # <<>> /\ flush' = Tail(flush)
        /\ UNCHANGED <<queue, spc>>
        /\ HandOver(h) \/ handed' = handed
    BY <1>7, Zenon DEF FlushOne, queueVars, sendVars
  <2>2. /\ h \in Range(flush)
        /\ h \notin Range(flush') \cup Range(queue)
        /\ Range(flush) = {h} \cup Range(flush')
    BY <2>1, HeadIsAlone
  <2>3. handed[h] = 0 /\ h \in Msg /\ h \in Range(pushed)
    BY <2>2, RangeOf DEF IInv, TypeOK, Kept
  <2> HIDE DEF h
  <2>4. spc[h] \notin {"new", "write", "push"}
    BY <2>3 DEF IInv, Unsent
  <2>5. Status[h] = "pending"
    BY <2>2, <2>3, <2>4 DEF Status, Pending
  <2>6. CASE handed' = handed
    <3>1. Status'[h] = "lost"
      BY <2>1, <2>2, <2>3, <2>4, <2>6 DEF Status, Pending
    <3>2. \A x \in Msg \ {h} : Status'[x] = Status[x]
      BY <2>1, <2>2, <2>6 DEF Status, Pending
    <3> QED
      BY <2>3, <2>5, <3>1, <3>2, StutterOrLose
  <2>7. CASE HandOver(h)
    <3>1. handed' = [handed EXCEPT ![h] = 1]
      BY <2>3, <2>7 DEF HandOver, IInv, TypeOK
    <3>2. Status'[h] = "handed"
      BY <2>3, <3>1 DEF Status, IInv, TypeOK
    <3>3. \A x \in Msg \ {h} : Status'[x] = Status[x]
      BY <2>1, <2>2, <3>1 DEF Status, Pending, IInv, TypeOK
    <3>4. Abstract!Hand(h)
      BY <2>3, <2>5, <3>2, <3>3, OneChanges DEF Abstract!Hand
    <3> QED
      BY <2>3, <3>4 DEF Abstract!Next
  <2> QED
    BY <2>1, <2>6, <2>7
<1>8. CASE Crash
  <2>1. /\ queue' = queue \/ queue' = <<>>
        /\ flush' = <<>> /\ handed' = handed
        /\ spc' = [m \in Msg |-> IF spc[m] = "new" THEN "new" ELSE "done"]
    BY <1>8, Zenon DEF Crash, IInv, TypeOK
  <2>2. Range(<<>>) = {}
    BY DEF Range
  <2>3. Range(queue') \subseteq Range(queue) /\ Range(flush') = {}
    BY <2>1, <2>2
  <2>4. ASSUME NEW x \in Msg
        PROVE  \/ Status'[x] = Status[x]
               \/ Status[x] = "pending" /\ Status'[x] = "lost"
    BY <2>1, <2>3 DEF Status, Pending
  <2> QED
    BY <2>4, StutterOrLose
<1>9. CASE \/ UNCHANGED vars
           \/ Top \/ Wait \/ DialFail \/ GiveUp
           \/ \E s \in Session : Dial(s) \/ Break(s)
           \/ HandshakeFail \/ Install \/ FlushDone
           \/ Check \/ ReadMsg \/ ClearSess \/ CloseConn
           \/ StopCancel \/ StopClose
  <2>1. Unmoved /\ spc' = spc
    BY <1>9
    DEF vars, runVars, queueVars, sendVars, Top, Wait, DialFail, GiveUp, Dial,
        Break, HandshakeFail, Install, FlushDone, Check, ReadMsg, ClearSess,
        CloseConn, StopCancel, StopClose
  <2> QED
    BY <1>1, <2>1
<1> QED
  BY <1>2, <1>3, <1>4, <1>5, <1>6, <1>7, <1>8, <1>9 DEF Next, Run, Send

\* A spoke implements Outbox: what a hub has is not handed over again, since a
\* message is with its Send, in the queue or in the flush only as long as no hub
\* has it, and what was lost, to a full queue, a dead connection or a crash, never
\* turns up late.
THEOREM ImplementsOutbox == Spec => OutboxSpec
<1>1. IInv /\ [Next]_vars => [Abstract!Next]_Status
  BY RefineStep
<1> QED
  BY RefineInit, <1>1, Invariant, PTL DEF Spec, OutboxSpec, Abstract!Spec
===============================================================================
