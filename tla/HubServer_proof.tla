--------------------------- MODULE HubServer_proof ---------------------------
(***************************************************************************)
(* Safety of one hub process for any set of connections, identities and    *)
(* envelopes.  IInv is the inductive invariant; the session tables, the    *)
(* shutdown and the relaying of envelopes each contribute a part.          *)
(***************************************************************************)
EXTENDS HubServer, TLAPS

\* Handlers of the same key that coexist know that they do.
OverlapKnown ==
  \A c \in Conn, d \in Conn :
    d \in Twins(c) /\ pc[c] \in Registered /\ pc[d] \in Registered =>
      c \in overlapped

Sessions == NoDanglingSession /\ OverlapKnown /\ SoleSessionRoutable

Carrying(c) == pc[c] \in {"lookup", "send"}

\* Nobody has written e to a spoke.
Unwritten(e) == \A u \in SpokeConn : <<e, u>> \notin written

\* seen.Add lets one handler at a time, and once, work on an envelope.
CarriedOnce ==
  /\ \A c \in Conn : Carrying(c) => carry[c] \in seen
  /\ \A c, d \in Conn :
       Carrying(c) /\ Carrying(d) /\ carry[c] = carry[d] => c = d
  /\ \A e \in Env, t \in Conn : <<e, t>> \in written => e \in seen

\* A route with a spoke session in it has nothing else, and is the first one.
RouteFirst ==
  /\ \A c \in Conn : pc[c] = "lookup" => Unwritten(carry[c])
  /\ \A c \in Conn : \A t \in route[c] :
       pc[c] = "send" /\ t \in SpokeConn =>
         /\ KeyOf[t] = To[carry[c]]
         /\ route[c] = {t}
         /\ Unwritten(carry[c])

Relaying == CarriedOnce /\ RouteFirst /\ RelayedOnce

\* RouteFirst speaks of To[carry[c]], so carry[c] must be an envelope there.
CarryTyped == \A c \in Conn : Carrying(c) => carry[c] \in Env

IInv == TypeOK /\ CarryTyped /\ Sessions /\ StopClosesRegistered /\ Relaying

-----------------------------------------------------------------------------

\* Every action keeps the types.
LEMMA TypeStep == ASSUME TypeOK, CarryTyped, [Next]_vars
                  PROVE  TypeOK' /\ CarryTyped'
<1> USE ServerAssumption DEF TypeOK, CarryTyped, Carrying, Role
<1>1. CASE UNCHANGED vars
  BY <1>1 DEF vars
<1>2. CASE StopCancel \/ StopClose
  BY <1>2 DEF StopCancel, StopClose
<1>3. ASSUME NEW c \in Conn,
             Accept(c) \/ Hello(c) \/ HelloFail(c) \/ DialPeer(c) \/ Break(c)
      PROVE  TypeOK' /\ CarryTyped'
  BY <1>3 DEF Accept, Hello, HelloFail, DialPeer, Break, Goto
<1>4. ASSUME NEW c \in Conn, Register(c)
      PROVE  TypeOK' /\ CarryTyped'
  BY <1>4 DEF Register, Goto, Twins
<1>5. ASSUME NEW c \in Conn,
             Check(c) \/ ReadFail(c) \/ ReadOther(c) \/ SendDone(c) \/ Close(c)
      PROVE  TypeOK' /\ CarryTyped'
  BY <1>5 DEF Check, ReadFail, ReadOther, SendDone, Close, Goto
<1>6. ASSUME NEW c \in Conn, NEW e \in Env, ReadEnvelope(c, e)
      PROVE  TypeOK' /\ CarryTyped'
  BY <1>6 DEF ReadEnvelope, Goto
<1>7. ASSUME NEW c \in Conn, Lookup(c)
      PROVE  TypeOK' /\ CarryTyped'
  <2>1. carry[c] \in Env
    BY <1>7 DEF Lookup
  <2>2. To[carry[c]] \in Key
    BY <2>1
  <2>3. \A r \in Routes(c, carry[c]) : r \subseteq Conn
    BY <2>2 DEF Routes, PeersBut
  <2> QED BY <1>7, <2>3 DEF Lookup, Goto
<1>8. ASSUME NEW c \in Conn, NEW t \in Conn, SendOne(c, t)
      PROVE  TypeOK' /\ CarryTyped'
  BY <1>8 DEF SendOne
<1>9. ASSUME NEW c \in Conn, Drop(c)
      PROVE  TypeOK' /\ CarryTyped'
  BY <1>9 DEF Drop, Goto
<1> QED
  BY <1>1, <1>2, <1>3, <1>4, <1>5, <1>6, <1>7, <1>8, <1>9
     DEF Next, Handler, ReadReturn

-----------------------------------------------------------------------------

\* Steps that move no handler into or out of Registered and leave the tables.
LEMMA SessionFrame ==
  ASSUME TypeOK, Sessions,
         UNCHANGED <<spokes, hubs, overlapped>>,
         \A c \in Conn : pc'[c] \in Registered <=> pc[c] \in Registered
  PROVE  Sessions'
<1>1. \A r \in Role, k \in Key : Table(r)[k] \in Conn \cup {NoConn}
  BY DEF TypeOK, Table, Role
<1>2. \A r \in Role, k \in Key : Table(r)'[k] = Table(r)[k]
  BY DEF Table, Role
<1> QED
  BY ServerAssumption, <1>1, <1>2
     DEF Sessions, NoDanglingSession, OverlapKnown, SoleSessionRoutable,
         Table, Role, Twins

\* The session tables: registration by replacement, removal by key.
LEMMA SessionStep == ASSUME TypeOK, Sessions, [Next]_vars
                     PROVE  Sessions'
<1> USE ServerAssumption DEF Registered
<1>1. CASE UNCHANGED vars
  BY <1>1, SessionFrame DEF vars
<1>2. CASE StopCancel \/ StopClose
  BY <1>2, SessionFrame DEF StopCancel, StopClose
<1>3. ASSUME NEW c \in Conn,
             Accept(c) \/ Hello(c) \/ HelloFail(c) \/ DialPeer(c) \/ Break(c)
             \/ Check(c) \/ ReadFail(c) \/ ReadOther(c) \/ Lookup(c)
             \/ SendDone(c) \/ Close(c)
      PROVE  Sessions'
  BY <1>3, SessionFrame
     DEF Accept, Hello, HelloFail, DialPeer, Break, Check, ReadFail,
         ReadOther, Lookup, SendDone, Close, Goto, TypeOK
<1>4. ASSUME NEW c \in Conn, NEW e \in Env, ReadEnvelope(c, e)
      PROVE  Sessions'
  BY <1>4, SessionFrame DEF ReadEnvelope, Goto, TypeOK
<1>5. ASSUME NEW c \in Conn, NEW t \in Conn, SendOne(c, t)
      PROVE  Sessions'
  BY <1>5, SessionFrame DEF SendOne
<1>6. ASSUME NEW c \in Conn, Register(c)
      PROVE  Sessions'
  <2> DEFINE rivals == {d \in Twins(c) : pc[d] \in Registered}
  <2>1. /\ pc[c] = "register"
        /\ pc' = [pc EXCEPT ![c] = "check"]
        /\ KeyOf[c] \in Key /\ RoleOf[c] \in Role
    BY <1>6 DEF Register, Goto
  <2>2. \A r \in Role, k \in Key :
          Table(r)'[k] = IF r = RoleOf[c] /\ k = KeyOf[c] THEN c ELSE Table(r)[k]
    BY <1>6, <2>1 DEF Register, Table, Role, TypeOK
  <2>3. overlapped' = IF rivals = {} THEN overlapped
                      ELSE overlapped \cup rivals \cup {c}
    BY <1>6 DEF Register
  <2>4. NoDanglingSession'
    BY <2>1, <2>2 DEF Sessions, NoDanglingSession, TypeOK
  <2>5. OverlapKnown'
    BY <2>1, <2>3 DEF Sessions, OverlapKnown, TypeOK, Twins
  <2>6. SoleSessionRoutable'
    <3> SUFFICES ASSUME NEW d \in Conn,
                        pc'[d] \in Registered, d \notin overlapped'
                 PROVE  Table(RoleOf[d])'[KeyOf[d]] = d
      BY DEF SoleSessionRoutable
    <3>1. CASE d = c
      BY <2>1, <2>2, <3>1
    <3>2. CASE d # c
      <4>1. pc[d] \in Registered /\ d \notin overlapped
        BY <2>1, <2>3, <3>2 DEF TypeOK
      <4>2. d \notin Twins(c)
        BY <4>1, <2>3
      <4>3. ~(RoleOf[d] = RoleOf[c] /\ KeyOf[d] = KeyOf[c])
        BY <4>2, <3>2 DEF Twins
      <4>4. Table(RoleOf[d])[KeyOf[d]] = d
        BY <4>1 DEF Sessions, SoleSessionRoutable
      <4> QED BY <2>2, <4>3, <4>4
    <3> QED BY <3>1, <3>2
  <2> QED BY <2>4, <2>5, <2>6 DEF Sessions
<1>7. ASSUME NEW c \in Conn, Drop(c)
      PROVE  Sessions'
  <2>1. /\ pc[c] = "drop"
        /\ pc' = [pc EXCEPT ![c] = "close"]
        /\ KeyOf[c] \in Key /\ RoleOf[c] \in Role
        /\ overlapped' = overlapped
    BY <1>7 DEF Drop, Goto
  <2>2. \A r \in Role, k \in Key :
          Table(r)'[k] = IF r = RoleOf[c] /\ k = KeyOf[c]
                         THEN NoConn ELSE Table(r)[k]
    BY <1>7, <2>1 DEF Drop, Table, Role, TypeOK
  <2>3. NoDanglingSession'
    BY <2>1, <2>2 DEF Sessions, NoDanglingSession, TypeOK
  <2>4. OverlapKnown'
    BY <2>1 DEF Sessions, OverlapKnown, TypeOK, Twins
  <2>5. SoleSessionRoutable'
    <3> SUFFICES ASSUME NEW d \in Conn,
                        pc'[d] \in Registered, d \notin overlapped
                 PROVE  Table(RoleOf[d])'[KeyOf[d]] = d
      BY <2>1 DEF SoleSessionRoutable
    <3>1. d # c /\ pc[d] \in Registered
      BY <2>1 DEF TypeOK
    <3>2. d \notin Twins(c)
      BY <3>1, <2>1 DEF Sessions, OverlapKnown, Twins
    <3>3. ~(RoleOf[d] = RoleOf[c] /\ KeyOf[d] = KeyOf[c])
      BY <3>1, <3>2 DEF Twins
    <3>4. Table(RoleOf[d])[KeyOf[d]] = d
      BY <3>1 DEF Sessions, SoleSessionRoutable
    <3> QED BY <2>2, <3>3, <3>4
  <2> QED BY <2>3, <2>4, <2>5 DEF Sessions
<1> QED
  BY <1>1, <1>2, <1>3, <1>4, <1>5, <1>6, <1>7
     DEF Next, Handler, ReadReturn

-----------------------------------------------------------------------------

\* Stop and the late registrations: no handler starts to read after Stop.
LEMMA StopStep == ASSUME TypeOK, Sessions, StopClosesRegistered, [Next]_vars
                  PROVE  StopClosesRegistered'
<1> USE ServerAssumption DEF StopClosesRegistered, TypeOK, Table, Role
<1>1. CASE UNCHANGED vars
  BY <1>1 DEF vars
<1>2. CASE StopCancel
  BY <1>2 DEF StopCancel
<1>3. CASE StopClose
  BY <1>3 DEF StopClose
<1>4. ASSUME NEW c \in Conn,
             Accept(c) \/ Hello(c) \/ HelloFail(c) \/ DialPeer(c) \/ Break(c)
             \/ ReadFail(c) \/ ReadOther(c) \/ Lookup(c)
             \/ SendDone(c) \/ Close(c)
      PROVE  StopClosesRegistered'
  BY <1>4 DEF Accept, Hello, HelloFail, DialPeer, Break, ReadFail,
              ReadOther, Lookup, SendDone, Close, Goto
<1>5. ASSUME NEW c \in Conn, Check(c)
      PROVE  StopClosesRegistered'
  BY <1>5 DEF Check, Goto, CtxDone
<1>6. ASSUME NEW c \in Conn, NEW e \in Env, ReadEnvelope(c, e)
      PROVE  StopClosesRegistered'
  BY <1>6 DEF ReadEnvelope, Goto
<1>7. ASSUME NEW c \in Conn, NEW t \in Conn, SendOne(c, t)
      PROVE  StopClosesRegistered'
  BY <1>7 DEF SendOne
<1>8. ASSUME NEW c \in Conn, Register(c)
      PROVE  StopClosesRegistered'
  BY <1>8 DEF Register, Goto
<1>9. ASSUME NEW c \in Conn, Drop(c)
      PROVE  StopClosesRegistered'
  BY <1>9 DEF Drop, Goto
<1> QED
  BY <1>1, <1>2, <1>3, <1>4, <1>5, <1>6, <1>7, <1>8, <1>9
     DEF Next, Handler, ReadReturn

-----------------------------------------------------------------------------

\* Steps that leave forward() alone in every handler.
LEMMA RelayFrame ==
  ASSUME TypeOK, Relaying,
         UNCHANGED <<seen, carry, route, written>>,
         \A c \in Conn : Carrying(c)' => pc'[c] = pc[c]
  PROVE  Relaying'
BY DEF Relaying, CarriedOnce, RouteFirst, RelayedOnce, Carrying, Unwritten,
       SpokeConn

\* One envelope, one handler, one route, one spoke.
LEMMA RelayStep == ASSUME TypeOK, CarryTyped, Sessions, Relaying, [Next]_vars
                   PROVE  Relaying'
<1> USE ServerAssumption DEF Carrying
<1>1. CASE UNCHANGED vars
  BY <1>1, RelayFrame DEF vars
<1>2. CASE StopCancel \/ StopClose
  BY <1>2, RelayFrame DEF StopCancel, StopClose
<1>3. ASSUME NEW c \in Conn,
             Accept(c) \/ Hello(c) \/ HelloFail(c) \/ DialPeer(c) \/ Break(c)
             \/ Check(c) \/ ReadFail(c) \/ ReadOther(c) \/ Register(c)
             \/ Drop(c) \/ Close(c)
      PROVE  Relaying'
  BY <1>3, RelayFrame
     DEF Accept, Hello, HelloFail, DialPeer, Break, Check, ReadFail,
         ReadOther, Register, Drop, Close, Goto, TypeOK
<1>4. ASSUME NEW c \in Conn, NEW e \in Env, ReadEnvelope(c, e)
      PROVE  Relaying'
  <2>1. /\ e \notin seen /\ seen' = seen \cup {e}
        /\ carry' = [carry EXCEPT ![c] = e]
        /\ pc[c] = "read" /\ pc' = [pc EXCEPT ![c] = "lookup"]
        /\ UNCHANGED <<route, written>>
    BY <1>4 DEF ReadEnvelope, Goto
  <2>2. CarriedOnce'
    BY <2>1 DEF Relaying, CarriedOnce, TypeOK
  <2>3. RouteFirst'
    <3>1. Unwritten(e)
      BY <2>1 DEF Relaying, CarriedOnce, Unwritten, SpokeConn
    <3> QED BY <2>1, <3>1 DEF Relaying, RouteFirst, TypeOK, Unwritten
  <2>4. RelayedOnce'
    BY <2>1 DEF Relaying, RelayedOnce
  <2> QED BY <2>2, <2>3, <2>4 DEF Relaying
<1>5. ASSUME NEW c \in Conn, Lookup(c)
      PROVE  Relaying'
  <2>1. PICK r \in Routes(c, carry[c]) : route' = [route EXCEPT ![c] = r]
    BY <1>5 DEF Lookup
  <2>2. /\ pc[c] = "lookup" /\ pc' = [pc EXCEPT ![c] = "send"]
        /\ UNCHANGED <<spokes, hubs, seen, carry, written>>
    BY <1>5 DEF Lookup, Goto
  <2>3. CarriedOnce'
    BY <2>2 DEF Relaying, CarriedOnce, TypeOK
  <2>4. Unwritten(carry[c]) /\ carry[c] \in Env /\ To[carry[c]] \in Key
    BY <2>2 DEF Relaying, RouteFirst, CarryTyped
  <2>5. \A t \in r : t \in SpokeConn => KeyOf[t] = To[carry[c]] /\ r = {t}
    <3>1. CASE spokes[To[carry[c]]] # NoConn
      <4>1. r = {spokes[To[carry[c]]]}
        BY <3>1 DEF Routes
      <4>2. KeyOf[spokes[To[carry[c]]]] = To[carry[c]]
        BY <3>1, <2>4 DEF Sessions, NoDanglingSession, Table, Role
      <4> QED BY <4>1, <4>2
    <3>2. CASE spokes[To[carry[c]]] = NoConn
      <4>1. r \subseteq PeersBut(c)
        BY <3>2 DEF Routes
      <4>2. \A t \in PeersBut(c) : RoleOf[t] = "hub"
        BY DEF PeersBut, Sessions, NoDanglingSession, Table, Role
      <4> QED BY <4>1, <4>2 DEF SpokeConn
    <3> QED BY <3>1, <3>2
  <2>6. RouteFirst'
    <3>1. route'[c] = r
      BY <2>1 DEF TypeOK
    <3>2. \A d \in Conn \ {c} : route'[d] = route[d] /\ pc'[d] = pc[d]
      BY <2>1, <2>2 DEF TypeOK
    <3> QED BY <2>2, <2>4, <2>5, <3>1, <3>2
            DEF Relaying, RouteFirst, Unwritten, TypeOK
  <2>7. RelayedOnce'
    BY <2>2 DEF Relaying, RelayedOnce
  <2> QED BY <2>3, <2>6, <2>7 DEF Relaying
<1>6. ASSUME NEW c \in Conn, NEW t \in Conn, SendOne(c, t)
      PROVE  Relaying'
  <2>1. /\ pc[c] = "send" /\ t \in route[c]
        /\ route' = [route EXCEPT ![c] = route[c] \ {t}]
        /\ UNCHANGED <<pc, seen, carry>>
        /\ written' = written \/ written' = written \cup {<<carry[c], t>>}
    BY <1>6 DEF SendOne
  <2>2. carry[c] \in Env /\ carry[c] \in seen
    BY <2>1 DEF CarryTyped, Relaying, CarriedOnce
  <2>3. CarriedOnce'
    BY <2>1, <2>2 DEF Relaying, CarriedOnce
  <2>4. CASE t \in SpokeConn
    <3>1. KeyOf[t] = To[carry[c]] /\ route'[c] = {} /\ Unwritten(carry[c])
      BY <2>1, <2>4 DEF Relaying, RouteFirst, TypeOK
    <3>2. \A d \in Conn \ {c} :
            /\ route'[d] = route[d]
            /\ Carrying(d) => carry[d] # carry[c]
      BY <2>1 DEF Relaying, CarriedOnce, TypeOK
    <3>3. \A e : e # carry[c] => (Unwritten(e)' <=> Unwritten(e))
      BY <2>1 DEF Unwritten
    <3>4. RouteFirst'
      BY <2>1, <3>1, <3>2, <3>3 DEF Relaying, RouteFirst
    <3>5. RelayedOnce'
      BY <2>1, <3>1 DEF Relaying, RelayedOnce, Unwritten
    <3> QED BY <2>3, <3>4, <3>5 DEF Relaying
  <2>5. CASE t \notin SpokeConn
    <3>1. \A e : Unwritten(e)' <=> Unwritten(e)
      BY <2>1, <2>5 DEF Unwritten
    <3>2. \A d \in Conn \ {c} : route'[d] = route[d]
      BY <2>1 DEF TypeOK
    <3>3. \A u \in route[c] : u \notin SpokeConn
      BY <2>1, <2>5 DEF Relaying, RouteFirst
    <3>4. route'[c] \subseteq route[c]
      BY <2>1 DEF TypeOK
    <3>5. RouteFirst'
      BY <2>1, <3>1, <3>2, <3>3, <3>4 DEF Relaying, RouteFirst
    <3>6. RelayedOnce'
      BY <2>1, <2>5 DEF Relaying, RelayedOnce
    <3> QED BY <2>3, <3>5, <3>6 DEF Relaying
  <2> QED BY <2>4, <2>5
<1>7. ASSUME NEW c \in Conn, SendDone(c)
      PROVE  Relaying'
  BY <1>7 DEF SendDone, Goto, TypeOK, Relaying, CarriedOnce, RouteFirst,
              RelayedOnce, Unwritten
<1> QED
  BY <1>1, <1>2, <1>3, <1>4, <1>5, <1>6, <1>7
     DEF Next, Handler, ReadReturn

-----------------------------------------------------------------------------

\* The invariant holds initially.
LEMMA InitIInv == Init => IInv
BY ServerAssumption
   DEF Init, IInv, TypeOK, CarryTyped, Carrying, Sessions, NoDanglingSession,
       OverlapKnown, SoleSessionRoutable, Registered, Table, Role,
       StopClosesRegistered, Relaying, CarriedOnce, RouteFirst, RelayedOnce

\* Every step keeps it, and so it holds for ever.
LEMMA Inductive == Spec => []IInv
<1>1. IInv /\ [Next]_vars => IInv'
  BY TypeStep, SessionStep, StopStep, RelayStep DEF IInv
<1> QED BY InitIInv, <1>1, PTL DEF Spec

\* Every variable of the hub stays in its domain; in particular forward()
\* never writes to a session that is not there.
THEOREM TypeCorrect == Spec => []TypeOK
BY Inductive, PTL DEF IInv

\* An entry of s.spokes or s.hubs belongs to a handler whose drop() has yet to
\* run, for any number of reconnecting installs.
THEOREM NoDanglingSessionHolds == Spec => []NoDanglingSession
BY Inductive, PTL DEF IInv, Sessions

\* A session that never shared its key with an older handler stays in its
\* table until its own handler leaves the read loop.
THEOREM SoleSessionRoutableHolds == Spec => []SoleSessionRoutable
BY Inductive, PTL DEF IInv, Sessions

\* After Server.Stop no handler is blocked reading a listed session that is
\* still open.
THEOREM StopClosesRegisteredHolds == Spec => []StopClosesRegistered
BY Inductive, PTL DEF IInv

\* The hub writes an envelope to at most one spoke session, its addressee's.
THEOREM RelayedOnceHolds == Spec => []RelayedOnce
BY Inductive, PTL DEF IInv, Relaying
=============================================================================
