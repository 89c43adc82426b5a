------------------------------ MODULE HubServer ------------------------------
(***************************************************************************)
(* One hub process (hub/server.go): the handler goroutines of its          *)
(* connections, the session tables they share, the relaying of envelopes   *)
(* and Server.Stop.                                                        *)
(*                                                                         *)
(* A connection is used once.  Its handler goroutine is a process whose    *)
(* program counter is pc[c]; one action is one critical section of s.mu    *)
(* (or of seenIDs.mu), one blocking read, or one write to a session:       *)
(*                                                                         *)
(*   "idle"      not accepted or dialled yet                               *)
(*   "hello"     handleConn waits for the first frame                      *)
(*   "register"  handshake answered, table entry not written yet           *)
(*   "check"     top of the read loop: select on ctx.Done                  *)
(*   "read"      blocked in ReadMsg                                        *)
(*   "lookup"    forward(): envelope is new, route not looked up yet       *)
(*   "send"      forward(): s.mu released, frames of route[c] to write     *)
(*   "drop"      read loop left, deferred drop() has not run               *)
(*   "close"     deferred c.Close() has not run                            *)
(*   "done"      goroutine finished                                        *)
(*                                                                         *)
(* Presence tables (where, gossip) are modelled in module Federation; here *)
(* the route to another hub is any the tables could give.                  *)
(***************************************************************************)
EXTENDS FiniteSets

CONSTANTS Conn,     \* connections, inbound and outbound
          Key,      \* Ed25519 identities, in hex
          Env,      \* envelope ids
          KeyOf,    \* the identity in the connection's signed hello
          RoleOf,   \* its role, RoleSpoke or RoleHub
          To,       \* the addressee of an envelope
          NoConn,   \* "no entry" in a session table
          NoEnv     \* no envelope in hand

Role == {"spoke", "hub"}

ASSUME ServerAssumption ==
  /\ KeyOf \in [Conn -> Key]
  /\ RoleOf \in [Conn -> Role]
  /\ To \in [Env -> Key]
  /\ NoConn \notin Conn
  /\ NoEnv \notin Env

VARIABLES pc,         \* program counter of each connection's handler
          spokes,     \* s.spokes: key -> session
          hubs,       \* s.hubs: key -> session
          closed,     \* connections one of whose ends has closed
          stopPc,     \* progress of Server.Stop
          seen,       \* s.seen: envelope ids already handled
          carry,      \* the envelope forward() works on in each handler
          route,      \* the sessions forward() still has to write to
          written,    \* history: <<envelope, session>> frames written
          overlapped  \* history: sessions that shared their key in time

vars == <<pc, spokes, hubs, closed, stopPc, seen, carry, route, written,
          overlapped>>

SpokeConn == {c \in Conn : RoleOf[c] = "spoke"}
HubConn   == {c \in Conn : RoleOf[c] = "hub"}

\* Connections of the same install in the same table.
Twins(c) == {d \in Conn \ {c} : KeyOf[d] = KeyOf[c] /\ RoleOf[d] = RoleOf[c]}

\* From the table write in handleConn / handlePeerSession up to drop().
Registered == {"check", "read", "lookup", "send", "drop"}

Table(r) == IF r = "spoke" THEN spokes ELSE hubs

CtxDone == stopPc # "run"

Init ==
  /\ pc = [c \in Conn |-> "idle"]
  /\ spokes = [k \in Key |-> NoConn]
  /\ hubs = [k \in Key |-> NoConn]
  /\ closed = {}
  /\ stopPc = "run"
  /\ seen = {}
  /\ carry = [c \in Conn |-> NoEnv]
  /\ route = [c \in Conn |-> {}]
  /\ written = {}
  /\ overlapped = {}

Goto(c, l) == pc' = [pc EXCEPT ![c] = l]

-----------------------------------------------------------------------------
(* Connecting                                                              *)

\* acceptLoop hands an inbound connection to a new handleConn goroutine.  A
\* spoke dials again only after it has closed its previous connection
\* (connectOnce); a peer hub may hold several connections at once.
Accept(c) ==
  /\ pc[c] = "idle"
  /\ RoleOf[c] = "spoke" => \A d \in Twins(c) : pc[d] # "idle" => d \in closed
  /\ Goto(c, "hello")
  /\ UNCHANGED <<spokes, hubs, closed, stopPc, seen, carry, route, written,
                 overlapped>>

\* The first frame is a valid hello and hello_ok / peer_ok was written.
Hello(c) ==
  /\ pc[c] = "hello"
  /\ c \notin closed
  /\ Goto(c, "register")
  /\ UNCHANGED <<spokes, hubs, closed, stopPc, seen, carry, route, written,
                 overlapped>>

\* Faulty variant: drop() is deferred before the handshake has succeeded.
HelloFailDrops(c) ==
  /\ pc[c] = "hello"
  /\ Goto(c, "done")
  /\ spokes' = [spokes EXCEPT ![KeyOf[c]] = NoConn]
  /\ closed' = closed \cup {c}
  /\ UNCHANGED <<hubs, stopPc, seen, carry, route, written, overlapped>>

\* Read error, deadline, wrong type, bad signature or failed reply: return.
HelloFail(c) ==
  /\ pc[c] = "hello"
  /\ Goto(c, "done")
  /\ closed' = closed \cup {c}
  /\ UNCHANGED <<spokes, hubs, stopPc, seen, carry, route, written,
                 overlapped>>

\* dialPeer completed its handshake and started handlePeerSession.
DialPeer(c) ==
  /\ pc[c] = "idle"
  /\ RoleOf[c] = "hub"
  /\ Goto(c, "register")
  /\ UNCHANGED <<spokes, hubs, closed, stopPc, seen, carry, route, written,
                 overlapped>>

\* The session replaces whatever entry its key had.
Register(c) ==
  /\ pc[c] = "register"
  /\ Goto(c, "check")
  /\ IF RoleOf[c] = "hub"
     THEN hubs' = [hubs EXCEPT ![KeyOf[c]] = c] /\ UNCHANGED spokes
     ELSE spokes' = [spokes EXCEPT ![KeyOf[c]] = c] /\ UNCHANGED hubs
  /\ LET rivals == {d \in Twins(c) : pc[d] \in Registered}
     IN  overlapped' = IF rivals = {} THEN overlapped
                       ELSE overlapped \cup rivals \cup {c}
  /\ UNCHANGED <<closed, stopPc, seen, carry, route, written>>

-----------------------------------------------------------------------------
(* The read loop and forward()                                             *)

\* Faulty variant: the read loop does not look at the context.
CheckNoCtx(c) ==
  /\ pc[c] = "check"
  /\ Goto(c, "read")
  /\ UNCHANGED <<spokes, hubs, closed, stopPc, seen, carry, route, written,
                 overlapped>>

Check(c) ==
  /\ pc[c] = "check"
  /\ Goto(c, IF CtxDone THEN "drop" ELSE "read")
  /\ UNCHANGED <<spokes, hubs, closed, stopPc, seen, carry, route, written,
                 overlapped>>

\* ReadMsg fails: the connection was closed, or nothing arrived in time.
ReadFail(c) ==
  /\ pc[c] = "read"
  /\ Goto(c, "drop")
  /\ UNCHANGED <<spokes, hubs, closed, stopPc, seen, carry, route, written,
                 overlapped>>

\* A frame onMsg handles without touching a session table (ping, pong,
\* presence, gossip), and an envelope forward() drops as already seen.
ReadOther(c) ==
  /\ pc[c] = "read"
  /\ c \notin closed
  /\ Goto(c, "check")
  /\ UNCHANGED <<spokes, hubs, closed, stopPc, seen, carry, route, written,
                 overlapped>>

\* Faulty variant: duplicates are not recognised.
ReadEnvelopeAgain(c, e) ==
  /\ pc[c] = "read"
  /\ c \notin closed
  /\ seen' = seen \cup {e}
  /\ carry' = [carry EXCEPT ![c] = e]
  /\ Goto(c, "lookup")
  /\ UNCHANGED <<spokes, hubs, closed, stopPc, route, written, overlapped>>

\* An envelope passes Verify and seen.Add.
ReadEnvelope(c, e) ==
  /\ pc[c] = "read"
  /\ c \notin closed
  /\ e \notin seen
  /\ seen' = seen \cup {e}
  /\ carry' = [carry EXCEPT ![c] = e]
  /\ Goto(c, "lookup")
  /\ UNCHANGED <<spokes, hubs, closed, stopPc, route, written, overlapped>>

PeersBut(c) == {hubs[k] : k \in Key} \ {NoConn, c}

\* Faulty variant: the comma-ok result of s.spokes[to] is ignored.
RoutesUnchecked(c, e) == {{spokes[To[e]]}}

\* The session sets forward() may choose under s.mu.RLock: the local spoke if
\* there is one; otherwise the peer the presence tables name, or every peer
\* but the one the envelope came from.
Routes(c, e) ==
  IF spokes[To[e]] # NoConn
  THEN {{spokes[To[e]]}}
  ELSE {{h} : h \in PeersBut(c)} \cup {PeersBut(c)}

Lookup(c) ==
  /\ pc[c] = "lookup"
  /\ \E r \in Routes(c, carry[c]) : route' = [route EXCEPT ![c] = r]
  /\ Goto(c, "send")
  /\ UNCHANGED <<spokes, hubs, closed, stopPc, seen, carry, written,
                 overlapped>>

\* sess.send outside the lock; its error is ignored.
SendOne(c, t) ==
  /\ pc[c] = "send"
  /\ t \in route[c]
  /\ route' = [route EXCEPT ![c] = @ \ {t}]
  /\ written' = IF t \in closed THEN written
                ELSE written \cup {<<carry[c], t>>}
  /\ UNCHANGED <<pc, spokes, hubs, closed, stopPc, seen, carry, overlapped>>

SendDone(c) ==
  /\ pc[c] = "send"
  /\ route[c] = {}
  /\ carry' = [carry EXCEPT ![c] = NoEnv]
  /\ Goto(c, "check")
  /\ UNCHANGED <<spokes, hubs, closed, stopPc, seen, route, written,
                 overlapped>>

-----------------------------------------------------------------------------
(* Disconnecting and stopping                                              *)

\* The far end closes, or the path dies; the handler notices in ReadFail.
Break(c) ==
  /\ pc[c] \notin {"idle", "done"}
  /\ c \notin closed
  /\ closed' = closed \cup {c}
  /\ UNCHANGED <<pc, spokes, hubs, stopPc, seen, carry, route, written,
                 overlapped>>

\* Faulty variant: drop() ignores the role.
DropSpokeOnly(c) ==
  /\ pc[c] = "drop"
  /\ Goto(c, "close")
  /\ spokes' = [spokes EXCEPT ![KeyOf[c]] = NoConn]
  /\ UNCHANGED <<hubs, closed, stopPc, seen, carry, route, written, overlapped>>

\* drop(key, role): deletes the key's entry, whichever session holds it.
Drop(c) ==
  /\ pc[c] = "drop"
  /\ Goto(c, "close")
  /\ IF RoleOf[c] = "hub"
     THEN hubs' = [hubs EXCEPT ![KeyOf[c]] = NoConn] /\ UNCHANGED spokes
     ELSE spokes' = [spokes EXCEPT ![KeyOf[c]] = NoConn] /\ UNCHANGED hubs
  /\ UNCHANGED <<closed, stopPc, seen, carry, route, written, overlapped>>

Close(c) ==
  /\ pc[c] = "close"
  /\ Goto(c, "done")
  /\ closed' = closed \cup {c}
  /\ UNCHANGED <<spokes, hubs, stopPc, seen, carry, route, written,
                 overlapped>>

\* Server.Stop first cancels the context and closes the listener ...
StopCancel ==
  /\ stopPc = "run"
  /\ stopPc' = "cancelled"
  /\ UNCHANGED <<pc, spokes, hubs, closed, seen, carry, route, written,
                 overlapped>>

\* Faulty variant: the peer links are forgotten.
StopCloseSpokes ==
  /\ stopPc = "cancelled"
  /\ stopPc' = "stopped"
  /\ closed' = closed \cup ({spokes[k] : k \in Key} \ {NoConn})
  /\ UNCHANGED <<pc, spokes, hubs, seen, carry, route, written, overlapped>>

\* ... then takes s.mu and closes every session the tables hold.
StopClose ==
  /\ stopPc = "cancelled"
  /\ stopPc' = "stopped"
  /\ closed' = closed \cup
       (({spokes[k] : k \in Key} \cup {hubs[k] : k \in Key}) \ {NoConn})
  /\ UNCHANGED <<pc, spokes, hubs, seen, carry, route, written, overlapped>>

-----------------------------------------------------------------------------

\* The steps of a handler that only wait for the scheduler.
Handler(c) ==
  \/ Register(c) \/ Check(c) \/ Lookup(c)
  \/ (\E t \in Conn : SendOne(c, t)) \/ SendDone(c)
  \/ Drop(c) \/ Close(c)

\* The returns of a blocking read.
ReadReturn(c) == ReadFail(c) \/ ReadOther(c) \/ (\E e \in Env : ReadEnvelope(c, e))

Next ==
  \/ \E c \in Conn :
       \/ Accept(c) \/ Hello(c) \/ HelloFail(c) \/ DialPeer(c)
       \/ Handler(c) \/ ReadReturn(c) \/ Break(c)
  \/ StopCancel \/ StopClose

Spec == Init /\ [][Next]_vars

\* Whose far end keeps writing: a spoke pings from readLoop every KeepAlive,
\* a peer hub only pings sessions its own table lists, which a link that was
\* never doubled is.
Pinged(c) == RoleOf[c] = "spoke" \/ c \notin overlapped

\* Goroutines are scheduled and Stop, once called, gets s.mu.  The first frame
\* of a program that dialled arrives, or its connection dies.  A read of a
\* closed session returns, and so does one of a session whose far end pings (a
\* dead far end runs into IdleTimeout); a doubled peer link over QUIC may stay
\* silent for ever, since read deadlines have no effect there.  Nothing is
\* assumed of Accept, DialPeer, Break or of the operator calling Stop.
Fairness ==
  /\ \A c \in Conn : /\ WF_vars(Handler(c))
                     /\ WF_vars(Hello(c) \/ HelloFail(c))
                     /\ WF_vars((c \in closed \/ Pinged(c)) /\ ReadReturn(c))
  /\ WF_vars(StopClose)

FairSpec == Spec /\ Fairness

-----------------------------------------------------------------------------
(* Properties                                                              *)

TypeOK ==
  /\ pc \in [Conn -> {"idle", "hello", "register", "check", "read", "lookup",
                      "send", "drop", "close", "done"}]
  /\ spokes \in [Key -> Conn \cup {NoConn}]
  /\ hubs \in [Key -> Conn \cup {NoConn}]
  /\ closed \subseteq Conn
  /\ stopPc \in {"run", "cancelled", "stopped"}
  /\ seen \subseteq Env
  /\ carry \in [Conn -> Env \cup {NoEnv}]
  /\ route \in [Conn -> SUBSET Conn]
  /\ written \subseteq Env \X Conn
  /\ overlapped \subseteq Conn

\* No table entry outlives its handler: whatever the order in which
\* reconnecting handlers register and drop, an entry belongs to a handler that
\* has not run drop() yet, under its own key and in the table of its role.
\* (Otherwise Server would write to, and Status report, a dead session for
\* ever: nothing else removes an entry.)
NoDanglingSession ==
  \A r \in Role, k \in Key :
    Table(r)[k] # NoConn =>
      /\ KeyOf[Table(r)[k]] = k
      /\ RoleOf[Table(r)[k]] = r
      /\ pc[Table(r)[k]] \in Registered

\* A session whose handler never coexisted with another one of the same key is
\* in the table for as long as its handler runs: sessions are lost only by the
\* overlap of an old handler's drop() with a new session.
SoleSessionRoutable ==
  \A c \in Conn :
    pc[c] \in Registered /\ c \notin overlapped =>
      Table(RoleOf[c])[KeyOf[c]] = c

\* Stop cannot leave a handler of a listed session blocked in ReadMsg: either
\* Stop found the session and closed it, or the session was registered after
\* the cancellation, which its handler sees before it reads.
StopClosesRegistered ==
  \A c \in Conn :
    /\ stopPc = "stopped"
    /\ pc[c] = "read"
    /\ Table(RoleOf[c])[KeyOf[c]] = c
    => c \in closed

\* However many handlers receive copies of an envelope at the same time, the
\* hub writes it to at most one spoke session, one of its addressee.
RelayedOnce ==
  \A e \in Env, c, d \in SpokeConn :
    <<e, c>> \in written /\ <<e, d>> \in written =>
      c = d /\ KeyOf[c] = To[e]

\* Once the context is cancelled every handler goroutine ends, except that of
\* a doubled peer link, which Stop only finds if the table lists it.
StopTerminates ==
  CtxDone ~> \A c \in Conn :
               pc[c] \in {"idle", "done"} \/ (RoleOf[c] = "hub" /\ c \in overlapped)

\* What TestFailoverUsesCache (acceptance_test.go:211-226) takes for granted:
\* a spoke that is connected again after losing its session gets its chat, so
\* the hub must have a session for it to relay to.
ConnectedSpokeIsRoutable ==
  \A c \in SpokeConn :
    pc[c] = "read" /\ c \notin closed => spokes[KeyOf[c]] # NoConn

=============================================================================
