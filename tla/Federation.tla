------------------------------ MODULE Federation ------------------------------
(***************************************************************************)
(* Hubs that peer with hubs, and the spokes attached to them: presence     *)
(* gossip, the location tables it fills, and the relaying of envelopes     *)
(* (hub/server.go: onMsg, forward, gossipLocal, fanoutGossip, drop;        *)
(* hub/spoke.go: readLoop, handleEnvelope).                                *)
(*                                                                         *)
(* Every connection is a FIFO channel in each direction, and a frame's     *)
(* handler is one step; what happens inside one hub between the locks of   *)
(* a handler is the subject of modules HubServer and GossipOrder.          *)
(*                                                                         *)
(* Links between hubs may break and hubs may be restarted: a hub dials its *)
(* peers once in each life (hub/server.go: Start, dialPeer).               *)
(***************************************************************************)
EXTENDS Integers, SequencesExt

CONSTANTS Hub,
          Spoke,
          Env,       \* envelope ids
          From, To,  \* the sender and the addressee of an envelope
          Setups,    \* the ways hubs and spokes may be set up
          None

Node == Hub \cup Spoke
Fault == {"leave", "restart", "cut"}

\* Of a setup: <<a, b>> in dials says that hub a has hub b's invite as a --peer;
\* invites are the hubs whose invites a spoke has; bound says how often spokes
\* leave their hub, hubs restart and links break; and if it is calm, nothing of
\* that and no new session or message comes before all traffic has ended.
Setup == [dials   : SUBSET (Hub \X Hub),
          invites : [Spoke -> SUBSET Hub],
          bound   : [Fault -> Nat],
          calm    : BOOLEAN]

ASSUME FederationAssumption ==
  /\ Hub \cap Spoke = {}
  /\ From \in [Env -> Spoke]
  /\ To \in [Env -> Spoke]
  /\ \A s \in Setups : s \in Setup /\ \A d \in s.dials : d[1] # d[2]
  /\ None \notin Node

VARIABLES setup,
          at,       \* the hub a spoke holds a session with
          known,    \* sp.peers: the installs whose X25519 key a spoke has
          spokes,   \* s.spokes of each hub
          hubs,     \* s.hubs of each hub
          where,    \* s.where of each hub
          seq,      \* s.seq of each hub
          gseen,    \* s.gseen of each hub
          seen,     \* s.seen of each hub
          dialled,  \* the dials that were made in the dialling hub's life
          links,    \* those whose connection is up
          chan,     \* frames on their way from one node to another
          faults,   \* how often each fault has happened
          sent,     \* history: envelopes that were sent
          roamed,   \* history: those of which an end changed its session
          stranded, \* history: those that hubs or links failed under
          arrived,  \* history: how often an envelope reached its addressee
          opened    \* history: those the addressee could decrypt

tables  == <<spokes, hubs, where, seq, gseen>>
net     == <<setup, dialled, links, faults>>
history == <<sent, roamed, stranded, arrived, opened>>
vars == <<at, known, tables, seen, chan, net, history>>

Init ==
  /\ setup \in Setups
  /\ at = [p \in Spoke |-> None]
  /\ known = [p \in Spoke |-> {}]
  /\ spokes = [h \in Hub |-> {}]
  /\ hubs = [h \in Hub |-> {}]
  /\ where = [h \in Hub |-> [p \in Spoke |-> None]]
  /\ seq = [h \in Hub |-> 0]
  /\ gseen = [h \in Hub |-> [o \in Hub |-> 0]]
  /\ seen = [h \in Hub |-> {}]
  /\ chan = [c \in Node \X Node |-> <<>>]
  /\ dialled = {} /\ links = {}
  /\ faults = [f \in Fault |-> 0]
  /\ sent = {} /\ roamed = {} /\ stranded = {} /\ opened = {}
  /\ arrived = [e \in Env |-> 0]

Presence == [type |-> "presence"]
Envelope(e) == [type |-> "envelope", id |-> e]
Gossip(h, n, P) == [type |-> "gossip", hub |-> h, seq |-> n, entries |-> P]

\* Channels ch after node n has written m to every node of T.
SendTo(ch, n, T, m) ==
  [c \in Node \X Node |-> IF c[1] = n /\ c[2] \in T THEN Append(ch[c], m)
                                                    ELSE ch[c]]

\* Channels ch after node n has read the next frame from node f.
Read(ch, f, n) == [ch EXCEPT ![<<f, n>>] = Tail(@)]

NextFrame(f, n, type) ==
  chan[<<f, n>>] # <<>> /\ Head(chan[<<f, n>>]).type = type

\* Nobody has a frame to read.
Quiet == \A c \in Node \X Node : chan[c] = <<>>

\* What the environment waits for before it does anything.
Ready == setup.calm => Quiet

Happens(f) == /\ faults[f] < setup.bound[f]
              /\ faults' = [faults EXCEPT ![f] = @ + 1]

Linked(a, b) == <<a, b>> \in links \/ <<b, a>> \in links

\* Whom hub h can write to.  A write to any other session it lists is lost.
Live(h) == {p \in spokes[h] : at[p] = h} \cup {g \in hubs[h] : Linked(g, h)}

-----------------------------------------------------------------------------
(* Gossip                                                                  *)

\* Faulty variant: what was learned from other hubs is left out.
LocalEntriesOnly(h, S, w) == S

\* Faulty variant: the hub's own key is among the entries.
HubListsItself(h, S, w) ==
  {h} \cup {p \in Spoke : w[p] # None /\ (w[p] = h => p \in S)}

\* What hub h with the spokes S and the location table w tells the others of:
\* its spokes, and those last heard of at another hub.
Entries(h, S, w) == {p \in Spoke : w[p] # None /\ (w[p] = h => p \in S)}

\* gossipLocal() of hub h whose tables have just become S (spokes) and H
\* (hubs), of which those in T can be written to.
GossipLocal(h, S, H, T, ch) ==
  LET n == seq[h] + 1
      w == [p \in Spoke |-> IF p \in S THEN h ELSE where[h][p]]
  IN  /\ seq' = [seq EXCEPT ![h] = n]
      /\ gseen' = [gseen EXCEPT ![h][h] = n]
      /\ where' = [where EXCEPT ![h] = w]
      /\ spokes' = [spokes EXCEPT ![h] = S]
      /\ hubs' = [hubs EXCEPT ![h] = H]
      /\ chan' = SendTo(ch, h, T, Gossip(h, n, Entries(h, S, w)))

\* Faulty variant: a gossip is applied and passed on however often it comes.
ReadGossipAgain(f, h) ==
  /\ NextFrame(f, h, "gossip")
  /\ f \in hubs[h]
  /\ LET g == Head(chan[<<f, h>>])
     IN  /\ gseen' = [gseen EXCEPT ![h][g.hub] = g.seq]
         /\ where' = [where EXCEPT ![h] =
              [p \in Spoke |-> IF p \in g.entries THEN g.hub ELSE @[p]]]
         /\ chan' = SendTo(Read(chan, f, h), h,
                           Live(h) \ {f}, g)
  /\ UNCHANGED <<at, known, spokes, hubs, seq, seen, net, history>>

\* Hub h reads a gossip from hub f: applied and passed on once per (hub, seq).
ReadGossip(f, h) ==
  /\ NextFrame(f, h, "gossip")
  /\ f \in hubs[h]
  /\ LET g == Head(chan[<<f, h>>])
         ch == Read(chan, f, h)
     IN  IF g.seq <= gseen[h][g.hub]
         THEN chan' = ch /\ UNCHANGED <<gseen, where>>
         ELSE /\ gseen' = [gseen EXCEPT ![h][g.hub] = g.seq]
              /\ where' = [where EXCEPT ![h] =
                   [p \in Spoke |-> IF p \in g.entries THEN g.hub ELSE @[p]]]
              /\ chan' = SendTo(ch, h, Live(h) \ {f}, g)
  /\ UNCHANGED <<at, known, spokes, hubs, seq, seen, net, history>>

\* A spoke reads a gossip and learns the keys in it.
SpokeGossip(h, p) ==
  /\ NextFrame(h, p, "gossip")
  /\ known' = [known EXCEPT ![p] = @ \cup (Head(chan[<<h, p>>]).entries \ {p})]
  /\ chan' = Read(chan, h, p)
  /\ UNCHANGED <<at, tables, seen, net, history>>

-----------------------------------------------------------------------------
(* Sessions                                                                *)

\* Hub b answers the peer hello of hub a and registers it ...  (When it still
\* has a's previous session: see HubServer.)
AcceptPeer(a, b) ==
  /\ Ready
  /\ <<a, b>> \in setup.dials \ dialled
  /\ a \notin hubs[b]
  /\ dialled' = dialled \cup {<<a, b>>}
  /\ links' = links \cup {<<a, b>>}
  /\ GossipLocal(b, spokes[b], hubs[b] \cup {a}, Live(b) \cup {a}, chan)
  /\ UNCHANGED <<at, known, seen, setup, faults, history>>

\* ... and a registers b when it has the answer.
DialPeer(a, b) ==
  /\ <<a, b>> \in links
  /\ b \notin hubs[a]
  /\ GossipLocal(a, spokes[a], hubs[a] \cup {b}, Live(a) \cup {b}, chan)
  /\ UNCHANGED <<at, known, seen, net, history>>

\* Channels ch without the frames between the nodes of S and those of T.
Without(ch, S, T) ==
  [c \in Node \X Node |-> IF c \in (S \X T) \cup (T \X S) THEN <<>> ELSE ch[c]]

\* The connection of two hubs breaks, with all that is on its way.
Cut(a, b) ==
  /\ Ready
  /\ <<a, b>> \in links
  /\ Happens("cut")
  /\ links' = links \ {<<a, b>>}
  /\ chan' = Without(chan, {a}, {b})
  /\ stranded' = sent
  /\ UNCHANGED <<at, known, tables, seen, setup, dialled, sent, roamed, arrived,
                 opened>>

\* Hub h notices that its connection with g is broken.
DropPeer(h, g) ==
  /\ Ready
  /\ g \in hubs[h]
  /\ ~Linked(g, h)
  /\ GossipLocal(h, spokes[h], hubs[h] \ {g}, Live(h), chan)
  /\ UNCHANGED <<at, known, seen, net, history>>

\* Hub h is started again: nothing is left of its tables, numbers and sessions.
Restart(h) ==
  /\ Ready
  /\ Happens("restart")
  /\ spokes' = [spokes EXCEPT ![h] = {}]
  /\ hubs' = [hubs EXCEPT ![h] = {}]
  /\ where' = [where EXCEPT ![h] = [p \in Spoke |-> None]]
  /\ seq' = [seq EXCEPT ![h] = 0]
  /\ gseen' = [gseen EXCEPT ![h] = [o \in Hub |-> 0]]
  /\ seen' = [seen EXCEPT ![h] = {}]
  /\ dialled' = {d \in dialled : d[1] # h}
  /\ links' = {d \in links : h \notin {d[1], d[2]}}
  /\ at' = [p \in Spoke |-> IF at[p] = h THEN None ELSE at[p]]
  /\ chan' = Without(chan, {h}, Node)
  /\ roamed' = roamed \cup {e \in sent : h \in {at[From[e]], at[To[e]]}}
  /\ stranded' = sent
  /\ UNCHANGED <<known, setup, sent, arrived, opened>>

\* Spoke p gets a session with hub h, which registers it; p announces its
\* presence.  (When h still has p's previous session: see HubServer.)
Connect(p, h) ==
  /\ Ready
  /\ at[p] = None
  /\ h \in setup.invites[p]
  /\ p \notin spokes[h]
  /\ at' = [at EXCEPT ![p] = h]
  /\ GossipLocal(h, spokes[h] \cup {p}, hubs[h], Live(h) \cup {p},
                 SendTo(chan, p, {h}, Presence))
  /\ UNCHANGED <<known, seen, net, history>>

\* Hub h reads p's presence frame: p is here, and everyone is told.
ReadPresence(p, h) ==
  /\ NextFrame(p, h, "presence")
  /\ p \in spokes[h]
  /\ GossipLocal(h, spokes[h], hubs[h], Live(h), Read(chan, p, h))
  /\ UNCHANGED <<at, known, seen, net, history>>

\* p's session ends at p's side: it was stopped or lost its network.
Leave(p) ==
  /\ Ready
  /\ at[p] # None
  /\ Happens("leave")
  /\ at' = [at EXCEPT ![p] = None]
  /\ chan' = [chan EXCEPT ![<<at[p], p>>] = <<>>]
  /\ roamed' = roamed \cup {e \in sent : p \in {From[e], To[e]}}
  /\ UNCHANGED <<known, tables, seen, setup, dialled, links, sent, stranded,
                 arrived, opened>>

\* Hub h notices, sooner or later; frames it has not read are lost.
Drop(p, h) ==
  /\ Ready
  /\ p \in spokes[h]
  /\ at[p] # h
  /\ GossipLocal(h, spokes[h] \ {p}, hubs[h], Live(h),
                 [chan EXCEPT ![<<p, h>>] = <<>>])
  /\ UNCHANGED <<at, known, seen, net, history>>

-----------------------------------------------------------------------------
(* Envelopes                                                               *)

\* The two ends of e hold one session each, and all hubs have peered.
Settled(e) ==
  /\ \A p \in {From[e], To[e]} :
       at[p] # None /\ \A h \in Hub : p \in spokes[h] <=> at[p] = h
  /\ \A d \in setup.dials : d \in links /\ d[1] \in hubs[d[2]] /\ d[2] \in hubs[d[1]]

\* Send() on a live session, to an addressee whose key is known.
Post(e) ==
  /\ Ready
  /\ e \notin sent
  /\ at[From[e]] # None
  /\ To[e] \in known[From[e]]
  /\ sent' = sent \cup {e}
  /\ stranded' = IF Settled(e) THEN stranded ELSE stranded \cup {e}
  /\ chan' = SendTo(chan, From[e], {at[From[e]]}, Envelope(e))
  /\ UNCHANGED <<at, known, tables, seen, net, roamed, arrived, opened>>

\* Faulty variant: the location table is asked before the session table.
WhereFirst(h, p, f) ==
  IF where[h][p] \in hubs[h] \ {f} THEN {where[h][p]}
  ELSE IF p \in spokes[h] THEN {p}
  ELSE hubs[h] \ {f}

\* Where forward() of hub h writes an envelope for p that came from node f:
\* to p's session if it is here, to the peer where names, or to all others.
NextHops(h, p, f) ==
  IF p \in spokes[h] THEN {p}
  ELSE IF where[h][p] \in hubs[h] \ {f} THEN {where[h][p]}
  ELSE hubs[h] \ {f}

\* Faulty variant: envelopes are not remembered.
ForwardAgain(f, h) ==
  /\ NextFrame(f, h, "envelope")
  /\ f \in hubs[h] \cup spokes[h]
  /\ LET m == Head(chan[<<f, h>>])
     IN  /\ seen' = [seen EXCEPT ![h] = @ \cup {m.id}]
         /\ chan' = SendTo(Read(chan, f, h), h, NextHops(h, To[m.id], f) \cap Live(h), m)
  /\ UNCHANGED <<at, known, tables, net, history>>

\* Hub h reads an envelope; one it has seen goes no further.
Forward(f, h) ==
  /\ NextFrame(f, h, "envelope")
  /\ f \in hubs[h] \cup spokes[h]
  /\ LET m == Head(chan[<<f, h>>])
         ch == Read(chan, f, h)
     IN  /\ seen' = [seen EXCEPT ![h] = @ \cup {m.id}]
         /\ chan' = IF m.id \in seen[h] THEN ch
                    ELSE SendTo(ch, h, NextHops(h, To[m.id], f) \cap Live(h), m)
  /\ UNCHANGED <<at, known, tables, net, history>>

\* handleEnvelope: without the sender's key the envelope is dropped.
Deliver(h, p) ==
  /\ NextFrame(h, p, "envelope")
  /\ LET e == Head(chan[<<h, p>>]).id
     IN  /\ arrived' = [arrived EXCEPT ![e] = IF @ < 2 THEN @ + 1 ELSE 2]
         /\ opened' = IF From[e] \in known[p] THEN opened \cup {e} ELSE opened
  /\ chan' = Read(chan, h, p)
  /\ UNCHANGED <<at, known, tables, seen, net, sent, roamed, stranded>>

-----------------------------------------------------------------------------

\* A frame is read.
Receive ==
  \/ \E f, h \in Hub : ReadGossip(f, h)
  \/ \E f \in Node, h \in Hub : Forward(f, h)
  \/ \E p \in Spoke, h \in Hub :
       SpokeGossip(h, p) \/ Deliver(h, p) \/ ReadPresence(p, h)

Next ==
  \/ Receive
  \/ \E a, b \in Hub :
       AcceptPeer(a, b) \/ DialPeer(a, b) \/ Cut(a, b) \/ DropPeer(a, b)
  \/ \E h \in Hub : Restart(h)
  \/ \E p \in Spoke, h \in Hub : Connect(p, h) \/ Drop(p, h)
  \/ \E p \in Spoke : Leave(p)
  \/ \E e \in Env : Post(e)

Spec == Init /\ [][Next]_vars

\* Frames are read, and a hub that waits for its peer's answer gets it.
Fairness == /\ WF_vars(Receive)
            /\ WF_vars(\E a, b \in Hub : DialPeer(a, b))

FairSpec == Spec /\ Fairness

-----------------------------------------------------------------------------
(* Properties                                                              *)

Frame == {Presence}
         \cup [type : {"envelope"}, id : Env]
         \cup [type : {"gossip"}, hub : Hub, seq : Nat, entries : SUBSET Spoke]

TypeOK ==
  /\ at \in [Spoke -> Hub \cup {None}]
  /\ known \in [Spoke -> SUBSET Spoke]
  /\ spokes \in [Hub -> SUBSET Spoke]
  /\ hubs \in [Hub -> SUBSET Hub]
  /\ where \in [Hub -> [Spoke -> Hub \cup {None}]]
  /\ seq \in [Hub -> Nat]
  /\ gseen \in [Hub -> [Hub -> Nat]]
  /\ seen \in [Hub -> SUBSET Env]
  /\ chan \in [Node \X Node -> Seq(Frame)]
  /\ setup \in Setups
  /\ links \subseteq dialled /\ dialled \subseteq setup.dials
  /\ faults \in [Fault -> Nat] /\ \A f \in Fault : faults[f] <= setup.bound[f]
  /\ sent \subseteq Env
  /\ arrived \in [Env -> 0..2]

\* An envelope whose two ends kept their sessions, while no link or hub failed,
\* has reached its addressee once everything is read, wherever the two are
\* attached and whatever the location tables and the numbering of gossip went
\* through before, restarts included (acceptance_test.go:175-197).
DeliveredAtRest ==
  Quiet => \A e \in sent \ (roamed \cup stranded) : arrived[e] > 0

\* ... and never reaches it twice, although hubs flood what they cannot route,
\* whatever links and hubs fail.
ArrivesOnce == \A e \in Env \ roamed : arrived[e] <= 1

\* ... and can be opened when it arrives: the sender's key, which travels as
\* gossip, never comes after the envelope.  Once a spoke has moved or a hub was
\* restarted this is not so: a hub leaves spokes it has dropped out of its
\* gossip, and a restarted hub is not listened to for a while.
OpenedOnArrival ==
  faults["leave"] + faults["restart"] = 0 =>
    \A e \in Env \ (roamed \cup stranded) : arrived[e] > 0 => e \in opened

\* No gossip or envelope circulates for ever, not even in a ring of hubs.
Settles == []<>Quiet
===============================================================================
