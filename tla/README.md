# Starmesh in TLA+

Specifications, model-checking runs and proofs for the Starmesh overlay
(`src/`, Go): hubs that relay between outbound-only spokes, and hubs that peer
with hubs. Paths and line numbers below refer to `src/`.

## 1. The system

| Component | Source | State | Operations |
|---|---|---|---|
| Hub | `hub/server.go` | session tables `spokes` and `hubs`; presence tables `where`, `names`, `xpubs`; gossip state `gseen`, `seq`; envelope ids `seen` | accept / dial a peer, handshake, register, `onMsg`, `forward`, `gossipLocal`, `fanoutGossip`, `drop`, `keepAlive`, `Stop` |
| Spoke | `hub/spoke.go` | `sess`, `hubOK`, `peers`, `failed` | `Run`, `connectOnce`, `handshake`, `readLoop`, `handleEnvelope`, `Send`, `Stop` |
| Offline queue | `hub/queue.go` | `Items` and `queue.json` | `Push`, `PopAll`, `OpenQueue` |
| Hub cache and dial order | `hub/cache.go`, `hub/spoke.go:425-544` | `Hubs` and `cache.json`, `failed` | `Remember`, `Save`, `candidates`, `DialOrder` |
| Envelope ids | `hub/handshake.go:151-176` | id → time | `Add`, with eviction |
| Invites | `invite/codec.go`, `invite/dart/` | none | encode, decode, short codes, resolvers |
| Probe | `hub/capability.go` | none | may this host be a hub, and which addresses may it claim |
| Command line program | `hub/cmd/starmesh/main.go` | the hub's configuration | `hub`, `become-hub`, `spoke`, `invite encode` |
| Envelopes, handshake, transport | `hub/envelope.go`, `hub/handshake.go`, `hub/wire.go`, `hub/transport.go` | sessions with a write lock | seal / open, sign / verify, frames, QUIC and TLS |
| Community list, identity, API, LAN discovery, QR, Flutter app, deployment | rest of `hub/`, `app/`, `deploy/` | files, configuration | I/O and wiring |

How they interact: a spoke dials one hub at a time and keeps one session. A hub
runs one goroutine per connection; all of them share the tables under `s.mu`,
and write to each other's sessions. Every change of the session tables is
announced in a gossip frame to all peers and spokes; hubs pass gossip on,
spokes learn the encryption keys of other spokes from it. An envelope goes from
a spoke to its hub and through `forward` of each hub on the way: to a local
session, to the peer named by `where`, or to all peers but the sender.

How they meet: a machine probes itself, opens its sockets and prints an invite,
as a blob or as a short code. The blob holds all that is needed to dial; the
code is a hash, which a spoke looks up among the hubs it has cached or has from
the community list. Invites outlive what they say: machines change addresses,
hubs are started again with other flags, and caches keep what they were told.

What is hard here: handlers of the same key overlap when a spoke reconnects or
two hubs dial each other; tables are read under a lock and used after it; send
errors are ignored almost everywhere; gossip of several hubs races and is
re-announced; peer links break and hubs restart with their numbers reset; dials
share one deadline; the same address goes through five representations from the
socket to the dial; the queue is emptied before it is sent; and processes stop or
die between any two of these steps. `PROJECT.json` lists each of these hazards
at its line, with the properties aimed at it.

What makes each component correct:

* Hub: the tables describe living handlers only; a connected spoke has an
  entry; an envelope is relayed once; `Stop` ends all handlers.
* Federation: an envelope between two spokes that stay put arrives, once, and
  can be opened; gossip ends and leaves the hubs with current tables.
* Spoke: a message is handed over at most once, in order if it was queued, and
  is not lost silently; `Stop` ends `Run`; the queue drains.
* Hub selection: seeds and dead hubs last, no hub skipped, an entry per hub.
* Invites: decoding inverts encoding; a short code resolves to its invite.
* Probe: a hub never advertises an address that cannot be reached.

## 2. Modules

| Module | Models |
|---|---|
| `HubServer` | one hub process at the grain of its locks, reads and writes |
| `HubServer_proof` | safety of `HubServer` for any constants |
| `GossipOrder` | overlapping calls of `gossipLocal` and one receiver |
| `GossipOrder_proof` | the receiver ends with the current table |
| `Federation` | several hubs and spokes: gossip, location tables, relaying |
| `Federation_proof` | an envelope arrives once and can be opened, for any network |
| `FederationRoutes_proof` | no envelope gets lost among up to three hubs, all peered; in any other federation only those that a location table misleads |
| `SpokeSession` | one spoke process, its queue, its file, crashes |
| `SpokeSession_proof` | safety of `SpokeSession`, and that it implements `Outbox` |
| `HubChoice` | which hubs a spoke dials, in which order, and what it remembers |
| `HubChoice_proof` | the order, for any lists, caches and failures |
| `Address` | the kinds of IP addresses that the code tells apart |
| `Invite` | the codec, in Go and in Dart, short codes and their lookup |
| `Probe` | what a machine finds out about itself |
| `Announce` | from the probe over the printed invite to a spoke's dial |
| `Announce_proof` | what is announced is true, is listened at and can be read back |
| `AnnounceSpoke_proof` | what a spoke makes of the invites it is shown |
| `Outbox` | what a spoke promises about a message; `SpokeSession` implements it |
| `MC*` | instances for TLC; the constants' values are in the `.cfg` files |

The same code appears at two grains. In `Federation` a handler is one step and
what matters is the order of frames between nodes; in `HubServer` and
`GossipOrder` one hub is taken apart into critical sections, with the presence
tables (`HubServer`) or everything but the numbering (`GossipOrder`) left out.
`SpokeSession` does the same for a spoke. Operators called "Faulty variant" are
not part of any specification: each is a plausible bug, used to show that the
run would notice it (section 4).

### HubServer

`pc[c]` is the program counter of the goroutine that serves connection `c`
(`handleConn` for accepted ones, `handlePeerSession` for dialled ones); the
module's header lists its values. `spokes` and `hubs` are the tables of
`Server`, with the connection standing for the `*session`. `carry[c]` and
`route[c]` are `forward`'s local variables between the unlock and the last
write. `closed` has the connections that one end has closed. `Stop` is two
steps, before and after it gets `s.mu`.

Abstractions: a connection is used once, so a reconnection is another member of
`Conn` with the same `KeyOf`. A spoke opens a new connection only after it has
closed the old one (`connectOnce`), which is the guard of `Accept`; a peer hub
may have several at once. Since `where` is not in this module, `Routes` allows
any peer, or all of them. The signed hello is valid or it is not (`HelloFail`).
The hello's role and the frame's type agree, as they do in both callers.
`gossipLocal`, called from `Register` and `Drop`, only writes frames and the
presence tables, neither of which exist here. A read may fail at any time.
`written` and `overlapped` are history variables.

### GossipOrder

`gossipLocal` is `Change` (the caller's table write), `Draw` (line 352, outside
the lock), `Snapshot` (353-381) and `Send` (386-388). The table is the set of
calls whose change it has, so that a snapshot shows which changes it missed.
`net` is a set of frames from which a receiver takes in any order and more than
once, which covers every path through other hubs: `fanoutGossip` passes frames
on unchanged. `Restart` is the death of the hub: calls under way are gone, the
table is empty and `seq` is 0 again, while old frames are still on their way and
the receiver keeps its `gseen`. `old` remembers the highest number of the former
lives. Until the new life has counted past it the receiver ignores the hub, and
both properties say so: they speak of `seq > old`.

### Federation

One FIFO channel per ordered pair of nodes. `at[p]` is the hub that spoke `p`
holds a session with, from the spoke's point of view; `spokes[h]` is the hub's.
They differ from the moment the spoke goes away (`Leave`) until the hub notices
(`Drop`). Gossip entries are sets of keys: names are left out and a key always
comes with its X25519 key, since both are sent by the same frames. `Entries` is
what a hub announces, and `GossipLocal` is used by every action whose code calls
it, with the tables as they have just become. Peers register in two steps
(`AcceptPeer`, `DialPeer`). `Post` is `Send` on a live session; sending while
disconnected is `SpokeSession`'s subject. The environment has three faults, each
bounded in `setup.bound`: a spoke leaves, a link between hubs is cut with
everything on it, a hub is restarted. A restart empties all tables, numbers and
ids, ends the sessions of its spokes and lets it dial its peers once more, which
is the only time a hub dials (`server.go:120-127`). A cut link is not dialled
again. The far ends notice in steps of their own (`Drop`, `DropPeer`), and what
is written before that is lost (`Live`).

`sent`, `roamed`, `stranded`, `arrived` and `opened` are history variables. An
envelope is `roamed` if an end changed its session after it was sent, and
`stranded` if it was sent while the two ends did not have one settled session
each or hubs were not all peered, or if a link or a hub failed afterwards. The
delivery properties speak of the other ones, so that they say what the tables
lead to after the faults, not what is lost during them. (A reconnection to the
very hub that still holds the old session is `HubServer`'s subject and is
excluded here by `Connect`'s guard.)

### SpokeSession and Outbox

`rpc` walks through `Run`, `connectOnce` and `readLoop`; each `Send` is a
process of its own, since the API and the command line may call it at any time.
`held[m]` is the session that `Send` read under `sp.mu` and uses after the
unlock. `link` tells a closed connection (writes fail), a live one (writes
arrive) and a dead one that has not been noticed (writes may be accepted and go
nowhere). `disk` is `queue.json`; `Crash` restarts the process from it, or from
an empty queue if `os.WriteFile` was under way. A backoff, a dial timeout and an
idle timeout are steps that can happen at any time. `Stop` closes `sp.sess`, which
is nil while a handshake is under way. Which hubs are candidates is
left open: `connectOnce` has up to `MaxCand` of them, and after a session has
ended it never goes on to the next one (`spoke.go:195`).

`Outbox` has one variable, the status of each message: new, pending, handed,
lost. The refinement mapping `Status` computes it from where the message is and how
often a hub got it. A message that was handed over twice maps to `resent`, a status
that `Outbox` does not have, so that a second hand-over is no stuttering step but a
violation. A step of the spoke may hand over one message, lose one or several, or
change nothing; it can never resend or revive one.

### HubChoice

`SpokeSession` leaves open which hub `connectOnce` gets; this module leaves open
what a session does. A round is `Candidates`, `ReadInvite` for each invite and
`DeadLast`, which are together the function `candidates`; then `DialFail` or
`HandshakeFail` for each hub in vain, and `Connect`, `Save`, `SessionEnd` for the
first that answers, or `GiveUp`. Since a session always ends the round
(`spoke.go:194`), the code's list of open sessions is empty whenever `candidates`
runs, and so is `cfg.Seeds`, which the program never sets. A locator is a key and
an address with its port, which is what failures are noted by (`hubFailKey`).
`IpOf` gives both IP addresses without the port, and `Site` what `DialOrder`
compares: key and IP addresses (`cache.go:176`). The cache is kept in the order of `LastSeen`, since `DialOrder` only sorts by it. The sorted slice of
candidates is a set, in which each has its place with it: its list, its round trip
and position there, and the mark of a hub that failed; `Before` compares places, and
`Dial` takes the candidate that none is before. `First` leaves out what `DialOrder`
leaves out, locators that differ from an earlier one in the port only included. A
hub that is listening at another port than before is therefore not dialled there
in a round in which an earlier list has its old port. `NoneSkipped`, `DeadHubsLast`
and `SeedIsLastResort` count a hub as dialled at an IP address whatever the port was
(`HasSite`). `failed` has the locators that failed less than 30 s ago; `Forget` ends
that time for one of them at any moment. The environment moves hubs (`Move`) and
kills the spoke (`Crash`), which then reads what `cache.json` has, nothing if the
file was being written. `known`, `dead`, `dialled` and `reached` are history
variables.

### Address, Invite, Probe and Announce

Addresses are model values with a kind; what the code computes from their bits
is their kind. A payload is a record of the fields that are written, so that the
order of bytes, Base32 and the checksum do not appear; `Marshal` and `Unmarshal`
have the checks, the defaults and the cut of the name. Names are sequences of
bytes, some of which belong to a two-byte character. A short code stands for the
payload that it is a hash of: that 50 bits do not collide is assumed.
`DartMarshal` and `DartUnmarshal` are the same functions in the app, which
differ: an invite of a hub without IPv6 is refused when it is written, not when
it is read, and the name has to be UTF-8.

In `Announce` each machine has a list of states it may be in (addresses, IPv6 in
the kernel, what its port is like), and `Move` changes it at any time. `Run` is
`cmdHub` or `cmdBecomeHub` down to `Start`: the probe, the refusal unless forced,
both sockets (`V6Only`, `Opens`), the port that was bound, `buildInvite`.
`PrintInvite` prints it or, as `main.go:174` does, ends the process. `EncodeByHand`
is `invite encode`. A spoke is given what was shown, as blobs or as codes
(`AddInvite`). `Candidates` begins a round and takes a copy of the texts, and
`ReadText` is one turn of its loop: it decodes a text with the resolvers over
cache and community list, where every text that was read changes the cache that
the next one is resolved with. Nothing is dialled before all are read.
Candidates are taken in any order here, since `HubChoice` has the order.

`dialHub` is `StartDial`, then `Connect` or `DialFails` for each address and
transport. `left` is what remains of the deadline that all attempts share. An
attempt that is refused takes no time; a silent one takes the timeout of a QUIC
handshake (20 s), or what is left. `Answers` is what the listener of `Start`
hears: its port, and IPv4 only if the socket is not IPv6-only. `filtered` says
that UDP is dropped on the spoke's side. `missed` is a history variable.

## 3. What the runs check

Passing runs:

| Run | Instance | Shows |
|---|---|---|
| `hub_sessions` | 2 connections of a spoke, 2 of a peer hub, 1 envelope | tables list living handlers only (`NoDanglingSession`), a session without a rival stays listed (`SoleSessionRoutable`), `Stop` leaves no listed handler blocked (`StopClosesRegistered`), an envelope is written to one spoke session only (`RelayedOnce`) |
| `hub_stop` | 1 spoke, 2 connections of a peer hub | every handler ends after the cancellation (`StopTerminates`), doubled peer links excepted |
| `spoke_session` | 3 messages, queue of 2, 4 sessions, 1 crash | `HandedOnce`, `QueueOrder`, and `OutboxSpec`, the refinement |
| `spoke_live` | 2 messages, queue of 1, 3 sessions | the queue drains if hubs answer (`QueueDrains`); `Stop` ends `Run` (`StopEndsRun`), if a hub that `Stop` cannot cut off reacts |
| `federation` | four setups, below | an envelope arrives (`DeliveredAtRest`), at most once (`ArrivesOnce`), and can be opened (`OpenedOnArrival`); all traffic ends (`Settles`) |
| `gossip_order` | 3 overlapping announcements, 1 restart | the receiver ends with the current table (`CurrentAtRest`), and a change that lasts reaches it for good (`ChangesStick`) |
| `hub_choice` | 3 hubs (one a seed), 4 addresses, 2 of which differ in the port only, 1 move, 1 crash | a seed is the last resort (`SeedIsLastResort`), recently failed hubs come last (`DeadHubsLast`) but no hub is left out at any IP address (`NoneSkipped`), and a hub that was reached once is in `cache.json` (`ReachedIsOnDisk`) |
| `hub_announce` | a station with 5 states and 3 commands, a rented server with 2 states, 3 invites by hand, 2 starts, 1 move, 1 text | what is printed can be read back (`RoundTrip`), by the app too (`TwinsAgree`); no IPv4 behind NAT is announced (`NoNatClaimed`); what an invite leads to is what the hub listens at (`AnnouncedIsHeard`); a short code never leads elsewhere (`CodeNamesOneHub`), and resolves if it has no expiry (`UndatedCodeResolves`) |

Runs in which TLC finds what the code does and a document or test excludes:

| Run | What happens |
|---|---|
| `hub_stale_drop` | A spoke loses its path and reconnects. Its old handler, still blocked in a read, times out later and `drop` deletes the new session's entry (`server.go:406-412`). The spoke stays connected and receives nothing. |
| `spoke_flush_loss` | `connectOnce` has popped the queue; `Stop` closes the session; each remaining `sess.send` fails, its error is ignored (`spoke.go:179-181`), and the messages are neither on disk nor sent. |
| `federation_line` | Hubs A - B - C. C learns of A's spoke through B and, when a spoke of its own connects, lists it in its gossip; B then stores C as the place of A's spoke. An envelope at B for that spoke goes to C, which has no other peer. |
| `tcp_fallback` | A hub answers, but UDP to it is dropped. The QUIC attempt waits 20 s (`transport.go:111`) under a deadline of 15 s for all attempts (`spoke.go:137`), so that TCP fails at once and the hub is noted as failed. |

### Bounds

* Connections (4): two overlapping handlers of one key in each table is where
  `Register` and `Drop` interfere; a third only repeats it. The proofs of
  section 5 cover any number. In `hub_stop` the spoke connects once, which keeps
  liveness checking quick; its reconnection adds only handlers of the same kind.
* Sessions of a spoke: one more than messages, since every unfinished `Send` can
  hold an old session while `connectOnce` uses a new one.
* Messages and queue: 3 and 2 fill and overflow the queue while another message
  is in flight. `MaxCrash` = 1: one crash at each point.
* `federation` has four setups in one run, since all of them are asked the same
  question. (1) Two hubs, spokes that connect to either, no faults, every
  interleaving of peering, gossip, sessions and sends. (2) Two hubs, one spoke
  that leaves once and one restart of either hub. (3) A ring of three hubs,
  where gossip and floods have two ways round, and a spoke that moves between
  two of them. (4) The ring, of which one link breaks. Setups 2 to 4 are `calm`:
  the environment acts only when all frames have been read. That is a
  restriction: there the frames of one event overlap each other, but faults do
  not race with the traffic of other events. `federation_line` is calm as well,
  which makes its counterexample stronger.
* Sequence numbers need no bound: gossip is only drawn for an event of a
  session, a link or a presence frame, of which there are finitely many.
* `hub_announce`: the station is, in turn, an ordinary Starlink host behind
  carrier-grade NAT, one with a public IPv4 address, both at once, a lab with
  local addresses only, and one whose port is taken. Its commands ask for a
  fixed port, for any port with a name that is too long, and for `--dev`. The
  server has no IPv6, then NAT. Two starts and a move give two invites of one
  key that disagree, while the spoke is given either. One text is enough for a
  code to be looked up among entries from an earlier round, the community list
  and the text itself.
* `tcp_fallback`: one start, no move, and a network that drops UDP.
* `hub_choice`: round trips of 0 and 1 ms (unknown and known), one hub with two
  IP addresses and, at one of them, two ports, one address with two hubs. The port
  matters: that a round given up has dialled every locator, `known \subseteq dialled`,
  is false in this instance, when the second port was scanned after the first. `MCMoves` has the changes that make an
  entry stale. Liveness is not checked there: strong fairness of every locator
  is beyond TLC at this size.

`CHECK_DEADLOCK FALSE` is in every configuration: connections, calls and moves
are finite in number, so every instance comes to a proper end.

### Fairness

* `HubServer`: goroutines run, and `Stop` gets the lock. A read returns when the
  connection is closed, or if the far end pings (`spoke.go:236-247`,
  `server.go:417-434`) and therefore either sends a frame or dies. No fairness for
  accepting, dialling or breaking. A doubled peer link, displaced in its far
  end's table, is pinged by nobody; over QUIC a read deadline has no effect
  (`server.go:654-662`), so nothing is assumed of it and `StopTerminates` excepts
  it.
* `SpokeSession`: `Run` goes on, except where it waits for a hub: in a handshake, a
  flush and a read it returns on a connection that is closed or dead, and nothing is
  assumed of one that is up. A `Send` that has begun goes on in the same sense.
  What depends on hubs is in the formulas themselves. `HubReacts`, the premise of
  `StopEndsRun` and of `QueueDrains`: a hub whose connection stays up answers the
  hello, or ends the connection, and takes the frames of a flush. Over TCP the
  deadline of the handshake (`spoke.go:214`) sees to the answer; over QUIC it has
  no effect (`server.go:654-662`), and writes have no deadline at all. `Stop` does
  not help, since it finds `sp.sess` nil until the handshake is over and closes
  nothing. Without the premise TLC finds `Run` in a handshake, or in the flush after
  it, for ever. `HubAnswers`, the other premise of `QueueDrains`: a spoke that keeps
  trying gets a candidate, a connection and an answer. This is strong fairness on
  an environment that may fail any finite number of times.
* `Federation`: frames are read, and a hub that has dialled registers its peer
  when the answer is there. Sessions need not begin, end or be noticed dead.
* `GossipOrder`: a call goes on, and the last copy of a frame is read.

## 4. Mutants

Each property of a passing run has a faulty variant of one action, listed in
`PROJECT.json`, under which TLC finds the property violated: the role ignored in
`drop`, `drop` deferred before the handshake, `Stop` closing spokes only, ids not
remembered, the queue saved too late, a requeue in the flush, locations asked
before the session table, a gossip number drawn too late, carrier-grade NAT
overlooked, the port announced that was asked for instead of the one that was
bound, a short code made from the key alone, and so on.

## 5. What is proved

`tlapm` checks the proof modules without any assumption other than
`ServerAssumption`, `RestartAssumption`, `SpokeAssumption`, `FederationAssumption`,
`ChoiceAssumption`, `AddressAssumption`, `InviteAssumption` and `AnnounceAssumption`
(the types of the constants of the modules). The sets of connections, keys, envelopes, messages and
calls are arbitrary, also infinite.

* `HubServer_proof`: `TypeCorrect`, `NoDanglingSessionHolds`,
  `SoleSessionRoutableHolds`, `StopClosesRegisteredHolds` and `RelayedOnceHolds`,
  all of the form `Spec => []P`. None of these is inductive alone. The session part
  needs `OverlapKnown` (handlers of one key that coexist are in `overlapped`),
  since only that excludes that a rival's `Drop` removes the entry. Relaying needs
  `CarriedOnce` (an id is in the hands of one handler at a time, and `seen` has
  it) and `RouteFirst` (a route that contains a spoke session contains nothing
  else, and the envelope has not been written to a spoke yet). `IInv` is the
  conjunction; each part has a lemma with one step per action.
* `GossipOrder_proof`: `TypeCorrect` and `CurrentAtRestHolds`. The inductive
  invariant says that a snapshot contains the change of every call with a number
  not above its own (`InOrder`): the number is drawn after the change and before
  the snapshot. With the newest number delivered (`NewestDrawn`, `Received`) the
  view is the table. Restarts are unlimited in number (any `MaxRestart`): the
  parts of the invariant that relate numbers to the receiver speak of numbers
  above `old`, of which only the present life has any.
* `SpokeSession_proof`: `TypeCorrect`, `NeverTwice` (`HandedOnce`), `QueueIsFifo`
  (`QueueOrder`) and `ImplementsOutbox` (`Spec => OutboxSpec`). A message is in one
  place at a time: with a `Send` under way, in the queue, in the flush, on a
  session, or nowhere any more (`Progress`, `Unsent`, `Kept`). `HandedOnce` needs
  `PushedOnce`, since what was pushed may come back from `queue.json` after a crash:
  `Kept` says that the file never holds what was written to a hub. `QueueOrder`
  follows from `Ordered`: the flush, then the queue, are in the order of the pushes.
  For the refinement each action has a step that says which status changes; that no
  message becomes `resent` rests on `Unsent` and `Kept`, by which no hub has what a
  `Send`, the queue or the flush still holds.
* `Federation_proof`: `TypeCorrect`, `NeverTwice` (`ArrivesOnce`) and `KeyComesFirst`
  (`OpenedOnArrival`), for any peerings, any spokes that move and any faults.
  `ArrivesOnce` needs that an envelope is on its way to its recipient, or has
  arrived, only once (`Once`): `OwnHub` and `Addressed` say that a spoke gets frames
  only from hubs it has a session with, and only envelopes for it. `OpenedOnArrival`
  is about the order of two kinds of frames that the code sends from different
  functions. While nothing was disturbed (`Undisturbed`), a hub has told every
  neighbour all keys it lists (`Told`), so that on every channel the sender's key
  is ahead of its envelope or known at the far end (`KeyFirst`, `Opened`); gossip
  that is ignored as old is no loss, since a later one has all that it had
  (`Numbered`). `LinkLost` says which histories leave that regime.
* `FederationRoutes_proof`: `NothingGetsLost` (`DeliveredAtRest`), for any spokes,
  envelopes, moves, restarts and cuts, and whatever the location tables say, in setups
  of at most three hubs that are all peered with each other (`SmallMesh`: the
  hypothesis of the theorem, and true of all setups of run `federation`). It cannot be
  dropped: run `federation_line` shows three hubs in a line, where a location table
  names a hub beyond which there is no addressee, and the property fails. Nor is it
  true of four hubs that are all peered: when three of them announce themselves at the
  same time, each of the other two in another order, their entries for a spoke of the
  fourth can name each other in a circle, and an envelope goes round it to a hub that
  has seen it. (No run has this instance, which is too large to explore; TLC meets it
  in simulation when it reads the three announcements in these orders.)
  The invariant is about each envelope whose ends
  stayed where they were (`Path`): it left its sender once, before any hub had seen
  it (`Posted`); hubs write what they have seen (`Relayed`); and until the
  addressee's hub has seen it, it is on its way to some hub that has not (`Pending`),
  since two of three hubs that have it leave one. It rests on the invariant of
  `Federation_proof` (`Copies`, for one copy at most to the addressee).
  `OnlyTheMisledGetLost` says what holds of all the others, for any number of hubs and
  any peerings that connect the hubs in use: `DeliveredAtRest` follows from
  `[]NotMisled`, that is, if an entry of a hub that has still to forward an envelope,
  where it names a peer at all, names one that is nearer to the addressee's hub. What
  near means is left to the reader: any numbers `dist` do that fall along some peering
  from each hub in use (`Downhill`); the number of hops is one choice. Read the other way
  round, an envelope that got lost was misled by a location table, and neither
  flooding, nor the suppression of ids, nor the rule that nothing goes back where it
  came from can lose one; this is the cause of what run `federation_line` finds. The
  invariant (`Trails`) says that each hub that has seen the envelope, except the
  addressee's, has a nearer partner that has seen it or is about to (`Spread`). It is
  kept although `forward` leaves out the hub that the envelope came from, since that hub
  has seen it. At rest the nearest of the hubs that have seen it (`SmallestOf`) can
  therefore only be the addressee's (`NearestHasIt`). `NotMisled` is a hypothesis on
  histories and not vacuous: TLC finds, in a line and in a ring of three hubs, envelopes
  that are delivered along entries while it has held all the time. The theorem does not
  contain the other one, in which entries may mislead as they like.
* `HubChoice_proof`: `TypeCorrect`, `SeedsComeLast` (`SeedIsLastResort`),
  `DeadComeLast` (`DeadHubsLast`), `AllAreDialled` (`NoneSkipped`) and `ReachedIsKept`
  (`ReachedIsOnDisk`). Most of it is about operators: `Remembered` says that a cache
  keeps one entry for each key and loses none, `OrderCovers` that leaving out
  duplicates loses no hub at any of its IP addresses, though it loses ports (which
  takes a least list and a least position, `FirstCovers`), and `LateLast` that no seed is before another hub. The invariant then
  says that a round keeps what these lemmas give it: `Left`, `Marked`, `SeedsLast`,
  and `Kept` for the file. A signed community list may name a cloud seed
  (`community.go:84`); such a seed is dialled third, before a fresh invite, and
  `SeedIsLastResort` leaves it out.
* `Announce_proof`: `NoNatClaimedHolds`, `RoundTripHolds`, `TwinsAgreeHolds` and
  `AnnouncedIsHeardHolds`, for machines with any lists of addresses, any commands,
  any invites written by hand and names of any length. The invariant is about the
  hubs and what was shown only: what a running hub announces was true when it was
  started (`Honest`: the addresses were the machine's, IPv4 is announced only by
  sockets that hear it, and the port is the one that was bound), and only what can
  be encoded is shown (`Encoded`). The lemmas do the work: `ClaimedIPv4` and
  `PickedIPv6` say what the probe returns, and `Codec` that `Unmarshal` and
  `DartUnmarshal` undo `Payload` and that what they return writes the same payload
  again, which needs that a name is not cut twice (`CutOnce`).
  The probe works on sets of indices of a list, of which it takes the least
  (`MinIsLeast`); that keeps it free of recursion. `AnnouncedIsHeardHolds` alone has
  a hypothesis, `LoopbackUp`: machines that are given commands with `--dev` have
  `::1`. Without it the property is false, since `capability.go` adds `::1` to the
  addresses when `--dev` is given whether an interface has it or not.
* `AnnounceSpoke_proof`: `TypeCorrect`, `CodeNamesOneHubHolds` and
  `UndatedCodeResolvesHolds`, for any texts in any order, any community list and any
  changes of the machines. It rests on the invariant of `Announce_proof` (`IInv`) and
  adds that of the spoke (`SInv`): every text was shown, and the cache has typed
  entries, one for each key (`CacheOK`, by `Remembers`). `SamePayload` says that two
  invites with one payload lead to one hub, and the other way round if they expire
  together; `LookupFinds` that the table finds an invite of the code it is asked for
  whenever there is one. The two theorems follow from these.

Model-checked only: all liveness (`QueueDrains`, `StopEndsRun`, `Settles`,
`StopTerminates`, `ChangesStick`), since the provers have no ENABLED. Every other
property of the passing runs has a theorem; `DeliveredAtRest` and `AnnouncedIsHeard`
under the hypotheses named above. The properties of the runs in which TLC finds a
violation are false, and no theorem speaks of them.

## 6. Not modelled, and the plan

Next, in this order:

1. Proofs: which histories of gossip keep location tables from misleading
   (`NotMisled`) in a line or a tree of hubs.
2. `seenIDs` with time and eviction (`handshake.go:167`): when a late copy may be
   relayed again.
3. Backpressure: bounded channels, and `fanoutGossip` writing under `s.mu`.
4. `HubChoice` with the manual hub without a key, and the backoff.
5. A crash inside the first save of `identity.json`.

Left out because the code never does it: `ObserveIPv4` of the probe, `cfg.Seeds`
and `cfg.Host` of `runHub` (the program sets none of them to anything that
matters), and the expiry of an invite, which nothing asks for.

Left out for good: signatures and encryption (libraries; an envelope is valid,
and opens if the keys are known), QUIC, TLS, JSON and Base32 encoding, mDNS and
router advertisements (a beacon carries the printed blob, which `AddInvite`
takes like any other), QR rendering, the prompt of `cmdSpoke`, deployment files,
the layout of the Flutter screens. `Server.Status` and the capture dumps only
read state; the local API reads it out, and the program sets neither `Send` nor
`Become`.
