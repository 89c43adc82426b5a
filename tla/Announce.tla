------------------------------- MODULE Announce -------------------------------
(***************************************************************************)
(* From a machine that becomes a hub to a spoke that dials it: the probe,  *)
(* the sockets, the invite that is printed, and its way as a blob or as a  *)
(* short code through a spoke's cache to the addresses that are dialled    *)
(* (hub/cmd/starmesh/main.go: runHub; hub/server.go: Start, buildInvite;   *)
(* hub/cache.go; hub/spoke.go: candidates, dialHub; hub/transport.go).     *)
(*                                                                         *)
(* Machines change their addresses while hubs run on them.  The order of   *)
(* the candidates and the cache's file are the subject of HubChoice.       *)
(***************************************************************************)
EXTENDS Invite, Probe

CONSTANTS Machine,     \* machines, which stand for the keys of their identity
          Hosts,       \* the states each machine may be in, the first at first
          Commands,    \* the commands that may be given on each machine
          ByHand,      \* invites that operators write with `invite encode`
          Community,   \* the hubs of the community list
          Ephemeral,   \* the port the kernel picks for --port 0
          Filters,     \* {TRUE}: the spoke's network drops UDP; {FALSE}: not
          MaxRun,      \* bound: how often hubs are started
          MaxMove,     \* bound: how often machines change
          Expiries,    \* the dates at which invites of hubs expire
          MaxText      \* bound: invites a spoke is given

\* In seconds.  (A hub that failed a moment ago has 2 seconds.)
DialTimeout == 15
HandshakeTimeout == 20

Command == [name : Seq(STRING), port : Nat, dev : BOOLEAN, seed : BOOLEAN,
            force : BOOLEAN]

Locator == [key : Machine, v6 : V6 \cup {None}, v4 : V4 \cup {None},
            port : Nat, name : Seq(STRING), seed : BOOLEAN]

InviteType ==
  [version : {Version}, key : Machine, v6 : V6 \cup {None}, v4 : V4 \cup {None},
   port : Nat, expiry : Nat, name : Seq(STRING), seed : BOOLEAN]

ASSUME AnnounceAssumption ==
  /\ None \notin Machine /\ None \notin InviteType
  /\ \A m \in Machine : Hosts[m] \in Seq(Host) /\ Hosts[m] # <<>>
  /\ Commands \in [Machine -> SUBSET Command]
  /\ ByHand \subseteq InviteType
  /\ Community \in Seq(Locator)
  /\ Ephemeral \in Nat \ {0}
  /\ Filters \subseteq BOOLEAN
  /\ Expiries \subseteq Nat \ {0}
  /\ {MaxRun, MaxMove, MaxText} \subseteq Nat

VARIABLES host,     \* the state of each machine
          hub,      \* the hub process of each machine
          shown,    \* invites that were printed
          texts,    \* sp.cfg.Invites
          cache,    \* Cache.Hubs
          unread,   \* candidates(): the texts that are left in its loop
          cands,    \* what the spoke may dial in this round
          dial,     \* the candidate that dialHub is at
          filtered, \* the spoke's network drops UDP
          runs, moves,
          missed    \* history: an attempt failed although a hub answers there

world == <<host, hub, shown, runs, moves>>
spoke == <<texts, unread, cache, cands, dial>>
vars == <<world, spoke, filtered, missed>>

Init ==
  /\ host = [m \in Machine |-> Hosts[m][1]]
  /\ hub = [m \in Machine |-> None]
  /\ shown = {}
  /\ texts = <<>> /\ unread = <<>> /\ cache = <<>>
  /\ cands = {} /\ dial = None
  /\ filtered \in Filters
  /\ runs = 0 /\ moves = 0
  /\ missed = FALSE

-----------------------------------------------------------------------------
(* A machine becomes a hub                                                 *)

\* listenUDP and listenTCP: IPv6 only unless an IPv4 address is claimed.
V6Only(c) == ~c.claim \/ c.v4 = None

Opens(h, v6only) == h.port = "free" /\ (v6only => h.stack6)

\* The port that is opened.
ListenPort(cmd) == IF cmd.port = 0 THEN Ephemeral ELSE cmd.port

\* Faulty variant: the port that was asked for is announced.
AnnounceAsked(m, cmd, c, expiry) ==
  [version |-> Version, key |-> m, v6 |-> c.v6,
   v4 |-> IF c.claim THEN c.v4 ELSE None,
   port |-> cmd.port, expiry |-> expiry, name |-> cmd.name, seed |-> cmd.seed]

\* buildInvite()
BuildInvite(m, cmd, c, expiry) ==
  [version |-> Version, key |-> m, v6 |-> c.v6,
   v4 |-> IF c.claim THEN c.v4 ELSE None,
   port |-> ListenPort(cmd), expiry |-> expiry, name |-> cmd.name,
   seed |-> cmd.seed]

\* What Start() leaves behind.
Started(m, cmd, c, expiry) ==
  [inv |-> BuildInvite(m, cmd, c, expiry), v6only |-> V6Only(c),
   port |-> ListenPort(cmd), born |-> host[m], printed |-> FALSE]

\* `hub` or `become-hub`: the probe may refuse, a socket may not open, ...
Run(m, cmd) ==
  LET c == Cap(host[m], cmd.dev)
  IN  /\ runs < MaxRun
      /\ hub[m] = None
      /\ c.canBe \/ cmd.force \/ cmd.seed
      /\ Opens(host[m], V6Only(c))
      /\ \E expiry \in Expiries :
           hub' = [hub EXCEPT ![m] = Started(m, cmd, c, expiry)]
      /\ runs' = runs + 1
      /\ UNCHANGED <<host, shown, moves, spoke, filtered, missed>>

\* ... or the invite may not encode, which ends the process again.
PrintInvite(m) ==
  /\ hub[m] # None /\ ~hub[m].printed
  /\ IF Refused(hub[m].inv)
     THEN hub' = [hub EXCEPT ![m] = None] /\ UNCHANGED shown
     ELSE /\ hub' = [hub EXCEPT ![m].printed = TRUE]
          /\ shown' = shown \cup {hub[m].inv}
  /\ UNCHANGED <<host, runs, moves, spoke, filtered, missed>>

Stop(m) ==
  /\ hub[m] # None
  /\ hub' = [hub EXCEPT ![m] = None]
  /\ UNCHANGED <<host, shown, runs, moves, spoke, filtered, missed>>

\* `invite encode`, which sets no expiry.
EncodeByHand(inv) ==
  /\ ~Refused(inv)
  /\ shown' = shown \cup {inv}
  /\ UNCHANGED <<host, hub, runs, moves, spoke, filtered, missed>>

\* The prefix of a machine moves, or its network is changed.
Move(m, h) ==
  /\ moves < MaxMove
  /\ h \in Range(Hosts[m]) \ {host[m]}
  /\ host' = [host EXCEPT ![m] = h]
  /\ moves' = moves + 1
  /\ UNCHANGED <<hub, shown, runs, spoke, filtered, missed>>

\* Machine m answers a dial of one address over QUIC or TCP.
Answers(m, a) ==
  /\ hub[m] # None
  /\ a.ip \in Range(host[m].ips)
  /\ a.port = hub[m].port
  /\ a.ip \in V4 => ~hub[m].v6only
  /\ ~isPrivateIPv4(a.ip)

-----------------------------------------------------------------------------
(* Invites and the cache of a spoke                                        *)

\* cachedFromInvite()
Entry(inv) ==
  [key |-> inv.key, v6 |-> inv.v6, v4 |-> inv.v4, port |-> inv.port,
   name |-> inv.name, seed |-> inv.seed]

\* CachedHub.Invite(): an entry without IPv6 that is no seed has none.  The
\* expiry is gone.
InvitesOf(entries) ==
  [i \in DOMAIN entries |->
     LET e == entries[i]
     IN  IF e.v6 = None /\ ~e.seed THEN None
         ELSE [version |-> Version, key |-> e.key, v6 |-> e.v6, v4 |-> e.v4,
               port |-> e.port, expiry |-> 0, name |-> e.name, seed |-> e.seed]]

\* combineResolvers()
Resolvable(c) == InvitesOf(c) \o InvitesOf(Community)

\* The port of an invite or an entry that has none is the default.
Port(x) == IF x.port = 0 THEN DefaultPort ELSE x.port

\* Faulty variant: one entry for each address.
RememberAll(c, entry) == Append(c, [entry EXCEPT !.port = Port(entry)])

\* Cache.Remember(): one entry for each key.
Remember(c, entry) ==
  LET e == [entry EXCEPT !.port = Port(entry)]
  IN  IF \E i \in DOMAIN c : c[i].key = e.key
      THEN [i \in DOMAIN c |-> IF c[i].key = e.key THEN e ELSE c[i]]
      ELSE Append(c, e)

AddInvite(text) ==
  /\ Len(texts) < MaxText
  /\ texts' = Append(texts, text)
  /\ UNCHANGED <<world, unread, cache, cands, dial, filtered, missed>>

\* candidates(), in the order of HubChoice: here, as a set.
Candidates ==
  /\ cands = {} /\ dial = None /\ unread = <<>>
  /\ cands' = Range(cache) \cup Range(Community)
  /\ unread' = texts
  /\ UNCHANGED <<world, texts, cache, dial, filtered, missed>>

\* Its next text, which may resolve by the texts before it.  What does not
\* decode is skipped.
ReadText ==
  LET inv == Decode(Head(unread), Resolvable(cache))
  IN  /\ unread # <<>>
      /\ unread' = Tail(unread)
      /\ IF inv = None THEN UNCHANGED <<cache, cands>>
         ELSE /\ cache' = Remember(cache, Entry(inv))
              /\ cands' = cands \cup {Entry(inv)}
      /\ UNCHANGED <<world, texts, dial, filtered, missed>>

-----------------------------------------------------------------------------
(* dialHub                                                                 *)

\* QUIC and then TCP over IPv6, and then over IPv4.
Attempts(e) ==
  LET Both(ip) == IF ip = None THEN <<>>
                  ELSE <<[net |-> "quic", ip |-> ip, port |-> Port(e)],
                         [net |-> "tcp", ip |-> ip, port |-> Port(e)]>>
  IN  Both(e.v6) \o Both(e.v4)

StartDial(e) ==
  /\ dial = None /\ unread = <<>>
  /\ cands' = cands \ {e}
  /\ dial' = [entry |-> e, todo |-> Attempts(e), left |-> DialTimeout]
  /\ UNCHANGED <<world, texts, unread, cache, filtered, missed>>

Passes(a) == ~(filtered /\ a.net = "quic")

\* Machine m answers.  A hub with another key is left again, and the next
\* candidate is taken; the right one is remembered under the name it has now.
Connect(m) ==
  LET a == Head(dial.todo)
  IN  /\ dial # None /\ dial.todo # <<>>
      /\ dial.left > 0
      /\ Passes(a) /\ Answers(m, a)
      /\ IF dial.entry.key = m
         THEN /\ cands' = {}
              /\ cache' = Remember(cache, [dial.entry EXCEPT
                            !.name = hub[m].inv.name, !.seed = hub[m].inv.seed])
         ELSE UNCHANGED <<cands, cache>>
      /\ dial' = None
      /\ UNCHANGED <<world, texts, unread, filtered, missed>>

\* Dial() fails.  An attempt that gets no answer takes the handshake timeout of
\* QUIC or what is left for the whole candidate; one that is refused at once
\* takes no time, but QUIC does not see it when nobody listens.
DialFails ==
  LET a == Head(dial.todo)
      silent == Min({dial.left, IF a.net = "quic" THEN HandshakeTimeout
                                                  ELSE DialTimeout})
      heard == \E m \in Machine : Answers(m, a) /\ Passes(a)
  IN  /\ dial # None /\ dial.todo # <<>>
      /\ dial.left = 0 \/ ~heard
      /\ \E t \in {0, silent} :
           dial' = [dial EXCEPT !.todo = Tail(@), !.left = @ - t]
      /\ missed' = (missed \/ heard)
      /\ UNCHANGED <<world, texts, unread, cache, cands, filtered>>

\* All addresses of the candidate have failed.
NextCandidate ==
  /\ dial # None /\ dial.todo = <<>>
  /\ dial' = None
  /\ UNCHANGED <<world, texts, unread, cache, cands, filtered, missed>>

-----------------------------------------------------------------------------

Next ==
  \/ \E m \in Machine : \/ \E cmd \in Commands[m] : Run(m, cmd)
                        \/ PrintInvite(m) \/ Stop(m) \/ Connect(m)
                        \/ \E h \in Range(Hosts[m]) : Move(m, h)
  \/ \E inv \in ByHand : EncodeByHand(inv)
  \/ \E inv \in shown : AddInvite(Blob(inv)) \/ AddInvite(ShortCode(inv))
  \/ Candidates \/ ReadText
  \/ \E e \in cands : StartDial(e)
  \/ DialFails \/ NextCandidate

Spec == Init /\ [][Next]_vars

-----------------------------------------------------------------------------
(* Properties                                                              *)

HubType ==
  [inv : InviteType, v6only : BOOLEAN, port : Nat \ {0},
   born : Host, printed : BOOLEAN]

Attempt == [net : {"quic", "tcp"}, ip : Addr, port : Nat \ {0}]

DialType == [entry : Locator, todo : Seq(Attempt), left : 0..DialTimeout]

ShownTexts == {Blob(inv) : inv \in shown} \cup {ShortCode(inv) : inv \in shown}

TypeOK ==
  /\ \A m \in Machine : host[m] \in Host /\ (hub[m] = None \/ hub[m] \in HubType)
  /\ shown \subseteq InviteType
  /\ texts \in Seq(ShownTexts) /\ unread \in Seq(ShownTexts)
  /\ cache \in Seq(Locator)
  /\ \A i, j \in DOMAIN cache : cache[i].key = cache[j].key => i = j
  /\ cands \subseteq Locator
  /\ dial = None \/ dial \in DialType
  /\ runs \in 0..MaxRun /\ moves \in 0..MaxMove

\* What two invites have to share to lead to the same hub in the same way.
SameHub(a, b) ==
  LET v6(x) == IF x.v6 = Unspecified THEN None ELSE x.v6
  IN  /\ a.key = b.key /\ v6(a) = v6(b) /\ a.v4 = b.v4 /\ Port(a) = Port(b)
      /\ a.seed = b.seed /\ CutName(a.name) = CutName(b.name)

\* Whatever the program prints can be read back, by anyone, as the same hub
\* with the same expiry and the same short code: Encode and Decode check the
\* addresses separately (invite/codec.go:143-152, 321-326).  An operator who
\* encodes :: is the exception.
RoundTrip ==
  \A inv \in shown : inv.v6 # Unspecified =>
    LET back == Decode(Blob(inv), <<>>)
    IN  /\ back # None
        /\ SameHub(back, inv) /\ back.v6 = inv.v6
        /\ back.expiry = inv.expiry
        /\ ShortCode(back) = ShortCode(inv)

\* "Go and Dart encode the same binary layout" (invite/README.md:3): the app
\* reads what the program prints as the program does, and prints it again with
\* the same short code (app/lib/app_state.dart: ingestInvite).  Names of which
\* the program cuts a character in two are the exception.
TwinsAgree ==
  \A inv \in shown :
    LET body == Marshal(inv)
    IN  inv.v6 # Unspecified /\ Utf8(body.name) =>
          /\ DartUnmarshal(body) = Unmarshal(body)
          /\ DartMarshal(DartUnmarshal(body)) = body

\* docs/starlink.md:23-27, 84-85: IPv4 is announced only by a machine that has a
\* public address and is not behind carrier-grade NAT, whatever is forced.
NoNatClaimed ==
  \A m \in Machine : hub[m] # None /\ hub[m].inv.v4 # None =>
    /\ hub[m].inv.v4 \in Range(hub[m].born.ips)
    /\ Kind[hub[m].inv.v4] = "public4"
    /\ \A ip \in Range(hub[m].born.ips) : ~isCGNAT(ip)

\* A spoke that reads the invite of a hub whose machine has not changed dials
\* only what that hub listens at (hub/server.go: Start), over both transports,
\* and has something to dial unless the hub is a seed.
AnnouncedIsHeard ==
  \A m \in Machine :
    hub[m] # None /\ hub[m].printed /\ hub[m].born.ips = host[m].ips =>
      LET todo == Attempts(Entry(Decode(Blob(hub[m].inv), <<>>)))
      IN  /\ \A i \in DOMAIN todo : Answers(m, todo[i])
          /\ todo = <<>> => hub[m].inv.seed

\* A short code that resolves leads to the hub, and to the addresses, that it
\* was printed with, however often the hub has moved since (hub/spoke.go:
\* combineResolvers).
CodeNamesOneHub ==
  \A inv \in shown :
    LET found == Decode(ShortCode(inv), Resolvable(cache))
    IN  found # None => SameHub(found, inv)

\* The code of an invite without an expiry resolves as long as the spoke has
\* that hub in its cache or in the community list (docs/starlink.md:57-60).  With
\* an expiry, which is to say for what hubs print, it does not.
UndatedCodeResolves ==
  \A inv \in shown :
    /\ inv.expiry = 0
    /\ \E e \in Range(cache) \cup Range(Community) :
         SameHub(e, inv) /\ (e.v6 # None \/ e.seed)
    => Decode(ShortCode(inv), Resolvable(cache)) # None

\* README.md:71, "QUIC first, TCP/TLS 1.3 fallback": a spoke does not give up a
\* hub that would have answered over the other transport or the other family.
FallbackIsTried == ~missed
===============================================================================
