--------------------------- MODULE Federation_proof ---------------------------
(***************************************************************************)
(* An envelope never reaches its addressee twice, and can be opened when   *)
(* it arrives: for any hubs, spokes and envelopes, however the hubs are    *)
(* peered.                                                                 *)
(*                                                                         *)
(* The first holds because a hub writes an envelope once and the addressee *)
(* has one hub; Once says so.  The second holds because a channel keeps    *)
(* its order: a hub that knows a spoke has told everyone it can write to,  *)
(* before it relays anything (Told), so that the sender's key is ahead of  *)
(* the envelope in every channel or known at its end (KeyFirst).           *)
(***************************************************************************)
EXTENDS Federation, TLAPS, SequenceTheorems

\* m is in q once at most.
Single(q, m) == \A i, j \in DOMAIN q : q[i] = m /\ q[j] = m => i = j

Tells(m, p)    == m.type = "gossip" /\ p \in m.entries
Mentions(q, p) == \E i \in DOMAIN q : Tells(q[i], p)

\* Wherever m is in q, a gossip with p is ahead of it.
Preceded(q, m, p) ==
  \A i \in DOMAIN q : q[i] = m => \E j \in DOMAIN q : j < i /\ Tells(q[j], p)

Knows(n, p) == IF n \in Hub THEN where[n][p] # None ELSE p \in known[n]

-----------------------------------------------------------------------------
(* Copies of an envelope                                                   *)

\* Nothing is relayed, seen or delivered that was not sent.
SentFirst ==
  /\ \A h \in Hub : seen[h] \subseteq sent
  /\ \A c \in Node \X Node, e \in Env : Envelope(e) \in Range(chan[c]) => e \in sent
  /\ \A e \in Env : arrived[e] > 0 => e \in sent

\* A hub writes an envelope to no spoke but its addressee.
Addressed == \A h \in Hub, p \in Spoke, e \in Env :
               Envelope(e) \in Range(chan[<<h, p>>]) => p = To[e]

\* A spoke has frames to read from its own hub only.
OwnHub == \A h \in Hub, p \in Spoke : chan[<<h, p>>] # <<>> => at[p] = h

\* The addressee's hub has seen an envelope that is on its way from there or
\* has arrived, of which there is one.
Once ==
  \A e \in sent \ roamed, h \in Hub :
    at[To[e]] = h =>
      /\ Single(chan[<<h, To[e]>>], Envelope(e))
      /\ Envelope(e) \in Range(chan[<<h, To[e]>>]) => arrived[e] = 0 /\ e \in seen[h]
      /\ arrived[e] > 0 => e \in seen[h]

\* It has one.
Delivered ==
  \A e \in sent \ roamed : arrived[e] > 0 => arrived[e] = 1 /\ at[To[e]] # None

Copies == SentFirst /\ Addressed /\ OwnHub /\ Once /\ Delivered

-----------------------------------------------------------------------------
(* Keys                                                                    *)

\* No spoke has left, no hub was restarted and no link was cut.
Undisturbed == faults["leave"] = 0 /\ faults["restart"] = 0 /\ links = dialled

\* A hub's tables agree with the sessions.
Attached ==
  /\ \A h \in Hub, p \in Spoke : p \in spokes[h] => at[p] = h /\ where[h][p] # None
  /\ \A h \in Hub, p \in Spoke : where[h][p] = h => p \in spokes[h]
  /\ \A h \in Hub : \A g \in hubs[h] : Linked(g, h)
  /\ \A p \in Spoke : p \notin known[p]
  /\ \A e \in sent : From[e] # To[e]

\* Every gossip on its way.
OnWay == {m \in UNION {Range(chan[c]) : c \in Node \X Node} : m.type = "gossip"}

\* Gossip is numbered as its hub learned what it says, and who counts it as
\* old knows that.
Numbered ==
  /\ \A h \in Hub : gseen[h][h] = seq[h] /\ \A o \in Hub : gseen[h][o] <= seq[o]
  /\ \A g \in OnWay :
       /\ g.seq <= seq[g.hub]
       /\ \A p \in g.entries : where[g.hub][p] # None
       /\ \A h \in Hub : g.seq <= gseen[h][g.hub] =>
            \A p \in g.entries : where[h][p] # None
       /\ \A m \in OnWay : g.hub = m.hub /\ g.seq <= m.seq => g.entries \subseteq m.entries

\* What a hub tells it knows, and what it knows it has told all it lists.
Told ==
  /\ \A h \in Hub, n \in Node : \A g \in Range(chan[<<h, n>>]) :
       g.type = "gossip" => \A p \in g.entries : where[h][p] # None
  /\ \A h \in Hub : \A n \in spokes[h] \cup hubs[h], p \in Spoke :
       p # n /\ where[h][p] # None => Knows(n, p) \/ Mentions(chan[<<h, n>>], p)

\* The sender's key is known at the end of a channel, or ahead of the envelope.
KeyFirst ==
  \A e \in sent \ stranded, f, n \in Node :
    \/ n = From[e]
    \/ Knows(n, From[e])
    \/ Preceded(chan[<<f, n>>], Envelope(e), From[e])

Opened == \A e \in sent \ stranded : arrived[e] > 0 => e \in opened

Keys == Undisturbed => Attached /\ Numbered /\ Told /\ KeyFirst /\ Opened

\* Once a link is lost, it is in this life of the hubs, and whatever is sent counts
\* as stranded.
LinkLost ==
  faults["leave"] = 0 /\ faults["restart"] = 0 /\ links # dialled => sent \subseteq stranded

IInv == TypeOK /\ Copies /\ Keys /\ LinkLost

-----------------------------------------------------------------------------
(* Frames and sequences of frames                                          *)

LEMMA FrameKinds ==
  ASSUME NEW m \in Frame
  PROVE  /\ m.type \in {"presence", "envelope", "gossip"}
         /\ m.type = "presence" => m = Presence
         /\ m.type = "envelope" => m.id \in Env /\ m = Envelope(m.id)
         /\ m.type = "gossip" => /\ m.hub \in Hub /\ m.seq \in Nat
                                 /\ m.entries \subseteq Spoke
                                 /\ m = Gossip(m.hub, m.seq, m.entries)
<1>1. CASE m = Presence
  BY <1>1 DEF Presence
<1>2. CASE m \in [type : {"envelope"}, id : Env]
  BY <1>2 DEF Envelope
<1>3. CASE m \in [type : {"gossip"}, hub : Hub, seq : Nat, entries : SUBSET Spoke]
  BY <1>3 DEF Gossip
<1> QED
  BY <1>1, <1>2, <1>3 DEF Frame

LEMMA FramesMade ==
  /\ Presence \in Frame /\ Presence.type = "presence"
  /\ \A e \in Env : /\ Envelope(e) \in Frame
                    /\ Envelope(e).type = "envelope" /\ Envelope(e).id = e
  /\ \A h \in Hub, n \in Nat, P \in SUBSET Spoke :
       /\ Gossip(h, n, P) \in Frame /\ Gossip(h, n, P).type = "gossip"
       /\ Gossip(h, n, P).hub = h /\ Gossip(h, n, P).seq = n
       /\ Gossip(h, n, P).entries = P
<1>1. Presence \in Frame /\ Presence.type = "presence"
  BY DEF Frame, Presence
<1>2. ASSUME NEW e \in Env
      PROVE  /\ Envelope(e) \in Frame
             /\ Envelope(e).type = "envelope" /\ Envelope(e).id = e
  BY DEF Frame, Envelope
<1>3. ASSUME NEW h \in Hub, NEW n \in Nat, NEW P \in SUBSET Spoke
      PROVE  /\ Gossip(h, n, P) \in Frame /\ Gossip(h, n, P).type = "gossip"
             /\ Gossip(h, n, P).hub = h /\ Gossip(h, n, P).seq = n
             /\ Gossip(h, n, P).entries = P
  BY DEF Frame, Gossip
<1> QED
  BY <1>1, <1>2, <1>3

\* What an Append does to a channel.
LEMMA Appended ==
  ASSUME NEW q \in Seq(Frame), NEW x \in Frame
  PROVE  /\ Append(q, x) \in Seq(Frame)
         /\ Append(q, x) # <<>>
         /\ Range(Append(q, x)) = Range(q) \cup {x}
         /\ \A m : Single(q, m) /\ (m = x => m \notin Range(q)) => Single(Append(q, x), m)
         /\ \A p : Mentions(q, p) => Mentions(Append(q, x), p)
         /\ \A p : Tells(x, p) => Mentions(Append(q, x), p)
         /\ \A m, p : Preceded(q, m, p) /\ (m = x => Mentions(q, p)) =>
                        Preceded(Append(q, x), m, p)
<1> DEFINE r == Append(q, x)
<1>1. /\ r \in Seq(Frame) /\ r # <<>> /\ Len(r) = Len(q) + 1
      /\ \A i \in 1..Len(q) : r[i] = q[i]
      /\ r[Len(q) + 1] = x
  BY AppendProperties
<1> HIDE DEF r
<1>2. /\ DOMAIN q = 1..Len(q) /\ Len(q) \in Nat
      /\ DOMAIN r = 1..Len(q) + 1
  BY <1>1, LenProperties
<1>3. /\ \A i \in DOMAIN q : i \in DOMAIN r /\ r[i] = q[i] /\ i < Len(q) + 1
      /\ \A i \in DOMAIN r : i \in DOMAIN q \/ i = Len(q) + 1
      /\ Len(q) + 1 \in DOMAIN r
  BY <1>1, <1>2
<1>4. Range(r) = Range(q) \cup {x}
  BY <1>1, <1>3 DEF Range
<1>5. ASSUME NEW m, Single(q, m), m = x => m \notin Range(q)
      PROVE  Single(r, m)
  BY <1>1, <1>3, <1>5 DEF Single, Range
<1>6. ASSUME NEW p, Mentions(q, p)
      PROVE  Mentions(r, p)
  BY <1>3, <1>6 DEF Mentions
<1>7. ASSUME NEW p, Tells(x, p)
      PROVE  Mentions(r, p)
  BY <1>1, <1>3, <1>7 DEF Mentions
<1>8. ASSUME NEW m, NEW p, Preceded(q, m, p), m = x => Mentions(q, p)
      PROVE  Preceded(r, m, p)
  BY <1>1, <1>3, <1>8 DEF Preceded, Mentions
<1> QED
  BY <1>1, <1>4, <1>5, <1>6, <1>7, <1>8 DEF r

\* What a read does to it.
LEMMA HeadRead ==
  ASSUME NEW q \in Seq(Frame), q # <<>>
  PROVE  /\ Head(q) \in Frame /\ Head(q) \in Range(q)
         /\ Tail(q) \in Seq(Frame)
         /\ Range(q) = {Head(q)} \cup Range(Tail(q))
         /\ \A m : Single(q, m) => /\ Single(Tail(q), m)
                                   /\ m = Head(q) => m \notin Range(Tail(q))
         /\ \A p : Mentions(q, p) => Tells(Head(q), p) \/ Mentions(Tail(q), p)
         /\ \A m, p : Preceded(q, m, p) => /\ m # Head(q)
                                           /\ Tells(Head(q), p) \/ Preceded(Tail(q), m, p)
<1> DEFINE r == Tail(q)
           h == Head(q)
<1>1. /\ r \in Seq(Frame) /\ h \in Frame /\ h = q[1]
      /\ Len(q) \in Nat \ {0} /\ DOMAIN q = 1..Len(q)
      /\ DOMAIN r = 1..Len(q) - 1
      /\ \A i \in 1..Len(q) - 1 : r[i] = q[i + 1]
  BY HeadTailProperties, LenProperties, EmptySeq
<1> HIDE DEF r, h
<1>2. /\ 1 \in DOMAIN q
      /\ \A i \in DOMAIN r : i + 1 \in DOMAIN q /\ q[i + 1] = r[i] /\ i \in Nat \ {0}
      /\ \A i \in DOMAIN q : i = 1 \/ (i - 1 \in DOMAIN r /\ r[i - 1] = q[i])
      /\ \A i \in DOMAIN q : i \in Nat \ {0}
  BY <1>1
<1>3. h \in Range(q)
  BY <1>1, <1>2, Zenon DEF Range
<1>4. Range(q) = {h} \cup Range(r)
  <2>1. ASSUME NEW i \in DOMAIN q
        PROVE  q[i] \in {h} \cup Range(r)
    BY <1>1, <1>2 DEF Range
  <2>2. ASSUME NEW i \in DOMAIN r
        PROVE  r[i] \in Range(q)
    BY <1>2 DEF Range
  <2> QED
    BY <1>3, <2>1, <2>2 DEF Range
<1>5. ASSUME NEW m, Single(q, m)
      PROVE  Single(r, m) /\ (m = h => m \notin Range(r))
  <2>1. Single(r, m)
    BY <1>2, <1>5 DEF Single
  <2>2. ASSUME m = h, NEW i \in DOMAIN r, r[i] = m
        PROVE  FALSE
    <3>1. i + 1 \in DOMAIN q /\ q[i + 1] = m /\ q[1] = m /\ i + 1 # 1
      BY <1>1, <1>2, <2>2
    <3> QED
      BY <1>2, <1>5, <3>1 DEF Single
  <2> QED
    BY <2>1, <2>2 DEF Range
<1>6. ASSUME NEW p, Mentions(q, p)
      PROVE  Tells(h, p) \/ Mentions(r, p)
  BY <1>1, <1>2, <1>6 DEF Mentions
<1>7. ASSUME NEW m, NEW p, Preceded(q, m, p)
      PROVE  m # h /\ (Tells(h, p) \/ Preceded(r, m, p))
  <2>1. m # h
    BY <1>1, <1>2, <1>7 DEF Preceded
  <2>2. ASSUME ~Tells(h, p), NEW i \in DOMAIN r, r[i] = m
        PROVE  \E j \in DOMAIN r : j < i /\ Tells(r[j], p)
    <3>1. PICK k \in DOMAIN q : k < i + 1 /\ Tells(q[k], p)
      BY <1>2, <1>7, <2>2 DEF Preceded
    <3>2. k # 1
      BY <1>1, <2>2, <3>1
    <3>3. k - 1 \in DOMAIN r /\ r[k - 1] = q[k]
      BY <1>2, <3>2
    <3>4. k - 1 < i
      <4>1. k \in Nat /\ i \in Nat
        BY <1>2
      <4> QED
        BY <3>1, <4>1
    <3> QED
      BY <3>1, <3>3, <3>4
  <2> QED
    BY <2>1, <2>2 DEF Preceded
<1> QED
  BY <1>1, <1>3, <1>4, <1>5, <1>6, <1>7 DEF r, h

LEMMA NoFrames == /\ <<>> \in Seq(Frame)
                  /\ Range(<<>>) = {}
                  /\ \A m : Single(<<>>, m)
                  /\ \A p : ~Mentions(<<>>, p)
                  /\ \A m, p : Preceded(<<>>, m, p)
BY DEF Range, Single, Mentions, Preceded

-----------------------------------------------------------------------------
(* Channels                                                                *)

Channels == [Node \X Node -> Seq(Frame)]

LEMMA Apart == /\ \A h \in Hub, p \in Spoke : h # p
               /\ None \notin Hub /\ None \notin Spoke
               /\ \A n \in Node : n \in Hub \/ n \in Spoke
               /\ Hub \subseteq Node /\ Spoke \subseteq Node
BY FederationAssumption DEF Node

LEMMA Pairs == /\ \A a, b \in Node : <<a, b>> \in Node \X Node
               /\ \A c \in Node \X Node : c[1] \in Node /\ c[2] \in Node /\ c = <<c[1], c[2]>>
OBVIOUS

LEMMA SendToAt ==
  ASSUME NEW ch \in Channels, NEW n, NEW T, NEW m \in Frame
  PROVE  /\ SendTo(ch, n, T, m) \in Channels
         /\ \A c \in Node \X Node :
              SendTo(ch, n, T, m)[c] = IF c[1] = n /\ c[2] \in T THEN Append(ch[c], m)
                                                                ELSE ch[c]
<1>1. \A c \in Node \X Node :
        SendTo(ch, n, T, m)[c] = IF c[1] = n /\ c[2] \in T THEN Append(ch[c], m)
                                                          ELSE ch[c]
  BY Zenon DEF SendTo
<1>2. \A c \in Node \X Node : ch[c] \in Seq(Frame)
  BY DEF Channels
<1>3. \A c \in Node \X Node : SendTo(ch, n, T, m)[c] \in Seq(Frame)
  <2> TAKE c \in Node \X Node
  <2>1. Append(ch[c], m) \in Seq(Frame)
    BY <1>2, Appended
  <2> QED
    BY <1>1, <1>2, <2>1
<1>4. SendTo(ch, n, T, m) = [c \in Node \X Node |-> SendTo(ch, n, T, m)[c]]
  BY Zenon DEF SendTo
<1>5. SendTo(ch, n, T, m) \in Channels
  BY <1>3, <1>4 DEF Channels
<1> QED
  BY <1>1, <1>5

LEMMA SendToEither ==
  ASSUME NEW ch \in Channels, NEW n, NEW T, NEW m \in Frame, NEW c \in Node \X Node
  PROVE  SendTo(ch, n, T, m)[c] = ch[c] \/ SendTo(ch, n, T, m)[c] = Append(ch[c], m)
<1>1. SendTo(ch, n, T, m)[c] = IF c[1] = n /\ c[2] \in T THEN Append(ch[c], m) ELSE ch[c]
  BY SendToAt
<1> QED
  BY <1>1

LEMMA SendToPair ==
  ASSUME NEW ch \in Channels, NEW n, NEW T, NEW m \in Frame, NEW a \in Node, NEW b \in Node
  PROVE  SendTo(ch, n, T, m)[<<a, b>>] =
           IF a = n /\ b \in T THEN Append(ch[<<a, b>>], m) ELSE ch[<<a, b>>]
<1>1. <<a, b>> \in Node \X Node /\ <<a, b>>[1] = a /\ <<a, b>>[2] = b
  OBVIOUS
<1> QED
  BY <1>1, SendToAt

LEMMA ReadAt ==
  ASSUME NEW ch \in Channels, NEW f \in Node, NEW n \in Node, ch[<<f, n>>] # <<>>
  PROVE  /\ Read(ch, f, n) \in Channels
         /\ \A c \in Node \X Node :
              Read(ch, f, n)[c] = IF c = <<f, n>> THEN Tail(ch[c]) ELSE ch[c]
<1>1. <<f, n>> \in Node \X Node
  OBVIOUS
<1>2. ch[<<f, n>>] \in Seq(Frame)
  BY <1>1 DEF Channels
<1>3. Tail(ch[<<f, n>>]) \in Seq(Frame)
  BY <1>2, HeadRead
<1>4. \A c \in Node \X Node :
        Read(ch, f, n)[c] = IF c = <<f, n>> THEN Tail(ch[c]) ELSE ch[c]
  BY <1>1 DEF Read, Channels
<1>5. Read(ch, f, n) \in Channels
  BY <1>1, <1>3 DEF Read, Channels
<1> QED
  BY <1>4, <1>5

LEMMA ReadPair ==
  ASSUME NEW ch \in Channels, NEW f \in Node, NEW n \in Node, NEW a \in Node, NEW b \in Node
  PROVE  Read(ch, f, n)[<<a, b>>] =
           IF a = f /\ b = n THEN Tail(ch[<<a, b>>]) ELSE ch[<<a, b>>]
<1>1. /\ <<a, b>> \in Node \X Node /\ (<<a, b>> = <<f, n>> <=> a = f /\ b = n)
      /\ <<f, n>> \in Node \X Node
  OBVIOUS
<1> QED
  BY <1>1 DEF Read, Channels

LEMMA WithoutAt ==
  ASSUME NEW ch \in Channels, NEW S, NEW T
  PROVE  /\ Without(ch, S, T) \in Channels
         /\ \A c \in Node \X Node :
              Without(ch, S, T)[c] = IF c \in (S \X T) \cup (T \X S) THEN <<>> ELSE ch[c]
<1>1. <<>> \in Seq(Frame)
  BY NoFrames
<1> QED
  BY <1>1 DEF Without, Channels

\* What gossipLocal() does to the tables of its hub, and what it sends.
LEMMA GossipLocalDoes ==
  ASSUME TypeOK, NEW h \in Hub, NEW S \in SUBSET Spoke, NEW H \in SUBSET Hub, NEW T,
         NEW ch \in Channels, GossipLocal(h, S, H, T, ch)
  PROVE  \E g \in Frame :
           /\ g.type = "gossip" /\ g.hub = h /\ g.seq = seq[h] + 1
           /\ g.entries = {p \in Spoke : /\ where'[h][p] # None
                                         /\ where'[h][p] = h => p \in S}
           /\ chan' = SendTo(ch, h, T, g)
           /\ seq' = [seq EXCEPT ![h] = seq[h] + 1]
           /\ gseen' = [gseen EXCEPT ![h][h] = seq[h] + 1]
           /\ \A k \in Hub \ {h} : where'[k] = where[k]
           /\ \A p \in Spoke : where'[h][p] = IF p \in S THEN h ELSE where[h][p]
           /\ spokes' = [spokes EXCEPT ![h] = S]
           /\ hubs' = [hubs EXCEPT ![h] = H]
           /\ chan' \in Channels
           /\ seq' \in [Hub -> Nat] /\ gseen' \in [Hub -> [Hub -> Nat]]
           /\ where' \in [Hub -> [Spoke -> Hub \cup {None}]]
           /\ spokes' \in [Hub -> SUBSET Spoke] /\ hubs' \in [Hub -> SUBSET Hub]
<1> DEFINE n == seq[h] + 1
           w == [p \in Spoke |-> IF p \in S THEN h ELSE where[h][p]]
           g == Gossip(h, n, Entries(h, S, w))
<1>1. /\ seq' = [seq EXCEPT ![h] = n]
      /\ gseen' = [gseen EXCEPT ![h][h] = n]
      /\ where' = [where EXCEPT ![h] = w]
      /\ spokes' = [spokes EXCEPT ![h] = S]
      /\ hubs' = [hubs EXCEPT ![h] = H]
      /\ chan' = SendTo(ch, h, T, g)
  BY DEF GossipLocal
<1>2. n \in Nat /\ w \in [Spoke -> Hub \cup {None}]
  BY DEF TypeOK
<1>3. where'[h] = w
  BY <1>1 DEF TypeOK
<1>4. Entries(h, S, w) \in SUBSET Spoke
      /\ Entries(h, S, w) = {p \in Spoke : w[p] # None /\ (w[p] = h => p \in S)}
  BY DEF Entries
<1>5. /\ g \in Frame /\ g.type = "gossip" /\ g.hub = h /\ g.seq = n
      /\ g.entries = Entries(h, S, w)
  BY <1>2, <1>4, FramesMade
<1>6. chan' \in Channels
  BY <1>1, <1>5, SendToAt
<1>7. /\ \A k \in Hub \ {h} : where'[k] = where[k]
      /\ where' \in [Hub -> [Spoke -> Hub \cup {None}]]
  BY <1>1, <1>2 DEF TypeOK
<1>8. \A p \in Spoke : where'[h][p] = IF p \in S THEN h ELSE where[h][p]
  BY <1>3
<1>9. /\ seq' \in [Hub -> Nat] /\ gseen' \in [Hub -> [Hub -> Nat]]
      /\ spokes' \in [Hub -> SUBSET Spoke] /\ hubs' \in [Hub -> SUBSET Hub]
  BY <1>1, <1>2 DEF TypeOK
<1>10. g.entries = {p \in Spoke : where'[h][p] # None /\ (where'[h][p] = h => p \in S)}
  BY <1>3, <1>4, <1>5
<1> HIDE DEF g
<1> QED
  BY <1>1, <1>5, <1>6, <1>7, <1>8, <1>9, <1>10

LEMMA GossipSends ==
  ASSUME TypeOK, NEW h \in Hub, NEW S, NEW H, NEW T, NEW ch, GossipLocal(h, S, H, T, ch)
  PROVE  \E g \in Frame : g.type = "gossip" /\ chan' = SendTo(ch, h, T, g)
<1> DEFINE w == [p \in Spoke |-> IF p \in S THEN h ELSE where[h][p]]
           E == Entries(h, S, w)
           g == Gossip(h, seq[h] + 1, E)
<1>1. E \in SUBSET Spoke /\ seq[h] + 1 \in Nat
  BY DEF Entries, TypeOK
<1>2. chan' = SendTo(ch, h, T, g)
  BY DEF GossipLocal
<1> HIDE DEF E
<1>3. g \in Frame /\ g.type = "gossip"
  BY <1>1, FramesMade
<1> QED
  BY <1>2, <1>3

-----------------------------------------------------------------------------
(* Types                                                                   *)

LEMMA SetupTypes == ASSUME TypeOK
                 PROVE  /\ setup.dials \subseteq Hub \X Hub
                        /\ \A d \in setup.dials : d[1] # d[2]
                        /\ setup.invites \in [Spoke -> SUBSET Hub]
                        /\ \A f \in Fault : setup.bound[f] \in Nat /\ faults[f] \in Nat
BY FederationAssumption DEF TypeOK, Setup

LEMMA FaultTypes == ASSUME TypeOK, NEW f \in Fault, Happens(f)
                    PROVE  /\ faults' \in [Fault -> Nat]
                           /\ \A g \in Fault : faults'[g] <= setup.bound[g]
                           /\ faults'[f] # 0
                           /\ \A g \in Fault \ {f} : faults'[g] = faults[g]
<1>1. /\ faults \in [Fault -> Nat] /\ \A g \in Fault : setup.bound[g] \in Nat
      /\ \A g \in Fault : faults[g] <= setup.bound[g]
  BY SetupTypes DEF TypeOK
<1> QED
  BY <1>1 DEF Happens

\* A frame that is read from a channel.
LEMMA FrameRead ==
  ASSUME TypeOK, NEW f \in Node, NEW n \in Node, NEW type, NextFrame(f, n, type)
  PROVE  /\ chan[<<f, n>>] \in Seq(Frame) /\ chan[<<f, n>>] # <<>>
         /\ Head(chan[<<f, n>>]) \in Frame
         /\ Head(chan[<<f, n>>]).type = type
         /\ Read(chan, f, n) \in Channels
<1>1. chan \in Channels /\ <<f, n>> \in Node \X Node
  BY DEF TypeOK, Channels
<1>2. chan[<<f, n>>] \in Seq(Frame) /\ chan[<<f, n>>] # <<>>
  BY <1>1 DEF Channels, NextFrame
<1> QED
  BY <1>1, <1>2, HeadRead, ReadAt DEF NextFrame

LEMMA InitType == Init => TypeOK
<1> SUFFICES ASSUME Init PROVE TypeOK
  OBVIOUS
<1>1. chan \in [Node \X Node -> Seq(Frame)]
  BY NoFrames DEF Init
<1>2. \A f \in Fault : setup.bound[f] \in Nat
  BY FederationAssumption DEF Init, Setup
<1> QED
  BY <1>1, <1>2 DEF Init, TypeOK

LEMMA TypeStep == ASSUME TypeOK, [Next]_vars
                  PROVE  TypeOK'
<1> USE DEF tables, net, history
<1>1. chan \in Channels
  BY DEF TypeOK, Channels
<1>2. CASE UNCHANGED vars
  BY <1>2 DEF vars, TypeOK
<1>3. ASSUME NEW f \in Hub, NEW h \in Hub, ReadGossip(f, h)
      PROVE  TypeOK'
  <2> DEFINE g == Head(chan[<<f, h>>])
             ch == Read(chan, f, h)
  <2>1. ch \in Channels /\ g \in Frame /\ g.type = "gossip"
    BY <1>3, Apart, FrameRead DEF ReadGossip
  <2>2. g.hub \in Hub /\ g.seq \in Nat
    BY <2>1, FrameKinds
  <2> DEFINE gseen1 == [gseen EXCEPT ![h][g.hub] = g.seq]
             where1 == [where EXCEPT ![h] =
                          [p \in Spoke |-> IF p \in g.entries THEN g.hub ELSE @[p]]]
  <2>3. /\ gseen1 \in [Hub -> [Hub -> Nat]]
        /\ where1 \in [Hub -> [Spoke -> Hub \cup {None}]]
    <3> HIDE DEF g
    <3>1. gseen1 \in [Hub -> [Hub -> Nat]]
      BY <2>2 DEF TypeOK
    <3>2. [p \in Spoke |-> IF p \in g.entries THEN g.hub ELSE where[h][p]]
            \in [Spoke -> Hub \cup {None}]
      BY <2>2 DEF TypeOK
    <3>3. where1 \in [Hub -> [Spoke -> Hub \cup {None}]]
      BY <3>2 DEF TypeOK
    <3> QED
      BY <3>1, <3>3
  <2>4. SendTo(ch, h, Live(h) \ {f}, g) \in Channels
    BY <2>1, SendToAt
  <2>5. /\ \/ chan' = ch /\ gseen' = gseen /\ where' = where
           \/ chan' = SendTo(ch, h, Live(h) \ {f}, g) /\ gseen' = gseen1 /\ where' = where1
        /\ UNCHANGED <<at, known, spokes, hubs, seq, seen, net, history>>
    BY <1>3 DEF ReadGossip
  <2> HIDE DEF g, ch, gseen1, where1
  <2> QED
    BY <2>1, <2>3, <2>4, <2>5 DEF TypeOK, Channels
<1>4. ASSUME NEW f \in Node, NEW h \in Hub, Forward(f, h)
      PROVE  TypeOK'
  <2> DEFINE m == Head(chan[<<f, h>>])
             ch == Read(chan, f, h)
             T == NextHops(h, To[m.id], f) \cap Live(h)
  <2>1. ch \in Channels /\ m \in Frame /\ m.type = "envelope"
    BY <1>4, Apart, FrameRead DEF Forward
  <2>2. m.id \in Env /\ SendTo(ch, h, T, m) \in Channels
    BY <2>1, FrameKinds, SendToAt
  <2>3. /\ chan' \in {ch, SendTo(ch, h, T, m)}
        /\ seen' = [seen EXCEPT ![h] = @ \cup {m.id}]
        /\ UNCHANGED <<at, known, tables, net, history>>
    BY <1>4 DEF Forward
  <2> HIDE DEF m, ch, T
  <2>4. chan' \in Channels /\ seen' \in [Hub -> SUBSET Env]
    BY <2>1, <2>2, <2>3 DEF TypeOK
  <2> QED
    BY <2>3, <2>4 DEF TypeOK, Channels
<1>5. ASSUME NEW p \in Spoke, NEW h \in Hub, SpokeGossip(h, p)
      PROVE  TypeOK'
  <2>1. /\ Read(chan, h, p) \in Channels /\ Head(chan[<<h, p>>]) \in Frame
        /\ Head(chan[<<h, p>>]).type = "gossip"
    BY <1>5, Apart, FrameRead DEF SpokeGossip
  <2>2. Head(chan[<<h, p>>]).entries \subseteq Spoke
    BY <2>1, FrameKinds
  <2>3. known' \in [Spoke -> SUBSET Spoke]
    BY <1>5, <2>2 DEF SpokeGossip, TypeOK
  <2> QED
    BY <1>5, <2>1, <2>3 DEF SpokeGossip, TypeOK, Channels
<1>6. ASSUME NEW p \in Spoke, NEW h \in Hub, Deliver(h, p)
      PROVE  TypeOK'
  <2> DEFINE e == Head(chan[<<h, p>>]).id
  <2>1. Read(chan, h, p) \in Channels /\ e \in Env
    BY <1>6, Apart, FrameRead, FrameKinds DEF Deliver
  <2>2. arrived' = [arrived EXCEPT ![e] = IF @ < 2 THEN @ + 1 ELSE 2]
    BY <1>6 DEF Deliver
  <2>3. arrived' \in [Env -> 0..2]
    <3> HIDE DEF e
    <3>1. arrived[e] \in 0..2
      BY <2>1 DEF TypeOK
    <3>2. (IF arrived[e] < 2 THEN arrived[e] + 1 ELSE 2) \in 0..2
      BY <3>1
    <3> QED
      BY <2>1, <2>2, <3>2 DEF TypeOK
  <2> QED
    BY <1>6, <2>1, <2>3 DEF Deliver, TypeOK, Channels
<1>7. ASSUME NEW p \in Spoke, NEW h \in Hub, ReadPresence(p, h)
      PROVE  TypeOK'
  <2>1. Read(chan, p, h) \in Channels /\ spokes[h] \in SUBSET Spoke /\ hubs[h] \in SUBSET Hub
    BY <1>7, Apart, FrameRead DEF ReadPresence, TypeOK
  <2>2. GossipLocal(h, spokes[h], hubs[h], Live(h), Read(chan, p, h))
    BY <1>7 DEF ReadPresence
  <2> QED
    BY <1>7, <2>1, <2>2, GossipLocalDoes DEF ReadPresence, TypeOK, Channels
<1>8. ASSUME NEW a \in Hub, NEW b \in Hub,
             AcceptPeer(a, b) \/ DialPeer(a, b) \/ DropPeer(a, b)
      PROVE  TypeOK'
  <2>1. /\ \A h \in Hub : spokes[h] \in SUBSET Spoke /\ hubs[h] \in SUBSET Hub
        /\ hubs[b] \cup {a} \in SUBSET Hub /\ hubs[a] \cup {b} \in SUBSET Hub
        /\ hubs[a] \ {b} \in SUBSET Hub
    BY DEF TypeOK
  <2>2. CASE AcceptPeer(a, b)
    <3>1. GossipLocal(b, spokes[b], hubs[b] \cup {a}, Live(b) \cup {a}, chan)
      BY <2>2 DEF AcceptPeer
    <3>2. links' \subseteq dialled' /\ dialled' \subseteq setup.dials
      BY <2>2 DEF AcceptPeer, TypeOK
    <3> QED
      BY <1>1, <2>1, <2>2, <3>1, <3>2, GossipLocalDoes DEF AcceptPeer, TypeOK, Channels
  <2>3. CASE DialPeer(a, b)
    <3>1. GossipLocal(a, spokes[a], hubs[a] \cup {b}, Live(a) \cup {b}, chan)
      BY <2>3 DEF DialPeer
    <3> QED
      BY <1>1, <2>1, <2>3, <3>1, GossipLocalDoes DEF DialPeer, TypeOK, Channels
  <2>4. CASE DropPeer(a, b)
    <3>1. GossipLocal(a, spokes[a], hubs[a] \ {b}, Live(a), chan)
      BY <2>4 DEF DropPeer
    <3> QED
      BY <1>1, <2>1, <2>4, <3>1, GossipLocalDoes DEF DropPeer, TypeOK, Channels
  <2> QED
    BY <1>8, <2>2, <2>3, <2>4
<1>9. ASSUME NEW a \in Hub, NEW b \in Hub, Cut(a, b)
      PROVE  TypeOK'
  <2>1. chan' \in Channels
    BY <1>1, <1>9, WithoutAt DEF Cut
  <2>2. /\ faults' \in [Fault -> Nat]
        /\ \A f \in Fault : faults'[f] <= setup.bound[f]
    BY <1>9, FaultTypes DEF Cut, Fault
  <2>3. links' \subseteq dialled
    BY <1>9 DEF Cut, TypeOK
  <2> QED
    BY <1>9, <2>1, <2>2, <2>3 DEF Cut, TypeOK, Channels
<1>10. ASSUME NEW h \in Hub, Restart(h)
       PROVE  TypeOK'
  <2>1. chan' \in Channels
    BY <1>1, <1>10, WithoutAt DEF Restart
  <2>2. /\ faults' \in [Fault -> Nat]
        /\ \A f \in Fault : faults'[f] <= setup.bound[f]
    BY <1>10, FaultTypes DEF Restart, Fault
  <2>3. links' \subseteq dialled' /\ dialled' \subseteq setup.dials
    BY <1>10, SetupTypes DEF Restart, TypeOK
  <2>4. /\ at' \in [Spoke -> Hub \cup {None}]
        /\ spokes' \in [Hub -> SUBSET Spoke] /\ hubs' \in [Hub -> SUBSET Hub]
        /\ where' \in [Hub -> [Spoke -> Hub \cup {None}]]
        /\ seq' \in [Hub -> Nat] /\ gseen' \in [Hub -> [Hub -> Nat]]
        /\ seen' \in [Hub -> SUBSET Env]
    BY <1>10 DEF Restart, TypeOK
  <2> QED
    BY <1>10, <2>1, <2>2, <2>3, <2>4 DEF Restart, TypeOK, Channels
<1>11. ASSUME NEW p \in Spoke, NEW h \in Hub, Connect(p, h) \/ Drop(p, h)
       PROVE  TypeOK'
  <2>1. /\ hubs[h] \in SUBSET Hub /\ <<p, h>> \in Node \X Node
        /\ spokes[h] \cup {p} \in SUBSET Spoke /\ spokes[h] \ {p} \in SUBSET Spoke
    BY Apart DEF TypeOK
  <2>2. CASE Connect(p, h)
    <3> DEFINE ch == SendTo(chan, p, {h}, Presence)
    <3>1. ch \in Channels
      BY <1>1, FramesMade, SendToAt
    <3>2. GossipLocal(h, spokes[h] \cup {p}, hubs[h], Live(h) \cup {p}, ch)
      BY <2>2 DEF Connect
    <3>3. at' \in [Spoke -> Hub \cup {None}]
      BY <2>2 DEF Connect, TypeOK
    <3> HIDE DEF ch
    <3> QED
      BY <2>1, <2>2, <3>1, <3>2, <3>3, GossipLocalDoes DEF Connect, TypeOK, Channels
  <2>3. CASE Drop(p, h)
    <3> DEFINE ch == [chan EXCEPT ![<<p, h>>] = <<>>]
    <3>1. ch \in Channels
      BY <1>1, NoFrames DEF Channels
    <3>2. GossipLocal(h, spokes[h] \ {p}, hubs[h], Live(h), ch)
      BY <2>3 DEF Drop
    <3> HIDE DEF ch
    <3> QED
      BY <2>1, <2>3, <3>1, <3>2, GossipLocalDoes DEF Drop, TypeOK, Channels
  <2> QED
    BY <1>11, <2>2, <2>3
<1>12. ASSUME NEW p \in Spoke, Leave(p)
       PROVE  TypeOK'
  <2>1. chan' \in Channels
    BY <1>1, <1>12, NoFrames DEF Leave, Channels
  <2>2. /\ faults' \in [Fault -> Nat]
        /\ \A f \in Fault : faults'[f] <= setup.bound[f]
    BY <1>12, FaultTypes DEF Leave, Fault
  <2> QED
    BY <1>12, <2>1, <2>2 DEF Leave, TypeOK, Channels
<1>13. ASSUME NEW e \in Env, Post(e)
       PROVE  TypeOK'
  <2>1. chan' \in Channels
    BY <1>1, <1>13, FramesMade, SendToAt DEF Post
  <2> QED
    BY <1>13, <2>1 DEF Post, TypeOK, Channels
<1> QED
  BY <1>2, <1>3, <1>4, <1>5, <1>6, <1>7, <1>8, <1>9, <1>10, <1>11, <1>12, <1>13
  DEF Next, Receive

-----------------------------------------------------------------------------
(* Copies of an envelope                                                   *)

\* r is channel q after frames were read or lost and others than envelopes
\* were added.
Fewer(q, r) == \A e \in Env :
                 /\ Envelope(e) \in Range(r) => Envelope(e) \in Range(q)
                 /\ Single(q, Envelope(e)) => Single(r, Envelope(e))

LEMMA FewerCases ==
  ASSUME NEW q \in Seq(Frame)
  PROVE  /\ Fewer(q, q) /\ Fewer(q, <<>>)
         /\ q # <<>> => Fewer(q, Tail(q))
         /\ \A g \in Frame : g.type # "envelope" => Fewer(q, Append(q, g))
<1>1. Fewer(q, <<>>)
  BY NoFrames DEF Fewer
<1>2. ASSUME q # <<>>
      PROVE  Fewer(q, Tail(q))
  BY <1>2, HeadRead DEF Fewer
<1>3. ASSUME NEW g \in Frame, g.type # "envelope"
      PROVE  Fewer(q, Append(q, g))
  <2>1. \A e \in Env : g # Envelope(e)
    BY <1>3, FramesMade
  <2> QED
    BY <2>1, Appended DEF Fewer
<1> QED
  BY <1>1, <1>2, <1>3 DEF Fewer

LEMMA FewerTwice == ASSUME NEW q, NEW r, NEW s, Fewer(q, r), Fewer(r, s)
                    PROVE  Fewer(q, s)
BY DEF Fewer

\* Writing a frame that is not an envelope.
LEMMA FewerSent ==
  ASSUME NEW ch \in Channels, NEW n, NEW T, NEW m \in Frame, m.type # "envelope",
         NEW c \in Node \X Node
  PROVE  Fewer(ch[c], SendTo(ch, n, T, m)[c])
<1>1. ch[c] \in Seq(Frame)
  BY DEF Channels
<1> QED
  BY <1>1, SendToAt, FewerCases

LEMMA FewerRead ==
  ASSUME NEW ch \in Channels, NEW f \in Node, NEW n \in Node, ch[<<f, n>>] # <<>>,
         NEW c \in Node \X Node
  PROVE  Fewer(ch[c], Read(ch, f, n)[c])
<1>1. ch[c] \in Seq(Frame)
  BY DEF Channels
<1> QED
  BY <1>1, ReadAt, FewerCases

\* Steps that neither send, relay nor deliver an envelope.
LEMMA CopiesKept ==
  ASSUME TypeOK, TypeOK', Copies,
         \A c \in Node \X Node : Fewer(chan[c], chan'[c]),
         \A h \in Hub, p \in Spoke : chan'[<<h, p>>] # <<>> => at'[p] = h,
         sent' = sent, arrived' = arrived, roamed \subseteq roamed',
         \A h \in Hub : seen'[h] \subseteq seen[h],
         \A e \in sent \ roamed' :
           /\ at'[To[e]] = at[To[e]] \/ (at[To[e]] = None /\ at'[To[e]] # None)
           /\ \A h \in Hub : at'[To[e]] = h /\ e \in seen[h] => e \in seen'[h]
  PROVE  Copies'
<1>1. SentFirst' /\ Addressed' /\ OwnHub'
  <2>1. \A h \in Hub, p \in Spoke : <<h, p>> \in Node \X Node
    BY Apart
  <2>2. SentFirst'
    BY DEF Copies, SentFirst, Fewer
  <2>3. Addressed'
    BY <2>1 DEF Copies, Addressed, Fewer
  <2>4. OwnHub'
    BY DEF OwnHub
  <2> QED
    BY <2>2, <2>3, <2>4
<1>2. Delivered'
  BY DEF Copies, Delivered
<1>3. Once'
  <2> SUFFICES ASSUME NEW e \in sent \ roamed', NEW h \in Hub, at'[To[e]] = h
               PROVE  LET q == chan'[<<h, To[e]>>]
                      IN  /\ Single(q, Envelope(e))
                          /\ Envelope(e) \in Range(q) => arrived[e] = 0 /\ e \in seen'[h]
                          /\ arrived[e] > 0 => e \in seen'[h]
    BY DEF Once
  <2> DEFINE c == <<h, To[e]>>
  <2>1. e \in Env /\ To[e] \in Spoke /\ c \in Node \X Node /\ e \in sent \ roamed
    BY Apart, FederationAssumption DEF TypeOK
  <2>2. Fewer(chan[c], chan'[c])
    BY <2>1
  <2>3. CASE at[To[e]] = h
    <3>1. /\ Single(chan[c], Envelope(e))
          /\ Envelope(e) \in Range(chan[c]) => arrived[e] = 0 /\ e \in seen[h]
          /\ arrived[e] > 0 => e \in seen[h]
      BY <2>1, <2>3 DEF Copies, Once
    <3>2. e \in seen[h] => e \in seen'[h]
      OBVIOUS
    <3> QED
      BY <2>1, <2>2, <3>1, <3>2 DEF Fewer
  <2>4. CASE at[To[e]] # h
    <3>1. chan[c] = <<>>
      BY <2>1, <2>4 DEF Copies, OwnHub
    <3>2. ~(arrived[e] > 0)
      BY <2>1, <2>4 DEF Copies, Delivered
    <3>3. Single(chan[c], Envelope(e)) /\ Envelope(e) \notin Range(chan[c])
      BY <3>1, NoFrames
    <3> QED
      BY <2>1, <2>2, <3>2, <3>3 DEF Fewer
  <2> QED
    BY <2>3, <2>4
<1> QED
  BY <1>1, <1>2, <1>3 DEF Copies

\* What a hub writes to spokes, it writes to those attached to it.
LEMMA LiveHere == ASSUME TypeOK, NEW h \in Hub
                  PROVE  \A p \in Spoke : p \in Live(h) => at[p] = h
BY Apart DEF TypeOK, Live

\* gossipLocal() and the channels it writes to.
LEMMA GossipCopies ==
  ASSUME TypeOK, NEW h \in Hub, NEW S \in SUBSET Spoke, NEW H \in SUBSET Hub, NEW T,
         NEW ch \in Channels, GossipLocal(h, S, H, T, ch),
         \A c \in Node \X Node : Fewer(chan[c], ch[c])
  PROVE  /\ \A c \in Node \X Node : Fewer(chan[c], chan'[c])
         /\ \A k \in Hub, p \in Spoke :
              chan'[<<k, p>>] # <<>> => ch[<<k, p>>] # <<>> \/ (k = h /\ p \in T)
<1>1. PICK g \in Frame : g.type = "gossip" /\ chan' = SendTo(ch, h, T, g)
  BY GossipSends
<1>2. ASSUME NEW c \in Node \X Node
      PROVE  Fewer(chan[c], chan'[c])
  <2>1. Fewer(chan[c], ch[c])
    OBVIOUS
  <2>2. Fewer(ch[c], chan'[c])
    BY <1>1, FewerSent
  <2> QED
    BY <2>1, <2>2, FewerTwice
<1>3. ASSUME NEW k \in Hub, NEW p \in Spoke, chan'[<<k, p>>] # <<>>
      PROVE  ch[<<k, p>>] # <<>> \/ (k = h /\ p \in T)
  <2>1. k \in Node /\ p \in Node
    BY Apart
  <2> QED
    BY <1>1, <1>3, <2>1, SendToPair
<1> QED
  BY <1>2, <1>3

LEMMA NotIn == ASSUME NEW q, NEW m, m \notin Range(q)
               PROVE  Single(q, m)
BY DEF Single, Range

\* Forwarding an envelope.
LEMMA ForwardCopies == ASSUME TypeOK, Copies, NEW f \in Node, NEW h \in Hub, Forward(f, h)
                       PROVE  Copies'
<1> DEFINE m == Head(chan[<<f, h>>])
           e == m.id
           ch == Read(chan, f, h)
           T == NextHops(h, To[e], f) \cap Live(h)
<1>1. /\ chan \in Channels /\ ch \in Channels
      /\ h \in Node
      /\ m \in Frame /\ m.type = "envelope" /\ chan[<<f, h>>] # <<>>
      /\ chan[<<f, h>>] \in Seq(Frame)
  <2>1. chan \in Channels /\ h \in Node /\ NextFrame(f, h, "envelope")
    BY Apart DEF Forward, TypeOK, Channels
  <2> QED
    BY <2>1, FrameRead
<1>2. e \in Env /\ m = Envelope(e) /\ To[e] \in Spoke
  BY <1>1, FrameKinds, FederationAssumption
<1>3. /\ chan' = IF e \in seen[h] THEN ch ELSE SendTo(ch, h, T, m)
      /\ seen' = [seen EXCEPT ![h] = @ \cup {e}]
      /\ UNCHANGED <<at, sent, roamed, arrived>>
  BY DEF Forward, history
<1>4. m \in Range(chan[<<f, h>>])
  BY <1>1, HeadRead
<1>5. e \in sent
  <2>1. <<f, h>> \in Node \X Node
    BY <1>1
  <2> QED
    BY <1>2, <1>4, <2>1 DEF Copies, SentFirst
<1>6. \A p \in Spoke : p \in T => p = To[e] /\ at[p] = h
  <2>1. \A p \in Spoke : p \in Live(h) => at[p] = h
    BY LiveHere
  <2>2. hubs[h] \subseteq Hub
    BY DEF TypeOK
  <2>3. \A p \in Spoke : p \in NextHops(h, To[e], f) => p = To[e]
    BY <2>2, Apart DEF NextHops
  <2> QED
    BY <2>1, <2>3
<1> HIDE DEF m, ch, T
<1>7. ASSUME NEW c \in Node \X Node
      PROVE  /\ ch[c] \in Seq(Frame)
             /\ Range(ch[c]) \subseteq Range(chan[c])
             /\ Range(chan'[c]) \subseteq Range(chan[c]) \cup {m}
  <2>1. chan[c] \in Seq(Frame) /\ ch[c] \in Seq(Frame)
    BY <1>1 DEF Channels
  <2>2. ch[c] = IF c = <<f, h>> THEN Tail(chan[c]) ELSE chan[c]
    BY <1>1, ReadAt DEF ch
  <2>3. Range(ch[c]) \subseteq Range(chan[c])
    BY <1>1, <2>1, <2>2, HeadRead
  <2>4. SendTo(ch, h, T, m)[c] = ch[c] \/ SendTo(ch, h, T, m)[c] = Append(ch[c], m)
    BY <1>1, SendToEither
  <2>5. Range(Append(ch[c], m)) = Range(ch[c]) \cup {m}
    BY <1>1, <2>1, Appended
  <2>6. chan'[c] = ch[c] \/ chan'[c] = Append(ch[c], m)
    BY <1>3, <2>4
  <2> QED
    BY <2>1, <2>3, <2>5, <2>6
<1>8. ASSUME NEW k \in Hub, NEW p \in Spoke
      PROVE  \/ chan'[<<k, p>>] = chan[<<k, p>>]
             \/ /\ k = h /\ p = To[e] /\ at[p] = h /\ e \notin seen[h]
                /\ chan'[<<k, p>>] = Append(chan[<<k, p>>], m)
  <2>1. k \in Node /\ p \in Node /\ p # h
    BY Apart
  <2>2. ch[<<k, p>>] = chan[<<k, p>>]
    BY <1>1, <2>1, ReadPair DEF ch
  <2>3. SendTo(ch, h, T, m)[<<k, p>>] =
          IF k = h /\ p \in T THEN Append(ch[<<k, p>>], m) ELSE ch[<<k, p>>]
    BY <1>1, <2>1, SendToPair
  <2> QED
    BY <1>3, <1>6, <2>2, <2>3
<1>9. \A k \in Hub : seen'[k] = IF k = h THEN seen[h] \cup {e} ELSE seen[k]
  BY <1>3 DEF TypeOK
<1>10. SentFirst'
  <2>1. \A c \in Node \X Node, x \in Env : Envelope(x) \in Range(chan'[c]) => x \in sent
    <3> TAKE c \in Node \X Node, x \in Env
    <3>1. Envelope(x) = m => x = e
      BY <1>2, FramesMade
    <3> QED
      BY <1>5, <1>7, <3>1 DEF Copies, SentFirst
  <2> QED
    BY <1>3, <1>5, <1>9, <2>1 DEF Copies, SentFirst
<1>11. ASSUME NEW k \in Hub, NEW p \in Spoke
       PROVE  /\ chan[<<k, p>>] \in Seq(Frame)
              /\ Range(Append(chan[<<k, p>>], m)) = Range(chan[<<k, p>>]) \cup {m}
              /\ \A x : Single(chan[<<k, p>>], x) /\ (x = m => x \notin Range(chan[<<k, p>>]))
                        => Single(Append(chan[<<k, p>>], m), x)
  <2>1. <<k, p>> \in Node \X Node
    BY Apart
  <2>2. chan[<<k, p>>] \in Seq(Frame)
    BY <1>1, <2>1 DEF Channels
  <2> QED
    BY <1>1, <2>2, Appended
<1>12. Addressed'
  <2> SUFFICES ASSUME NEW k \in Hub, NEW p \in Spoke, NEW x \in Env,
                      Envelope(x) \in Range(chan'[<<k, p>>])
               PROVE  p = To[x]
    BY DEF Addressed
  <2>1. Envelope(x) \in Range(chan[<<k, p>>]) => p = To[x]
    BY DEF Copies, Addressed
  <2>2. Envelope(x) = m => x = e
    BY <1>2, FramesMade
  <2>3. Range(Append(chan[<<k, p>>], m)) = Range(chan[<<k, p>>]) \cup {m}
    BY <1>11
  <2>4. \/ chan'[<<k, p>>] = chan[<<k, p>>]
        \/ p = To[e] /\ chan'[<<k, p>>] = Append(chan[<<k, p>>], m)
    BY <1>8
  <2> QED
    BY <2>1, <2>2, <2>3, <2>4
<1>13. OwnHub'
  BY <1>3, <1>8 DEF Copies, OwnHub
<1>14. Delivered'
  BY <1>3 DEF Copies, Delivered
<1>15. Once'
  <2> SUFFICES ASSUME NEW x \in sent \ roamed, NEW k \in Hub, at[To[x]] = k
               PROVE  LET q == chan'[<<k, To[x]>>]
                      IN  /\ Single(q, Envelope(x))
                          /\ Envelope(x) \in Range(q) => arrived[x] = 0 /\ x \in seen'[k]
                          /\ arrived[x] > 0 => x \in seen'[k]
    BY <1>3 DEF Once
  <2>1. x \in Env /\ To[x] \in Spoke /\ arrived[x] \in 0..2
    BY FederationAssumption DEF TypeOK
  <2> DEFINE q == chan[<<k, To[x]>>]
  <2>2. /\ Single(q, Envelope(x))
        /\ Envelope(x) \in Range(q) => arrived[x] = 0 /\ x \in seen[k]
        /\ arrived[x] > 0 => x \in seen[k]
    BY DEF Copies, Once
  <2>3. Envelope(x) = m <=> x = e
    BY <1>2, <2>1, FramesMade
  <2>4. /\ Range(Append(q, m)) = Range(q) \cup {m}
        /\ Single(q, Envelope(x)) /\ (Envelope(x) = m => Envelope(x) \notin Range(q))
             => Single(Append(q, m), Envelope(x))
    BY <1>11, <2>1
  <2>5. \/ chan'[<<k, To[x]>>] = q
        \/ /\ k = h /\ e \notin seen[h]
           /\ chan'[<<k, To[x]>>] = Append(q, m)
    BY <1>8, <2>1
  <2>6. seen[k] \subseteq seen'[k] /\ (k = h => e \in seen'[k])
    BY <1>9
  <2> HIDE DEF q
  <2>7. CASE chan'[<<k, To[x]>>] = q
    BY <2>2, <2>6, <2>7
  <2>8. CASE k = h /\ e \notin seen[h] /\ chan'[<<k, To[x]>>] = Append(q, m)
    <3>1. x = e => Envelope(x) \notin Range(q) /\ arrived[x] = 0
      BY <2>1, <2>2, <2>8
    <3> QED
      BY <2>2, <2>3, <2>4, <2>6, <2>8, <3>1
  <2> QED
    BY <2>5, <2>7, <2>8
<1> QED
  BY <1>10, <1>12, <1>13, <1>14, <1>15 DEF Copies

\* Delivering one.
LEMMA DeliverCopies == ASSUME TypeOK, Copies, NEW p \in Spoke, NEW h \in Hub, Deliver(h, p)
                       PROVE  Copies'
<1> DEFINE m == Head(chan[<<h, p>>])
           e == m.id
<1>1. /\ chan \in Channels /\ h \in Node /\ p \in Node
      /\ m \in Frame /\ m.type = "envelope" /\ chan[<<h, p>>] # <<>>
      /\ chan[<<h, p>>] \in Seq(Frame)
  <2>1. chan \in Channels /\ h \in Node /\ p \in Node /\ NextFrame(h, p, "envelope")
    BY Apart DEF Deliver, TypeOK, Channels
  <2> QED
    BY <2>1, FrameRead
<1>2. e \in Env /\ m = Envelope(e) /\ To[e] \in Spoke
  BY <1>1, FrameKinds, FederationAssumption
<1>3. /\ chan' = Read(chan, h, p)
      /\ arrived' = [arrived EXCEPT ![e] = IF @ < 2 THEN @ + 1 ELSE 2]
      /\ UNCHANGED <<at, sent, roamed, seen>>
  BY DEF Deliver
<1>4. m \in Range(chan[<<h, p>>])
  BY <1>1, HeadRead
<1> HIDE DEF m
<1>5. e \in sent /\ p = To[e] /\ at[p] = h
  <2>1. <<h, p>> \in Node \X Node
    BY <1>1
  <2>2. e \in sent
    BY <1>2, <1>4, <2>1 DEF Copies, SentFirst
  <2>3. p = To[e]
    BY <1>2, <1>4 DEF Copies, Addressed
  <2>4. at[p] = h
    BY <1>1 DEF Copies, OwnHub
  <2> QED
    BY <2>2, <2>3, <2>4
<1>6. \A x \in Env : /\ arrived[x] \in 0..2
                     /\ x # e => arrived'[x] = arrived[x]
                     /\ arrived[x] = 0 /\ x = e => arrived'[x] = 1
  BY <1>2, <1>3 DEF TypeOK
<1>7. \A c \in Node \X Node : Fewer(chan[c], chan'[c])
  BY <1>1, <1>3, FewerRead
<1>8. SentFirst' /\ Addressed' /\ OwnHub'
  <2>1. \A k \in Hub, q \in Spoke : <<k, q>> \in Node \X Node
    BY Apart
  <2>2. SentFirst'
    BY <1>3, <1>5, <1>6, <1>7 DEF Copies, SentFirst, Fewer
  <2>3. Addressed'
    BY <1>7, <2>1 DEF Copies, Addressed, Fewer
  <2>4. OwnHub'
    <3> SUFFICES ASSUME NEW k \in Hub, NEW q \in Spoke, chan'[<<k, q>>] # <<>>
                 PROVE  at[q] = k
      BY <1>3 DEF OwnHub
    <3>1. k \in Node /\ q \in Node
      BY Apart
    <3>2. chan'[<<k, q>>] = IF k = h /\ q = p THEN Tail(chan[<<k, q>>]) ELSE chan[<<k, q>>]
      BY <1>1, <1>3, <3>1, ReadPair
    <3> QED
      BY <1>1, <3>2 DEF Copies, OwnHub
  <2> QED
    BY <2>2, <2>3, <2>4
<1>9. e \notin roamed => /\ arrived[e] = 0 /\ e \in seen[h]
                         /\ Single(chan[<<h, p>>], m)
  BY <1>2, <1>4, <1>5 DEF Copies, Once
<1>10. Delivered'
  <2>1. at[p] # None
    BY <1>5, Apart
  <2> QED
    BY <1>3, <1>5, <1>6, <1>9, <2>1 DEF Copies, Delivered, TypeOK
<1>11. Once'
  <2> SUFFICES ASSUME NEW x \in sent \ roamed, NEW k \in Hub, at[To[x]] = k
               PROVE  LET q == chan'[<<k, To[x]>>]
                      IN  /\ Single(q, Envelope(x))
                          /\ Envelope(x) \in Range(q) => arrived'[x] = 0 /\ x \in seen[k]
                          /\ arrived'[x] > 0 => x \in seen[k]
    BY <1>3 DEF Once
  <2>1. x \in Env /\ To[x] \in Spoke /\ k \in Node /\ To[x] \in Node
    BY FederationAssumption, Apart DEF TypeOK
  <2>2. Fewer(chan[<<k, To[x]>>], chan'[<<k, To[x]>>])
    BY <1>7, <2>1
  <2>3. /\ Single(chan[<<k, To[x]>>], Envelope(x))
        /\ Envelope(x) \in Range(chan[<<k, To[x]>>]) => arrived[x] = 0 /\ x \in seen[k]
        /\ arrived[x] > 0 => x \in seen[k]
    BY DEF Copies, Once
  <2>4. CASE x # e
    BY <1>6, <2>1, <2>2, <2>3, <2>4 DEF Fewer
  <2>5. CASE x = e
    <3>1. k = h /\ To[x] = p
      BY <1>5, <2>5
    <3>2. chan'[<<h, p>>] = Tail(chan[<<h, p>>])
      BY <1>1, <1>3, ReadPair
    <3>3. m \notin Range(Tail(chan[<<h, p>>]))
      BY <1>1, <1>9, <2>5, HeadRead DEF m
    <3>4. Envelope(x) = m
      BY <1>2, <2>5
    <3>5. Envelope(x) \notin Range(chan'[<<h, p>>])
      BY <3>2, <3>3, <3>4
    <3> QED
      BY <1>9, <2>5, <3>1, <3>5, NotIn
  <2> QED
    BY <2>4, <2>5
<1> QED
  BY <1>8, <1>10, <1>11 DEF Copies

\* Sending one.
LEMMA PostCopies == ASSUME TypeOK, Copies, NEW e \in Env, Post(e)
                    PROVE  Copies'
<1>1. /\ chan' = SendTo(chan, From[e], {at[From[e]]}, Envelope(e))
      /\ sent' = sent \cup {e} /\ e \notin sent
      /\ UNCHANGED <<at, roamed, arrived, seen>>
  BY DEF Post
<1>2. chan \in Channels /\ Envelope(e) \in Frame /\ From[e] \in Spoke
  BY FramesMade, FederationAssumption DEF TypeOK, Channels
<1>3. ASSUME NEW k \in Hub, NEW p \in Spoke
      PROVE  chan'[<<k, p>>] = chan[<<k, p>>]
  <2>1. k \in Node /\ p \in Node /\ k # From[e]
    BY <1>2, Apart
  <2> QED
    BY <1>1, <1>2, <2>1, SendToPair
<1>4. SentFirst'
  <2>1. ASSUME NEW c \in Node \X Node, NEW x \in Env, Envelope(x) \in Range(chan'[c])
        PROVE  x \in sent'
    <3>1. chan[c] \in Seq(Frame)
      BY <1>2 DEF Channels
    <3>2. chan'[c] = chan[c] \/ chan'[c] = Append(chan[c], Envelope(e))
      BY <1>1, <1>2, SendToEither
    <3>3. Range(Append(chan[c], Envelope(e))) = Range(chan[c]) \cup {Envelope(e)}
      BY <1>2, <3>1, Appended
    <3>4. Envelope(x) = Envelope(e) => x = e
      BY FramesMade
    <3>5. Envelope(x) \in Range(chan[c]) => x \in sent
      BY DEF Copies, SentFirst
    <3>6. Envelope(x) \in Range(chan[c]) \/ Envelope(x) = Envelope(e)
      BY <2>1, <3>2, <3>3
    <3> QED
      BY <1>1, <3>4, <3>5, <3>6
  <2>2. /\ \A h \in Hub : seen'[h] \subseteq sent'
        /\ \A x \in Env : arrived'[x] > 0 => x \in sent'
    BY <1>1 DEF Copies, SentFirst
  <2> QED
    BY <2>1, <2>2 DEF SentFirst
<1>5. Addressed' /\ OwnHub'
  BY <1>1, <1>3 DEF Copies, Addressed, OwnHub
<1>6. ~(arrived[e] > 0) /\ \A c \in Node \X Node : Envelope(e) \notin Range(chan[c])
  BY <1>1 DEF Copies, SentFirst
<1>7. Delivered'
  BY <1>1, <1>6 DEF Copies, Delivered
<1>8. Once'
  <2> SUFFICES ASSUME NEW x \in sent' \ roamed, NEW k \in Hub, at[To[x]] = k
               PROVE  LET q == chan'[<<k, To[x]>>]
                      IN  /\ Single(q, Envelope(x))
                          /\ Envelope(x) \in Range(q) => arrived[x] = 0 /\ x \in seen[k]
                          /\ arrived[x] > 0 => x \in seen[k]
    <3>1. UNCHANGED <<at, roamed, arrived, seen>>
      BY <1>1
    <3> QED
      BY <3>1 DEF Once
  <2>0. chan'[<<k, To[x]>>] = chan[<<k, To[x]>>]
    <3>1. To[x] \in Spoke
      BY <1>1, FederationAssumption DEF TypeOK
    <3> QED
      BY <1>3, <3>1
  <2>1. CASE x \in sent
    <3>1. Once
      BY DEF Copies
    <3> QED
      BY <2>0, <2>1, <3>1 DEF Once
  <2>2. CASE x = e
    <3>1. <<k, To[x]>> \in Node \X Node
      BY <2>2, FederationAssumption, Apart
    <3>2. Envelope(x) \notin Range(chan'[<<k, To[x]>>])
      BY <1>6, <2>0, <2>2, <3>1
    <3> QED
      BY <1>6, <2>2, <3>2, NotIn
  <2> QED
    BY <1>1, <2>1, <2>2
<1> QED
  BY <1>4, <1>5, <1>7, <1>8 DEF Copies

LEMMA InitCopies == Init => Copies
<1> SUFFICES ASSUME Init PROVE Copies
  OBVIOUS
<1>1. \A c \in Node \X Node : chan[c] = <<>>
  BY DEF Init
<1>2. \A h \in Hub, p \in Spoke : chan[<<h, p>>] = <<>>
  BY <1>1, Apart
<1>3. \A e \in Env : ~(arrived[e] > 0)
  BY DEF Init
<1> QED
  BY <1>1, <1>2, <1>3, NoFrames
  DEF Init, Copies, SentFirst, Addressed, OwnHub, Once, Delivered

LEMMA CopiesStep == ASSUME TypeOK, TypeOK', Copies, [Next]_vars
                    PROVE  Copies'
<1> USE DEF tables, net, history
<1>0. chan \in Channels
  BY DEF TypeOK, Channels
<1>1. /\ chan \in Channels
      /\ \A c \in Node \X Node : chan[c] \in Seq(Frame) /\ Fewer(chan[c], chan[c])
      /\ \A h \in Hub, p \in Spoke : <<h, p>> \in Node \X Node /\ <<p, h>> \in Node \X Node
      /\ \A h \in Hub : Live(h) \subseteq Node
      /\ \A e \in Env : To[e] \in Spoke /\ From[e] \in Spoke
      /\ \A h, k \in Hub, p \in Spoke : <<h, p>> # <<p, k>>
  BY FewerCases, Apart, FederationAssumption DEF TypeOK, Channels, Live
<1>2. \A h \in Hub : spokes[h] \in SUBSET Spoke /\ hubs[h] \in SUBSET Hub
  BY DEF TypeOK
<1>3. CASE UNCHANGED vars
  <2>1. \A c \in Node \X Node : Fewer(chan[c], chan'[c])
    BY <1>1, <1>3 DEF vars
  <2> QED
    BY <1>3, <2>1, CopiesKept DEF vars, Copies, OwnHub
<1>4. ASSUME NEW f \in Hub, NEW h \in Hub, ReadGossip(f, h)
      PROVE  Copies'
  <2> DEFINE g == Head(chan[<<f, h>>])
             ch == Read(chan, f, h)
             T == Live(h) \ {f}
  <2>1. /\ ch \in Channels /\ g \in Frame /\ g.type = "gossip"
        /\ chan[<<f, h>>] # <<>>
    BY <1>4, Apart, FrameRead DEF ReadGossip
  <2>2. chan' \in {ch, SendTo(ch, h, T, g)}
    BY <1>4, Zenon DEF ReadGossip
  <2>3. \A c \in Node \X Node : ch[c] = IF c = <<f, h>> THEN Tail(chan[c]) ELSE chan[c]
    BY <1>1, <2>1, Apart, ReadAt
  <2>4. \A c \in Node \X Node : Fewer(chan[c], ch[c])
    BY <1>1, <2>1, Apart, FewerRead
  <2> HIDE DEF g, ch
  <2>5. \A c \in Node \X Node : Fewer(ch[c], SendTo(ch, h, T, g)[c])
    BY <2>1, FewerSent
  <2>6. \A c \in Node \X Node : Fewer(chan[c], chan'[c])
    BY <2>2, <2>4, <2>5, FewerTwice
  <2>7. ASSUME NEW k \in Hub, NEW p \in Spoke, chan'[<<k, p>>] # <<>>
        PROVE  at[p] = k
    <3>1. ch[<<k, p>>] = chan[<<k, p>>]
      <4>1. <<k, p>> # <<f, h>>
        BY Apart
      <4> QED
        BY <1>1, <2>3, <4>1
    <3>2. chan'[<<k, p>>] # ch[<<k, p>>] => k = h /\ p \in Live(h)
      <4>1. SendTo(ch, h, T, g)[<<k, p>>] # ch[<<k, p>>] => k = h /\ p \in T
        BY <2>1, Apart, SendToPair
      <4> QED
        BY <2>2, <4>1
    <3> QED
      BY <2>7, <3>1, <3>2, LiveHere DEF Copies, OwnHub
  <2> QED
    BY <1>4, <2>6, <2>7, CopiesKept DEF ReadGossip
<1>5. ASSUME NEW p \in Spoke, NEW h \in Hub, SpokeGossip(h, p)
      PROVE  Copies'
  <2>1. chan[<<h, p>>] # <<>> /\ chan' = Read(chan, h, p)
    BY <1>5 DEF SpokeGossip, NextFrame
  <2>2. \A c \in Node \X Node : Fewer(chan[c], chan'[c])
    BY <1>1, <2>1, Apart, FewerRead
  <2>3. \A k \in Hub, q \in Spoke : chan'[<<k, q>>] # <<>> => chan[<<k, q>>] # <<>>
    <3> TAKE k \in Hub, q \in Spoke
    <3>1. chan'[<<k, q>>] = IF k = h /\ q = p THEN Tail(chan[<<k, q>>]) ELSE chan[<<k, q>>]
      <4>1. h \in Node /\ p \in Node /\ k \in Node /\ q \in Node
        BY Apart
      <4> QED
        BY <1>0, <2>1, <4>1, ReadPair
    <3> QED
      BY <2>1, <3>1
  <2> QED
    BY <1>5, <2>2, <2>3, CopiesKept DEF SpokeGossip, Copies, OwnHub
<1>6. ASSUME NEW p \in Spoke, NEW h \in Hub, ReadPresence(p, h)
      PROVE  Copies'
  <2> DEFINE ch == Read(chan, p, h)
  <2>1. chan[<<p, h>>] # <<>> /\ ch \in Channels
    BY <1>6, Apart, FrameRead DEF ReadPresence
  <2>2. \A c \in Node \X Node : Fewer(chan[c], ch[c])
    BY <1>1, <2>1, Apart, FewerRead
  <2>3. \A k \in Hub, q \in Spoke : ch[<<k, q>>] = chan[<<k, q>>]
    <3> TAKE k \in Hub, q \in Spoke
    <3>1. h \in Node /\ p \in Node /\ k \in Node /\ q \in Node /\ k # p
      BY Apart
    <3> QED
      BY <1>0, <2>1, <3>1, ReadPair
  <2>4. GossipLocal(h, spokes[h], hubs[h], Live(h), ch)
    BY <1>6 DEF ReadPresence
  <2> HIDE DEF ch
  <2>5. /\ \A c \in Node \X Node : Fewer(chan[c], chan'[c])
        /\ \A k \in Hub, q \in Spoke :
             chan'[<<k, q>>] # <<>> => ch[<<k, q>>] # <<>> \/ (k = h /\ q \in Live(h))
    BY <1>2, <2>1, <2>2, <2>4, GossipCopies
  <2>6. \A k \in Hub, q \in Spoke : chan'[<<k, q>>] # <<>> => at[q] = k
    BY <2>3, <2>5, LiveHere DEF Copies, OwnHub
  <2> QED
    BY <1>6, <2>5, <2>6, CopiesKept DEF ReadPresence
<1>7. ASSUME NEW a \in Hub, NEW b \in Hub,
             AcceptPeer(a, b) \/ DialPeer(a, b) \/ DropPeer(a, b)
      PROVE  Copies'
  <2>1. PICK h \in Hub, H \in SUBSET Hub, T \in SUBSET Node :
          /\ GossipLocal(h, spokes[h], H, T, chan)
          /\ \A p \in Spoke : p \in T => p \in Live(h)
    <3>1. /\ hubs[b] \cup {a} \in SUBSET Hub /\ Live(b) \cup {a} \in SUBSET Node
          /\ \A p \in Spoke : p \in Live(b) \cup {a} => p \in Live(b)
          /\ hubs[a] \cup {b} \in SUBSET Hub /\ Live(a) \cup {b} \in SUBSET Node
          /\ \A p \in Spoke : p \in Live(a) \cup {b} => p \in Live(a)
          /\ hubs[a] \ {b} \in SUBSET Hub /\ Live(a) \in SUBSET Node
      BY <1>1, <1>2, Apart
    <3>2. CASE AcceptPeer(a, b)
      <4>1. GossipLocal(b, spokes[b], hubs[b] \cup {a}, Live(b) \cup {a}, chan)
        BY <3>2 DEF AcceptPeer
      <4> QED
        BY <3>1, <4>1
    <3>3. CASE DialPeer(a, b)
      <4>1. GossipLocal(a, spokes[a], hubs[a] \cup {b}, Live(a) \cup {b}, chan)
        BY <3>3 DEF DialPeer
      <4> QED
        BY <3>1, <4>1
    <3>4. CASE DropPeer(a, b)
      <4>1. GossipLocal(a, spokes[a], hubs[a] \ {b}, Live(a), chan)
        BY <3>4 DEF DropPeer
      <4> QED
        BY <3>1, <4>1
    <3> QED
      BY <1>7, <3>2, <3>3, <3>4
  <2>2. /\ \A c \in Node \X Node : Fewer(chan[c], chan'[c])
        /\ \A k \in Hub, q \in Spoke :
             chan'[<<k, q>>] # <<>> => chan[<<k, q>>] # <<>> \/ (k = h /\ q \in Live(h))
    <3>1. spokes[h] \in SUBSET Spoke
      BY <1>2
    <3>2. /\ \A c \in Node \X Node : Fewer(chan[c], chan'[c])
          /\ \A k \in Hub, q \in Spoke :
               chan'[<<k, q>>] # <<>> => chan[<<k, q>>] # <<>> \/ (k = h /\ q \in T)
      BY <1>1, <2>1, <3>1, GossipCopies
    <3> QED
      BY <2>1, <3>2
  <2>3. \A k \in Hub, q \in Spoke : chan'[<<k, q>>] # <<>> => at[q] = k
    BY <2>2, LiveHere DEF Copies, OwnHub
  <2>4. UNCHANGED <<at, sent, arrived, roamed, seen>>
    BY <1>7 DEF AcceptPeer, DialPeer, DropPeer
  <2> QED
    BY <2>2, <2>3, <2>4, CopiesKept
<1>8. ASSUME NEW a \in Hub, NEW b \in Hub, Cut(a, b)
      PROVE  Copies'
  <2>1. chan' = Without(chan, {a}, {b})
    BY <1>8 DEF Cut
  <2>2. \A c \in Node \X Node : chan'[c] = <<>> \/ chan'[c] = chan[c]
    BY <1>1, <2>1, WithoutAt
  <2>3. \A c \in Node \X Node : Fewer(chan[c], chan'[c])
    BY <1>1, <2>2, FewerCases
  <2>4. UNCHANGED <<at, sent, arrived, roamed, seen>>
    BY <1>8 DEF Cut
  <2> QED
    BY <1>1, <2>2, <2>3, <2>4, CopiesKept DEF Copies, OwnHub
<1>9. ASSUME NEW h \in Hub, Restart(h)
      PROVE  Copies'
  <2>1. chan' = Without(chan, {h}, Node)
    BY <1>9 DEF Restart
  <2>2. \A c \in Node \X Node : chan'[c] = <<>> \/ chan'[c] = chan[c]
    BY <1>1, <2>1, WithoutAt
  <2>3. \A c \in Node \X Node : Fewer(chan[c], chan'[c])
    BY <1>1, <2>2, FewerCases
  <2>4. \A p \in Spoke : chan'[<<h, p>>] = <<>>
    BY <1>1, <2>1, Apart, WithoutAt
  <2>5. /\ sent' = sent /\ arrived' = arrived
        /\ roamed' = roamed \cup {e \in sent : h \in {at[From[e]], at[To[e]]}}
        /\ seen' = [seen EXCEPT ![h] = {}]
        /\ at' = [p \in Spoke |-> IF at[p] = h THEN None ELSE at[p]]
    BY <1>9 DEF Restart
  <2>6. \A k \in Hub, p \in Spoke : chan'[<<k, p>>] # <<>> => at'[p] = k
    BY <1>1, <2>2, <2>4, <2>5 DEF Copies, OwnHub
  <2>7. \A k \in Hub : seen'[k] \subseteq seen[k] /\ (k # h => seen'[k] = seen[k])
    BY <2>5 DEF TypeOK
  <2>8. \A e \in sent \ roamed' : at'[To[e]] = at[To[e]] /\ at[To[e]] # h
    BY <1>1, <2>5 DEF TypeOK
  <2> QED
    BY <2>3, <2>5, <2>6, <2>7, <2>8, CopiesKept
<1>10. ASSUME NEW p \in Spoke, NEW h \in Hub, Connect(p, h)
       PROVE  Copies'
  <2> DEFINE ch == SendTo(chan, p, {h}, Presence)
             T == Live(h) \cup {p}
  <2>1. ch \in Channels /\ \A c \in Node \X Node : Fewer(chan[c], ch[c])
    BY <1>1, FramesMade, SendToAt, FewerSent
  <2>2. \A k \in Hub, q \in Spoke : ch[<<k, q>>] = chan[<<k, q>>]
    <3> TAKE k \in Hub, q \in Spoke
    <3>1. k \in Node /\ q \in Node /\ k # p /\ Presence \in Frame
      BY Apart, FramesMade
    <3> QED
      BY <1>1, <3>1, SendToPair
  <2>3. GossipLocal(h, spokes[h] \cup {p}, hubs[h], T, ch)
    BY <1>10 DEF Connect
  <2>4. /\ at' = [at EXCEPT ![p] = h] /\ at[p] = None
        /\ UNCHANGED <<sent, arrived, roamed, seen>>
    BY <1>10 DEF Connect
  <2>5. spokes[h] \cup {p} \in SUBSET Spoke
    BY <1>2
  <2> HIDE DEF ch, T
  <2>6. /\ \A c \in Node \X Node : Fewer(chan[c], chan'[c])
        /\ \A k \in Hub, q \in Spoke :
             chan'[<<k, q>>] # <<>> => ch[<<k, q>>] # <<>> \/ (k = h /\ q \in T)
    BY <1>2, <2>1, <2>3, <2>5, GossipCopies
  <2>7. \A q \in Spoke : at'[q] = IF q = p THEN h ELSE at[q]
    BY <2>4 DEF TypeOK
  <2>8. \A k \in Hub, q \in Spoke : chan'[<<k, q>>] # <<>> => at'[q] = k
    BY <2>2, <2>4, <2>6, <2>7, LiveHere, Apart DEF Copies, OwnHub, T
  <2>9. \A e \in sent \ roamed' :
          at'[To[e]] = at[To[e]] \/ (at[To[e]] = None /\ at'[To[e]] # None)
    BY <1>1, <2>4, <2>7, Apart DEF TypeOK
  <2> QED
    BY <2>4, <2>6, <2>8, <2>9, CopiesKept
<1>11. ASSUME NEW p \in Spoke, NEW h \in Hub, Drop(p, h)
       PROVE  Copies'
  <2> DEFINE ch == [chan EXCEPT ![<<p, h>>] = <<>>]
  <2>1. ch \in Channels /\ \A c \in Node \X Node : Fewer(chan[c], ch[c])
    BY <1>1, NoFrames, FewerCases DEF Channels
  <2>2. \A k \in Hub, q \in Spoke : ch[<<k, q>>] = chan[<<k, q>>]
    BY <1>1 DEF Channels
  <2>3. GossipLocal(h, spokes[h] \ {p}, hubs[h], Live(h), ch)
    BY <1>11 DEF Drop
  <2>4. UNCHANGED <<at, sent, arrived, roamed, seen>>
    BY <1>11 DEF Drop
  <2>5. spokes[h] \ {p} \in SUBSET Spoke
    BY <1>2
  <2> HIDE DEF ch
  <2>6. /\ \A c \in Node \X Node : Fewer(chan[c], chan'[c])
        /\ \A k \in Hub, q \in Spoke :
             chan'[<<k, q>>] # <<>> => ch[<<k, q>>] # <<>> \/ (k = h /\ q \in Live(h))
    BY <1>2, <2>1, <2>3, <2>5, GossipCopies
  <2>7. \A k \in Hub, q \in Spoke : chan'[<<k, q>>] # <<>> => at[q] = k
    BY <2>2, <2>6, LiveHere DEF Copies, OwnHub
  <2> QED
    BY <2>4, <2>6, <2>7, CopiesKept
<1>12. ASSUME NEW p \in Spoke, Leave(p)
       PROVE  Copies'
  <2>1. /\ chan' = [chan EXCEPT ![<<at[p], p>>] = <<>>]
        /\ at' = [at EXCEPT ![p] = None]
        /\ roamed' = roamed \cup {e \in sent : p \in {From[e], To[e]}}
        /\ UNCHANGED <<sent, arrived, seen>>
    BY <1>12 DEF Leave
  <2>2. \A c \in Node \X Node : chan'[c] = <<>> \/ chan'[c] = chan[c]
    BY <1>1, <2>1 DEF Channels
  <2>3. \A c \in Node \X Node : Fewer(chan[c], chan'[c])
    BY <1>1, <2>2, FewerCases
  <2>4. \A k \in Hub : at[p] = k => chan'[<<k, p>>] = <<>>
    BY <1>1, <2>1 DEF Channels
  <2>5. \A k \in Hub, q \in Spoke : chan'[<<k, q>>] # <<>> => at'[q] = k
    BY <1>1, <2>1, <2>2, <2>4 DEF Copies, OwnHub, TypeOK
  <2>6. \A e \in sent \ roamed' : at'[To[e]] = at[To[e]]
    BY <1>1, <2>1 DEF TypeOK
  <2> QED
    BY <2>1, <2>3, <2>5, <2>6, CopiesKept
<1>13. ASSUME NEW f \in Node, NEW h \in Hub, Forward(f, h)
       PROVE  Copies'
  BY <1>13, ForwardCopies
<1>14. ASSUME NEW p \in Spoke, NEW h \in Hub, Deliver(h, p)
       PROVE  Copies'
  BY <1>14, DeliverCopies
<1>15. ASSUME NEW e \in Env, Post(e)
       PROVE  Copies'
  BY <1>15, PostCopies
<1> QED
  BY <1>3, <1>4, <1>5, <1>6, <1>7, <1>8, <1>9, <1>10, <1>11, <1>12, <1>13, <1>14, <1>15
  DEF Next, Receive

-----------------------------------------------------------------------------
(* Keys: steps of gossipLocal()                                            *)

\* r is channel q after frames that are neither gossip nor envelopes were read
\* or added.
Carries(q, r) ==
  /\ \A x \in Range(r) : x.type = "gossip" => x \in Range(q)
  /\ \A p \in Spoke : Mentions(q, p) => Mentions(r, p)
  /\ \A e \in Env, p \in Spoke : Preceded(q, Envelope(e), p) => Preceded(r, Envelope(e), p)

LEMMA CarriesCases ==
  ASSUME NEW q \in Seq(Frame)
  PROVE  /\ Carries(q, q)
         /\ q # <<>> /\ Head(q).type # "gossip" => Carries(q, Tail(q))
         /\ Carries(q, Append(q, Presence))
<1>1. Carries(q, q)
  BY DEF Carries
<1>2. ASSUME q # <<>>, Head(q).type # "gossip"
      PROVE  Carries(q, Tail(q))
  <2>1. \A p : ~Tells(Head(q), p)
    BY <1>2 DEF Tells
  <2>2. Range(Tail(q)) \subseteq Range(q)
    BY <1>2, HeadRead
  <2>3. \A p : Mentions(q, p) => Mentions(Tail(q), p)
    BY <1>2, <2>1, HeadRead
  <2>4. \A m, p : Preceded(q, m, p) => Preceded(Tail(q), m, p)
    BY <1>2, <2>1, HeadRead
  <2> QED
    BY <2>2, <2>3, <2>4 DEF Carries
<1>3. Carries(q, Append(q, Presence))
  <2>1. Presence \in Frame /\ Presence.type = "presence"
    BY FramesMade
  <2>2. \A e \in Env : Envelope(e) # Presence
    BY <2>1, FramesMade
  <2>3. Range(Append(q, Presence)) = Range(q) \cup {Presence}
    BY <2>1, Appended
  <2>4. \A p : Mentions(q, p) => Mentions(Append(q, Presence), p)
    BY <2>1, Appended
  <2>5. \A e \in Env : \A p : Preceded(q, Envelope(e), p) =>
                            Preceded(Append(q, Presence), Envelope(e), p)
    BY <2>1, <2>2, Appended
  <2> QED
    BY <2>1, <2>3, <2>4, <2>5 DEF Carries
<1> QED
  BY <1>1, <1>2, <1>3

LEMMA OnWayFrame == ASSUME TypeOK, NEW g \in OnWay
                    PROVE  /\ g \in Frame /\ g.type = "gossip"
                           /\ g.hub \in Hub /\ g.seq \in Nat /\ g.entries \subseteq Spoke
<1>1. PICK c \in Node \X Node : g \in Range(chan[c]) /\ g.type = "gossip"
  BY DEF OnWay
<1>2. chan[c] \in Seq(Frame)
  BY DEF TypeOK
<1>3. PICK i \in DOMAIN chan[c] : g = chan[c][i]
  BY <1>1 DEF Range
<1>4. g \in Frame
  BY <1>2, <1>3, ElementOfSeq, LenProperties
<1> QED
  BY <1>1, <1>4, FrameKinds

LEMMA GossipTables ==
  ASSUME TypeOK, NEW h \in Hub, NEW S, NEW H, NEW T, NEW ch, GossipLocal(h, S, H, T, ch)
  PROVE  /\ \A k \in Hub : seq'[k] = IF k = h THEN seq[h] + 1 ELSE seq[k]
         /\ \A k, o \in Hub :
              gseen'[k][o] = IF k = h /\ o = h THEN seq[h] + 1 ELSE gseen[k][o]
         /\ \A k \in Hub, p \in Spoke :
              where'[k][p] = IF k = h /\ p \in S THEN h ELSE where[k][p]
         /\ \A k \in Hub : spokes'[k] = IF k = h THEN S ELSE spokes[k]
         /\ \A k \in Hub : hubs'[k] = IF k = h THEN H ELSE hubs[k]
<1> DEFINE w == [p \in Spoke |-> IF p \in S THEN h ELSE where[h][p]]
<1>1. /\ seq' = [seq EXCEPT ![h] = seq[h] + 1]
      /\ gseen' = [gseen EXCEPT ![h][h] = seq[h] + 1]
      /\ where' = [where EXCEPT ![h] = w]
      /\ spokes' = [spokes EXCEPT ![h] = S]
      /\ hubs' = [hubs EXCEPT ![h] = H]
  BY DEF GossipLocal
<1>2. \A p \in Spoke : w[p] = IF p \in S THEN h ELSE where[h][p]
  OBVIOUS
<1> HIDE DEF w
<1>3. \A k \in Hub : where'[k] = IF k = h THEN w ELSE where[k]
  BY <1>1 DEF TypeOK
<1>4. \A k, o \in Hub :
        gseen'[k][o] = IF k = h /\ o = h THEN seq[h] + 1 ELSE gseen[k][o]
  BY <1>1 DEF TypeOK
<1>5. \A k \in Hub : seq'[k] = IF k = h THEN seq[h] + 1 ELSE seq[k]
  BY <1>1 DEF TypeOK
<1>6. \A k \in Hub : /\ spokes'[k] = IF k = h THEN S ELSE spokes[k]
                     /\ hubs'[k] = IF k = h THEN H ELSE hubs[k]
  BY <1>1 DEF TypeOK
<1> QED
  BY <1>2, <1>3, <1>4, <1>5, <1>6

LEMMA GossipTells ==
  ASSUME TypeOK, NEW h \in Hub, NEW S, NEW H, NEW T, NEW ch, GossipLocal(h, S, H, T, ch)
  PROVE  \E g \in Frame :
           /\ g.type = "gossip" /\ g.hub = h /\ g.seq = seq[h] + 1
           /\ \A p \in Spoke : p \in g.entries <=>
                where'[h][p] # None /\ (where'[h][p] = h => p \in S)
           /\ chan' = SendTo(ch, h, T, g)
<1> DEFINE w == [p \in Spoke |-> IF p \in S THEN h ELSE where[h][p]]
           E == Entries(h, S, w)
           g == Gossip(h, seq[h] + 1, E)
<1>1. E \in SUBSET Spoke /\ seq[h] + 1 \in Nat
  BY DEF Entries, TypeOK
<1>2. chan' = SendTo(ch, h, T, g) /\ where' = [where EXCEPT ![h] = w]
  BY DEF GossipLocal
<1>3. \A p \in Spoke : w[p] = where'[h][p]
  BY <1>2 DEF TypeOK
<1> HIDE DEF w
<1>4. \A p \in Spoke : p \in E <=> where'[h][p] # None /\ (where'[h][p] = h => p \in S)
  BY <1>3 DEF Entries
<1> HIDE DEF E
<1>5. g \in Frame /\ g.type = "gossip" /\ g.hub = h /\ g.seq = seq[h] + 1 /\ g.entries = E
  BY <1>1, FramesMade
<1> HIDE DEF g
<1> QED
  BY <1>2, <1>4, <1>5

\* A hub can write to all it lists.
LEMMA LiveAll == ASSUME TypeOK, Attached, NEW h \in Hub
                 PROVE  spokes[h] \cup hubs[h] \subseteq Live(h)
BY DEF TypeOK, Attached, Live, Linked

\* gossipLocal() of a hub whose spokes become S, when it tells all of S and H.
LEMMA GossipKeys ==
  ASSUME TypeOK, TypeOK', Attached, Numbered, Told, KeyFirst,
         NEW h \in Hub, NEW S \in SUBSET Spoke, NEW H \in SUBSET Hub, NEW T,
         NEW ch \in Channels, GossipLocal(h, S, H, T, ch),
         spokes[h] \subseteq S, S \cup H \subseteq T,
         \A a, b \in Node : Carries(chan[<<a, b>>], ch[<<a, b>>]),
         UNCHANGED <<known, sent, stranded>>
  PROVE  Numbered' /\ Told' /\ KeyFirst'
<1>1. PICK g \in Frame :
        /\ g.type = "gossip" /\ g.hub = h /\ g.seq = seq[h] + 1
        /\ \A p \in Spoke : p \in g.entries <=>
             where'[h][p] # None /\ (where'[h][p] = h => p \in S)
        /\ chan' = SendTo(ch, h, T, g)
  BY GossipTells
<1>2. /\ \A k \in Hub : seq'[k] = IF k = h THEN seq[h] + 1 ELSE seq[k]
      /\ \A k, o \in Hub :
           gseen'[k][o] = IF k = h /\ o = h THEN seq[h] + 1 ELSE gseen[k][o]
      /\ \A k \in Hub, p \in Spoke :
           where'[k][p] = IF k = h /\ p \in S THEN h ELSE where[k][p]
      /\ \A k \in Hub : spokes'[k] = IF k = h THEN S ELSE spokes[k]
      /\ \A k \in Hub : hubs'[k] = IF k = h THEN H ELSE hubs[k]
  BY GossipTables
<1>3. /\ g.entries \subseteq Spoke
      /\ \A k \in Hub : seq[k] \in Nat
      /\ \A k, o \in Hub : gseen[k][o] \in Nat
  BY <1>1, FrameKinds DEF TypeOK
<1>4. \A k \in Hub, p \in Spoke : where[k][p] # None => where'[k][p] # None
  BY <1>2, Apart
<1>5. \A n \in Node, p \in Spoke : Knows(n, p) => Knows(n, p)'
  BY <1>4 DEF Knows
\* The hub tells all it knows.
<1>6. \A p \in Spoke : where'[h][p] # None => p \in g.entries
  BY <1>1, <1>2 DEF Attached
<1>7. ASSUME NEW a \in Node, NEW b \in Node
      PROVE  /\ \A x \in Range(chan'[<<a, b>>]) :
                  x.type = "gossip" => x \in Range(chan[<<a, b>>]) \/ (x = g /\ a = h)
             /\ \A p \in Spoke : Mentions(chan[<<a, b>>], p) => Mentions(chan'[<<a, b>>], p)
             /\ \A e \in Env, p \in Spoke :
                  Preceded(chan[<<a, b>>], Envelope(e), p) =>
                    Preceded(chan'[<<a, b>>], Envelope(e), p)
             /\ a = h /\ b \in T => \A p \in g.entries : Mentions(chan'[<<a, b>>], p)
  <2> DEFINE q == chan[<<a, b>>]
             r == ch[<<a, b>>]
             s == chan'[<<a, b>>]
  <2>1. Carries(q, r) /\ s = IF a = h /\ b \in T THEN Append(r, g) ELSE r
    BY <1>1, SendToPair
  <2>2. r \in Seq(Frame)
    BY DEF Channels
  <2> HIDE DEF q, r, s
  <2>3. CASE s = r /\ ~(a = h /\ b \in T)
    BY <2>1, <2>3 DEF Carries, q, s
  <2>4. CASE s = Append(r, g) /\ a = h
    <3>1. Range(s) = Range(r) \cup {g}
      BY <1>1, <2>2, <2>4, Appended
    <3>2. \A p : Mentions(r, p) => Mentions(s, p)
      BY <1>1, <2>2, <2>4, Appended
    <3>3. \A p \in g.entries : Mentions(s, p)
      <4>1. \A p \in g.entries : Tells(g, p)
        BY <1>1 DEF Tells
      <4> QED
        BY <1>1, <2>2, <2>4, <4>1, Appended
    <3>4. \A e \in Env : \A p : Preceded(r, Envelope(e), p) => Preceded(s, Envelope(e), p)
      <4>1. \A e \in Env : Envelope(e) # g
        BY <1>1, FramesMade
      <4> QED
        BY <1>1, <2>2, <2>4, <4>1, Appended
    <3> QED
      BY <2>1, <2>4, <3>1, <3>2, <3>3, <3>4 DEF Carries, q, s
  <2> QED
    BY <2>1, <2>3, <2>4
<1>8. OnWay' \subseteq OnWay \cup {g}
  <2> SUFFICES ASSUME NEW c \in Node \X Node, NEW x \in Range(chan'[c]), x.type = "gossip"
               PROVE  x \in OnWay \cup {g}
    BY DEF OnWay
  <2>1. c[1] \in Node /\ c[2] \in Node /\ c = <<c[1], c[2]>>
    OBVIOUS
  <2>2. x \in Range(chan[c]) \/ x = g
    BY <1>7, <2>1
  <2> QED
    BY <2>2 DEF OnWay
<1>9. Numbered'
  <2>1. \A k \in Hub : gseen'[k][k] = seq'[k] /\ \A o \in Hub : gseen'[k][o] <= seq'[o]
    BY <1>2, <1>3 DEF Numbered
  <2>2. ASSUME NEW x \in OnWay
        PROVE  /\ x.hub \in Hub /\ x.seq \in Nat /\ x.entries \subseteq Spoke
               /\ x.seq <= seq[x.hub]
               /\ \A p \in x.entries : where[x.hub][p] # None
               /\ \A k \in Hub : x.seq <= gseen[k][x.hub] =>
                    \A p \in x.entries : where[k][p] # None
    BY OnWayFrame DEF Numbered
  <2>3. ASSUME NEW x \in OnWay'
        PROVE  /\ x.seq <= seq'[x.hub]
               /\ \A p \in x.entries : where'[x.hub][p] # None
               /\ \A k \in Hub : x.seq <= gseen'[k][x.hub] =>
                    \A p \in x.entries : where'[k][p] # None
    <3>1. CASE x = g
      <4>1. \A k \in Hub : x.seq <= gseen'[k][x.hub] => k = h
        BY <1>1, <1>2, <1>3, <3>1 DEF Numbered
      <4> QED
        BY <1>1, <1>2, <1>3, <3>1, <4>1
    <3>2. CASE x \in OnWay
      <4>1. x.seq <= seq'[x.hub]
        BY <1>2, <1>3, <2>2, <3>2
      <4>2. \A p \in x.entries : where'[x.hub][p] # None
        BY <1>4, <2>2, <3>2
      <4>3. ASSUME NEW k \in Hub, x.seq <= gseen'[k][x.hub], NEW p \in x.entries
            PROVE  where'[k][p] # None
        <5>1. CASE k = h /\ x.hub = h
          BY <4>2, <4>3, <5>1
        <5>2. CASE ~(k = h /\ x.hub = h)
          BY <1>2, <1>4, <2>2, <3>2, <4>3, <5>2
        <5> QED
          BY <5>1, <5>2
      <4> QED
        BY <4>1, <4>2, <4>3
    <3> QED
      BY <1>8, <3>1, <3>2
  <2>4. ASSUME NEW x \in OnWay', NEW y \in OnWay', x.hub = y.hub, x.seq <= y.seq
        PROVE  x.entries \subseteq y.entries
    <3>1. CASE x \in OnWay /\ y \in OnWay
      BY <2>4, <3>1 DEF Numbered
    <3>2. CASE x \in OnWay /\ y = g
      <4>1. \A p \in x.entries : p \in Spoke /\ where[h][p] # None
        BY <1>1, <2>2, <2>4, <3>2
      <4> QED
        BY <1>4, <1>6, <3>2, <4>1
    <3>3. CASE x = g /\ y \in OnWay
      BY <1>1, <1>3, <2>2, <2>4, <3>3
    <3> QED
      BY <1>8, <3>1, <3>2, <3>3
  <2> QED
    BY <2>1, <2>3, <2>4 DEF Numbered
<1>10. Told'
  <2>1. ASSUME NEW k \in Hub, NEW n \in Node, NEW x \in Range(chan'[<<k, n>>]),
               x.type = "gossip", NEW p \in x.entries
        PROVE  where'[k][p] # None
    <3>1. CASE x = g /\ k = h
      BY <1>1, <1>3, <2>1, <3>1
    <3>2. CASE x \in Range(chan[<<k, n>>])
      <4>1. where[k][p] # None
        BY <2>1, <3>2 DEF Told
      <4>2. x \in OnWay
        <5>1. <<k, n>> \in Node \X Node
          BY Apart
        <5> QED
          BY <2>1, <3>2, <5>1 DEF OnWay
      <4>3. p \in Spoke
        BY <2>1, <4>2, OnWayFrame
      <4> QED
        BY <1>4, <4>1, <4>3
    <3> QED
      BY <1>7, <2>1, <3>1, <3>2, Apart
  <2>2. ASSUME NEW k \in Hub, NEW n \in spokes'[k] \cup hubs'[k], NEW p \in Spoke,
               p # n, where'[k][p] # None
        PROVE  Knows(n, p)' \/ Mentions(chan'[<<k, n>>], p)
    <3>1. n \in Node /\ k \in Node
      BY Apart DEF TypeOK
    <3>2. CASE k = h
      <4>1. n \in T /\ p \in g.entries
        BY <1>2, <1>6, <2>2, <3>2
      <4> QED
        BY <1>7, <3>1, <3>2, <4>1
    <3>3. CASE k # h
      <4>1. n \in spokes[k] \cup hubs[k] /\ where[k][p] # None
        BY <1>2, <2>2, <3>3
      <4>2. Knows(n, p) \/ Mentions(chan[<<k, n>>], p)
        BY <2>2, <4>1 DEF Told
      <4> QED
        BY <1>5, <1>7, <3>1, <4>2
    <3> QED
      BY <3>2, <3>3
  <2> QED
    BY <2>1, <2>2 DEF Told
<1>11. KeyFirst'
  <2> SUFFICES ASSUME NEW e \in sent \ stranded, NEW f \in Node, NEW n \in Node, n # From[e]
               PROVE  Knows(n, From[e])' \/ Preceded(chan'[<<f, n>>], Envelope(e), From[e])
    BY DEF KeyFirst
  <2>1. e \in Env /\ From[e] \in Spoke
    BY FederationAssumption DEF TypeOK
  <2>2. Knows(n, From[e]) \/ Preceded(chan[<<f, n>>], Envelope(e), From[e])
    BY DEF KeyFirst
  <2> QED
    BY <1>5, <1>7, <2>1, <2>2
<1> QED
  BY <1>9, <1>10, <1>11

-----------------------------------------------------------------------------
(* Keys: gossip is read                                                    *)

\* What a read takes out of a channel is told to the reader.
LEMMA ReadTells ==
  ASSUME NEW ch \in Channels, NEW f \in Node, NEW n \in Node, NEW a \in Node, NEW b \in Node,
         ch[<<f, n>>] # <<>>
  PROVE  LET g == Head(ch[<<f, n>>])
             q == ch[<<a, b>>]
             r == Read(ch, f, n)[<<a, b>>]
         IN  /\ Range(r) \subseteq Range(q)
             /\ \A p : Mentions(q, p) => Mentions(r, p) \/ (b = n /\ Tells(g, p))
             /\ \A m, p : Preceded(q, m, p) => Preceded(r, m, p) \/ (b = n /\ Tells(g, p))
<1> DEFINE q == ch[<<a, b>>]
           r == Read(ch, f, n)[<<a, b>>]
           g == Head(ch[<<f, n>>])
<1>1. r = IF a = f /\ b = n THEN Tail(q) ELSE q
  BY ReadPair
<1>2. q \in Seq(Frame)
  BY DEF Channels
<1>3. CASE r = q
  BY <1>3
<1>4. CASE a = f /\ b = n /\ r = Tail(q)
  <2>1. q # <<>> /\ Head(q) = g
    BY <1>4
  <2> HIDE DEF q, r, g
  <2>2. Range(r) \subseteq Range(q)
    BY <1>2, <1>4, <2>1, HeadRead
  <2>3. \A p : Mentions(q, p) => Mentions(r, p) \/ Tells(g, p)
    BY <1>2, <1>4, <2>1, HeadRead
  <2>4. \A m, p : Preceded(q, m, p) => Preceded(r, m, p) \/ Tells(g, p)
    BY <1>2, <1>4, <2>1, HeadRead
  <2> QED
    BY <1>4, <2>2, <2>3, <2>4 DEF q, r, g
<1> QED
  BY <1>1, <1>3, <1>4

LEMMA GossipHead ==
  ASSUME TypeOK, NEW f \in Node, NEW n \in Node, NextFrame(f, n, "gossip")
  PROVE  LET g == Head(chan[<<f, n>>])
         IN  /\ g \in OnWay /\ g \in Range(chan[<<f, n>>])
             /\ g \in Frame /\ g.type = "gossip"
             /\ g.hub \in Hub /\ g.seq \in Nat /\ g.entries \subseteq Spoke
             /\ \A p : Tells(g, p) <=> p \in g.entries
             /\ chan \in Channels /\ Read(chan, f, n) \in Channels /\ chan[<<f, n>>] # <<>>
<1> DEFINE g == Head(chan[<<f, n>>])
<1>1. /\ chan[<<f, n>>] \in Seq(Frame) /\ chan[<<f, n>>] # <<>>
      /\ g \in Frame /\ g.type = "gossip" /\ Read(chan, f, n) \in Channels
  BY FrameRead
<1>2. g \in Range(chan[<<f, n>>])
  BY <1>1, HeadRead
<1>3. <<f, n>> \in Node \X Node
  OBVIOUS
<1> HIDE DEF g
<1>4. g \in OnWay
  BY <1>1, <1>2, <1>3 DEF OnWay
<1>5. g.hub \in Hub /\ g.seq \in Nat /\ g.entries \subseteq Spoke
  BY <1>4, OnWayFrame
<1>6. \A p : Tells(g, p) <=> p \in g.entries
  BY <1>1 DEF Tells
<1>7. chan \in Channels
  BY DEF TypeOK, Channels
<1> QED
  BY <1>1, <1>2, <1>4, <1>5, <1>6, <1>7 DEF g

LEMMA ReadGossipKeys ==
  ASSUME TypeOK, TypeOK', Attached, Numbered, Told, KeyFirst,
         NEW f \in Hub, NEW h \in Hub, ReadGossip(f, h)
  PROVE  Attached' /\ Numbered' /\ Told' /\ KeyFirst'
<1> DEFINE g == Head(chan[<<f, h>>])
           ch == Read(chan, f, h)
           T == Live(h) \ {f}
           w == [p \in Spoke |-> IF p \in g.entries THEN g.hub ELSE where[h][p]]
<1>1. f \in Node /\ h \in Node
  BY Apart
<1>2. NextFrame(f, h, "gossip")
  BY DEF ReadGossip
<1>3. /\ g \in OnWay /\ g \in Range(chan[<<f, h>>])
      /\ g \in Frame /\ g.type = "gossip"
      /\ g.hub \in Hub /\ g.seq \in Nat /\ g.entries \subseteq Spoke
  BY <1>1, <1>2, GossipHead
<1>4. \A p : Tells(g, p) <=> p \in g.entries
  BY <1>1, <1>2, GossipHead
<1>5. chan \in Channels /\ ch \in Channels /\ chan[<<f, h>>] # <<>>
  BY <1>1, <1>2, GossipHead
<1>6. \/ /\ g.seq <= gseen[h][g.hub]
         /\ chan' = ch /\ gseen' = gseen /\ where' = where
      \/ /\ ~(g.seq <= gseen[h][g.hub])
         /\ gseen' = [gseen EXCEPT ![h][g.hub] = g.seq]
         /\ where' = [where EXCEPT ![h] = w]
         /\ chan' = SendTo(ch, h, T, g)
  BY DEF ReadGossip
<1>7. UNCHANGED <<at, known, spokes, hubs, seq, links, sent, stranded>>
  BY DEF ReadGossip, net, history
<1>8. \A p \in Spoke : w[p] = IF p \in g.entries THEN g.hub ELSE where[h][p]
  OBVIOUS
<1>9. /\ \A p \in g.entries : where[f][p] # None
      /\ \A p \in g.entries : where[g.hub][p] # None
      /\ g.seq <= seq[g.hub]
      /\ g.seq <= gseen[h][g.hub] => \A p \in g.entries : where[h][p] # None
  <2>1. \A p \in g.entries : where[f][p] # None
    BY <1>1, <1>3 DEF Told
  <2> HIDE DEF g
  <2> QED
    BY <1>3, <2>1 DEF Numbered
<1> HIDE DEF g, ch, w
<1> DEFINE New == ~(g.seq <= gseen[h][g.hub])
<1>10. New => g.hub # h
  BY <1>3, <1>9 DEF Numbered
<1>11. \A k \in Hub, p \in Spoke :
         where'[k][p] = IF New /\ k = h /\ p \in g.entries THEN g.hub ELSE where[k][p]
  <2>1. CASE ~New
    BY <1>6, <2>1
  <2>2. CASE New
    <3>1. where' = [where EXCEPT ![h] = w]
      BY <1>6, <2>2
    <3>2. \A k \in Hub : where'[k] = IF k = h THEN w ELSE where[k]
      BY <3>1 DEF TypeOK
    <3> QED
      BY <1>8, <2>2, <3>2
  <2> QED
    BY <2>1, <2>2
<1>12. \A k, o \in Hub :
         gseen'[k][o] = IF New /\ k = h /\ o = g.hub THEN g.seq ELSE gseen[k][o]
  <2>1. CASE ~New
    BY <1>6, <2>1
  <2>2. CASE New
    <3>1. gseen' = [gseen EXCEPT ![h][g.hub] = g.seq]
      BY <1>6, <2>2
    <3>2. gseen \in [Hub -> [Hub -> Nat]]
      BY DEF TypeOK
    <3>3. /\ gseen'[h] = [gseen[h] EXCEPT ![g.hub] = g.seq]
          /\ \A k \in Hub \ {h} : gseen'[k] = gseen[k]
      BY <3>1, <3>2
    <3>4. \A o \in Hub : gseen'[h][o] = IF o = g.hub THEN g.seq ELSE gseen[h][o]
      BY <1>3, <3>2, <3>3
    <3> QED
      BY <2>2, <3>3, <3>4
  <2> QED
    BY <2>1, <2>2
<1>13. \A k \in Hub, p \in Spoke : where[k][p] # None => where'[k][p] # None
  BY <1>3, <1>11, Apart
<1>14. \A p \in g.entries : where'[h][p] # None
  BY <1>3, <1>9, <1>11, <1>13, Apart
<1>15. \A n \in Node, p \in Spoke : Knows(n, p) => Knows(n, p)'
  BY <1>7, <1>13 DEF Knows
<1>16. \A k \in Hub, p \in Spoke : where'[k][p] = k => where[k][p] = k
  BY <1>10, <1>11
<1>17. Attached'
  BY <1>7, <1>13, <1>16 DEF Attached, Linked
\* What becomes of a channel.
<1>18. ASSUME NEW a \in Node, NEW b \in Node
       PROVE  /\ \A x \in Range(chan'[<<a, b>>]) :
                   x \in Range(chan[<<a, b>>]) \/ (x = g /\ a = h /\ New)
              /\ \A p \in Spoke : Mentions(chan[<<a, b>>], p) =>
                   Mentions(chan'[<<a, b>>], p) \/ (b = h /\ p \in g.entries)
              /\ \A e \in Env, p \in Spoke : Preceded(chan[<<a, b>>], Envelope(e), p) =>
                   Preceded(chan'[<<a, b>>], Envelope(e), p) \/ (b = h /\ p \in g.entries)
              /\ New /\ a = h /\ b \in T =>
                   \A p \in g.entries : Mentions(chan'[<<a, b>>], p)
  <2> DEFINE q == chan[<<a, b>>]
             r == ch[<<a, b>>]
             s == chan'[<<a, b>>]
  <2>1. /\ Range(r) \subseteq Range(q)
        /\ \A p : Mentions(q, p) => Mentions(r, p) \/ (b = h /\ Tells(g, p))
        /\ \A m, p : Preceded(q, m, p) => Preceded(r, m, p) \/ (b = h /\ Tells(g, p))
    BY <1>1, <1>5, ReadTells DEF g, ch
  <2>2. r \in Seq(Frame)
    BY <1>5 DEF Channels
  <2>3. s = IF New /\ a = h /\ b \in T THEN Append(r, g) ELSE r
    <3>1. SendTo(ch, h, T, g)[<<a, b>>] = IF a = h /\ b \in T THEN Append(r, g) ELSE r
      BY <1>3, <1>5, SendToPair
    <3> QED
      BY <1>6, <3>1
  <2> HIDE DEF q, r, s, T
  <2>4. CASE s = r /\ ~(New /\ a = h /\ b \in T)
    BY <1>4, <2>1, <2>4 DEF q, s
  <2>5. CASE s = Append(r, g) /\ New /\ a = h
    <3>1. Range(s) = Range(r) \cup {g}
      BY <1>3, <2>2, <2>5, Appended
    <3>2. \A p : Mentions(r, p) => Mentions(s, p)
      BY <1>3, <2>2, <2>5, Appended
    <3>3. \A p \in g.entries : Mentions(s, p)
      BY <1>3, <1>4, <2>2, <2>5, Appended
    <3>4. \A e \in Env : \A p : Preceded(r, Envelope(e), p) => Preceded(s, Envelope(e), p)
      <4>1. \A e \in Env : Envelope(e) # g
        BY <1>3, FramesMade
      <4> QED
        BY <1>3, <2>2, <2>5, <4>1, Appended
    <3> QED
      BY <1>4, <2>1, <2>5, <3>1, <3>2, <3>3, <3>4 DEF q, s
  <2> QED
    BY <2>3, <2>4, <2>5
<1>19. OnWay' \subseteq OnWay
  <2> SUFFICES ASSUME NEW c \in Node \X Node, NEW x \in Range(chan'[c]), x.type = "gossip"
               PROVE  x \in OnWay
    BY DEF OnWay
  <2>1. c[1] \in Node /\ c[2] \in Node /\ c = <<c[1], c[2]>>
    OBVIOUS
  <2>2. x \in Range(chan[c]) \/ x = g
    BY <1>18, <2>1
  <2> QED
    BY <1>3, <2>2 DEF OnWay
<1>20. ASSUME NEW x \in OnWay
       PROVE  x.hub \in Hub /\ x.seq \in Nat /\ x.entries \subseteq Spoke
  BY OnWayFrame
<1>21. Numbered'
  <2>1. \A k \in Hub : gseen'[k][k] = seq'[k] /\ \A o \in Hub : gseen'[k][o] <= seq'[o]
    BY <1>3, <1>7, <1>9, <1>10, <1>12 DEF Numbered
  <2>2. ASSUME NEW x \in OnWay, NEW k \in Hub, x.seq <= gseen'[k][x.hub], NEW p \in x.entries
        PROVE  where'[k][p] # None
    <3>1. CASE New /\ k = h /\ x.hub = g.hub
      <4>1. x.seq <= g.seq
        BY <1>12, <1>20, <2>2, <3>1
      <4>2. p \in g.entries
        BY <1>3, <2>2, <3>1, <4>1 DEF Numbered
      <4> QED
        BY <1>14, <3>1, <4>2
    <3>2. CASE ~(New /\ k = h /\ x.hub = g.hub)
      <4>1. x.seq <= gseen[k][x.hub]
        BY <1>12, <1>20, <2>2, <3>2
      <4>2. p \in Spoke /\ where[k][p] # None
        BY <1>20, <2>2, <4>1 DEF Numbered
      <4> QED
        BY <1>13, <4>2
    <3> QED
      BY <3>1, <3>2
  <2>3. ASSUME NEW x \in OnWay
        PROVE  x.seq <= seq'[x.hub] /\ \A p \in x.entries : where'[x.hub][p] # None
    <3>1. x.seq <= seq[x.hub] /\ \A p \in x.entries : where[x.hub][p] # None
      BY DEF Numbered
    <3> QED
      BY <1>7, <1>13, <1>20, <3>1
  <2>4. \A x, y \in OnWay : x.hub = y.hub /\ x.seq <= y.seq => x.entries \subseteq y.entries
    BY DEF Numbered
  <2> QED
    BY <1>19, <2>1, <2>2, <2>3, <2>4 DEF Numbered
<1>22. Told'
  <2>1. ASSUME NEW k \in Hub, NEW n \in Node, NEW x \in Range(chan'[<<k, n>>]),
               x.type = "gossip", NEW p \in x.entries
        PROVE  where'[k][p] # None
    <3>1. CASE x = g /\ k = h
      BY <1>14, <2>1, <3>1
    <3>2. CASE x \in Range(chan[<<k, n>>])
      <4>1. where[k][p] # None
        BY <2>1, <3>2 DEF Told
      <4>2. x \in OnWay
        <5>1. <<k, n>> \in Node \X Node
          BY Apart
        <5> QED
          BY <2>1, <3>2, <5>1 DEF OnWay
      <4>3. p \in Spoke
        BY <1>20, <2>1, <4>2
      <4> QED
        BY <1>13, <4>1, <4>3
    <3> QED
      BY <1>18, <2>1, <3>1, <3>2, Apart
  <2>2. ASSUME NEW k \in Hub, NEW n \in spokes'[k] \cup hubs'[k], NEW p \in Spoke,
               p # n, where'[k][p] # None
        PROVE  Knows(n, p)' \/ Mentions(chan'[<<k, n>>], p)
    <3>1. n \in Node /\ k \in Node /\ n \in spokes[k] \cup hubs[k]
      BY <1>7, Apart DEF TypeOK
    <3>2. CASE where[k][p] # None
      <4>1. Knows(n, p) \/ Mentions(chan[<<k, n>>], p)
        BY <2>2, <3>1, <3>2 DEF Told
      <4>2. \/ Knows(n, p)'
            \/ Mentions(chan'[<<k, n>>], p)
            \/ n = h /\ p \in g.entries
        BY <1>15, <1>18, <3>1, <4>1
      <4>3. n = h /\ p \in g.entries => Knows(n, p)'
        BY <1>14 DEF Knows
      <4> QED
        BY <4>2, <4>3
    <3>3. CASE where[k][p] = None
      <4>1. New /\ k = h /\ p \in g.entries
        BY <1>11, <2>2, <3>3
      <4>2. CASE n = f
        <5>1. Knows(f, p)
          BY <1>9, <4>1 DEF Knows
        <5> QED
          BY <1>15, <3>1, <4>2, <5>1
      <4>3. CASE n # f
        <5>1. n \in Live(h)
          BY <3>1, <4>1, LiveAll
        <5> QED
          BY <1>18, <3>1, <4>1, <4>3, <5>1
      <4> QED
        BY <4>2, <4>3
    <3> QED
      BY <3>2, <3>3
  <2> QED
    BY <2>1, <2>2 DEF Told
<1>23. KeyFirst'
  <2> SUFFICES ASSUME NEW e \in sent \ stranded, NEW a \in Node, NEW n \in Node, n # From[e]
               PROVE  Knows(n, From[e])' \/ Preceded(chan'[<<a, n>>], Envelope(e), From[e])
    BY <1>7 DEF KeyFirst
  <2>1. e \in Env /\ From[e] \in Spoke
    BY FederationAssumption DEF TypeOK
  <2>2. Knows(n, From[e]) \/ Preceded(chan[<<a, n>>], Envelope(e), From[e])
    BY DEF KeyFirst
  <2>3. n = h /\ From[e] \in g.entries => Knows(n, From[e])'
    BY <1>14 DEF Knows
  <2>4. \/ Knows(n, From[e])'
        \/ Preceded(chan'[<<a, n>>], Envelope(e), From[e])
        \/ n = h /\ From[e] \in g.entries
    BY <1>15, <1>18, <2>1, <2>2
  <2> QED
    BY <2>3, <2>4
<1> QED
  BY <1>17, <1>21, <1>22, <1>23

LEMMA OnWaySub ==
  ASSUME \A a, b \in Node : \A x \in Range(chan'[<<a, b>>]) :
           x.type = "gossip" => x \in Range(chan[<<a, b>>])
  PROVE  OnWay' \subseteq OnWay
<1> SUFFICES ASSUME NEW c \in Node \X Node, NEW x \in Range(chan'[c]), x.type = "gossip"
             PROVE  x \in OnWay
  BY DEF OnWay
<1>1. c[1] \in Node /\ c[2] \in Node /\ c = <<c[1], c[2]>>
  OBVIOUS
<1>2. x \in Range(chan[c])
  BY <1>1
<1> QED
  BY <1>2 DEF OnWay

\* Steps that change no table and lose no gossip.
LEMMA TablesKept ==
  ASSUME TypeOK, Numbered, Told,
         UNCHANGED <<known, spokes, hubs, where, seq, gseen>>,
         \A a, b \in Node :
           /\ \A x \in Range(chan'[<<a, b>>]) :
                x.type = "gossip" => x \in Range(chan[<<a, b>>])
           /\ \A p \in Spoke : Mentions(chan[<<a, b>>], p) => Mentions(chan'[<<a, b>>], p)
  PROVE  Numbered' /\ Told'
<1>1. OnWay' \subseteq OnWay
  BY OnWaySub
<1>2. Numbered'
  BY <1>1 DEF Numbered
<1>3. ASSUME NEW k \in Hub, NEW n \in Node, NEW x \in Range(chan'[<<k, n>>]),
             x.type = "gossip", NEW p \in x.entries
      PROVE  where'[k][p] # None
  BY <1>3, Apart DEF Told
<1>4. ASSUME NEW k \in Hub, NEW n \in spokes'[k] \cup hubs'[k], NEW p \in Spoke,
             p # n, where'[k][p] # None
      PROVE  Knows(n, p)' \/ Mentions(chan'[<<k, n>>], p)
  <2>1. n \in Node /\ k \in Node
    BY Apart DEF TypeOK
  <2>2. Knows(n, p) \/ Mentions(chan[<<k, n>>], p)
    BY <1>4 DEF Told
  <2>3. Knows(n, p) => Knows(n, p)'
    BY DEF Knows
  <2> QED
    BY <2>1, <2>2, <2>3
<1> QED
  BY <1>2, <1>3, <1>4 DEF Told

LEMMA SpokeGossipKeys ==
  ASSUME TypeOK, TypeOK', Attached, Numbered, Told, KeyFirst,
         NEW p \in Spoke, NEW h \in Hub, SpokeGossip(h, p)
  PROVE  Attached' /\ Numbered' /\ Told' /\ KeyFirst'
<1> DEFINE g == Head(chan[<<h, p>>])
<1>1. h \in Node /\ p \in Node
  BY Apart
<1>2. NextFrame(h, p, "gossip")
  BY DEF SpokeGossip
<1>3. g.entries \subseteq Spoke /\ \A q : Tells(g, q) <=> q \in g.entries
  BY <1>1, <1>2, GossipHead
<1>4. chan \in Channels /\ chan[<<h, p>>] # <<>>
  BY <1>1, <1>2, GossipHead
<1>5. /\ known' = [known EXCEPT ![p] = @ \cup (g.entries \ {p})]
      /\ chan' = Read(chan, h, p)
      /\ UNCHANGED <<at, spokes, hubs, where, seq, gseen, links, sent, stranded>>
  BY DEF SpokeGossip, tables, net, history
<1> HIDE DEF g
<1>6. \A q \in Spoke : known'[q] = IF q = p THEN known[p] \cup (g.entries \ {p}) ELSE known[q]
  BY <1>5 DEF TypeOK
<1>7. ASSUME NEW a \in Node, NEW b \in Node
      PROVE  /\ Range(chan'[<<a, b>>]) \subseteq Range(chan[<<a, b>>])
             /\ \A q \in Spoke : Mentions(chan[<<a, b>>], q) =>
                  Mentions(chan'[<<a, b>>], q) \/ (b = p /\ q \in g.entries)
             /\ \A e \in Env, q \in Spoke : Preceded(chan[<<a, b>>], Envelope(e), q) =>
                  Preceded(chan'[<<a, b>>], Envelope(e), q) \/ (b = p /\ q \in g.entries)
  <2> DEFINE q1 == chan[<<a, b>>]
             r1 == chan'[<<a, b>>]
  <2>1. /\ Range(r1) \subseteq Range(q1)
        /\ \A q : Mentions(q1, q) => Mentions(r1, q) \/ (b = p /\ Tells(g, q))
        /\ \A m, q : Preceded(q1, m, q) => Preceded(r1, m, q) \/ (b = p /\ Tells(g, q))
    BY <1>1, <1>4, <1>5, ReadTells DEF g
  <2> QED
    BY <1>3, <2>1
<1>8. \A n \in Node, q \in Spoke : Knows(n, q) => Knows(n, q)'
  BY <1>5, <1>6, Apart DEF Knows
<1>9. \A q \in g.entries : q # p => Knows(p, q)'
  BY <1>6, Apart DEF Knows
<1>10. Attached'
  BY <1>5, <1>6 DEF Attached, Linked
<1>11. OnWay' \subseteq OnWay
  BY <1>7, OnWaySub
<1>12. Numbered'
  BY <1>5, <1>11 DEF Numbered
<1>13. Told'
  <2>1. ASSUME NEW k \in Hub, NEW n \in Node, NEW x \in Range(chan'[<<k, n>>]),
               x.type = "gossip", NEW q \in x.entries
        PROVE  where'[k][q] # None
    BY <1>5, <1>7, <2>1, Apart DEF Told
  <2>2. ASSUME NEW k \in Hub, NEW n \in spokes'[k] \cup hubs'[k], NEW q \in Spoke,
               q # n, where'[k][q] # None
        PROVE  Knows(n, q)' \/ Mentions(chan'[<<k, n>>], q)
    <3>1. n \in Node /\ k \in Node /\ n \in spokes[k] \cup hubs[k]
      BY <1>5, Apart DEF TypeOK
    <3>2. Knows(n, q) \/ Mentions(chan[<<k, n>>], q)
      BY <1>5, <2>2, <3>1 DEF Told
    <3>3. Mentions(chan[<<k, n>>], q) =>
            Mentions(chan'[<<k, n>>], q) \/ (n = p /\ q \in g.entries)
      BY <1>7, <3>1
    <3> QED
      BY <1>8, <1>9, <2>2, <3>1, <3>2, <3>3
  <2> QED
    BY <2>1, <2>2 DEF Told
<1>14. KeyFirst'
  <2> SUFFICES ASSUME NEW e \in sent \ stranded, NEW a \in Node, NEW n \in Node, n # From[e]
               PROVE  Knows(n, From[e])' \/ Preceded(chan'[<<a, n>>], Envelope(e), From[e])
    BY <1>5 DEF KeyFirst
  <2>1. e \in Env /\ From[e] \in Spoke
    BY FederationAssumption DEF TypeOK
  <2>2. Knows(n, From[e]) \/ Preceded(chan[<<a, n>>], Envelope(e), From[e])
    BY DEF KeyFirst
  <2>3. Preceded(chan[<<a, n>>], Envelope(e), From[e]) =>
          Preceded(chan'[<<a, n>>], Envelope(e), From[e]) \/ (n = p /\ From[e] \in g.entries)
    BY <1>7, <2>1
  <2> QED
    BY <1>8, <1>9, <2>1, <2>2, <2>3
<1> QED
  BY <1>10, <1>12, <1>13, <1>14

-----------------------------------------------------------------------------
(* Keys: envelopes                                                         *)

LEMMA ReadCarries ==
  ASSUME NEW ch \in Channels, NEW f \in Node, NEW n \in Node, NEW a \in Node, NEW b \in Node,
         ch[<<f, n>>] # <<>>, Head(ch[<<f, n>>]).type # "gossip"
  PROVE  Carries(ch[<<a, b>>], Read(ch, f, n)[<<a, b>>])
<1> DEFINE q == ch[<<a, b>>]
<1>1. q \in Seq(Frame)
  BY DEF Channels
<1>2. Read(ch, f, n)[<<a, b>>] = IF a = f /\ b = n THEN Tail(q) ELSE q
  BY ReadPair
<1>3. a = f /\ b = n => q # <<>> /\ Head(q).type # "gossip"
  OBVIOUS
<1> HIDE DEF q
<1>4. Carries(q, q) /\ (q # <<>> /\ Head(q).type # "gossip" => Carries(q, Tail(q)))
  BY <1>1, CarriesCases
<1> QED
  BY <1>2, <1>3, <1>4 DEF q

\* An envelope is not ahead of its key in the channel it is read from.
LEMMA KeyKnown ==
  ASSUME TypeOK, KeyFirst, NEW e \in sent \ stranded, NEW f \in Node, NEW n \in Node,
         n # From[e], chan[<<f, n>>] # <<>>, Head(chan[<<f, n>>]) = Envelope(e)
  PROVE  Knows(n, From[e])
<1>1. chan[<<f, n>>] \in Seq(Frame)
  <2>1. <<f, n>> \in Node \X Node
    OBVIOUS
  <2> QED
    BY <2>1 DEF TypeOK
<1>2. ~Preceded(chan[<<f, n>>], Envelope(e), From[e])
  BY <1>1, HeadRead
<1> QED
  BY <1>2 DEF KeyFirst

LEMMA ForwardKeys ==
  ASSUME TypeOK, TypeOK', Copies, Attached, Numbered, Told, KeyFirst, Opened,
         NEW f \in Node, NEW h \in Hub, Forward(f, h)
  PROVE  Attached' /\ Numbered' /\ Told' /\ KeyFirst' /\ Opened'
<1> DEFINE m == Head(chan[<<f, h>>])
           e == m.id
           ch == Read(chan, f, h)
           T == NextHops(h, To[e], f) \cap Live(h)
<1>1. /\ chan \in Channels /\ ch \in Channels /\ h \in Node
      /\ m \in Frame /\ m.type = "envelope" /\ chan[<<f, h>>] # <<>>
  <2>1. chan \in Channels /\ h \in Node /\ NextFrame(f, h, "envelope")
    BY Apart DEF Forward, TypeOK, Channels
  <2> QED
    BY <2>1, FrameRead
<1>2. e \in Env /\ m = Envelope(e) /\ From[e] \in Spoke /\ To[e] \in Spoke
  BY <1>1, FrameKinds, FederationAssumption
<1>3. /\ chan' = IF e \in seen[h] THEN ch ELSE SendTo(ch, h, T, m)
      /\ UNCHANGED <<at, known, spokes, hubs, where, seq, gseen, links, sent, stranded,
                     arrived, opened>>
  BY DEF Forward, tables, net, history
<1>4. e \in sent \ stranded => Knows(h, From[e])
  <2>1. h # From[e]
    BY <1>2, Apart
  <2> QED
    BY <1>1, <1>2, <2>1, KeyKnown
<1>5. T \subseteq spokes[h] \cup hubs[h]
  BY DEF Live
<1>6. ASSUME NEW a \in Node, NEW b \in Node
      PROVE  Carries(chan[<<a, b>>], ch[<<a, b>>])
  BY <1>1, ReadCarries
<1> HIDE DEF m, ch, T
<1>7. ASSUME NEW a \in Node, NEW b \in Node
      PROVE  /\ \A x \in Range(chan'[<<a, b>>]) :
                  x.type = "gossip" => x \in Range(chan[<<a, b>>])
             /\ \A p \in Spoke : Mentions(chan[<<a, b>>], p) => Mentions(chan'[<<a, b>>], p)
             /\ \A x \in Env, p \in Spoke :
                  /\ Preceded(chan[<<a, b>>], Envelope(x), p)
                  /\ x = e /\ a = h /\ b \in T => Mentions(chan[<<a, b>>], p)
                  => Preceded(chan'[<<a, b>>], Envelope(x), p)
  <2> DEFINE q == chan[<<a, b>>]
             r == ch[<<a, b>>]
             s == chan'[<<a, b>>]
  <2>1. Carries(q, r)
    BY <1>6
  <2>2. r \in Seq(Frame)
    BY <1>1 DEF Channels
  <2>3. s = r \/ (a = h /\ b \in T /\ s = Append(r, m))
    <3>1. SendTo(ch, h, T, m)[<<a, b>>] = IF a = h /\ b \in T THEN Append(r, m) ELSE r
      BY <1>1, SendToPair
    <3> QED
      BY <1>3, <3>1
  <2> HIDE DEF q, r, s, T
  <2>4. CASE s = r
    BY <2>1, <2>4 DEF Carries, q, s
  <2>5. CASE s = Append(r, m) /\ a = h /\ b \in T
    <3>1. Range(s) = Range(r) \cup {m}
      BY <1>1, <2>2, <2>5, Appended
    <3>2. \A p : Mentions(r, p) => Mentions(s, p)
      BY <1>1, <2>2, <2>5, Appended
    <3>3. \A x \in Env : \A p : Preceded(r, Envelope(x), p) /\ (x = e => Mentions(r, p)) =>
            Preceded(s, Envelope(x), p)
      <4>1. \A x \in Env : Envelope(x) = m => x = e
        BY <1>2, FramesMade
      <4> QED
        BY <1>1, <2>2, <2>5, <4>1, Appended
    <3> QED
      BY <1>1, <2>1, <2>5, <3>1, <3>2, <3>3 DEF Carries, q, s
  <2> QED
    BY <2>3, <2>4, <2>5
<1>8. Attached' /\ Opened'
  BY <1>3 DEF Attached, Linked, Opened
<1>9. Numbered' /\ Told'
  BY <1>3, <1>7, TablesKept
<1>10. KeyFirst'
  <2> SUFFICES ASSUME NEW x \in sent \ stranded, NEW a \in Node, NEW n \in Node, n # From[x]
               PROVE  Knows(n, From[x])' \/ Preceded(chan'[<<a, n>>], Envelope(x), From[x])
    BY <1>3 DEF KeyFirst
  <2>1. x \in Env /\ From[x] \in Spoke
    BY FederationAssumption DEF TypeOK
  <2>2. Knows(n, From[x]) \/ Preceded(chan[<<a, n>>], Envelope(x), From[x])
    BY DEF KeyFirst
  <2>3. Knows(n, From[x]) => Knows(n, From[x])'
    BY <1>3 DEF Knows
  <2>4. CASE x = e /\ a = h /\ n \in T
    <3>1. where[h][From[e]] # None
      BY <1>4, <2>4 DEF Knows
    <3>2. n \in spokes[h] \cup hubs[h]
      BY <1>5, <2>4
    <3>3. Knows(n, From[e]) \/ Mentions(chan[<<h, n>>], From[e])
      BY <1>2, <2>4, <3>1, <3>2 DEF Told
    <3> QED
      BY <1>7, <2>1, <2>2, <2>3, <2>4, <3>3
  <2>5. CASE ~(x = e /\ a = h /\ n \in T)
    BY <1>7, <2>1, <2>2, <2>3, <2>5
  <2> QED
    BY <2>4, <2>5
<1> QED
  BY <1>8, <1>9, <1>10

LEMMA DeliverKeys ==
  ASSUME TypeOK, TypeOK', Copies, Attached, Numbered, Told, KeyFirst, Opened,
         NEW p \in Spoke, NEW h \in Hub, Deliver(h, p)
  PROVE  Attached' /\ Numbered' /\ Told' /\ KeyFirst' /\ Opened'
<1> DEFINE m == Head(chan[<<h, p>>])
           e == m.id
<1>1. /\ chan \in Channels /\ h \in Node /\ p \in Node
      /\ m \in Frame /\ m.type = "envelope" /\ chan[<<h, p>>] # <<>>
      /\ chan[<<h, p>>] \in Seq(Frame)
  <2>1. chan \in Channels /\ h \in Node /\ p \in Node /\ NextFrame(h, p, "envelope")
    BY Apart DEF Deliver, TypeOK, Channels
  <2> QED
    BY <2>1, FrameRead
<1>2. e \in Env /\ m = Envelope(e) /\ From[e] \in Spoke /\ To[e] \in Spoke
  BY <1>1, FrameKinds, FederationAssumption
<1>3. /\ chan' = Read(chan, h, p)
      /\ arrived' = [arrived EXCEPT ![e] = IF @ < 2 THEN @ + 1 ELSE 2]
      /\ opened' = IF From[e] \in known[p] THEN opened \cup {e} ELSE opened
      /\ UNCHANGED <<at, known, spokes, hubs, where, seq, gseen, links, sent, stranded>>
  BY DEF Deliver, tables, net
<1>4. m \in Range(chan[<<h, p>>])
  BY <1>1, HeadRead
<1>5. e \in sent \ stranded => From[e] \in known[p]
  <2>1. p = To[e]
    BY <1>2, <1>4 DEF Copies, Addressed
  <2>2. e \in sent => p # From[e]
    BY <2>1 DEF Attached
  <2>3. e \in sent \ stranded => Knows(p, From[e])
    BY <1>1, <1>2, <2>2, KeyKnown
  <2> QED
    BY <2>3, Apart DEF Knows
<1>6. ASSUME NEW a \in Node, NEW b \in Node
      PROVE  Carries(chan[<<a, b>>], chan'[<<a, b>>])
  BY <1>1, <1>3, ReadCarries
<1> HIDE DEF m
<1>7. Opened'
  <2> SUFFICES ASSUME NEW x \in sent \ stranded, arrived'[x] > 0
               PROVE  x \in opened'
    BY <1>3 DEF Opened
  <2>1. CASE x = e
    BY <1>3, <1>5, <2>1
  <2>2. CASE x # e
    <3>1. x \in Env
      BY DEF TypeOK
    <3>2. arrived'[x] = arrived[x]
      BY <1>2, <1>3, <2>2, <3>1 DEF TypeOK
    <3> QED
      BY <1>3, <3>2 DEF Opened
  <2> QED
    BY <2>1, <2>2
<1>8. Attached'
  BY <1>3 DEF Attached, Linked
<1>9. Numbered' /\ Told'
  <2>1. ASSUME NEW a \in Node, NEW b \in Node
        PROVE  /\ \A x \in Range(chan'[<<a, b>>]) :
                    x.type = "gossip" => x \in Range(chan[<<a, b>>])
               /\ \A q \in Spoke : Mentions(chan[<<a, b>>], q) => Mentions(chan'[<<a, b>>], q)
    BY <1>6 DEF Carries
  <2> QED
    BY <1>3, <2>1, TablesKept
<1>10. KeyFirst'
  <2> SUFFICES ASSUME NEW x \in sent \ stranded, NEW a \in Node, NEW n \in Node, n # From[x]
               PROVE  Knows(n, From[x])' \/ Preceded(chan'[<<a, n>>], Envelope(x), From[x])
    BY <1>3 DEF KeyFirst
  <2>1. x \in Env /\ From[x] \in Spoke
    BY FederationAssumption DEF TypeOK
  <2>2. Knows(n, From[x]) \/ Preceded(chan[<<a, n>>], Envelope(x), From[x])
    BY DEF KeyFirst
  <2>3. Knows(n, From[x]) => Knows(n, From[x])'
    BY <1>3 DEF Knows
  <2> QED
    BY <1>6, <2>1, <2>2, <2>3 DEF Carries
<1> QED
  BY <1>7, <1>8, <1>9, <1>10

LEMMA PostKeys ==
  ASSUME TypeOK, TypeOK', Copies, Attached, Numbered, Told, KeyFirst, Opened,
         NEW e \in Env, Post(e)
  PROVE  Attached' /\ Numbered' /\ Told' /\ KeyFirst' /\ Opened'
<1> DEFINE p == From[e]
           h == at[p]
<1>1. /\ chan' = SendTo(chan, p, {h}, Envelope(e))
      /\ e \notin sent /\ sent' = sent \cup {e}
      /\ h # None /\ To[e] \in known[p]
      /\ stranded' = IF Settled(e) THEN stranded ELSE stranded \cup {e}
      /\ UNCHANGED <<at, known, spokes, hubs, where, seq, gseen, links, arrived, opened>>
  BY DEF Post, tables, net
<1>2. /\ chan \in Channels /\ Envelope(e) \in Frame /\ p \in Spoke /\ To[e] \in Spoke
      /\ Envelope(e).type = "envelope"
  BY FramesMade, FederationAssumption DEF TypeOK, Channels
<1>3. h \in Hub
  BY <1>1, <1>2 DEF TypeOK
<1>4. ~(arrived[e] > 0) /\ \A c \in Node \X Node : Envelope(e) \notin Range(chan[c])
  BY <1>1 DEF Copies, SentFirst
<1>5. Attached'
  BY <1>1, <1>2 DEF Attached, Linked
<1>6. Opened'
  BY <1>1, <1>4 DEF Opened
<1>7. Settled(e) => where[h][p] # None
  <2>1. Settled(e) => p \in spokes[h]
    BY <1>3 DEF Settled
  <2> QED
    BY <1>2, <1>3, <2>1 DEF Attached
<1> HIDE DEF p, h
\* What becomes of a channel.
<1>8. ASSUME NEW a \in Node, NEW b \in Node
      PROVE  /\ \A x \in Range(chan'[<<a, b>>]) :
                  x.type = "gossip" => x \in Range(chan[<<a, b>>])
             /\ \A q \in Spoke : Mentions(chan[<<a, b>>], q) => Mentions(chan'[<<a, b>>], q)
             /\ \A x \in Env \ {e}, q \in Spoke :
                  Preceded(chan[<<a, b>>], Envelope(x), q) =>
                    Preceded(chan'[<<a, b>>], Envelope(x), q)
             /\ b # h => Envelope(e) \notin Range(chan'[<<a, b>>])
  <2> DEFINE q1 == chan[<<a, b>>]
             s1 == chan'[<<a, b>>]
  <2>1. <<a, b>> \in Node \X Node
    OBVIOUS
  <2>2. q1 \in Seq(Frame) /\ Envelope(e) \notin Range(q1)
    BY <1>2, <1>4, <2>1 DEF Channels
  <2>3. s1 = IF a = p /\ b \in {h} THEN Append(q1, Envelope(e)) ELSE q1
    BY <1>1, <1>2, SendToPair
  <2> HIDE DEF q1, s1
  <2>4. CASE s1 = q1
    BY <2>2, <2>4 DEF q1, s1
  <2>5. CASE s1 = Append(q1, Envelope(e)) /\ b = h
    <3>1. Range(s1) = Range(q1) \cup {Envelope(e)}
      BY <1>2, <2>2, <2>5, Appended
    <3>2. \A q : Mentions(q1, q) => Mentions(s1, q)
      BY <1>2, <2>2, <2>5, Appended
    <3>3. \A x \in Env \ {e} : \A q : Preceded(q1, Envelope(x), q) => Preceded(s1, Envelope(x), q)
      <4>1. \A x \in Env \ {e} : Envelope(x) # Envelope(e)
        BY FramesMade
      <4> QED
        BY <1>2, <2>2, <2>5, <4>1, Appended
    <3> QED
      BY <1>2, <2>5, <3>1, <3>2, <3>3 DEF q1, s1
  <2> QED
    BY <2>3, <2>4, <2>5
<1>9. Numbered' /\ Told'
  BY <1>1, <1>8, TablesKept
<1>10. KeyFirst'
  <2> SUFFICES ASSUME NEW x \in sent' \ stranded', NEW a \in Node, NEW n \in Node,
                      n # From[x]
               PROVE  Knows(n, From[x])' \/ Preceded(chan'[<<a, n>>], Envelope(x), From[x])
    BY DEF KeyFirst
  <2>1. CASE x # e
    <3>1. x \in sent \ stranded /\ x \in Env /\ From[x] \in Spoke
      BY <1>1, <2>1, FederationAssumption DEF TypeOK
    <3>2. Knows(n, From[x]) \/ Preceded(chan[<<a, n>>], Envelope(x), From[x])
      BY <3>1 DEF KeyFirst
    <3>3. Knows(n, From[x]) => Knows(n, From[x])'
      BY <1>1 DEF Knows
    <3> QED
      BY <1>8, <2>1, <3>1, <3>2, <3>3
  <2>2. CASE x = e
    <3>1. CASE n = h
      <4>1. Settled(e)
        BY <1>1, <2>2
      <4>2. Knows(n, p)
        BY <1>3, <1>7, <3>1, <4>1 DEF Knows
      <4>3. Knows(n, p)'
        BY <1>1, <4>2 DEF Knows
      <4> QED
        BY <2>2, <4>3 DEF p
    <3>2. CASE n # h
      <4>1. Envelope(e) \notin Range(chan'[<<a, n>>])
        BY <1>8, <3>2
      <4> QED
        BY <2>2, <4>1 DEF Preceded, Range
    <3> QED
      BY <3>1, <3>2
  <2> QED
    BY <2>1, <2>2
<1> QED
  BY <1>5, <1>6, <1>9, <1>10

-----------------------------------------------------------------------------
(* Keys: all steps                                                         *)

\* The same of the sessions: those of S are with h.
LEMMA GossipAttached ==
  ASSUME TypeOK, Attached, NEW h \in Hub, NEW S \in SUBSET Spoke, NEW H \in SUBSET Hub, NEW T,
         NEW ch, GossipLocal(h, S, H, T, ch),
         spokes[h] \subseteq S, \A p \in S : at'[p] = h,
         \A k \in Hub, p \in Spoke : at[p] = k => at'[p] = k,
         links \subseteq links', \A g \in H : Linked(g, h)',
         UNCHANGED <<known, sent>>
  PROVE  Attached'
<1>1. /\ \A k \in Hub, p \in Spoke :
           where'[k][p] = IF k = h /\ p \in S THEN h ELSE where[k][p]
      /\ \A k \in Hub : spokes'[k] = IF k = h THEN S ELSE spokes[k]
      /\ \A k \in Hub : hubs'[k] = IF k = h THEN H ELSE hubs[k]
  BY GossipTables
<1>2. ASSUME NEW k \in Hub, NEW p \in Spoke, p \in spokes'[k]
      PROVE  at'[p] = k /\ where'[k][p] # None
  <2>1. CASE k = h
    BY <1>1, <1>2, <2>1, Apart
  <2>2. CASE k # h
    BY <1>1, <1>2, <2>2 DEF Attached
  <2> QED
    BY <2>1, <2>2
<1>3. \A k \in Hub, p \in Spoke : where'[k][p] = k => p \in spokes'[k]
  BY <1>1 DEF Attached
<1>4. ASSUME NEW k \in Hub, NEW g \in hubs'[k]
      PROVE  Linked(g, k)'
  <2>1. CASE k = h
    BY <1>1, <1>4, <2>1
  <2>2. CASE k # h
    BY <1>1, <1>4, <2>2 DEF Attached, Linked
  <2> QED
    BY <2>1, <2>2
<1> QED
  BY <1>2, <1>3, <1>4 DEF Attached

\* gossipLocal() in the four steps that are left when nothing fails.
LEMMA GossipSteps ==
  ASSUME TypeOK, TypeOK', Attached, Numbered, Told, KeyFirst,
         NEW a \in Hub, NEW b \in Hub, NEW p,
         \/ AcceptPeer(a, b) \/ DialPeer(a, b)
         \/ p \in Spoke /\ (Connect(p, a) \/ ReadPresence(p, a))
  PROVE  Attached' /\ Numbered' /\ Told' /\ KeyFirst'
<1>1. chan \in Channels /\ \A h \in Hub : h \in Node
  BY Apart DEF TypeOK, Channels
<1>2. \A h \in Hub : spokes[h] \in SUBSET Spoke /\ hubs[h] \in SUBSET Hub
  BY DEF TypeOK
<1>3. \A h \in Hub : spokes[h] \cup hubs[h] \subseteq Live(h)
  BY LiveAll
<1>4. \A n, m \in Node : Carries(chan[<<n, m>>], chan[<<n, m>>])
  BY DEF Carries
<1>5. \A h \in Hub : /\ \A q \in spokes[h] : at[q] = h
                     /\ \A g \in hubs[h] : Linked(g, h)
  BY <1>2 DEF Attached
<1>6. CASE AcceptPeer(a, b)
  <2>1. /\ GossipLocal(b, spokes[b], hubs[b] \cup {a}, Live(b) \cup {a}, chan)
        /\ links' = links \cup {<<a, b>>}
        /\ UNCHANGED <<at, known, sent, stranded>>
    BY <1>6 DEF AcceptPeer, history
  <2>2. hubs[b] \cup {a} \in SUBSET Hub /\ spokes[b] \in SUBSET Spoke
    BY <1>2
  <2>3. \A g \in hubs[b] \cup {a} : Linked(g, b)'
    BY <1>5, <2>1 DEF Linked
  <2>4. Attached'
    <3>1. (\A q \in spokes[b] : at'[q] = b) /\ links \subseteq links'
      BY <1>5, <2>1
    <3>2. \A k \in Hub, q \in Spoke : at[q] = k => at'[q] = k
      BY <2>1
    <3> QED
      BY <2>1, <2>2, <2>3, <3>1, <3>2, GossipAttached
  <2>5. spokes[b] \cup (hubs[b] \cup {a}) \subseteq Live(b) \cup {a}
    BY <1>3
  <2>6. Numbered' /\ Told' /\ KeyFirst'
    BY <1>1, <1>4, <2>1, <2>2, <2>5, GossipKeys
  <2> QED
    BY <2>4, <2>6
<1>7. CASE DialPeer(a, b)
  <2>1. /\ GossipLocal(a, spokes[a], hubs[a] \cup {b}, Live(a) \cup {b}, chan)
        /\ <<a, b>> \in links
        /\ UNCHANGED <<at, known, links, sent, stranded>>
    BY <1>7 DEF DialPeer, net, history
  <2>2. hubs[a] \cup {b} \in SUBSET Hub /\ spokes[a] \in SUBSET Spoke
    BY <1>2
  <2>3. \A g \in hubs[a] \cup {b} : Linked(g, a)'
    BY <1>5, <2>1 DEF Linked
  <2>4. Attached'
    <3>1. (\A q \in spokes[a] : at'[q] = a) /\ links \subseteq links'
      BY <1>5, <2>1
    <3>2. \A k \in Hub, q \in Spoke : at[q] = k => at'[q] = k
      BY <2>1
    <3> QED
      BY <2>1, <2>2, <2>3, <3>1, <3>2, GossipAttached
  <2>5. spokes[a] \cup (hubs[a] \cup {b}) \subseteq Live(a) \cup {b}
    BY <1>3
  <2>6. Numbered' /\ Told' /\ KeyFirst'
    BY <1>1, <1>4, <2>1, <2>2, <2>5, GossipKeys
  <2> QED
    BY <2>4, <2>6
<1>8. CASE p \in Spoke /\ Connect(p, a)
  <2> DEFINE ch == SendTo(chan, p, {a}, Presence)
  <2>1. /\ GossipLocal(a, spokes[a] \cup {p}, hubs[a], Live(a) \cup {p}, ch)
        /\ at[p] = None /\ at' = [at EXCEPT ![p] = a]
        /\ UNCHANGED <<known, links, sent, stranded>>
    BY <1>8 DEF Connect, net, history
  <2>2. hubs[a] \in SUBSET Hub /\ spokes[a] \cup {p} \in SUBSET Spoke
    BY <1>2, <1>8
  <2>3. \A q \in Spoke : at'[q] = IF q = p THEN a ELSE at[q]
    BY <2>1 DEF TypeOK
  <2>4. ch \in Channels
    BY <1>1, FramesMade, SendToAt
  <2>5. ASSUME NEW n \in Node, NEW m \in Node
        PROVE  Carries(chan[<<n, m>>], ch[<<n, m>>])
    <3> DEFINE q == chan[<<n, m>>]
    <3>1. q \in Seq(Frame)
      BY <1>1 DEF Channels
    <3>2. ch[<<n, m>>] = IF n = p /\ m \in {a} THEN Append(q, Presence) ELSE q
      BY <1>1, FramesMade, SendToPair
    <3> QED
      BY <3>1, <3>2, CarriesCases
  <2> HIDE DEF ch
  <2>6. Attached'
    <3>1. /\ \A q \in spokes[a] \cup {p} : at'[q] = a
          /\ \A g \in hubs[a] : Linked(g, a)'
      BY <1>2, <1>5, <1>8, <2>1, <2>3 DEF Linked
    <3>2. \A k \in Hub, q \in Spoke : at[q] = k => at'[q] = k
      BY <2>1, <2>3, Apart
    <3>3. links \subseteq links' /\ spokes[a] \subseteq spokes[a] \cup {p}
      BY <2>1
    <3> QED
      BY <2>1, <2>2, <3>1, <3>2, <3>3, GossipAttached
  <2>7. (spokes[a] \cup {p}) \cup hubs[a] \subseteq Live(a) \cup {p}
    BY <1>3
  <2>8. Numbered' /\ Told' /\ KeyFirst'
    BY <2>1, <2>2, <2>4, <2>5, <2>7, GossipKeys
  <2> QED
    BY <2>6, <2>8
<1>9. CASE p \in Spoke /\ ReadPresence(p, a)
  <2> DEFINE ch == Read(chan, p, a)
  <2>1. /\ GossipLocal(a, spokes[a], hubs[a], Live(a), ch)
        /\ NextFrame(p, a, "presence")
        /\ UNCHANGED <<at, known, links, sent, stranded>>
    BY <1>9 DEF ReadPresence, net, history
  <2>2. hubs[a] \in SUBSET Hub /\ spokes[a] \in SUBSET Spoke
    BY <1>2
  <2>3. /\ p \in Node /\ ch \in Channels /\ chan[<<p, a>>] # <<>>
        /\ Head(chan[<<p, a>>]).type # "gossip"
    <3>1. p \in Node
      BY <1>9, Apart
    <3> QED
      BY <1>1, <2>1, <3>1, FrameRead
  <2>4. \A n, m \in Node : Carries(chan[<<n, m>>], ch[<<n, m>>])
    BY <1>1, <2>3, ReadCarries
  <2> HIDE DEF ch
  <2>5. Attached'
    <3>1. /\ \A q \in spokes[a] : at'[q] = a
          /\ \A g \in hubs[a] : Linked(g, a)'
          /\ links \subseteq links'
      BY <1>5, <2>1 DEF Linked
    <3>2. \A k \in Hub, q \in Spoke : at[q] = k => at'[q] = k
      BY <2>1
    <3> QED
      BY <2>1, <2>2, <3>1, <3>2, GossipAttached
  <2>6. Numbered' /\ Told' /\ KeyFirst'
    BY <1>3, <2>1, <2>2, <2>3, <2>4, GossipKeys
  <2> QED
    BY <2>5, <2>6
<1> QED
  BY <1>6, <1>7, <1>8, <1>9

LEMMA KeysStep == ASSUME TypeOK, TypeOK', Copies, Keys, [Next]_vars
                  PROVE  Keys'
<1> SUFFICES ASSUME Undisturbed'
             PROVE  Attached' /\ Numbered' /\ Told' /\ KeyFirst' /\ Opened'
  BY DEF Keys
<1>1. ASSUME UNCHANGED <<dialled, links, faults>>
      PROVE  Attached /\ Numbered /\ Told /\ KeyFirst /\ Opened
  BY <1>1 DEF Keys, Undisturbed
<1>2. \A h \in Hub : /\ \A g \in hubs[h] : g \in Hub
                     /\ \A p \in spokes[h] : p \in Spoke
  BY DEF TypeOK
<1>3. CASE UNCHANGED vars
  <2>1. /\ UNCHANGED <<dialled, links, faults>>
        /\ UNCHANGED <<at, known, spokes, hubs, where, seq, gseen>>
        /\ UNCHANGED <<chan, sent, stranded, arrived, opened>>
    BY <1>3 DEF vars, tables, net, history
  <2>2. Attached /\ Numbered /\ Told /\ KeyFirst /\ Opened
    BY <1>1, <2>1
  <2>3. Numbered' /\ Told'
    BY <2>1, <2>2, TablesKept
  <2> QED
    BY <2>1, <2>2, <2>3 DEF Attached, Linked, KeyFirst, Knows, Opened
<1>4. ASSUME NEW f \in Hub, NEW h \in Hub, ReadGossip(f, h)
      PROVE  Attached' /\ Numbered' /\ Told' /\ KeyFirst' /\ Opened'
  <2>1. /\ UNCHANGED <<dialled, links, faults>>
        /\ UNCHANGED <<sent, stranded, arrived, opened>>
    BY <1>4 DEF ReadGossip, net, history
  <2>2. Attached /\ Numbered /\ Told /\ KeyFirst /\ Opened
    BY <1>1, <2>1
  <2>3. Opened'
    BY <2>1, <2>2 DEF Opened
  <2> QED
    BY <1>4, <2>2, <2>3, ReadGossipKeys
<1>5. ASSUME NEW f \in Node, NEW h \in Hub, Forward(f, h)
      PROVE  Attached' /\ Numbered' /\ Told' /\ KeyFirst' /\ Opened'
  <2>1. UNCHANGED <<dialled, links, faults>>
    BY <1>5 DEF Forward, net
  <2> QED
    BY <1>1, <1>5, <2>1, ForwardKeys
<1>6. ASSUME NEW p \in Spoke, NEW h \in Hub, SpokeGossip(h, p)
      PROVE  Attached' /\ Numbered' /\ Told' /\ KeyFirst' /\ Opened'
  <2>1. /\ UNCHANGED <<dialled, links, faults>>
        /\ UNCHANGED <<sent, stranded, arrived, opened>>
    BY <1>6 DEF SpokeGossip, net, history
  <2>2. Attached /\ Numbered /\ Told /\ KeyFirst /\ Opened
    BY <1>1, <2>1
  <2>3. Opened'
    BY <2>1, <2>2 DEF Opened
  <2> QED
    BY <1>6, <2>2, <2>3, SpokeGossipKeys
<1>7. ASSUME NEW p \in Spoke, NEW h \in Hub, Deliver(h, p)
      PROVE  Attached' /\ Numbered' /\ Told' /\ KeyFirst' /\ Opened'
  <2>1. UNCHANGED <<dialled, links, faults>>
    BY <1>7 DEF Deliver, net
  <2> QED
    BY <1>1, <1>7, <2>1, DeliverKeys
<1>8. ASSUME NEW p \in Spoke, NEW h \in Hub, Connect(p, h) \/ ReadPresence(p, h)
      PROVE  Attached' /\ Numbered' /\ Told' /\ KeyFirst' /\ Opened'
  <2>1. /\ UNCHANGED <<dialled, links, faults>>
        /\ UNCHANGED <<sent, stranded, arrived, opened>>
    BY <1>8 DEF Connect, ReadPresence, net, history
  <2>2. Attached /\ Numbered /\ Told /\ KeyFirst /\ Opened
    BY <1>1, <2>1
  <2>3. Opened'
    BY <2>1, <2>2 DEF Opened
  <2>4. Attached' /\ Numbered' /\ Told' /\ KeyFirst'
    BY <1>8, <2>2, GossipSteps
  <2> QED
    BY <2>3, <2>4
<1>9. ASSUME NEW a \in Hub, NEW b \in Hub, AcceptPeer(a, b) \/ DialPeer(a, b)
      PROVE  Attached' /\ Numbered' /\ Told' /\ KeyFirst' /\ Opened'
  <2>1. UNCHANGED <<sent, stranded, arrived, opened>>
    BY <1>9 DEF AcceptPeer, DialPeer, history
  <2>2. Attached /\ Numbered /\ Told /\ KeyFirst /\ Opened
    <3>1. CASE DialPeer(a, b)
      BY <1>1, <3>1 DEF DialPeer, net
    <3>2. CASE AcceptPeer(a, b)
      <4>1. /\ <<a, b>> \notin dialled /\ faults' = faults
            /\ dialled' = dialled \cup {<<a, b>>} /\ links' = links \cup {<<a, b>>}
        BY <3>2 DEF AcceptPeer
      <4>2. links = dialled
        <5>1. links' = dialled' /\ links \subseteq dialled
          BY DEF Undisturbed, TypeOK
        <5> QED
          BY <4>1, <5>1
      <4> QED
        BY <4>1, <4>2 DEF Keys, Undisturbed
    <3> QED
      BY <1>9, <3>1, <3>2
  <2>3. Opened'
    BY <2>1, <2>2 DEF Opened
  <2>4. Attached' /\ Numbered' /\ Told' /\ KeyFirst'
    BY <1>9, <2>2, GossipSteps
  <2> QED
    BY <2>3, <2>4
<1>10. ASSUME NEW e \in Env, Post(e)
       PROVE  Attached' /\ Numbered' /\ Told' /\ KeyFirst' /\ Opened'
  <2>1. UNCHANGED <<dialled, links, faults>>
    BY <1>10 DEF Post, net
  <2> QED
    BY <1>1, <1>10, <2>1, PostKeys
\* What the other steps need has not happened.
<1>11. ASSUME NEW h \in Hub, NEW g \in Hub, DropPeer(h, g)
       PROVE  FALSE
  <2>1. UNCHANGED <<dialled, links, faults>> /\ g \in hubs[h] /\ ~Linked(g, h)
    BY <1>11 DEF DropPeer, net
  <2> QED
    BY <1>1, <2>1, Zenon DEF Attached
<1>12. ASSUME NEW p \in Spoke, NEW h \in Hub, Drop(p, h)
       PROVE  FALSE
  <2>1. UNCHANGED <<dialled, links, faults>> /\ p \in spokes[h] /\ at[p] # h
    BY <1>12 DEF Drop, net
  <2> QED
    BY <1>1, <2>1 DEF Attached
<1>13. ASSUME NEW a \in Hub, NEW b \in Hub, Cut(a, b)
       PROVE  FALSE
  <2>1. /\ <<a, b>> \in links /\ links' = links \ {<<a, b>>} /\ dialled' = dialled
    BY <1>13 DEF Cut
  <2> QED
    BY <2>1 DEF Undisturbed, TypeOK
<1>14. ASSUME NEW h \in Hub, Restart(h)
       PROVE  FALSE
  <2>1. Happens("restart") /\ "restart" \in Fault
    BY <1>14 DEF Restart, Fault
  <2>2. faults'["restart"] # 0
    BY <2>1, FaultTypes
  <2> QED
    BY <2>2 DEF Undisturbed
<1>15. ASSUME NEW p \in Spoke, Leave(p)
       PROVE  FALSE
  <2>1. Happens("leave") /\ "leave" \in Fault
    BY <1>15 DEF Leave, Fault
  <2>2. faults'["leave"] # 0
    BY <2>1, FaultTypes
  <2> QED
    BY <2>2 DEF Undisturbed
<1> QED
  BY <1>3, <1>4, <1>5, <1>6, <1>7, <1>8, <1>9, <1>10, <1>11, <1>12, <1>13, <1>14, <1>15
  DEF Next, Receive

LEMMA LinkLostStep == ASSUME TypeOK, TypeOK', LinkLost, [Next]_vars
                      PROVE  LinkLost'
<1> USE DEF tables, net, history
<1>1. CASE UNCHANGED <<dialled, links, faults, sent, stranded>>
  BY <1>1 DEF LinkLost
<1>2. ASSUME NEW e \in Env, Post(e)
      PROVE  LinkLost'
  <2>1. /\ UNCHANGED <<dialled, links, faults>> /\ sent' = sent \cup {e}
        /\ stranded' = IF Settled(e) THEN stranded ELSE stranded \cup {e}
    BY <1>2 DEF Post
  <2>2. links # dialled => ~Settled(e)
    <3>1. links \subseteq dialled /\ dialled \subseteq setup.dials
      BY DEF TypeOK
    <3>2. Settled(e) => setup.dials \subseteq links
      BY DEF Settled
    <3> QED
      BY <3>1, <3>2
  <2> QED
    BY <2>1, <2>2 DEF LinkLost
<1>3. ASSUME NEW a \in Hub, NEW b \in Hub, AcceptPeer(a, b)
      PROVE  LinkLost'
  <2>1. /\ dialled' = dialled \cup {<<a, b>>} /\ links' = links \cup {<<a, b>>}
        /\ UNCHANGED <<faults, sent, stranded>>
    BY <1>3 DEF AcceptPeer
  <2> QED
    BY <2>1 DEF LinkLost
<1>4. ASSUME NEW a \in Hub, NEW b \in Hub, Cut(a, b)
      PROVE  LinkLost'
  <2>1. stranded' = sent /\ sent' = sent
    BY <1>4 DEF Cut
  <2> QED
    BY <2>1 DEF LinkLost
<1>5. ASSUME NEW h \in Hub, Restart(h)
      PROVE  LinkLost'
  <2>1. stranded' = sent /\ sent' = sent
    BY <1>5 DEF Restart
  <2> QED
    BY <2>1 DEF LinkLost
<1>6. ASSUME NEW p \in Spoke, Leave(p)
      PROVE  LinkLost'
  <2>1. Happens("leave") /\ "leave" \in Fault
    BY <1>6 DEF Leave, Fault
  <2>2. faults'["leave"] # 0
    BY <2>1, FaultTypes
  <2> QED
    BY <2>2 DEF LinkLost
<1>7. ASSUME NEW f \in Hub, NEW h \in Hub,
             ReadGossip(f, h) \/ DialPeer(f, h) \/ DropPeer(f, h)
      PROVE  UNCHANGED <<dialled, links, faults, sent, stranded>>
  BY <1>7 DEF ReadGossip, DialPeer, DropPeer
<1>8. ASSUME NEW f \in Node, NEW h \in Hub, Forward(f, h)
      PROVE  UNCHANGED <<dialled, links, faults, sent, stranded>>
  BY <1>8 DEF Forward
<1>9. ASSUME NEW p \in Spoke, NEW h \in Hub,
             \/ SpokeGossip(h, p) \/ Deliver(h, p) \/ ReadPresence(p, h)
             \/ Connect(p, h) \/ Drop(p, h)
      PROVE  UNCHANGED <<dialled, links, faults, sent, stranded>>
  BY <1>9 DEF SpokeGossip, Deliver, ReadPresence, Connect, Drop
<1>10. CASE UNCHANGED vars
  BY <1>1, <1>10 DEF vars
<1> QED
  BY <1>1, <1>2, <1>3, <1>4, <1>5, <1>6, <1>7, <1>8, <1>9, <1>10 DEF Next, Receive

LEMMA InitKeys == Init => Keys /\ LinkLost
<1> SUFFICES ASSUME Init PROVE Keys /\ LinkLost
  OBVIOUS
<1>1. /\ \A h \in Hub : /\ spokes[h] = {} /\ hubs[h] = {} /\ seq[h] = 0
                        /\ \A p \in Spoke : where[h][p] = None
                        /\ \A o \in Hub : gseen[h][o] = 0
      /\ \A p \in Spoke : known[p] = {}
      /\ sent = {} /\ links = dialled
      /\ \A c \in Node \X Node : chan[c] = <<>>
  BY DEF Init
<1>2. Range(<<>>) = {}
  BY NoFrames
<1>3. Attached
  BY <1>1, Apart DEF Attached
<1>4. OnWay = {}
  BY <1>1, <1>2 DEF OnWay
<1>5. Numbered
  BY <1>1, <1>4 DEF Numbered
<1>6. Told
  <2>1. \A h \in Hub, n \in Node : chan[<<h, n>>] = <<>>
    BY <1>1, Apart
  <2> QED
    BY <1>1, <1>2, <2>1 DEF Told
<1>7. KeyFirst /\ Opened /\ LinkLost
  BY <1>1 DEF KeyFirst, Opened, LinkLost
<1> QED
  BY <1>3, <1>5, <1>6, <1>7 DEF Keys

-----------------------------------------------------------------------------
(* The theorems                                                            *)

LEMMA Invariant == Spec => []IInv
<1>1. Init => IInv
  BY InitType, InitCopies, InitKeys DEF IInv
<1>2. IInv /\ [Next]_vars => IInv'
  <2> SUFFICES ASSUME IInv, [Next]_vars PROVE IInv'
    OBVIOUS
  <2>1. TypeOK /\ Copies /\ Keys /\ LinkLost
    BY DEF IInv
  <2>2. TypeOK'
    BY <2>1, TypeStep
  <2>3. Copies'
    BY <2>1, <2>2, CopiesStep
  <2>4. Keys'
    BY <2>1, <2>2, KeysStep
  <2>5. LinkLost'
    BY <2>1, <2>2, LinkLostStep
  <2> QED
    BY <2>2, <2>3, <2>4, <2>5 DEF IInv
<1> QED
  BY <1>1, <1>2, PTL DEF Spec

\* The tables, channels and sessions keep their types, no dial is made that is not
\* configured, and no fault happens more often than the setup allows.
THEOREM TypeCorrect == Spec => []TypeOK
<1>1. IInv => TypeOK
  BY DEF IInv
<1> QED
  BY <1>1, Invariant, PTL

\* An envelope neither of whose ends changed its session reaches its addressee once
\* at most, in any network of hubs, rings included, whatever links and hubs fail and
\* whatever the location tables say: onMsg drops what it has seen, and only the
\* addressee's own hub writes to it.
THEOREM NeverTwice == Spec => []ArrivesOnce
<1>1. IInv => ArrivesOnce
  <2> SUFFICES ASSUME IInv, NEW e \in Env \ roamed
               PROVE  arrived[e] <= 1
    BY DEF ArrivesOnce
  <2>1. arrived[e] \in 0..2
    BY DEF IInv, TypeOK
  <2>2. arrived[e] > 0 => arrived[e] = 1
    BY DEF IInv, Copies, SentFirst, Delivered
  <2> QED
    BY <2>1, <2>2
<1> QED
  BY <1>1, Invariant, PTL

\* As long as no spoke leaves and no hub is restarted, an envelope that is sent when
\* all hubs have peered finds its sender's key known at its addressee, so that
\* handleEnvelope does not drop it: the key travels ahead of it on every way.
THEOREM KeyComesFirst == Spec => []OpenedOnArrival
<1>1. IInv => OpenedOnArrival
  <2> SUFFICES ASSUME IInv, faults["leave"] + faults["restart"] = 0,
                      NEW e \in Env \ (roamed \cup stranded), arrived[e] > 0
               PROVE  e \in opened
    BY DEF OpenedOnArrival
  <2>1. faults["leave"] = 0 /\ faults["restart"] = 0
    <3>1. faults["leave"] \in Nat /\ faults["restart"] \in Nat
      BY DEF IInv, TypeOK, Fault
    <3> QED
      BY <3>1
  <2>2. e \in sent
    BY DEF IInv, Copies, SentFirst
  <2>3. links = dialled
    BY <2>1, <2>2 DEF IInv, LinkLost
  <2> QED
    BY <2>1, <2>2, <2>3 DEF IInv, Keys, Undisturbed, Opened
<1> QED
  BY <1>1, Invariant, PTL
===============================================================================
