------------------------- MODULE FederationRoutes_proof -------------------------
(***************************************************************************)
(* When envelopes get lost on their way, and when they cannot.             *)
(*                                                                         *)
(* In a federation of at most three hubs, all peered with each other, none *)
(* does, whatever hubs the location tables name (NothingGetsLost).  There  *)
(* a wrong entry costs a detour, no more: when a hub has the envelope from *)
(* another one and neither is the addressee's, it has only the third to    *)
(* pass it to.  In a line of three hubs, or with four hubs, this fails.    *)
(*                                                                         *)
(* In a federation of any size and shape only an envelope gets lost that a *)
(* location table sent to a hub that is no nearer to its addressee         *)
(* (OnlyTheMisledGetLost).                                                 *)
(***************************************************************************)
EXTENDS Federation_proof, WellFoundedInduction

\* Setup s peers at most three hubs, each with every other, and spokes have
\* invites of these.
SmallMesh(s) ==
  \E M \in SUBSET Hub :
    /\ \A a, b, c, d \in M : a = b \/ a = c \/ a = d \/ b = c \/ b = d \/ c = d
    /\ \A a, b \in M : a # b => <<a, b>> \in s.dials \/ <<b, a>> \in s.dials
    /\ s.dials \subseteq M \X M
    /\ \A p \in Spoke : s.invites[p] \subseteq M

\* Envelope e is on its way from a to b.
On(e, a, b) == Envelope(e) \in Range(chan[<<a, b>>])

\* A hub lists hubs it was peered with, and a spoke has sessions by invite.
Peered == \A h \in Hub : \A g \in hubs[h] :
            <<g, h>> \in setup.dials \/ <<h, g>> \in setup.dials
Invited == \A p \in Spoke : at[p] # None => at[p] \in setup.invites[p]

\* It comes from its sender, once, before any hub has seen it.
Posted(e) ==
  \A p \in Spoke, h \in Hub : On(e, p, h) =>
    /\ p = From[e] /\ h = at[From[e]]
    /\ Single(chan[<<p, h>>], Envelope(e))
    /\ \A g \in Hub : e \notin seen[g]

\* Hubs write what they have seen, and the last one to the addressee.
Relayed(e) ==
  /\ \A f \in Hub, n \in Node : On(e, f, n) => e \in seen[f]
  /\ e \in seen[at[To[e]]] => arrived[e] > 0 \/ On(e, at[To[e]], To[e])

\* Until then it is on its way to a hub that has not seen it.
Pending(e) ==
  e \notin seen[at[To[e]]] =>
    \/ On(e, From[e], at[From[e]])
    \/ \E f, h \in Hub : On(e, f, h) /\ e \notin seen[h]

Way(e) == Settled(e) /\ Posted(e) /\ Relayed(e)
Path(e) == Way(e) /\ Pending(e)

Paths == \A e \in sent \ (roamed \cup stranded) : Path(e)

RInv == Peered /\ Invited /\ Paths

-----------------------------------------------------------------------------
(* Steps that leave an envelope where it is                                *)

\* r has the same copies of e as q.
SameCopies(e, q, r) == /\ Envelope(e) \in Range(r) <=> Envelope(e) \in Range(q)
                       /\ Single(q, Envelope(e)) => Single(r, Envelope(e))

LEMMA SameSent ==
  ASSUME NEW e \in Env, NEW ch \in Channels, NEW n, NEW T, NEW m \in Frame,
         m # Envelope(e), NEW c \in Node \X Node
  PROVE  SameCopies(e, ch[c], SendTo(ch, n, T, m)[c])
<1>1. ch[c] \in Seq(Frame)
  BY DEF Channels
<1>2. SameCopies(e, ch[c], Append(ch[c], m))
  BY <1>1, Appended DEF SameCopies
<1>3. SameCopies(e, ch[c], ch[c])
  BY DEF SameCopies
<1>4. SendTo(ch, n, T, m)[c] = ch[c] \/ SendTo(ch, n, T, m)[c] = Append(ch[c], m)
  BY SendToEither
<1> QED
  BY <1>2, <1>3, <1>4

LEMMA SameRead ==
  ASSUME NEW e \in Env, NEW ch \in Channels, NEW f \in Node, NEW n \in Node,
         ch[<<f, n>>] # <<>>, Head(ch[<<f, n>>]) # Envelope(e), NEW c \in Node \X Node
  PROVE  SameCopies(e, ch[c], Read(ch, f, n)[c])
<1>1. ch[c] \in Seq(Frame)
  BY DEF Channels
<1>2. Read(ch, f, n)[c] = IF c = <<f, n>> THEN Tail(ch[c]) ELSE ch[c]
  BY ReadAt
<1>3. SameCopies(e, ch[c], ch[c])
  BY DEF SameCopies
<1>4. c = <<f, n>> => SameCopies(e, ch[c], Tail(ch[c]))
  BY <1>1, HeadRead DEF SameCopies
<1> QED
  BY <1>2, <1>3, <1>4

LEMMA SameTwice == ASSUME NEW e, NEW q, NEW r, NEW s, SameCopies(e, q, r), SameCopies(e, r, s)
                   PROVE  SameCopies(e, q, s)
BY DEF SameCopies

\* An emptied channel that had no copy.
LEMMA SameEmptied == ASSUME NEW e \in Env, NEW q, Envelope(e) \notin Range(q)
                     PROVE  SameCopies(e, q, <<>>)
BY NoFrames DEF SameCopies

LEMMA EndsAtHubs ==
  ASSUME TypeOK, NEW e \in Env, Settled(e)
  PROVE  /\ From[e] \in Spoke /\ To[e] \in Spoke
         /\ at[From[e]] \in Hub /\ at[To[e]] \in Hub
         /\ \A h \in Hub : /\ From[e] \in spokes[h] <=> at[From[e]] = h
                           /\ To[e] \in spokes[h] <=> at[To[e]] = h
BY FederationAssumption DEF TypeOK, Settled

\* No hub gets envelope e or has it written to it.
Stays(e) == /\ \A f \in Node, h \in Hub : On(e, f, h)' <=> On(e, f, h)
            /\ \A h \in Hub : e \in seen'[h] <=> e \in seen[h]

\* A step that neither reads, writes nor loses envelope e, and leaves its ends
\* where they are.
LEMMA WayKept ==
  ASSUME TypeOK, NEW e \in Env, Way(e), Settled(e)',
         \A c \in Node \X Node : SameCopies(e, chan[c], chan'[c]),
         at'[From[e]] = at[From[e]], at'[To[e]] = at[To[e]],
         arrived'[e] = arrived[e],
         \A h \in Hub : e \in seen'[h] <=> e \in seen[h]
  PROVE  Way(e)' /\ Stays(e)
<1>1. /\ From[e] \in Spoke /\ To[e] \in Spoke
      /\ at[From[e]] \in Hub /\ at[To[e]] \in Hub
  BY EndsAtHubs DEF Way
<1>2. \A a, b \in Node : /\ On(e, a, b)' <=> On(e, a, b)
                         /\ Single(chan[<<a, b>>], Envelope(e)) =>
                              Single(chan'[<<a, b>>], Envelope(e))
  BY Pairs DEF SameCopies, On
<1>3. Posted(e)'
  BY <1>2, Apart DEF Way, Posted
<1>4. Relayed(e)'
  BY <1>1, <1>2, Apart DEF Way, Relayed
<1>5. Stays(e)
  BY <1>2, Apart DEF Stays
<1> QED
  BY <1>3, <1>4, <1>5 DEF Way

-----------------------------------------------------------------------------
(* The ends of an envelope and the peerings                                *)

LEMMA PeeredStep == ASSUME TypeOK, Peered, [Next]_vars
                    PROVE  Peered'
<1> USE DEF tables, net, history
<1>1. UNCHANGED <<hubs, setup>> => Peered'
  BY DEF Peered
<1>2. ASSUME NEW h \in Hub, NEW S, NEW H, NEW T, NEW ch, GossipLocal(h, S, H, T, ch),
             UNCHANGED setup,
             \A g \in H : <<g, h>> \in setup.dials \/ <<h, g>> \in setup.dials
      PROVE  Peered'
  <2>1. \A k \in Hub : hubs'[k] = IF k = h THEN H ELSE hubs[k]
    BY <1>2, GossipTables
  <2> QED
    BY <1>2, <2>1 DEF Peered
<1>3. ASSUME NEW a \in Hub, NEW b \in Hub, AcceptPeer(a, b) PROVE Peered'
  <2>1. /\ GossipLocal(b, spokes[b], hubs[b] \cup {a}, Live(b) \cup {a}, chan)
        /\ <<a, b>> \in setup.dials /\ UNCHANGED setup
    BY <1>3 DEF AcceptPeer
  <2>2. \A g \in hubs[b] \cup {a} : <<g, b>> \in setup.dials \/ <<b, g>> \in setup.dials
    BY <2>1 DEF Peered
  <2> QED
    BY <1>2, <2>1, <2>2
<1>4. ASSUME NEW a \in Hub, NEW b \in Hub, DialPeer(a, b) PROVE Peered'
  <2>1. /\ GossipLocal(a, spokes[a], hubs[a] \cup {b}, Live(a) \cup {b}, chan)
        /\ <<a, b>> \in setup.dials /\ UNCHANGED setup
    BY <1>4 DEF DialPeer, TypeOK
  <2>2. \A g \in hubs[a] \cup {b} : <<g, a>> \in setup.dials \/ <<a, g>> \in setup.dials
    BY <2>1 DEF Peered
  <2> QED
    BY <1>2, <2>1, <2>2
<1>5. ASSUME NEW a \in Hub, NEW b \in Hub, DropPeer(a, b) PROVE Peered'
  <2>1. /\ GossipLocal(a, spokes[a], hubs[a] \ {b}, Live(a), chan)
        /\ UNCHANGED setup
    BY <1>5 DEF DropPeer
  <2>2. \A g \in hubs[a] \ {b} : <<g, a>> \in setup.dials \/ <<a, g>> \in setup.dials
    BY DEF Peered
  <2> QED
    BY <1>2, <2>1, <2>2
<1>6. ASSUME NEW p \in Spoke, NEW h \in Hub, ReadPresence(p, h) PROVE Peered'
  <2>1. /\ GossipLocal(h, spokes[h], hubs[h], Live(h), Read(chan, p, h))
        /\ UNCHANGED setup
    BY <1>6 DEF ReadPresence
  <2> QED
    BY <1>2, <2>1 DEF Peered
<1>7. ASSUME NEW p \in Spoke, NEW h \in Hub, Connect(p, h) PROVE Peered'
  <2>1. /\ GossipLocal(h, spokes[h] \cup {p}, hubs[h], Live(h) \cup {p},
                       SendTo(chan, p, {h}, Presence))
        /\ UNCHANGED setup
    BY <1>7 DEF Connect
  <2> QED
    BY <1>2, <2>1 DEF Peered
<1>8. ASSUME NEW p \in Spoke, NEW h \in Hub, Drop(p, h) PROVE Peered'
  <2>1. /\ GossipLocal(h, spokes[h] \ {p}, hubs[h], Live(h),
                       [chan EXCEPT ![<<p, h>>] = <<>>])
        /\ UNCHANGED setup
    BY <1>8 DEF Drop
  <2> QED
    BY <1>2, <2>1 DEF Peered
<1>9. ASSUME NEW h \in Hub, Restart(h) PROVE Peered'
  <2>1. hubs' = [hubs EXCEPT ![h] = {}] /\ UNCHANGED setup
    BY <1>9 DEF Restart
  <2> QED
    BY <2>1 DEF Peered, TypeOK
<1>10. ASSUME NEW f, NEW h, ReadGossip(f, h) \/ Forward(f, h)
       PROVE  Peered'
  BY <1>1, <1>10 DEF ReadGossip, Forward
<1>11. ASSUME NEW p, NEW h, SpokeGossip(h, p) \/ Deliver(h, p)
       PROVE  Peered'
  BY <1>1, <1>11 DEF SpokeGossip, Deliver
<1>12. ASSUME NEW a, NEW b, Cut(a, b)
       PROVE  Peered'
  BY <1>1, <1>12 DEF Cut
<1>13. ASSUME NEW p, Leave(p)
       PROVE  Peered'
  BY <1>1, <1>13 DEF Leave
<1>14. ASSUME NEW e, Post(e)
       PROVE  Peered'
  BY <1>1, <1>14 DEF Post
<1>15. UNCHANGED vars => Peered'
  BY <1>1 DEF vars
<1>16. Receive => Peered'
  BY <1>6, <1>10, <1>11 DEF Receive
<1> QED
  BY <1>3, <1>4, <1>5, <1>7, <1>8, <1>9, <1>12, <1>13, <1>14, <1>15, <1>16 DEF Next

LEMMA InvitedStep == ASSUME TypeOK, Invited, [Next]_vars
                     PROVE  Invited'
<1> USE DEF tables, net, history
<1>1. UNCHANGED <<at, setup>> => Invited'
  BY DEF Invited
<1>2. ASSUME NEW p \in Spoke, NEW h \in Hub, Connect(p, h) PROVE Invited'
  BY <1>2 DEF Connect, Invited, TypeOK
<1>3. ASSUME NEW h \in Hub, Restart(h) PROVE Invited'
  BY <1>3 DEF Restart, Invited, TypeOK
<1>4. ASSUME NEW p \in Spoke, Leave(p) PROVE Invited'
  BY <1>4 DEF Leave, Invited, TypeOK
<1>5. ASSUME Receive
      PROVE  Invited'
  <2>1. ASSUME NEW f, NEW h, ReadGossip(f, h) \/ Forward(f, h)
        PROVE  Invited'
    BY <1>1, <2>1 DEF ReadGossip, Forward
  <2>2. ASSUME NEW p, NEW h, SpokeGossip(h, p) \/ Deliver(h, p) \/ ReadPresence(p, h)
        PROVE  Invited'
    BY <1>1, <2>2 DEF SpokeGossip, Deliver, ReadPresence
  <2> QED
    BY <1>5, <2>1, <2>2 DEF Receive
<1>6. ASSUME NEW a \in Hub, NEW b \in Hub,
             AcceptPeer(a, b) \/ DialPeer(a, b) \/ Cut(a, b) \/ DropPeer(a, b)
      PROVE  Invited'
  BY <1>1, <1>6 DEF AcceptPeer, DialPeer, Cut, DropPeer
<1>7. ASSUME NEW p \in Spoke, NEW h \in Hub, Drop(p, h)
      PROVE  Invited'
  BY <1>1, <1>7 DEF Drop
<1>8. ASSUME NEW e \in Env, Post(e)
      PROVE  Invited'
  BY <1>1, <1>8 DEF Post
<1>9. ASSUME UNCHANGED vars
      PROVE  Invited'
  BY <1>1, <1>9 DEF vars
<1> QED
  BY <1>2, <1>3, <1>4, <1>5, <1>6, <1>7, <1>8, <1>9 DEF Next

\* The ends of an envelope stay settled unless one moves or something fails.
LEMMA SettledStep ==
  ASSUME TypeOK, [Next]_vars, NEW e \in Env, Settled(e),
         e \in sent, e \notin roamed' \cup stranded'
  PROVE  Settled(e)' /\ at'[From[e]] = at[From[e]] /\ at'[To[e]] = at[To[e]]
<1> USE DEF tables, net, history
<1> DEFINE Goal == Settled(e)' /\ at'[From[e]] = at[From[e]] /\ at'[To[e]] = at[To[e]]
<1>1. /\ From[e] \in Spoke /\ To[e] \in Spoke
      /\ at[From[e]] \in Hub /\ at[To[e]] \in Hub
      /\ \A h \in Hub : /\ From[e] \in spokes[h] <=> at[From[e]] = h
                        /\ To[e] \in spokes[h] <=> at[To[e]] = h
  BY EndsAtHubs
<1>2. \A d \in setup.dials : /\ d[1] \in Hub /\ d[2] \in Hub
                             /\ d \in links /\ d[1] \in hubs[d[2]] /\ d[2] \in hubs[d[1]]
  BY SetupTypes DEF Settled
<1>3. UNCHANGED <<at, spokes, hubs, links, setup>> => Goal
  BY DEF Settled
\* gossipLocal() where neither end is concerned.
<1>4. ASSUME NEW h \in Hub, NEW S, NEW H, NEW T, NEW ch, GossipLocal(h, S, H, T, ch),
             UNCHANGED setup, links \subseteq links',
             From[e] \in S <=> From[e] \in spokes[h],
             To[e] \in S <=> To[e] \in spokes[h],
             \A g \in hubs[h] \ H : ~Linked(g, h),
             at'[From[e]] = at[From[e]], at'[To[e]] = at[To[e]]
      PROVE  Goal
  <2>1. \A k \in Hub : /\ spokes'[k] = IF k = h THEN S ELSE spokes[k]
                       /\ hubs'[k] = IF k = h THEN H ELSE hubs[k]
    BY <1>4, GossipTables
  <2>2. \A k \in Hub : /\ From[e] \in spokes'[k] <=> at'[From[e]] = k
                       /\ To[e] \in spokes'[k] <=> at'[To[e]] = k
    BY <1>1, <1>4, <2>1
  <2>3. ASSUME NEW d \in setup.dials
        PROVE  d \in links' /\ d[1] \in hubs'[d[2]] /\ d[2] \in hubs'[d[1]]
    <3>1. Linked(d[1], d[2]) /\ Linked(d[2], d[1])
      BY <1>2, SetupTypes DEF Linked
    <3> QED
      BY <1>2, <1>4, <2>1, <3>1
  <2>4. at'[From[e]] # None /\ at'[To[e]] # None
    BY <1>1, <1>4, Apart
  <2> QED
    BY <1>4, <2>2, <2>3, <2>4 DEF Settled
<1> HIDE DEF Goal
<1>5. ASSUME NEW a \in Hub, NEW b \in Hub, AcceptPeer(a, b) PROVE Goal
  <2>1. <<a, b>> \in setup.dials \ dialled
    BY <1>5 DEF AcceptPeer
  <2> QED
    BY <1>2, <2>1 DEF TypeOK
<1>6. ASSUME NEW a \in Hub, NEW b \in Hub, DialPeer(a, b) PROVE Goal
  <2>1. /\ GossipLocal(a, spokes[a], hubs[a] \cup {b}, Live(a) \cup {b}, chan)
        /\ UNCHANGED <<setup, links, at>>
    BY <1>6 DEF DialPeer
  <2> QED
    BY <1>4, <2>1
<1>7. ASSUME NEW a \in Hub, NEW b \in Hub, DropPeer(a, b) PROVE Goal
  <2>1. /\ GossipLocal(a, spokes[a], hubs[a] \ {b}, Live(a), chan)
        /\ UNCHANGED <<setup, links, at>> /\ ~Linked(b, a)
    BY <1>7 DEF DropPeer
  <2> QED
    BY <1>4, <2>1
<1>8. ASSUME NEW p \in Spoke, NEW h \in Hub, ReadPresence(p, h) PROVE Goal
  <2>1. /\ GossipLocal(h, spokes[h], hubs[h], Live(h), Read(chan, p, h))
        /\ UNCHANGED <<setup, links, at>>
    BY <1>8 DEF ReadPresence
  <2> QED
    BY <1>4, <2>1
<1>9. ASSUME NEW p \in Spoke, NEW h \in Hub, Connect(p, h) PROVE Goal
  <2>1. /\ GossipLocal(h, spokes[h] \cup {p}, hubs[h], Live(h) \cup {p},
                       SendTo(chan, p, {h}, Presence))
        /\ UNCHANGED <<setup, links>> /\ at' = [at EXCEPT ![p] = h] /\ at[p] = None
    BY <1>9 DEF Connect
  <2>2. p # From[e] /\ p # To[e]
    BY <1>1, <2>1, Apart
  <2>3. at'[From[e]] = at[From[e]] /\ at'[To[e]] = at[To[e]]
    BY <2>1, <2>2
  <2> QED
    BY <1>4, <2>1, <2>2, <2>3
<1>10. ASSUME NEW p \in Spoke, NEW h \in Hub, Drop(p, h) PROVE Goal
  <2>1. /\ GossipLocal(h, spokes[h] \ {p}, hubs[h], Live(h),
                       [chan EXCEPT ![<<p, h>>] = <<>>])
        /\ UNCHANGED <<setup, links, at>> /\ p \in spokes[h] /\ at[p] # h
    BY <1>10 DEF Drop
  <2>2. p # From[e] /\ p # To[e]
    BY <1>1, <2>1
  <2> QED
    BY <1>4, <2>1, <2>2
<1>11. ASSUME NEW p \in Spoke, Leave(p) PROVE Goal
  <2>1. /\ at' = [at EXCEPT ![p] = None]
        /\ roamed' = roamed \cup {x \in sent : p \in {From[x], To[x]}}
        /\ UNCHANGED <<spokes, hubs, links, setup>>
    BY <1>11 DEF Leave
  <2>2. p # From[e] /\ p # To[e]
    BY <2>1
  <2>3. at'[From[e]] = at[From[e]] /\ at'[To[e]] = at[To[e]]
    BY <2>1, <2>2
  <2> QED
    BY <2>1, <2>3 DEF Goal, Settled
<1>12. ASSUME (\E a, b \in Hub : Cut(a, b)) \/ (\E h \in Hub : Restart(h)) PROVE Goal
  BY <1>12 DEF Cut, Restart
<1>13. ASSUME NEW f \in Node, NEW h \in Hub, ReadGossip(f, h) \/ Forward(f, h)
       PROVE  Goal
  BY <1>3, <1>13 DEF ReadGossip, Forward
<1>14. ASSUME NEW p \in Spoke, NEW h \in Hub, SpokeGossip(h, p) \/ Deliver(h, p)
       PROVE  Goal
  BY <1>3, <1>14 DEF SpokeGossip, Deliver
<1>15. ASSUME NEW x \in Env, Post(x)
       PROVE  Goal
  BY <1>3, <1>15 DEF Post
<1>16. ASSUME UNCHANGED vars
       PROVE  Goal
  BY <1>3, <1>16 DEF vars
<1>17. \A h \in Hub : h \in Node
  BY Apart
<1>18. Goal
  BY <1>5, <1>6, <1>7, <1>8, <1>9, <1>10, <1>11, <1>12, <1>13, <1>14, <1>15, <1>16, <1>17
  DEF Next, Receive
<1> QED
  BY <1>18 DEF Goal


-----------------------------------------------------------------------------
(* Which steps move an envelope                                            *)

\* A hub or the addressee reads envelope e.
Moves(e) ==
  \/ \E f \in Node, h \in Hub : Forward(f, h) /\ Head(chan[<<f, h>>]) = Envelope(e)
  \/ \E p \in Spoke, h \in Hub : Deliver(h, p) /\ Head(chan[<<h, p>>]) = Envelope(e)

\* gossipLocal() writes no envelope.
LEMMA SameGossip ==
  ASSUME TypeOK, NEW h \in Hub, NEW S, NEW H, NEW T, NEW ch \in Channels,
         GossipLocal(h, S, H, T, ch), NEW e \in Env,
         \A c \in Node \X Node : SameCopies(e, chan[c], ch[c])
  PROVE  \A c \in Node \X Node : SameCopies(e, chan[c], chan'[c])
<1>1. PICK g \in Frame : g.type = "gossip" /\ chan' = SendTo(ch, h, T, g)
  BY GossipSends
<1>2. g # Envelope(e)
  BY <1>1, FramesMade
<1>3. \A c \in Node \X Node : SameCopies(e, ch[c], SendTo(ch, h, T, g)[c])
  BY <1>2, SameSent
<1> QED
  BY <1>1, <1>3, SameTwice

LEMMA Unmoved ==
  ASSUME TypeOK, Copies, [Next]_vars, NEW e \in Env, e \in sent, Way(e),
         e \notin roamed' \cup stranded', ~Moves(e)
  PROVE  /\ \A c \in Node \X Node : SameCopies(e, chan[c], chan'[c])
         /\ arrived'[e] = arrived[e]
         /\ \A h \in Hub : e \in seen'[h] <=> e \in seen[h]
<1> USE DEF tables, net, history
<1> DEFINE Same(ch) == \A c \in Node \X Node : SameCopies(e, chan[c], ch[c])
           Goal == /\ Same(chan')
                   /\ arrived'[e] = arrived[e]
                   /\ \A h \in Hub : e \in seen'[h] <=> e \in seen[h]
<1>1. /\ chan \in Channels
      /\ \A c \in Node \X Node : chan[c] \in Seq(Frame)
      /\ Envelope(e) \in Frame /\ Envelope(e).type = "envelope"
      /\ Same(chan)
  BY FramesMade DEF TypeOK, Channels, SameCopies
<1>2. /\ Same(chan') /\ UNCHANGED <<arrived, seen>> => Goal
      /\ UNCHANGED <<chan, arrived, seen>> => Goal
  BY <1>1
\* Reading another frame.
<1>3. ASSUME NEW f \in Node, NEW n \in Node, NEW type, NextFrame(f, n, type),
             Head(chan[<<f, n>>]) # Envelope(e)
      PROVE  Same(Read(chan, f, n)) /\ Read(chan, f, n) \in Channels
  BY <1>1, <1>3, FrameRead, SameRead
<1> HIDE DEF Same, Goal
<1>4. ASSUME NEW h \in Hub, NEW S, NEW H, NEW T, NEW ch \in Channels,
             GossipLocal(h, S, H, T, ch), Same(ch), UNCHANGED <<arrived, seen>>
      PROVE  Goal
  BY <1>2, <1>4, SameGossip DEF Same
<1>5. ASSUME NEW ch \in Channels, NEW n, NEW T, NEW m \in Frame, m # Envelope(e), Same(ch)
      PROVE  Same(SendTo(ch, n, T, m))
  BY <1>5, SameSent, SameTwice DEF Same
<1>6. ASSUME NEW f \in Hub, NEW h \in Hub, ReadGossip(f, h)
      PROVE  Goal
  <2>1. /\ f \in Node /\ h \in Node /\ NextFrame(f, h, "gossip")
        /\ UNCHANGED <<arrived, seen>>
    BY <1>6, Apart DEF ReadGossip
  <2>2. Head(chan[<<f, h>>]) \in Frame /\ Head(chan[<<f, h>>]) # Envelope(e)
    BY <1>1, <2>1, FrameRead
  <2>3. Same(Read(chan, f, h)) /\ Read(chan, f, h) \in Channels
    BY <1>3, <2>1, <2>2
  <2>4. Same(SendTo(Read(chan, f, h), h, Live(h) \ {f}, Head(chan[<<f, h>>])))
    BY <1>5, <2>2, <2>3
  <2>5. chan' \in {Read(chan, f, h),
                   SendTo(Read(chan, f, h), h, Live(h) \ {f}, Head(chan[<<f, h>>]))}
    BY <1>6, Zenon DEF ReadGossip
  <2> QED
    BY <1>2, <2>1, <2>3, <2>4, <2>5
<1>7. ASSUME NEW p \in Spoke, NEW h \in Hub, SpokeGossip(h, p)
      PROVE  Goal
  <2>1. /\ p \in Node /\ h \in Node /\ NextFrame(h, p, "gossip")
        /\ chan' = Read(chan, h, p) /\ UNCHANGED <<arrived, seen>>
    BY <1>7, Apart DEF SpokeGossip
  <2>2. Head(chan[<<h, p>>]) # Envelope(e)
    BY <1>1, <2>1, FrameRead
  <2> QED
    BY <1>2, <1>3, <2>1, <2>2
<1>8. ASSUME NEW p \in Spoke, NEW h \in Hub, ReadPresence(p, h)
      PROVE  Goal
  <2>1. /\ p \in Node /\ h \in Node /\ NextFrame(p, h, "presence")
        /\ GossipLocal(h, spokes[h], hubs[h], Live(h), Read(chan, p, h))
        /\ UNCHANGED <<arrived, seen>>
    BY <1>8, Apart DEF ReadPresence
  <2>2. Head(chan[<<p, h>>]) # Envelope(e)
    BY <1>1, <2>1, FrameRead
  <2>3. Same(Read(chan, p, h)) /\ Read(chan, p, h) \in Channels
    BY <1>3, <2>1, <2>2
  <2> QED
    BY <1>4, <2>1, <2>3
<1>9. ASSUME NEW f \in Node, NEW h \in Hub, Forward(f, h)
      PROVE  Goal
  <2> DEFINE m == Head(chan[<<f, h>>])
             T == NextHops(h, To[m.id], f) \cap Live(h)
  <2>1. /\ h \in Node /\ NextFrame(f, h, "envelope") /\ m # Envelope(e)
        /\ chan' \in {Read(chan, f, h), SendTo(Read(chan, f, h), h, T, m)}
        /\ seen' = [seen EXCEPT ![h] = @ \cup {m.id}] /\ UNCHANGED arrived
    BY <1>9, Apart, Zenon DEF Forward, Moves
  <2>2. m \in Frame /\ m.id # e
    BY <2>1, FrameRead, FrameKinds
  <2> HIDE DEF m, T
  <2>3. Same(Read(chan, f, h)) /\ Read(chan, f, h) \in Channels
    BY <1>3, <2>1 DEF m
  <2>4. Same(SendTo(Read(chan, f, h), h, T, m))
    BY <1>5, <2>1, <2>2, <2>3
  <2>5. \A k \in Hub : e \in seen'[k] <=> e \in seen[k]
    BY <2>1, <2>2 DEF TypeOK
  <2> QED
    BY <2>1, <2>3, <2>4, <2>5 DEF Goal
<1>10. ASSUME NEW p \in Spoke, NEW h \in Hub, Deliver(h, p)
       PROVE  Goal
  <2> DEFINE m == Head(chan[<<h, p>>])
  <2>1. /\ h \in Node /\ p \in Node /\ NextFrame(h, p, "envelope") /\ m # Envelope(e)
        /\ chan' = Read(chan, h, p)
        /\ arrived' = [arrived EXCEPT ![m.id] = IF @ < 2 THEN @ + 1 ELSE 2]
        /\ UNCHANGED seen
    BY <1>10, Apart DEF Deliver, Moves
  <2>2. m \in Frame /\ m.id # e
    BY <2>1, FrameRead, FrameKinds
  <2> HIDE DEF m
  <2>3. Same(Read(chan, h, p))
    BY <1>3, <2>1 DEF m
  <2>4. arrived'[e] = arrived[e]
    BY <2>1, <2>2 DEF TypeOK
  <2> QED
    BY <2>1, <2>3, <2>4 DEF Goal
<1>11. ASSUME NEW a \in Hub, NEW b \in Hub,
              AcceptPeer(a, b) \/ DialPeer(a, b) \/ DropPeer(a, b)
       PROVE  Goal
  BY <1>1, <1>4, <1>11 DEF AcceptPeer, DialPeer, DropPeer
<1>12. ASSUME NEW p \in Spoke, NEW h \in Hub, Connect(p, h)
       PROVE  Goal
  <2> DEFINE ch == SendTo(chan, p, {h}, Presence)
  <2>1. /\ GossipLocal(h, spokes[h] \cup {p}, hubs[h], Live(h) \cup {p}, ch)
        /\ UNCHANGED <<arrived, seen>>
    BY <1>12 DEF Connect
  <2>2. Presence \in Frame /\ Presence # Envelope(e)
    BY <1>1, FramesMade
  <2>3. ch \in Channels /\ Same(ch)
    BY <1>1, <1>5, <2>2, SendToAt
  <2> QED
    BY <1>4, <2>1, <2>3
<1>13. ASSUME NEW q \in Node \X Node, Envelope(e) \notin Range(chan[q])
       PROVE  /\ [chan EXCEPT ![q] = <<>>] \in Channels
              /\ Same([chan EXCEPT ![q] = <<>>])
  <2>1. [chan EXCEPT ![q] = <<>>] \in Channels
    BY <1>1, NoFrames DEF Channels
  <2>2. SameCopies(e, chan[q], <<>>)
    BY <1>13, SameEmptied
  <2> QED
    BY <1>1, <2>1, <2>2 DEF Same, Channels
<1>14. ASSUME NEW p \in Spoke, NEW h \in Hub, Drop(p, h)
       PROVE  Goal
  <2>1. /\ GossipLocal(h, spokes[h] \ {p}, hubs[h], Live(h),
                       [chan EXCEPT ![<<p, h>>] = <<>>])
        /\ UNCHANGED <<arrived, seen>> /\ at[p] # h
    BY <1>14 DEF Drop
  <2>2. Envelope(e) \notin Range(chan[<<p, h>>]) /\ <<p, h>> \in Node \X Node
    BY <2>1, Apart DEF Way, Posted, On
  <2> QED
    BY <1>4, <1>13, <2>1, <2>2
<1>15. ASSUME NEW p \in Spoke, Leave(p)
       PROVE  Goal
  <2>1. /\ chan' = [chan EXCEPT ![<<at[p], p>>] = <<>>] /\ at[p] # None
        /\ roamed' = roamed \cup {x \in sent : p \in {From[x], To[x]}}
        /\ UNCHANGED <<arrived, seen>>
    BY <1>15 DEF Leave
  <2>2. p # To[e] /\ at[p] \in Hub
    BY <2>1 DEF TypeOK
  <2>3. Envelope(e) \notin Range(chan[<<at[p], p>>]) /\ <<at[p], p>> \in Node \X Node
    BY <2>2, Apart DEF Copies, Addressed
  <2> QED
    BY <1>2, <1>13, <2>1, <2>3
<1>16. ASSUME NEW x \in Env, Post(x)
       PROVE  Goal
  <2>1. /\ chan' = SendTo(chan, From[x], {at[From[x]]}, Envelope(x))
        /\ x # e /\ UNCHANGED <<arrived, seen>>
    BY <1>16 DEF Post
  <2>2. Envelope(x) \in Frame /\ Envelope(x) # Envelope(e)
    BY <2>1, FramesMade
  <2> QED
    BY <1>1, <1>2, <1>5, <2>1, <2>2
<1>17. ASSUME (\E a, b \in Hub : Cut(a, b)) \/ (\E h \in Hub : Restart(h))
       PROVE  Goal
  BY <1>17 DEF Cut, Restart
<1>18. ASSUME UNCHANGED vars
       PROVE  Goal
  BY <1>2, <1>18 DEF vars
<1>19. Goal
  BY <1>6, <1>7, <1>8, <1>9, <1>10, <1>11, <1>12, <1>14, <1>15, <1>16, <1>17, <1>18
  DEF Next, Receive
<1> QED
  BY <1>19 DEF Goal, Same


-----------------------------------------------------------------------------
(* Sending, forwarding and delivering an envelope                          *)

LEMMA PostWay ==
  ASSUME TypeOK, Copies, NEW e \in Env, Post(e), e \notin stranded'
  PROVE  /\ Way(e)' /\ On(e, From[e], at[From[e]])'
         /\ \A h \in Hub : e \notin seen'[h]
<1>1. /\ chan' = SendTo(chan, From[e], {at[From[e]]}, Envelope(e))
      /\ e \notin sent /\ Settled(e)
      /\ UNCHANGED <<at, spokes, hubs, links, setup, seen>>
  BY DEF Post, tables, net
<1>2. /\ From[e] \in Spoke /\ To[e] \in Spoke
      /\ at[From[e]] \in Hub /\ at[To[e]] \in Hub
  BY <1>1, EndsAtHubs
<1>3. /\ \A h \in Hub : e \notin seen[h]
      /\ \A c \in Node \X Node : Envelope(e) \notin Range(chan[c])
  BY <1>1 DEF Copies, SentFirst
<1>4. ASSUME NEW a \in Node, NEW b \in Node
      PROVE  /\ On(e, a, b)' <=> a = From[e] /\ b = at[From[e]]
             /\ Single(chan'[<<a, b>>], Envelope(e))
  <2> DEFINE q == chan[<<a, b>>]
  <2>1. chan \in Channels /\ Envelope(e) \in Frame
    BY FramesMade DEF TypeOK, Channels
  <2>2. q \in Seq(Frame) /\ Envelope(e) \notin Range(q)
    BY <1>3, <2>1 DEF Channels
  <2>3. chan'[<<a, b>>] = IF a = From[e] /\ b \in {at[From[e]]} THEN Append(q, Envelope(e))
                                                              ELSE q
    BY <1>1, <2>1, SendToPair
  <2> HIDE DEF q
  <2>4. /\ Envelope(e) \in Range(Append(q, Envelope(e)))
        /\ Single(q, Envelope(e)) /\ Single(Append(q, Envelope(e)), Envelope(e))
    BY <2>1, <2>2, NotIn, Appended
  <2> QED
    BY <2>2, <2>3, <2>4 DEF On
<1>5. Settled(e)'
  BY <1>1 DEF Settled
<1>6. Posted(e)'
  BY <1>1, <1>3, <1>4, Apart DEF Posted
<1>7. Relayed(e)'
  BY <1>1, <1>2, <1>3, <1>4, Apart DEF Relayed
<1>8. On(e, From[e], at[From[e]])'
  BY <1>1, <1>2, <1>4, Apart
<1> QED
  BY <1>1, <1>3, <1>5, <1>6, <1>7, <1>8 DEF Way

LEMMA DeliverWay ==
  ASSUME TypeOK, Copies, NEW e \in Env, e \in sent, e \notin roamed, Way(e), Settled(e)',
         NEW p \in Spoke, NEW h \in Hub, Deliver(h, p), Head(chan[<<h, p>>]) = Envelope(e)
  PROVE  Way(e)' /\ Stays(e)
<1>1. /\ chan' = Read(chan, h, p)
      /\ arrived' = [arrived EXCEPT ![e] = IF @ < 2 THEN @ + 1 ELSE 2]
      /\ UNCHANGED <<at, seen>>
      /\ NextFrame(h, p, "envelope")
  <2>1. Envelope(e).id = e
    BY FramesMade
  <2> QED
    BY <2>1 DEF Deliver
<1>2. /\ h \in Node /\ p \in Node
      /\ chan \in Channels /\ chan[<<h, p>>] \in Seq(Frame) /\ chan[<<h, p>>] # <<>>
  BY <1>1, Apart, FrameRead DEF TypeOK, Channels
<1>3. Envelope(e) \in Range(chan[<<h, p>>])
  BY <1>2, HeadRead
<1>4. p = To[e] /\ at[p] = h
  BY <1>2, <1>3 DEF Copies, Addressed, OwnHub
<1>5. e \in seen[h]
  BY <1>3, <1>4 DEF Copies, Once
<1>6. arrived'[e] > 0
  <2>1. arrived \in [Env -> 0..2]
    BY DEF TypeOK
  <2>2. arrived[e] \in 0..2 /\ arrived'[e] = IF arrived[e] < 2 THEN arrived[e] + 1 ELSE 2
    BY <1>1, <2>1
  <2> QED
    BY <2>2
<1>7. ASSUME NEW a \in Node, NEW b \in Node
      PROVE  /\ On(e, a, b)' => On(e, a, b)
             /\ a # h \/ b # p => chan'[<<a, b>>] = chan[<<a, b>>]
  <2>1. chan'[<<a, b>>] = IF a = h /\ b = p THEN Tail(chan[<<a, b>>]) ELSE chan[<<a, b>>]
    BY <1>1, <1>2, ReadPair
  <2>2. Range(Tail(chan[<<h, p>>])) \subseteq Range(chan[<<h, p>>])
    BY <1>2, HeadRead
  <2> QED
    BY <2>1, <2>2 DEF On
<1>8. Posted(e)'
  BY <1>1, <1>7, Apart DEF Way, Posted
<1>9. Relayed(e)'
  BY <1>1, <1>6, <1>7, Apart DEF Way, Relayed
<1>10. Stays(e)
  BY <1>1, <1>7, Apart DEF Stays, On
<1> QED
  BY <1>8, <1>9, <1>10 DEF Way


\* What forward() of hub h does to the copies of the envelope it reads.
LEMMA ForwardCopy ==
  ASSUME TypeOK, NEW e \in Env, NEW f \in Node, NEW h \in Hub, Forward(f, h),
         Head(chan[<<f, h>>]) = Envelope(e)
  PROVE  LET T == NextHops(h, To[e], f) \cap Live(h)
         IN  /\ f \in hubs[h] \cup spokes[h]
             /\ On(e, f, h)
             /\ Single(chan[<<f, h>>], Envelope(e)) /\ f # h => ~On(e, f, h)'
             /\ \A k \in Hub : e \in seen'[k] <=> e \in seen[k] \/ k = h
             /\ \A a, b \in Node :
                  /\ (a # f \/ b # h) /\ On(e, a, b) => On(e, a, b)'
                  /\ On(e, a, b)' => On(e, a, b) \/ a = h
                  /\ a # h /\ Single(chan[<<a, b>>], Envelope(e)) =>
                       Single(chan'[<<a, b>>], Envelope(e))
                  /\ a = h /\ b \in T /\ e \notin seen[h] => On(e, a, b)'
             /\ UNCHANGED <<at, arrived>>
<1> DEFINE m == Envelope(e)
           T == NextHops(h, To[e], f) \cap Live(h)
           ch == Read(chan, f, h)
<1>1. /\ chan' = IF e \in seen[h] THEN ch ELSE SendTo(ch, h, T, m)
      /\ seen' = [seen EXCEPT ![h] = @ \cup {e}]
      /\ f \in hubs[h] \cup spokes[h]
      /\ UNCHANGED <<at, arrived>>
      /\ NextFrame(f, h, "envelope")
  <2>1. Envelope(e).id = e
    BY FramesMade
  <2> QED
    BY <2>1 DEF Forward, history
<1>2. /\ h \in Node /\ chan \in Channels /\ ch \in Channels /\ m \in Frame
      /\ chan[<<f, h>>] \in Seq(Frame) /\ chan[<<f, h>>] # <<>>
  <2>1. h \in Node /\ chan \in Channels
    BY Apart DEF TypeOK, Channels
  <2>2. /\ ch \in Channels
        /\ chan[<<f, h>>] \in Seq(Frame) /\ chan[<<f, h>>] # <<>>
    BY <1>1, <2>1, FrameRead
  <2> QED
    BY <2>1, <2>2, FramesMade
<1>3. \A k \in Hub : e \in seen'[k] <=> e \in seen[k] \/ k = h
  BY <1>1 DEF TypeOK
<1> HIDE DEF m, T, ch
<1>4. Head(chan[<<f, h>>]) = m
  BY DEF m
<1>5. /\ m \in Range(chan[<<f, h>>])
      /\ Range(Tail(chan[<<f, h>>])) \subseteq Range(chan[<<f, h>>])
      /\ Single(chan[<<f, h>>], m) => /\ Single(Tail(chan[<<f, h>>]), m)
                                      /\ m \notin Range(Tail(chan[<<f, h>>]))
  BY <1>2, <1>4, HeadRead
<1>6. ASSUME NEW a \in Node, NEW b \in Node
      PROVE  /\ ch[<<a, b>>] = IF a = f /\ b = h THEN Tail(chan[<<a, b>>])
                                                 ELSE chan[<<a, b>>]
             /\ chan'[<<a, b>>] = IF a = h /\ b \in T /\ e \notin seen[h]
                                  THEN Append(ch[<<a, b>>], m)
                                  ELSE ch[<<a, b>>]
             /\ Range(Append(ch[<<a, b>>], m)) = Range(ch[<<a, b>>]) \cup {m}
  <2>1. ch[<<a, b>>] = IF a = f /\ b = h THEN Tail(chan[<<a, b>>]) ELSE chan[<<a, b>>]
    BY <1>2, ReadPair DEF ch
  <2>2. SendTo(ch, h, T, m)[<<a, b>>] =
          IF a = h /\ b \in T THEN Append(ch[<<a, b>>], m) ELSE ch[<<a, b>>]
    BY <1>2, SendToPair
  <2>3. ch[<<a, b>>] \in Seq(Frame)
    BY <1>2 DEF Channels
  <2>4. Range(Append(ch[<<a, b>>], m)) = Range(ch[<<a, b>>]) \cup {m}
    BY <1>2, <2>3, Appended
  <2> QED
    BY <1>1, <2>1, <2>2, <2>4
<1>7. ASSUME NEW a \in Node, NEW b \in Node
      PROVE  /\ (a # f \/ b # h) /\ On(e, a, b) => On(e, a, b)'
             /\ On(e, a, b)' => On(e, a, b) \/ a = h
             /\ a # h /\ Single(chan[<<a, b>>], m) => Single(chan'[<<a, b>>], m)
             /\ a = h /\ b \in T /\ e \notin seen[h] => On(e, a, b)'
  BY <1>5, <1>6 DEF On, m
<1>8. On(e, f, h)
  BY <1>5 DEF On, m
<1>9. Single(chan[<<f, h>>], m) /\ f # h => ~On(e, f, h)'
  BY <1>2, <1>5, <1>6 DEF On, m
<1> QED
  BY <1>1, <1>3, <1>7, <1>8, <1>9 DEF m, T

LEMMA ForwardWay ==
  ASSUME TypeOK, NEW e \in Env, Way(e), Settled(e)',
         NEW f \in Node, NEW h \in Hub, Forward(f, h), Head(chan[<<f, h>>]) = Envelope(e)
  PROVE  Way(e)'
<1> DEFINE T == NextHops(h, To[e], f) \cap Live(h)
           F0 == at[From[e]]
           T0 == at[To[e]]
<1>1. /\ From[e] \in Spoke /\ To[e] \in Spoke /\ T0 \in Hub
      /\ \A k \in Hub : To[e] \in spokes[k] <=> T0 = k
      /\ h \in Node
  BY EndsAtHubs, Apart DEF Way
<1>2. /\ f \in hubs[h] \cup spokes[h] /\ On(e, f, h)
      /\ Single(chan[<<f, h>>], Envelope(e)) /\ f # h => ~On(e, f, h)'
      /\ \A k \in Hub : e \in seen'[k] <=> e \in seen[k] \/ k = h
      /\ UNCHANGED <<at, arrived>>
  BY ForwardCopy
<1>3. \A a, b \in Node :
        /\ (a # f \/ b # h) /\ On(e, a, b) => On(e, a, b)'
        /\ On(e, a, b)' => On(e, a, b) \/ a = h
        /\ a # h /\ Single(chan[<<a, b>>], Envelope(e)) =>
             Single(chan'[<<a, b>>], Envelope(e))
        /\ a = h /\ b \in T /\ e \notin seen[h] => On(e, a, b)'
  BY ForwardCopy, Zenon
<1> HIDE DEF T
<1>4. f \in Hub \/ f \in Spoke
  BY DEF Node
\* From a spoke it comes before any hub has seen it.
<1>5. f \in Spoke => /\ f = From[e] /\ h = F0 /\ f # h
                     /\ Single(chan[<<f, h>>], Envelope(e))
                     /\ \A k \in Hub : e \notin seen[k]
  BY <1>2, Apart DEF Way, Posted
<1>6. f \in Hub => e \in seen[f]
  BY <1>1, <1>2 DEF Way, Relayed
<1>7. Posted(e)'
  <2> SUFFICES ASSUME NEW p \in Spoke, NEW k \in Hub, On(e, p, k)'
               PROVE  FALSE
    BY DEF Posted
  <2>1. On(e, p, k) /\ p # h
    BY <1>3, Apart
  <2>2. p = From[e] /\ k = F0 /\ \A g \in Hub : e \notin seen[g]
    BY <2>1 DEF Way, Posted
  <2>3. f \in Spoke
    BY <1>4, <1>6, <2>2
  <2> QED
    BY <1>2, <1>5, <2>2, <2>3
\* At the addressee's hub it is written to the addressee.
<1>8. h = T0 => To[e] \in T
  BY <1>1 DEF T, NextHops, Live
<1>9. Relayed(e)'
  <2>1. ASSUME NEW g \in Hub, NEW n \in Node, On(e, g, n)'
        PROVE  e \in seen'[g]
    <3>1. On(e, g, n) \/ g = h
      BY <1>3, <2>1, Apart
    <3> QED
      BY <1>2, <3>1 DEF Way, Relayed
  <2>2. ASSUME e \in seen'[T0], ~(arrived[e] > 0)
        PROVE  On(e, T0, To[e])'
    <3>1. T0 \in Node /\ To[e] \in Node /\ To[e] # h
      BY <1>1, Apart
    <3>2. CASE e \in seen[T0]
      <4>1. On(e, T0, To[e])
        BY <2>2, <3>2 DEF Way, Relayed
      <4> QED
        BY <1>2, <1>3, <3>1, <4>1
    <3>3. CASE e \notin seen[T0]
      <4>1. h = T0
        BY <1>1, <1>2, <2>2, <3>3
      <4> QED
        BY <1>2, <1>3, <1>8, <3>1, <3>3, <4>1
    <3> QED
      BY <3>2, <3>3
  <2> QED
    BY <1>2, <2>1, <2>2 DEF Relayed
<1> QED
  BY <1>7, <1>9 DEF Way

\* The ends of an envelope stay, and it stays or is forwarded.
LEMMA WayStep ==
  ASSUME TypeOK, Copies, [Next]_vars, NEW e \in Env, e \in sent, Way(e),
         e \notin roamed \cup stranded, e \notin roamed' \cup stranded'
  PROVE  /\ Way(e)'
         /\ at'[From[e]] = at[From[e]] /\ at'[To[e]] = at[To[e]]
         /\ \/ Stays(e)
            \/ \E f \in Node, h \in Hub :
                 Forward(f, h) /\ Head(chan[<<f, h>>]) = Envelope(e)
<1>1. Settled(e)' /\ at'[From[e]] = at[From[e]] /\ at'[To[e]] = at[To[e]]
  BY SettledStep DEF Way
<1>2. CASE ~Moves(e)
  <2>1. /\ \A c \in Node \X Node : SameCopies(e, chan[c], chan'[c])
        /\ arrived'[e] = arrived[e]
        /\ \A h \in Hub : e \in seen'[h] <=> e \in seen[h]
    BY <1>2, Unmoved
  <2>2. Way(e)' /\ Stays(e)
    BY <1>1, <2>1, WayKept
  <2> QED
    BY <1>1, <2>2
<1>3. ASSUME NEW f \in Node, NEW h \in Hub, Forward(f, h),
             Head(chan[<<f, h>>]) = Envelope(e)
      PROVE  Way(e)'
  BY <1>1, <1>3, ForwardWay
<1>4. ASSUME NEW p \in Spoke, NEW h \in Hub, Deliver(h, p),
             Head(chan[<<h, p>>]) = Envelope(e)
      PROVE  Way(e)' /\ Stays(e)
  BY <1>1, <1>4, DeliverWay
<1> QED
  BY <1>1, <1>2, <1>3, <1>4, Zenon DEF Moves

-----------------------------------------------------------------------------
(* Forwarding in a small mesh                                              *)

\* With all hubs peered a hub lists all others of the mesh, and can write to them.
LEMMA MeshLists ==
  ASSUME TypeOK, Peered, Invited, NEW e \in Env, Settled(e), NEW M \in SUBSET Hub,
         \A a, b \in M : a # b => <<a, b>> \in setup.dials \/ <<b, a>> \in setup.dials,
         setup.dials \subseteq M \X M,
         \A p \in Spoke : setup.invites[p] \subseteq M
  PROVE  /\ at[From[e]] \in M /\ at[To[e]] \in M
         /\ \A h \in Hub : \A g \in hubs[h] : g \in M /\ h \in M /\ g # h
         /\ \A h, g \in M : g # h => g \in hubs[h] /\ g \in Live(h)
<1>1. at[From[e]] \in M /\ at[To[e]] \in M
  BY EndsAtHubs, Apart DEF Invited
<1>2. ASSUME NEW h \in Hub, NEW g \in hubs[h]
      PROVE  g \in M /\ h \in M /\ g # h
  <2>1. <<g, h>> \in setup.dials \/ <<h, g>> \in setup.dials
    BY DEF Peered
  <2>2. \A d \in setup.dials : d[1] # d[2]
    BY SetupTypes
  <2> QED
    BY <2>1, <2>2
<1>3. ASSUME NEW h \in M, NEW g \in M, g # h
      PROVE  g \in hubs[h] /\ g \in Live(h)
  <2>1. <<g, h>> \in setup.dials \/ <<h, g>> \in setup.dials
    BY <1>3
  <2>2. \A d \in setup.dials : d \in links /\ d[1] \in hubs[d[2]] /\ d[2] \in hubs[d[1]]
    BY DEF Settled
  <2>3. g \in hubs[h] /\ Linked(g, h)
    BY <2>1, <2>2 DEF Linked
  <2> QED
    BY <2>3 DEF Live
<1> QED
  BY <1>1, <1>2, <1>3

LEMMA ForwardPending ==
  ASSUME TypeOK, SmallMesh(setup), Peered, Invited, NEW e \in Env, Path(e),
         NEW f \in Node, NEW h \in Hub, Forward(f, h), Head(chan[<<f, h>>]) = Envelope(e)
  PROVE  Pending(e)'
<1>1. PICK M \in SUBSET Hub :
        /\ \A a, b, c, d \in M : a = b \/ a = c \/ a = d \/ b = c \/ b = d \/ c = d
        /\ \A a, b \in M : a # b => <<a, b>> \in setup.dials \/ <<b, a>> \in setup.dials
        /\ setup.dials \subseteq M \X M
        /\ \A p \in Spoke : setup.invites[p] \subseteq M
  BY DEF SmallMesh
<1>2. /\ at[From[e]] \in M /\ at[To[e]] \in M
      /\ \A k \in Hub : \A g \in hubs[k] : g \in M /\ k \in M /\ g # k
      /\ \A k, g \in M : g # k => g \in hubs[k] /\ g \in Live(k)
  BY <1>1, MeshLists DEF Path, Way
<1>3. /\ From[e] \in Spoke /\ To[e] \in Spoke
      /\ \A k \in Hub : To[e] \in spokes[k] <=> at[To[e]] = k
      /\ h \in Node
  BY EndsAtHubs, Apart DEF Path, Way
<1> DEFINE T == NextHops(h, To[e], f) \cap Live(h)
           F0 == at[From[e]]
           T0 == at[To[e]]
<1>4. /\ f \in hubs[h] \cup spokes[h] /\ On(e, f, h)
      /\ \A k \in Hub : e \in seen'[k] <=> e \in seen[k] \/ k = h
      /\ UNCHANGED <<at, arrived>>
  BY ForwardCopy
<1>5. \A a, b \in Node :
        /\ (a # f \/ b # h) /\ On(e, a, b) => On(e, a, b)'
        /\ On(e, a, b)' => On(e, a, b) \/ a = h
        /\ a # h /\ Single(chan[<<a, b>>], Envelope(e)) =>
             Single(chan'[<<a, b>>], Envelope(e))
        /\ a = h /\ b \in T /\ e \notin seen[h] => On(e, a, b)'
  BY ForwardCopy, Zenon
<1> HIDE DEF T
<1>6. f \in M \/ f \in Spoke
  BY <1>2, <1>4 DEF TypeOK
\* From a spoke it comes before any hub has seen it.
<1>7. f \in Spoke => h = F0 /\ \A k \in Hub : e \notin seen[k]
  BY <1>4, Apart DEF Path, Way, Posted
<1>8. f \in Hub => e \in seen[f]
  BY <1>3, <1>4 DEF Path, Way, Relayed
<1> SUFFICES ASSUME e \notin seen'[T0]
             PROVE  \E a, b \in Hub : On(e, a, b)' /\ e \notin seen'[b]
  BY <1>4 DEF Pending
<1>9. T0 # h /\ e \notin seen[T0] /\ T0 \in Hub
  BY <1>2, <1>4
<1>10. CASE e \in seen[h]
  <2>1. ~On(e, From[e], F0)
    BY <1>2, <1>3, <1>10 DEF Path, Way, Posted
  <2>2. PICK a, b \in Hub : On(e, a, b) /\ e \notin seen[b]
    BY <1>9, <2>1 DEF Path, Pending
  <2>3. b # h /\ a \in Node /\ b \in Node
    BY <1>10, <2>2, Apart
  <2> QED
    BY <1>4, <1>5, <2>2, <2>3
<1>11. CASE e \notin seen[h]
  <2>1. \E n \in T : n \in M /\ n # h /\ e \notin seen[n]
    \* Another hub's envelope: two of the three hubs have it.
    <3>1. CASE f \in M
      <4>1. f # T0 /\ f \in hubs[h] /\ f # h /\ h \in M
        <5>1. f \notin Spoke
          BY <3>1, Apart
        <5> QED
          BY <1>2, <1>4, <1>8, <1>9, <3>1, <5>1 DEF TypeOK
      <4>2. \A n \in hubs[h] \ {f} : n = T0
        BY <1>1, <1>2, <1>9, <4>1
      <4>3. T0 \in hubs[h] /\ T0 \in Live(h)
        BY <1>2, <1>9, <4>1
      <4>4. To[e] \notin spokes[h]
        BY <1>3, <1>9
      <4>5. T0 \in NextHops(h, To[e], f)
        BY <4>1, <4>2, <4>3, <4>4 DEF NextHops
      <4> QED
        BY <1>2, <1>9, <4>3, <4>5 DEF T
    <3>2. CASE f \in Spoke
      <4>1. h \in M /\ f \notin hubs[h] /\ \A k \in Hub : e \notin seen[k]
        BY <1>2, <1>7, <3>2, Apart
      <4>2. To[e] \notin spokes[h] /\ T0 \in hubs[h] \ {f}
        BY <1>2, <1>3, <1>9, <4>1
      <4>3. \E n \in hubs[h] : n \in NextHops(h, To[e], f)
        BY <4>2 DEF NextHops
      <4>4. \A n \in hubs[h] : n \in M /\ n # h /\ n \in Live(h) /\ n \in Hub
        BY <1>2, <4>1
      <4> QED
        BY <4>1, <4>3, <4>4 DEF T
    <3> QED
      BY <1>6, <3>1, <3>2
  <2>2. PICK n \in T : n \in M /\ n # h /\ e \notin seen[n]
    BY <2>1
  <2>3. n \in Hub /\ n \in Node
    BY <2>2, Apart
  <2> QED
    BY <1>3, <1>4, <1>5, <1>11, <2>2, <2>3
<1> QED
  BY <1>10, <1>11

\* An envelope becomes unspoilt only when it is sent.
LEMMA Fresh ==
  ASSUME TypeOK, [Next]_vars, NEW e, e \in sent', e \notin roamed' \cup stranded',
         ~(e \in sent /\ e \notin roamed \cup stranded)
  PROVE  e \in Env /\ Post(e)
<1> USE DEF tables, net, history
<1>1. ASSUME UNCHANGED sent, roamed \subseteq roamed', stranded \subseteq stranded'
      PROVE  FALSE
  BY <1>1
<1>2. ASSUME NEW x \in Env, Post(x)
      PROVE  e \in Env /\ Post(e)
  <2>1. /\ sent' = sent \cup {x} /\ roamed' = roamed
        /\ stranded' = IF Settled(x) THEN stranded ELSE stranded \cup {x}
    BY <1>2 DEF Post
  <2>2. e = x
    BY <2>1
  <2> QED
    BY <1>2, <2>2
<1>3. ASSUME \/ \E a, b \in Hub : Cut(a, b)
             \/ \E h \in Hub : Restart(h)
      PROVE  FALSE
  BY <1>3 DEF Cut, Restart
<1>4. ASSUME NEW p \in Spoke, Leave(p)
      PROVE  FALSE
  BY <1>1, <1>4 DEF Leave
<1>5. ASSUME Receive
      PROVE  FALSE
  <2>1. ASSUME NEW f, NEW h, ReadGossip(f, h) \/ Forward(f, h)
        PROVE  FALSE
    BY <1>1, <2>1 DEF ReadGossip, Forward
  <2>2. ASSUME NEW p, NEW h, SpokeGossip(h, p) \/ Deliver(h, p) \/ ReadPresence(p, h)
        PROVE  FALSE
    BY <1>1, <2>2 DEF SpokeGossip, Deliver, ReadPresence
  <2> QED
    BY <1>5, <2>1, <2>2 DEF Receive
<1>6. ASSUME NEW a \in Hub, NEW b \in Hub,
             AcceptPeer(a, b) \/ DialPeer(a, b) \/ DropPeer(a, b)
      PROVE  FALSE
  BY <1>1, <1>6 DEF AcceptPeer, DialPeer, DropPeer
<1>7. ASSUME NEW p \in Spoke, NEW h \in Hub, Connect(p, h) \/ Drop(p, h)
      PROVE  FALSE
  BY <1>1, <1>7 DEF Connect, Drop
<1>8. ASSUME UNCHANGED vars
      PROVE  FALSE
  BY <1>1, <1>8 DEF vars
<1> QED
  BY <1>2, <1>3, <1>4, <1>5, <1>6, <1>7, <1>8 DEF Next


-----------------------------------------------------------------------------
(* The invariant of a small mesh                                           *)

LEMMA PathsStep ==
  ASSUME TypeOK, Copies, SmallMesh(setup), RInv, [Next]_vars
  PROVE  Paths'
<1> SUFFICES ASSUME NEW e, e \in sent', e \notin roamed' \cup stranded'
             PROVE  Path(e)'
  BY DEF Paths
<1>1. CASE e \in sent /\ e \notin roamed \cup stranded
  <2>1. e \in Env /\ Path(e) /\ Way(e) /\ Settled(e) /\ Peered /\ Invited
    BY <1>1 DEF TypeOK, RInv, Paths, Path, Way
  <2>2. /\ Way(e)'
        /\ at'[From[e]] = at[From[e]] /\ at'[To[e]] = at[To[e]]
        /\ \/ Stays(e)
           \/ \E f \in Node, h \in Hub :
                Forward(f, h) /\ Head(chan[<<f, h>>]) = Envelope(e)
    BY <1>1, <2>1, WayStep
  <2>3. CASE Stays(e)
    <3>1. /\ From[e] \in Node
          /\ at[From[e]] \in Hub /\ at[To[e]] \in Hub
          /\ \A h \in Hub : h \in Node
      BY <2>1, EndsAtHubs, Apart
    <3>2. PICK F0 \in Hub, T0 \in Hub : F0 = at[From[e]] /\ T0 = at[To[e]]
      BY <3>1
    <3>3. /\ On(e, From[e], F0)' <=> On(e, From[e], F0)
          /\ \A f, h \in Hub : On(e, f, h)' <=> On(e, f, h)
          /\ \A h \in Hub : e \in seen'[h] <=> e \in seen[h]
      BY <2>3, <3>1 DEF Stays
    <3>4. Pending(e)'
      BY <2>1, <2>2, <3>2, <3>3 DEF Path, Pending
    <3> QED
      BY <2>2, <3>4 DEF Path
  <2>4. ASSUME NEW f \in Node, NEW h \in Hub, Forward(f, h),
               Head(chan[<<f, h>>]) = Envelope(e)
        PROVE  Path(e)'
    <3>1. Pending(e)'
      BY <2>1, <2>4, ForwardPending
    <3> QED
      BY <2>2, <3>1 DEF Path
  <2> QED
    BY <2>2, <2>3, <2>4
<1>2. CASE ~(e \in sent /\ e \notin roamed \cup stranded)
  \* Envelopes do not leave these sets, so that e has just been sent.
  <2>1. Post(e) /\ e \in Env
    BY <1>2, Fresh
  <2>2. Way(e)' /\ On(e, From[e], at[From[e]])'
    BY <2>1, PostWay
  <2> QED
    BY <2>2 DEF Path, Pending
<1> QED
  BY <1>1, <1>2


LEMMA RoutesInvariant ==
  ASSUME \A s \in Setups : SmallMesh(s)
  PROVE  Spec => [](IInv /\ RInv)
<1>1. Init => RInv
  <2> SUFFICES ASSUME Init PROVE RInv
    OBVIOUS
  <2>1. /\ \A h \in Hub : hubs[h] = {}
        /\ \A p \in Spoke : at[p] = None
        /\ sent = {}
    BY DEF Init
  <2> QED
    BY <2>1 DEF RInv, Peered, Invited, Paths
<1>2. IInv /\ RInv /\ [Next]_vars => RInv'
  <2> SUFFICES ASSUME IInv, RInv, [Next]_vars PROVE RInv'
    OBVIOUS
  <2>1. TypeOK /\ Copies /\ Peered /\ Invited
    BY DEF IInv, RInv
  <2>2. SmallMesh(setup)
    BY <2>1 DEF TypeOK
  <2>3. Peered' /\ Invited'
    BY <2>1, PeeredStep, InvitedStep
  <2>4. Paths'
    BY <2>1, <2>2, PathsStep
  <2> QED
    BY <2>3, <2>4 DEF RInv
<1> QED
  BY <1>1, <1>2, Invariant, PTL DEF Spec

-----------------------------------------------------------------------------
(* The theorem                                                             *)

\* Where at most three hubs are all peered with each other, an envelope whose ends
\* kept their sessions while no link or hub failed has reached its addressee once
\* everything is read.  forward() may pick any peer that the location table names;
\* with two or three hubs the one that is left is the addressee's.
THEOREM NothingGetsLost ==
  ASSUME \A s \in Setups : SmallMesh(s)
  PROVE  Spec => []DeliveredAtRest
<1>1. IInv /\ RInv => DeliveredAtRest
  <2> SUFFICES ASSUME IInv, RInv, Quiet, NEW e \in sent \ (roamed \cup stranded)
               PROVE  arrived[e] > 0
    BY DEF DeliveredAtRest
  <2>1. Path(e) /\ Settled(e) /\ e \in Env /\ TypeOK
    BY DEF IInv, TypeOK, RInv, Paths, Path, Way
  <2>2. From[e] \in Node /\ To[e] \in Node /\ at[From[e]] \in Node /\ at[To[e]] \in Node
    BY <2>1, EndsAtHubs, Apart
  <2>3. \A a, b \in Node : ~On(e, a, b)
    <3> TAKE a, b \in Node
    <3>1. <<a, b>> \in Node \X Node
      OBVIOUS
    <3>2. chan[<<a, b>>] = <<>>
      BY <3>1 DEF Quiet
    <3> QED
      BY <3>2, NoFrames DEF On
  <2>4. e \in seen[at[To[e]]]
    BY <2>1, <2>2, <2>3, Apart DEF Path, Pending
  <2> QED
    BY <2>1, <2>2, <2>3, <2>4 DEF Path, Way, Relayed
<1> QED
  BY <1>1, RoutesInvariant, PTL

-----------------------------------------------------------------------------
(* Federations of any shape                                                *)

\* The hubs that h is peered with, and the hubs that are in use.
Partners(s, h) == {n \in Hub : <<h, n>> \in s.dials \/ <<n, h>> \in s.dials}
Used(s) == {h \in Hub : Partners(s, h) # {} \/ \E p \in Spoke : h \in s.invites[p]}

\* dist[t][h] falls on the way from any hub h in use to a hub t that a spoke has an
\* invite of, as the number of hops does where all hubs in use are connected.
Downhill(s, dist) ==
  \A p \in Spoke : \A t \in s.invites[p] : \A h \in Used(s) \ {t} :
    \E n \in Partners(s, h) : dist[t][n] < dist[t][h]

\* Where the location table of a hub that has still to forward an envelope names
\* a peer, that peer is nearer to the addressee's hub than the hub itself.
NotMisled(dist) ==
  \A e \in sent \ (roamed \cup stranded), h \in Hub :
    LET t == at[To[e]]
        n == where[h][To[e]]
    IN  h # t /\ e \notin seen[h] /\ n \in hubs[h] =>
          dist[setup][t][n] < dist[setup][t][h]

\* The first hub has it or will get it.
Started(e) == e \in seen[at[From[e]]] \/ On(e, From[e], at[From[e]])

\* Each hub that has it has passed it on, or back, to one that is nearer.
Spread(e, dist) ==
  \A h \in Used(setup) : h # at[To[e]] /\ e \in seen[h] =>
    \E n \in Partners(setup, h) :
      /\ dist[setup][at[To[e]]][n] < dist[setup][at[To[e]]][h]
      /\ e \in seen[n] \/ On(e, h, n)

Trails(dist) ==
  \A e \in sent \ (roamed \cup stranded) : Way(e) /\ Started(e) /\ Spread(e, dist)

TInv(dist) == Peered /\ Invited /\ Trails(dist)

LEMMA SmallestOf ==
  ASSUME NEW I \in SUBSET Nat, I # {}
  PROVE  \E x \in I : \A y \in I : ~(y < x)
<1> DEFINE R == {c \in Nat \X Nat : c[1] < c[2]}
<1>1. IsWellFoundedOn(R, Nat)
  BY NatLessThanWellFounded DEF OpToRel
<1> HIDE DEF R
<1>2. PICK x \in I : \A y \in I : ~(<<y, x>> \in R)
  BY <1>1, WFMin, Zenon
<1>3. \A y \in I : <<y, x>> \in R <=> y < x
  BY DEF R
<1> QED
  BY <1>2, <1>3

\* A peering has two sides, and with the addressee settled each side lists the
\* other and can write to it.
LEMMA PartnersListed ==
  ASSUME TypeOK, Peered, NEW e \in Env, Settled(e), NEW h \in Hub
  PROVE  /\ hubs[h] = Partners(setup, h)
         /\ hubs[h] \subseteq Live(h)
         /\ \A n \in hubs[h] : n \in Used(setup) /\ n \in Hub /\ n # h
<1>1. /\ \A d \in setup.dials : d[1] # d[2]
      /\ \A d \in setup.dials : d \in links /\ d[1] \in hubs[d[2]] /\ d[2] \in hubs[d[1]]
      /\ hubs[h] \subseteq Hub
  BY SetupTypes DEF Settled, TypeOK
<1>2. ASSUME NEW n \in hubs[h]
      PROVE  n \in Hub /\ (<<n, h>> \in setup.dials \/ <<h, n>> \in setup.dials)
  BY <1>1 DEF Peered
<1>3. ASSUME NEW n \in Hub, <<n, h>> \in setup.dials \/ <<h, n>> \in setup.dials
      PROVE  n \in hubs[h] /\ Linked(n, h) /\ n # h
  BY <1>1, <1>3 DEF Linked
<1>4. hubs[h] = Partners(setup, h)
  BY <1>2, <1>3 DEF Partners
<1>5. hubs[h] \subseteq Live(h)
  BY <1>2, <1>3 DEF Live
<1>6. ASSUME NEW n \in hubs[h]
      PROVE  n \in Used(setup) /\ n \in Hub /\ n # h
  <2>1. h \in Partners(setup, n) /\ n \in Hub
    BY <1>2 DEF Partners
  <2> QED
    BY <1>2, <1>3, <2>1 DEF Used
<1> QED
  BY <1>4, <1>5, <1>6

\* A hub that forwards the envelope writes it to a nearer one, unless that is where
\* it came from.
LEMMA ForwardSpread ==
  ASSUME TypeOK, Peered, Invited, NEW e \in Env, Way(e), NEW dist,
         Downhill(setup, dist[setup]), Started(e), Spread(e, dist),
         NEW f \in Node, NEW h \in Hub, Forward(f, h), Head(chan[<<f, h>>]) = Envelope(e),
         h # at[To[e]] /\ e \notin seen[h] /\ where[h][To[e]] \in hubs[h] =>
           dist[setup][at[To[e]]][where[h][To[e]]] < dist[setup][at[To[e]]][h]
  PROVE  Started(e)' /\ Spread(e, dist)'
<1>1. /\ From[e] \in Node /\ To[e] \in Spoke
      /\ at[From[e]] \in Hub /\ at[To[e]] \in Hub
      /\ \A k \in Hub : k \in Node /\ (To[e] \in spokes[k] <=> at[To[e]] = k)
  BY EndsAtHubs, Apart DEF Way
<1>2. PICK F0 \in Hub, T0 \in Hub : F0 = at[From[e]] /\ T0 = at[To[e]]
  BY <1>1
<1> DEFINE T == NextHops(h, To[e], f) \cap Live(h)
           d == dist[setup][T0]
<1>3. /\ On(e, f, h)
      /\ \A k \in Hub : e \in seen'[k] <=> e \in seen[k] \/ k = h
      /\ UNCHANGED <<at, setup>>
  BY ForwardCopy DEF Forward, net
<1>4. \A a, b \in Node :
        /\ (a # f \/ b # h) /\ On(e, a, b) => On(e, a, b)'
        /\ On(e, a, b)' => On(e, a, b) \/ a = h
        /\ a # h /\ Single(chan[<<a, b>>], Envelope(e)) =>
             Single(chan'[<<a, b>>], Envelope(e))
        /\ a = h /\ b \in T /\ e \notin seen[h] => On(e, a, b)'
  BY ForwardCopy, Zenon
<1> HIDE DEF T
<1>5. Started(e)'
  <2>1. e \in seen[F0] \/ On(e, From[e], F0)
    BY <1>2 DEF Started
  <2>2. e \in seen'[F0] \/ On(e, From[e], F0)'
    BY <1>1, <1>2, <1>3, <1>4, <2>1
  <2> QED
    BY <1>2, <1>3, <2>2 DEF Started
<1>6. f \in Hub => e \in seen[f]
  BY <1>1, <1>3 DEF Way, Relayed
\* What hub h does with an envelope it has not seen.
<1>7. ASSUME h \in Used(setup), h # T0, e \notin seen[h]
      PROVE  \E n \in Partners(setup, h) : d[n] < d[h] /\ (e \in seen'[n] \/ On(e, h, n)')
  <2>1. /\ hubs[h] = Partners(setup, h) /\ hubs[h] \subseteq Live(h)
        /\ \A n \in hubs[h] : n \in Hub /\ n \in Node
    BY <1>1, PartnersListed DEF Way
  <2>2. NextHops(h, To[e], f) = IF where[h][To[e]] \in hubs[h] \ {f}
                                THEN {where[h][To[e]]}
                                ELSE hubs[h] \ {f}
    BY <1>1, <1>2, <1>7 DEF NextHops
  <2>3. CASE where[h][To[e]] \in hubs[h] \ {f}
    <3>1. PICK n \in hubs[h] \ {f} : n = where[h][To[e]]
      BY <2>3
    <3>2. n \in T
      BY <2>1, <2>2, <3>1 DEF T
    <3>3. On(e, h, n)'
      BY <1>1, <1>4, <1>7, <2>1, <3>1, <3>2
    <3>4. d[n] < d[h]
      BY <1>2, <1>7, <3>1
    <3> QED
      BY <2>1, <3>1, <3>3, <3>4
  <2>4. CASE where[h][To[e]] \notin hubs[h] \ {f}
    <3>1. PICK n \in Partners(setup, h) : d[n] < d[h]
      <4>1. T0 \in setup.invites[To[e]]
        BY <1>1, <1>2, Apart DEF Invited
      <4> QED
        BY <1>1, <1>7, <4>1 DEF Downhill
    <3>2. CASE n = f
      BY <1>3, <1>6, <2>1, <3>1, <3>2
    <3>3. CASE n # f
      <4>1. n \in T
        BY <2>1, <2>2, <2>4, <3>1, <3>3 DEF T
      <4>2. On(e, h, n)'
        BY <1>1, <1>4, <1>7, <2>1, <3>1, <4>1
      <4> QED
        BY <3>1, <4>2
    <3> QED
      BY <3>2, <3>3
  <2> QED
    BY <2>3, <2>4
<1>8. ASSUME NEW k \in Used(setup), k # T0, e \in seen[k]
      PROVE  \E n \in Partners(setup, k) : d[n] < d[k] /\ (e \in seen'[n] \/ On(e, k, n)')
  <2>1. PICK n \in Partners(setup, k) : d[n] < d[k] /\ (e \in seen[n] \/ On(e, k, n))
    BY <1>2, <1>8 DEF Spread
  <2>2. k \in Node /\ n \in Hub /\ n \in Node
    BY <1>1 DEF Used, Partners
  <2>3. e \in seen'[n] \/ On(e, k, n)'
    BY <1>3, <1>4, <2>1, <2>2
  <2> QED
    BY <2>1, <2>3
<1> HIDE DEF d
<1>9. ASSUME NEW k \in Used(setup), k # T0, e \in seen'[k]
      PROVE  \E n \in Partners(setup, k) : d[n] < d[k] /\ (e \in seen'[n] \/ On(e, k, n)')
  <2>1. k \in Hub
    BY DEF Used
  <2> QED
    BY <1>3, <1>7, <1>8, <1>9, <2>1
<1>10. Spread(e, dist)'
  BY <1>2, <1>3, <1>9 DEF Spread, d
<1> QED
  BY <1>5, <1>10

LEMMA TrailsStep ==
  ASSUME TypeOK, Copies, NEW dist, TInv(dist), Downhill(setup, dist[setup]),
         NotMisled(dist), [Next]_vars, setup' = setup
  PROVE  Trails(dist)'
<1> SUFFICES ASSUME NEW e, e \in sent', e \notin roamed' \cup stranded'
             PROVE  Way(e)' /\ Started(e)' /\ Spread(e, dist)'
  BY DEF Trails
<1>1. CASE e \in sent /\ e \notin roamed \cup stranded
  <2>1. /\ e \in Env /\ Way(e) /\ Started(e) /\ Spread(e, dist) /\ Peered /\ Invited
        /\ Settled(e)
    BY <1>1 DEF TypeOK, TInv, Trails, Way
  <2>2. /\ Way(e)'
        /\ at'[From[e]] = at[From[e]] /\ at'[To[e]] = at[To[e]]
        /\ \/ Stays(e)
           \/ \E f \in Node, h \in Hub :
                Forward(f, h) /\ Head(chan[<<f, h>>]) = Envelope(e)
    BY <1>1, <2>1, WayStep
  <2>3. CASE Stays(e)
    <3>1. /\ From[e] \in Node /\ at[From[e]] \in Hub
          /\ \A h \in Hub : h \in Node
      BY <2>1, EndsAtHubs, Apart
    <3>2. PICK F0 \in Hub : F0 = at[From[e]]
      BY <3>1
    <3>3. /\ On(e, From[e], F0)' <=> On(e, From[e], F0)
          /\ \A f, h \in Hub : On(e, f, h)' <=> On(e, f, h)
          /\ \A h \in Hub : e \in seen'[h] <=> e \in seen[h]
      BY <2>3, <3>1 DEF Stays
    <3>4. Started(e)'
      BY <2>1, <2>2, <3>2, <3>3 DEF Started
    <3>5. \A h \in Used(setup) : h \in Hub /\ \A n \in Partners(setup, h) : n \in Hub
      BY DEF Used, Partners
    <3>6. Spread(e, dist)'
      BY <2>1, <2>2, <3>3, <3>5 DEF Spread
    <3> QED
      BY <2>2, <3>4, <3>6
  <2>4. ASSUME NEW f \in Node, NEW h \in Hub, Forward(f, h),
               Head(chan[<<f, h>>]) = Envelope(e)
        PROVE  Started(e)' /\ Spread(e, dist)'
    <3>1. h # at[To[e]] /\ e \notin seen[h] /\ where[h][To[e]] \in hubs[h] =>
            dist[setup][at[To[e]]][where[h][To[e]]] < dist[setup][at[To[e]]][h]
      BY <1>1 DEF NotMisled
    <3> QED
      BY <2>1, <2>4, <3>1, ForwardSpread
  <2> QED
    BY <2>2, <2>3, <2>4
<1>2. CASE ~(e \in sent /\ e \notin roamed \cup stranded)
  <2>1. Post(e) /\ e \in Env
    BY <1>2, Fresh
  <2>2. /\ Way(e)' /\ On(e, From[e], at[From[e]])'
        /\ \A h \in Hub : e \notin seen'[h]
    BY <2>1, PostWay
  <2>3. \A h \in Used(setup') : h \in Hub
    BY DEF Used
  <2> QED
    BY <2>2, <2>3 DEF Started, Spread
<1> QED
  BY <1>1, <1>2

LEMMA SetupKept == ASSUME [Next]_vars PROVE setup' = setup
<1> USE DEF tables, net, history
<1>1. CASE Receive
  BY <1>1 DEF Receive, ReadGossip, Forward, SpokeGossip, Deliver, ReadPresence
<1>2. CASE \E a, b \in Hub : AcceptPeer(a, b) \/ DialPeer(a, b) \/ Cut(a, b) \/ DropPeer(a, b)
  BY <1>2 DEF AcceptPeer, DialPeer, Cut, DropPeer
<1>3. CASE \/ \E h \in Hub : Restart(h)
           \/ \E p \in Spoke, h \in Hub : Connect(p, h) \/ Drop(p, h)
           \/ \E p \in Spoke : Leave(p)
           \/ \E e \in Env : Post(e)
           \/ UNCHANGED vars
  BY <1>3 DEF Restart, Connect, Drop, Leave, Post, vars
<1> QED
  BY <1>1, <1>2, <1>3 DEF Next

\* Once everything is read, some hub of those that have the envelope is nearest to
\* the addressee, and only the addressee's own hub can be that.
LEMMA NearestHasIt ==
  ASSUME TypeOK, Invited, Quiet, NEW e \in Env, Way(e), Started(e),
         NEW dist \in [Setups -> [Hub -> [Hub -> Nat]]], Spread(e, dist)
  PROVE  arrived[e] > 0
<1>1. /\ From[e] \in Spoke /\ To[e] \in Spoke
      /\ at[From[e]] \in Hub /\ at[To[e]] \in Hub
      /\ at[From[e]] \in Used(setup)
  <2>1. /\ From[e] \in Spoke /\ To[e] \in Spoke
        /\ at[From[e]] \in Hub /\ at[To[e]] \in Hub
    BY EndsAtHubs DEF Way
  <2> QED
    BY <2>1, Apart DEF Invited, Used
<1>2. \A a, b \in Node : ~On(e, a, b)
  <2> TAKE a, b \in Node
  <2>1. <<a, b>> \in Node \X Node
    OBVIOUS
  <2>2. chan[<<a, b>>] = <<>>
    BY <2>1 DEF Quiet
  <2> QED
    BY <2>2, NoFrames DEF On
<1> DEFINE d == dist[setup][at[To[e]]]
           V == {h \in Used(setup) : e \in seen[h]}
           I == {d[h] : h \in V}
<1>3. V \subseteq Hub /\ at[From[e]] \in V
  <2>1. e \in seen[at[From[e]]]
    BY <1>1, <1>2, Apart DEF Started
  <2> QED
    BY <1>1, <2>1 DEF Used
<1>4. d \in [Hub -> Nat]
  BY <1>1 DEF TypeOK
<1>5. PICK x \in I : \A y \in I : ~(y < x)
  <2>1. I \in SUBSET Nat
    BY <1>3, <1>4
  <2>2. I # {}
    BY <1>3
  <2> HIDE DEF I
  <2> QED
    BY <2>1, <2>2, SmallestOf
<1>6. PICK h \in V : d[h] = x
  BY <1>5
<1>7. h = at[To[e]]
  <2> SUFFICES ASSUME h # at[To[e]] PROVE FALSE
    OBVIOUS
  <2>1. PICK n \in Partners(setup, h) : d[n] < d[h] /\ (e \in seen[n] \/ On(e, h, n))
    BY <1>6 DEF Spread
  <2>2. n \in Hub /\ h \in Hub /\ n \in Used(setup)
    BY <1>3 DEF Partners, Used
  <2>3. e \in seen[n]
    BY <1>2, <2>1, <2>2, Apart
  <2>4. d[n] \in I
    BY <2>2, <2>3
  <2> QED
    BY <1>5, <1>6, <2>1, <2>4
<1> QED
  BY <1>1, <1>2, <1>6, <1>7, Apart DEF Way, Relayed

\* In a federation of any shape of which the hubs in use are connected, only an
\* envelope that some hub's location table sends the wrong way gets lost: if the
\* peers that the tables name are always nearer to the addressee's hub, whatever
\* distance between hubs one takes, then forward() and its flooding bring each
\* envelope to its addressee.
THEOREM OnlyTheMisledGetLost ==
  ASSUME NEW dist \in [Setups -> [Hub -> [Hub -> Nat]]],
         \A s \in Setups : Downhill(s, dist[s])
  PROVE  Spec /\ []NotMisled(dist) => []DeliveredAtRest
<1>1. Init => TInv(dist)
  <2> SUFFICES ASSUME Init PROVE TInv(dist)
    OBVIOUS
  <2>1. /\ \A h \in Hub : hubs[h] = {}
        /\ \A p \in Spoke : at[p] = None
        /\ sent = {}
    BY DEF Init
  <2> QED
    BY <2>1 DEF TInv, Peered, Invited, Trails
<1>2. IInv /\ TInv(dist) /\ NotMisled(dist) /\ [Next]_vars => TInv(dist)'
  <2> SUFFICES ASSUME IInv, TInv(dist), NotMisled(dist), [Next]_vars
               PROVE  TInv(dist)'
    OBVIOUS
  <2>1. TypeOK /\ Copies /\ Peered /\ Invited
    BY DEF IInv, TInv
  <2>2. Downhill(setup, dist[setup]) /\ setup' = setup
    BY <2>1, SetupKept DEF TypeOK
  <2>3. Peered' /\ Invited'
    BY <2>1, PeeredStep, InvitedStep
  <2>4. Trails(dist)'
    BY <2>1, <2>2, TrailsStep
  <2> QED
    BY <2>3, <2>4 DEF TInv
<1>3. IInv /\ TInv(dist) => DeliveredAtRest
  <2> SUFFICES ASSUME IInv, TInv(dist), Quiet, NEW e \in sent \ (roamed \cup stranded)
               PROVE  arrived[e] > 0
    BY DEF DeliveredAtRest
  <2>1. /\ TypeOK /\ Invited /\ e \in Env
        /\ Way(e) /\ Started(e) /\ Spread(e, dist)
    BY DEF IInv, TypeOK, TInv, Trails
  <2> QED
    BY <2>1, NearestHasIt
<1> QED
  BY <1>1, <1>2, <1>3, Invariant, PTL DEF Spec
===============================================================================
