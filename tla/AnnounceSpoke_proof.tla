--------------------------- MODULE AnnounceSpoke_proof ---------------------------
(***************************************************************************)
(* What a spoke makes of the invites it is shown: everything in its cache  *)
(* is a hub it can name, under one entry for each key, and a short code    *)
(* leads to the hub it was printed for or, when nobody has that hub under  *)
(* that code, nowhere.  It rests on what hubs show (Announce_proof).       *)
(***************************************************************************)
EXTENDS Announce_proof

LEMMA MaxIsGreatest ==
  ASSUME NEW n \in Nat, NEW I \in SUBSET (1..n), I # {}
  PROVE  Max(I) \in I
<1> DEFINE J == {n - i : i \in I}
<1>1. J \in SUBSET Nat /\ J # {}
  <2>1. \A i \in I : n - i \in Nat
    OBVIOUS
  <2> QED
    BY <2>1
<1>2. PICK j \in J : \A k \in J : j =< k
  BY <1>1, HasLeast
<1>3. PICK x \in I : j = n - x
  OBVIOUS
<1>4. \A y \in I : n - y \in J
  OBVIOUS
<1>5. ASSUME NEW y \in I PROVE x >= y
  <2>1. n - x =< n - y
    BY <1>2, <1>3, <1>4
  <2> QED
    BY <2>1
<1> QED
  BY <1>5 DEF Max

-----------------------------------------------------------------------------
(* What a text decodes to                                                  *)

\* An entry's fields, and one entry for each key.
LEMMA EntryIsLocator ==
  ASSUME NEW inv \in InviteType
  PROVE  Entry(inv) \in Locator
BY DEF Entry, InviteType, Locator

LEMMA PayloadIsInvite ==
  ASSUME NEW inv \in InviteType
  PROVE  Payload(inv) \in InviteType /\ Payload(inv) # None
<1>1. CutName(inv.name) \in Seq(STRING)
  BY CutOnce DEF InviteType
<1>2. Unspecified \in V6
  BY AddressAssumption DEF V6, Kinds6
<1>3. Payload(inv) \in InviteType
  BY <1>1, <1>2, InviteAssumption DEF Payload, InviteType, Version
<1> QED
  BY <1>3, AnnounceAssumption

\* Two invites of one payload lead to the same hub, and the other way round
\* when they expire together.
LEMMA SamePayload ==
  ASSUME NEW a \in InviteType, NEW b \in InviteType
  PROVE  /\ Payload(a) = Payload(b) => SameHub(a, b)
         /\ SameHub(a, b) /\ a.expiry = b.expiry => Payload(a) = Payload(b)
<1> DEFINE v6(x) == IF x.v6 = None THEN Unspecified ELSE x.v6
<1>1. \A x \in InviteType : x.v4 \in V4 \/ x.v4 = None
  BY DEF InviteType
<1>2. /\ Payload(a) = [version |-> Version, key |-> a.key, v6 |-> v6(a),
                       v4 |-> a.v4, port |-> Port(a), expiry |-> a.expiry,
                       name |-> CutName(a.name), seed |-> a.seed]
      /\ Payload(b) = [version |-> Version, key |-> b.key, v6 |-> v6(b),
                       v4 |-> b.v4, port |-> Port(b), expiry |-> b.expiry,
                       name |-> CutName(b.name), seed |-> b.seed]
  BY <1>1 DEF Payload, Port
<1>3. (v6(a) = v6(b)) <=>
        ((IF a.v6 = Unspecified THEN None ELSE a.v6)
           = (IF b.v6 = Unspecified THEN None ELSE b.v6))
  BY AddressAssumption
<1>4. SameHub(a, b) <=>
        /\ a.key = b.key /\ v6(a) = v6(b) /\ a.v4 = b.v4 /\ Port(a) = Port(b)
        /\ a.seed = b.seed /\ CutName(a.name) = CutName(b.name)
  BY <1>3 DEF SameHub
<1> HIDE DEF v6
<1> QED
  BY <1>2, <1>4

\* What is known to a resolver: invites, and None for entries without one.
LEMMA InvitesAreInvites ==
  ASSUME NEW s \in Seq(Locator)
  PROVE  InvitesOf(s) \in Seq({None} \cup InviteType)
<1> DEFINE Known == {None} \cup InviteType
<1>1. ASSUME NEW i \in DOMAIN s PROVE InvitesOf(s)[i] \in Known
  <2>1. s[i] \in Locator
    BY ElementOfSeq
  <2> QED
    BY <2>1 DEF InvitesOf, Locator, InviteType, Version
<1>2. DOMAIN s = 1..Len(s) /\ Len(s) \in Nat
  OBVIOUS
<1>3. InvitesOf(s) = [i \in 1..Len(s) |-> InvitesOf(s)[i]]
  BY <1>2 DEF InvitesOf
<1> HIDE DEF Known
<1>4. InvitesOf(s) \in Seq(Known)
  BY <1>1, <1>2, <1>3, IsASeq
<1> QED
  BY <1>4 DEF Known

LEMMA ResolvableAreInvites ==
  ASSUME NEW c \in Seq(Locator)
  PROVE  /\ Resolvable(c) \in Seq({None} \cup InviteType)
         /\ DOMAIN Resolvable(c) = 1..Len(Resolvable(c))
         /\ Len(Resolvable(c)) \in Nat
<1> DEFINE Known == {None} \cup InviteType
<1>1. InvitesOf(c) \in Seq(Known) /\ InvitesOf(Community) \in Seq(Known)
  BY InvitesAreInvites, AnnounceAssumption
<1> HIDE DEF Known
<1>2. Resolvable(c) \in Seq(Known)
  BY <1>1 DEF Resolvable
<1> QED
  BY <1>2 DEF Known

\* LookupTable() finds an invite of that code.
LEMMA LookupFinds ==
  ASSUME NEW c \in Seq(Locator), NEW code
  PROVE  LET found == Lookup(Resolvable(c), code)
             hit(x) == x # None /\ ShortCode(x) = code
         IN  /\ found # None => found \in InviteType /\ hit(found)
             /\ (\E i \in DOMAIN Resolvable(c) : hit(Resolvable(c)[i])) => found # None
<1> DEFINE invs == Resolvable(c)
           hits == {i \in DOMAIN invs : invs[i] # None /\ ShortCode(invs[i]) = code}
<1>1. /\ \A i \in DOMAIN invs : invs[i] = None \/ invs[i] \in InviteType
      /\ DOMAIN invs = 1..Len(invs) /\ Len(invs) \in Nat
  BY ResolvableAreInvites, ElementOfSeq
<1>2. Lookup(invs, code) = IF hits = {} THEN None ELSE invs[Max(hits)]
  BY DEF Lookup
<1>3. hits # {} => Max(hits) \in hits
  BY <1>1, MaxIsGreatest
<1>4. \A i \in hits : invs[i] # None /\ ShortCode(invs[i]) = code
                      /\ invs[i] \in InviteType
  BY <1>1
<1>5. (\E i \in DOMAIN invs : invs[i] # None /\ ShortCode(invs[i]) = code)
        => hits # {}
  OBVIOUS
<1> HIDE DEF invs, hits
<1> QED
  BY <1>2, <1>3, <1>4, <1>5 DEF invs

\* A text that was shown decodes to an invite or not at all.
LEMMA DecodedIsInvite ==
  ASSUME Encoded, NEW text \in ShownTexts, NEW c \in Seq(Locator)
  PROVE  Decode(text, Resolvable(c)) \in {None} \cup InviteType
<1>1. PICK inv \in shown : text = Blob(inv) \/ text = ShortCode(inv)
  BY DEF ShownTexts
<1>2. inv \in InviteType /\ ~Refused(inv)
  BY DEF Encoded
<1>3. CASE text = Blob(inv)
  <2> DEFINE body == Payload(inv)
             v6 == IF body.v6 = Unspecified THEN None ELSE body.v6
  <2>1. text.type = "blob" /\ text.body = body
    BY <1>2, <1>3 DEF Blob, Marshal
  <2>2. body \in InviteType
    BY <1>2, PayloadIsInvite
  <2>3. Unmarshal(body) = None \/ Unmarshal(body) = [body EXCEPT !.v6 = v6]
    BY DEF Unmarshal
  <2> HIDE DEF body
  <2>4. [body EXCEPT !.v6 = v6] \in InviteType
    BY <2>2 DEF InviteType
  <2> QED
    BY <2>1, <2>3, <2>4 DEF Decode
<1>4. CASE text = ShortCode(inv)
  <2>1. Decode(text, Resolvable(c)) = Lookup(Resolvable(c), text)
    BY <1>4 DEF Decode, ShortCode
  <2> QED
    BY <2>1, LookupFinds
<1> QED
  BY <1>1, <1>3, <1>4

-----------------------------------------------------------------------------
(* The cache and the dials                                                 *)

OneForEachKey(c) == \A i, j \in DOMAIN c : c[i].key = c[j].key => i = j

LEMMA Remembers ==
  ASSUME NEW c \in Seq(Locator), OneForEachKey(c), NEW entry \in Locator
  PROVE  Remember(c, entry) \in Seq(Locator) /\ OneForEachKey(Remember(c, entry))
<1> DEFINE e == [entry EXCEPT !.port = Port(entry)]
<1>1. e \in Locator /\ e.key = entry.key
  BY InviteAssumption DEF Locator, Port
<1>2. Remember(c, entry) = IF \E i \in DOMAIN c : c[i].key = e.key
                           THEN [i \in DOMAIN c |-> IF c[i].key = e.key THEN e ELSE c[i]]
                           ELSE Append(c, e)
  BY DEF Remember
<1>3. /\ \A i \in DOMAIN c : c[i] \in Locator
      /\ DOMAIN c = 1..Len(c) /\ Len(c) \in Nat
  BY ElementOfSeq
<1> HIDE DEF e
<1>4. CASE \E i \in DOMAIN c : c[i].key = e.key
  <2> DEFINE new == [i \in 1..Len(c) |-> IF c[i].key = e.key THEN e ELSE c[i]]
  <2>1. Remember(c, entry) = new
    BY <1>2, <1>3, <1>4
  <2>2. \A i \in 1..Len(c) : (IF c[i].key = e.key THEN e ELSE c[i]) \in Locator
    BY <1>1, <1>3
  <2>3. new \in Seq(Locator)
    BY <1>3, <2>2, IsASeq
  <2>4. DOMAIN new = DOMAIN c /\ \A i \in DOMAIN c : new[i].key = c[i].key
    BY <1>3
  <2> HIDE DEF new
  <2>5. OneForEachKey(new)
    BY <2>4 DEF OneForEachKey
  <2> QED
    BY <2>1, <2>3, <2>5
<1>5. CASE ~ \E i \in DOMAIN c : c[i].key = e.key
  <2>1. Remember(c, entry) = Append(c, e)
    BY <1>2, <1>5
  <2>2. Append(c, e) \in Seq(Locator)
    BY <1>1
  <2>3. /\ DOMAIN Append(c, e) = 1..(Len(c) + 1)
        /\ \A i \in 1..Len(c) : Append(c, e)[i] = c[i]
        /\ Append(c, e)[Len(c) + 1] = e
    BY <1>1
  <2>4. OneForEachKey(Append(c, e))
    BY <1>3, <1>5, <2>3 DEF OneForEachKey
  <2> QED
    BY <2>1, <2>2, <2>4
<1> QED
  BY <1>4, <1>5

\* What is dialled has an address and a port.
LEMMA AttemptsAreAttempts ==
  ASSUME NEW e \in Locator
  PROVE  Attempts(e) \in Seq(Attempt)
<1>1. Port(e) \in Nat \ {0}
  BY InviteAssumption DEF Port, Locator
<1>2. (e.v6 = None \/ e.v6 \in Addr) /\ (e.v4 = None \/ e.v4 \in Addr)
  BY DEF Locator, V6, V4
<1>3. ASSUME NEW ip \in Addr
      PROVE  <<[net |-> "quic", ip |-> ip, port |-> Port(e)],
               [net |-> "tcp", ip |-> ip, port |-> Port(e)]>> \in Seq(Attempt)
  BY <1>1 DEF Attempt
<1> QED
  BY <1>2, <1>3 DEF Attempts

-----------------------------------------------------------------------------
(* The invariant                                                           *)

TextsOK == texts \in Seq(ShownTexts) /\ unread \in Seq(ShownTexts)

CacheOK == cache \in Seq(Locator) /\ OneForEachKey(cache)

DialsOK == cands \in SUBSET Locator /\ (dial = None \/ dial \in DialType)

BoundsOK == runs \in 0..MaxRun /\ moves \in 0..MaxMove

SInv == TextsOK /\ CacheOK /\ DialsOK /\ BoundsOK

LEMMA SpokeInitially == Init => SInv
<1>1. ASSUME NEW S PROVE <<>> \in Seq(S)
  OBVIOUS
<1> QED
  BY <1>1, AnnounceAssumption
     DEF Init, SInv, TextsOK, CacheOK, DialsOK, BoundsOK, OneForEachKey

LEMMA MoreTexts ==
  ASSUME TextsOK, shown \subseteq shown', UNCHANGED <<texts, unread>>
  PROVE  TextsOK'
<1>1. ShownTexts \subseteq ShownTexts'
  BY DEF ShownTexts
<1>2. ASSUME NEW s \in Seq(ShownTexts) PROVE s \in Seq(ShownTexts')
  <2>1. /\ \A i \in 1..Len(s) : s[i] \in ShownTexts'
        /\ Len(s) \in Nat /\ s = [i \in 1..Len(s) |-> s[i]]
    BY <1>1, ElementOfSeq
  <2> QED
    BY <2>1, IsASeq
<1> QED
  BY <1>2 DEF TextsOK

\* The steps of hubs and operators leave the spoke alone.
LEMMA WorldStep ==
  ASSUME SInv, UNCHANGED spoke, shown \subseteq shown', BoundsOK'
  PROVE  SInv'
BY MoreTexts DEF SInv, spoke, CacheOK, DialsOK, OneForEachKey

\* And those of the spoke leave the world alone.
LEMMA SpokeStep ==
  ASSUME IInv, SInv, UNCHANGED world,
         \/ \E text \in ShownTexts : AddInvite(text)
         \/ Candidates \/ ReadText
         \/ \E e \in cands : StartDial(e)
         \/ \E m \in Machine : Connect(m)
         \/ DialFails \/ NextCandidate
  PROVE  SInv'
<1> USE DEF SInv
<1>1. BoundsOK' /\ ShownTexts' = ShownTexts
  BY DEF world, BoundsOK, ShownTexts
<1>2. UNCHANGED <<texts, unread>> => TextsOK'
  BY <1>1 DEF TextsOK
<1>3. UNCHANGED cache => CacheOK'
  BY DEF CacheOK, OneForEachKey
<1>4. UNCHANGED <<cands, dial>> => DialsOK'
  BY DEF DialsOK
<1>5. ASSUME NEW text \in ShownTexts, AddInvite(text) PROVE SInv'
  <2>1. TextsOK'
    BY <1>1, <1>5 DEF AddInvite, TextsOK
  <2> QED
    BY <2>1, <1>1, <1>3, <1>4, <1>5 DEF AddInvite
<1>6. CASE Candidates
  <2>1. TextsOK'
    BY <1>1, <1>6 DEF Candidates, TextsOK
  <2>2. \A s \in Seq(Locator) : Range(s) \subseteq Locator
    BY ElementOfSeq DEF Range
  <2>3. DialsOK'
    BY <1>6, <2>2, AnnounceAssumption DEF Candidates, DialsOK, CacheOK
  <2> QED
    BY <2>1, <2>3, <1>1, <1>3, <1>6 DEF Candidates
<1>7. CASE ReadText
  <2> DEFINE text == Head(unread)
             inv == Decode(text, Resolvable(cache))
  <2>1. unread # <<>> /\ unread' = Tail(unread) /\ texts' = texts /\ dial' = dial
    BY <1>7 DEF ReadText
  <2>2. text \in ShownTexts /\ Tail(unread) \in Seq(ShownTexts)
    BY <2>1 DEF TextsOK
  <2>3. TextsOK'
    BY <1>1, <2>1, <2>2 DEF TextsOK
  <2>4. inv \in {None} \cup InviteType
    BY <2>2, DecodedIsInvite DEF IInv, CacheOK
  <2>5. \/ UNCHANGED <<cache, cands>>
        \/ /\ inv # None /\ cache' = Remember(cache, Entry(inv))
           /\ cands' = cands \cup {Entry(inv)}
    BY <1>7 DEF ReadText
  <2> HIDE DEF inv
  <2>6. CASE UNCHANGED <<cache, cands>>
    BY <2>6, <2>1, <2>3, <1>1, <1>3, <1>4
  <2>7. CASE /\ inv # None /\ cache' = Remember(cache, Entry(inv))
             /\ cands' = cands \cup {Entry(inv)}
    <3>1. Entry(inv) \in Locator
      BY <2>4, <2>7, EntryIsLocator
    <3>2. CacheOK'
      BY <3>1, <2>7, Remembers DEF CacheOK
    <3>3. DialsOK'
      BY <3>1, <2>1, <2>7 DEF DialsOK
    <3> QED
      BY <3>2, <3>3, <2>3, <1>1
  <2> QED
    BY <2>5, <2>6, <2>7
<1>8. ASSUME NEW e \in cands, StartDial(e) PROVE SInv'
  <2> DEFINE d == [entry |-> e, todo |-> Attempts(e), left |-> DialTimeout]
  <2>1. cands' = cands \ {e} /\ dial' = d /\ UNCHANGED <<texts, unread, cache>>
    BY <1>8 DEF StartDial
  <2>2. e \in Locator
    BY DEF DialsOK
  <2>3. d \in DialType
    BY <2>2, AttemptsAreAttempts DEF DialType, DialTimeout
  <2> HIDE DEF d
  <2>4. DialsOK'
    BY <2>1, <2>3 DEF DialsOK
  <2> QED
    BY <2>1, <2>4, <1>1, <1>2, <1>3
<1>9. ASSUME NEW m \in Machine, Connect(m) PROVE SInv'
  <2> DEFINE entry == [dial.entry EXCEPT !.name = hub[m].inv.name,
                                         !.seed = hub[m].inv.seed]
  <2>1. /\ UNCHANGED <<texts, unread>> /\ dial' = None
        /\ dial # None /\ dial.todo # <<>>
        /\ Answers(m, Head(dial.todo))
        /\ \/ cands' = {} /\ cache' = Remember(cache, entry)
           \/ UNCHANGED <<cands, cache>>
    BY <1>9 DEF Connect
  <2>2. dial.entry \in Locator
    BY <2>1 DEF DialsOK, DialType
  <2>3. hub[m].inv \in InviteType
    BY <2>1 DEF Answers, IInv, HubsOK, HubType
  <2>4. entry \in Locator
    BY <2>2, <2>3 DEF Locator, InviteType
  <2> HIDE DEF entry
  <2>5. DialsOK'
    BY <2>1 DEF DialsOK
  <2>6. CacheOK'
    BY <2>1, <2>4, <1>3, Remembers DEF CacheOK
  <2> QED
    BY <2>1, <2>5, <2>6, <1>1, <1>2
<1>10. CASE DialFails
  <2> DEFINE a == Head(dial.todo)
             waits == {dial.left, IF a.net = "quic" THEN HandshakeTimeout
                                                    ELSE DialTimeout}
             silent == Min(waits)
  <2>1. /\ dial # None /\ dial.todo # <<>>
        /\ \E t \in {0, silent} :
             dial' = [dial EXCEPT !.todo = Tail(@), !.left = @ - t]
        /\ UNCHANGED <<texts, unread, cache, cands>>
    BY <1>10 DEF DialFails
  <2>2. dial \in DialType
    BY <2>1 DEF DialsOK
  <2>3. silent \in Nat /\ silent =< dial.left
    <3>1. dial.left \in Nat /\ HandshakeTimeout \in Nat /\ DialTimeout \in Nat
      BY <2>2 DEF DialType, DialTimeout, HandshakeTimeout
    <3>2. waits \in SUBSET Nat /\ dial.left \in waits
      BY <3>1
    <3> HIDE DEF waits
    <3> QED
      BY <3>2, MinIsLeast
  <2> HIDE DEF silent
  <2>4. PICK t \in {0, silent} :
          dial' = [dial EXCEPT !.todo = Tail(@), !.left = @ - t]
    BY <2>1
  <2>5. Tail(dial.todo) \in Seq(Attempt) /\ dial.left - t \in 0..DialTimeout
    <3>1. dial.todo \in Seq(Attempt) /\ dial.left \in 0..DialTimeout /\ DialTimeout \in Nat
      BY <2>2 DEF DialType, DialTimeout
    <3>2. Tail(dial.todo) \in Seq(Attempt)
      BY <2>1, <3>1, HeadTailProperties
    <3>3. t \in Nat /\ t =< dial.left
      BY <2>3, <3>1
    <3> QED
      BY <3>1, <3>2, <3>3
  <2>6. dial' \in DialType
    BY <2>2, <2>4, <2>5 DEF DialType
  <2>7. DialsOK'
    BY <2>1, <2>6 DEF DialsOK
  <2> QED
    BY <2>1, <2>7, <1>1, <1>2, <1>3
<1>11. CASE NextCandidate
  <2>1. DialsOK'
    BY <1>11 DEF NextCandidate, DialsOK
  <2> QED
    BY <2>1, <1>1, <1>2, <1>3, <1>11 DEF NextCandidate
<1> QED
  BY <1>5, <1>6, <1>7, <1>8, <1>9, <1>10, <1>11

LEMMA SpokeInvariantStep == IInv /\ SInv /\ [Next]_vars => SInv'
<1> SUFFICES ASSUME IInv, SInv, [Next]_vars PROVE SInv'
  OBVIOUS
<1>1. UNCHANGED <<runs, moves>> => BoundsOK'
  BY DEF SInv, BoundsOK
<1>2. MaxRun \in Nat /\ MaxMove \in Nat
  BY AnnounceAssumption
<1>3. ASSUME NEW m \in Machine, NEW cmd \in Commands[m], Run(m, cmd) PROVE SInv'
  <2>1. BoundsOK'
    BY <1>2, <1>3 DEF Run, SInv, BoundsOK
  <2> QED
    BY <2>1, <1>3, WorldStep DEF Run
<1>4. ASSUME NEW m \in Machine, PrintInvite(m) PROVE SInv'
  <2>1. shown \subseteq shown' /\ UNCHANGED <<spoke, runs, moves>>
    BY <1>4 DEF PrintInvite
  <2> QED
    BY <2>1, <1>1, WorldStep
<1>5. ASSUME NEW m \in Machine, Stop(m) PROVE SInv'
  BY <1>1, <1>5, WorldStep DEF Stop
<1>6. ASSUME NEW m \in Machine, NEW h \in Range(Hosts[m]), Move(m, h) PROVE SInv'
  <2>1. BoundsOK'
    BY <1>2, <1>6 DEF Move, SInv, BoundsOK
  <2> QED
    BY <2>1, <1>6, WorldStep DEF Move
<1>7. ASSUME NEW inv \in ByHand, EncodeByHand(inv) PROVE SInv'
  <2>1. shown \subseteq shown' /\ UNCHANGED <<spoke, runs, moves>>
    BY <1>7 DEF EncodeByHand
  <2> QED
    BY <2>1, <1>1, WorldStep
<1>8. ASSUME NEW inv \in shown, AddInvite(Blob(inv)) \/ AddInvite(ShortCode(inv))
      PROVE  SInv'
  <2>1. Blob(inv) \in ShownTexts /\ ShortCode(inv) \in ShownTexts
    BY DEF ShownTexts
  <2>2. UNCHANGED world
    BY <1>8 DEF AddInvite
  <2> QED
    BY <2>1, <2>2, <1>8, SpokeStep
<1>9. CASE Candidates
  BY <1>9, SpokeStep DEF Candidates
<1>10. CASE ReadText
  BY <1>10, SpokeStep DEF ReadText
<1>11. ASSUME NEW e \in cands, StartDial(e) PROVE SInv'
  BY <1>11, SpokeStep DEF StartDial
<1>12. ASSUME NEW m \in Machine, Connect(m) PROVE SInv'
  BY <1>12, SpokeStep DEF Connect
<1>13. CASE DialFails
  BY <1>13, SpokeStep DEF DialFails
<1>14. CASE NextCandidate
  BY <1>14, SpokeStep DEF NextCandidate
<1>15. CASE UNCHANGED vars
  BY <1>15, <1>1, WorldStep DEF vars, world
<1> QED
  BY <1>3, <1>4, <1>5, <1>6, <1>7, <1>8, <1>9, <1>10, <1>11, <1>12, <1>13,
     <1>14, <1>15 DEF Next

LEMMA SpokeInvariant == Spec => [](IInv /\ SInv)
BY Initially, Step, SpokeInitially, SpokeInvariantStep, PTL DEF Spec


-----------------------------------------------------------------------------
(* What follows                                                            *)

\* hub/spoke.go: candidates, dialHub, hub/cache.go: Remember.  The cache keeps
\* one entry for each key, and whatever texts resolve to can be dialled.
THEOREM TypeCorrect == Spec => []TypeOK
<1>1. IInv /\ SInv => TypeOK
  <2> SUFFICES ASSUME IInv, SInv PROVE TypeOK
    OBVIOUS
  <2>1. \A m \in Machine : host[m] \in Host /\ (hub[m] = None \/ hub[m] \in HubType)
    BY HostsAreHosts DEF IInv, HubsOK
  <2>2. shown \subseteq InviteType
    BY DEF IInv, Encoded
  <2>3. \A i, j \in DOMAIN cache : cache[i].key = cache[j].key => i = j
    BY DEF SInv, CacheOK, OneForEachKey
  <2> QED
    BY <2>1, <2>2, <2>3 DEF TypeOK, SInv, TextsOK, CacheOK, DialsOK, BoundsOK
<1> QED
  BY <1>1, SpokeInvariant, PTL

\* hub/spoke.go: combineResolvers, invite/codec.go: LookupTable.  Whatever a
\* spoke's cache holds, a short code leads to the hub it was printed for, at the
\* addresses it was printed with, or nowhere.
THEOREM CodeNamesOneHubHolds == Spec => []CodeNamesOneHub
<1>1. IInv /\ SInv => CodeNamesOneHub
  <2> SUFFICES ASSUME IInv, SInv, NEW inv \in shown,
                      Decode(ShortCode(inv), Resolvable(cache)) # None
               PROVE  SameHub(Decode(ShortCode(inv), Resolvable(cache)), inv)
    BY DEF CodeNamesOneHub
  <2> DEFINE found == Lookup(Resolvable(cache), ShortCode(inv))
  <2>1. Decode(ShortCode(inv), Resolvable(cache)) = found
    BY DEF Decode, ShortCode
  <2>2. found \in InviteType /\ ShortCode(found) = ShortCode(inv)
    BY <2>1, LookupFinds DEF SInv, CacheOK
  <2>3. inv \in InviteType /\ Marshal(inv) = Payload(inv)
    BY DEF IInv, Encoded, Marshal
  <2> HIDE DEF found
  <2>4. Marshal(found) = Payload(inv)
    BY <2>2, <2>3 DEF ShortCode
  <2>5. Payload(found) = Payload(inv)
    BY <2>3, <2>4, PayloadIsInvite DEF Marshal
  <2> QED
    BY <2>1, <2>2, <2>3, <2>5, SamePayload
<1> QED
  BY <1>1, SpokeInvariant, PTL

\* hub/cache.go: CachedHub.Invite, hub/spoke.go: combineResolvers.  The code of an
\* invite without an expiry resolves for every spoke that knows its hub, from the
\* cache or from the community list, as it was when the code was printed.
THEOREM UndatedCodeResolvesHolds == Spec => []UndatedCodeResolves
<1>1. IInv /\ SInv => UndatedCodeResolves
  <2> SUFFICES ASSUME IInv, SInv, NEW inv \in shown, inv.expiry = 0,
                      NEW e \in Range(cache) \cup Range(Community),
                      SameHub(e, inv), e.v6 # None \/ e.seed
               PROVE  Decode(ShortCode(inv), Resolvable(cache)) # None
    BY DEF UndatedCodeResolves
  <2> DEFINE R == Resolvable(cache)
             x == [version |-> Version, key |-> e.key, v6 |-> e.v6, v4 |-> e.v4,
                   port |-> e.port, expiry |-> 0, name |-> e.name, seed |-> e.seed]
  <2>1. cache \in Seq(Locator) /\ Community \in Seq(Locator)
    BY AnnounceAssumption DEF SInv, CacheOK
  <2>2. e \in Locator
    BY <2>1, ElementOfSeq DEF Range
  <2>3. \E i \in DOMAIN R : R[i] = x
    <3>1. ASSUME NEW s \in Seq(Locator), e \in Range(s)
          PROVE  /\ Len(InvitesOf(s)) = Len(s)
                 /\ \E i \in 1..Len(s) : InvitesOf(s)[i] = x
      <4>1. PICK i \in DOMAIN s : s[i] = e
        BY <3>1 DEF Range
      <4>2. InvitesOf(s)[i] = x
        BY <4>1 DEF InvitesOf
      <4> QED
        BY <4>1, <4>2 DEF InvitesOf
    <3> HIDE DEF x
    <3> DEFINE A == InvitesOf(cache)
               B == InvitesOf(Community)
    <3>2. A \in Seq({None} \cup InviteType) /\ B \in Seq({None} \cup InviteType)
      BY <2>1, InvitesAreInvites
    <3> HIDE DEF A, B
    <3>3. /\ DOMAIN (A \o B) = 1..(Len(A) + Len(B))
          /\ \A i \in 1..Len(A) : (A \o B)[i] = A[i]
          /\ \A i \in 1..Len(B) : (A \o B)[Len(A) + i] = B[i]
          /\ Len(A) \in Nat /\ Len(B) \in Nat
      BY <3>2, ConcatProperties
    <3>4. ASSUME NEW i \in 1..Len(A), A[i] = x
         PROVE  \E j \in DOMAIN (A \o B) : (A \o B)[j] = x
      BY <3>3, <3>4
    <3>5. ASSUME NEW i \in 1..Len(B), B[i] = x
         PROVE  \E j \in DOMAIN (A \o B) : (A \o B)[j] = x
      <4>1. Len(A) + i \in 1..(Len(A) + Len(B))
        BY <3>3
      <4> QED
        BY <3>3, <3>5, <4>1
    <3>6. (\E i \in 1..Len(A) : A[i] = x) \/ (\E i \in 1..Len(B) : B[i] = x)
      BY <3>1, <2>1 DEF A, B
    <3>7. R = A \o B
      BY DEF Resolvable, A, B
    <3> QED
      BY <3>4, <3>5, <3>6, <3>7
  <2>4. x \in InviteType
    BY <2>2 DEF Locator, InviteType, Version
  <2>5. x.v6 = e.v6 /\ x.seed = e.seed /\ x.key = e.key /\ x.version = Version
        /\ x.expiry = 0 /\ SameHub(x, inv)
    BY DEF SameHub, Port
  <2> HIDE DEF x, R
  <2>6. inv \in InviteType /\ Marshal(inv) = Payload(inv)
    BY DEF IInv, Encoded, Marshal
  <2>7. ~Refused(x)
    BY <2>2, <2>5, AnnounceAssumption DEF Refused, Locator
  <2>8. Marshal(x) = Payload(inv)
    BY <2>4, <2>5, <2>6, <2>7, SamePayload DEF Marshal
  <2>9. x # None /\ ShortCode(x) = ShortCode(inv)
    BY <2>4, <2>6, <2>8, AnnounceAssumption DEF ShortCode
  <2>10. Lookup(R, ShortCode(inv)) # None
    BY <2>1, <2>3, <2>9, LookupFinds DEF R
  <2>11. Decode(ShortCode(inv), R) = Lookup(R, ShortCode(inv))
    BY DEF Decode, ShortCode
  <2> QED
    BY <2>10, <2>11 DEF R
<1> QED
  BY <1>1, SpokeInvariant, PTL
=================================================================================
