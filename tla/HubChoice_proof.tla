---------------------------- MODULE HubChoice_proof ----------------------------
(***************************************************************************)
(* The order in which a spoke dials, for any hubs, lists and caches: cloud *)
(* seeds and dead hubs come last, no hub is left out at any of its IP      *)
(* addresses, and a hub that was reached is on disk.                       *)
(*                                                                         *)
(* The lemmas of the first two sections say what Remember and DialOrder    *)
(* return.  The invariant then only has to say that a round keeps what     *)
(* they return: each known hub was dialled or is a candidate that is left, *)
(* at one of its ports (Left), the marks say which candidates are dead     *)
(* (Marked), and no seed among them is before a hub (SeedsLast).           *)
(***************************************************************************)
EXTENDS HubChoice, TLAPS, SequenceTheorems, WellFoundedInduction

-----------------------------------------------------------------------------
(* The cache                                                               *)

KeysOf(c) == {c[i].key : i \in DOMAIN c}

LEMMA RemoveOne ==
  ASSUME NEW S, NEW s \in Seq(S), NEW k \in DOMAIN s
  PROVE  /\ RemoveAt(s, k) \in Seq(S)
         /\ Len(RemoveAt(s, k)) = Len(s) - 1
         /\ \A i \in 1..(Len(s) - 1) : RemoveAt(s, k)[i] = IF i < k THEN s[i] ELSE s[i + 1]
<1> DEFINE a == SubSeq(s, 1, k - 1)
           b == SubSeq(s, k + 1, Len(s))
<1>1. k \in 1..Len(s) /\ Len(s) \in Nat /\ \A i \in 1..Len(s) : s[i] \in S
  OBVIOUS
<1>2. a \in Seq(S) /\ Len(a) = k - 1 /\ \A i \in 1..(k - 1) : a[i] = s[i]
  <2>1. a \in Seq(S) /\ Len(a) = (IF 1 <= k - 1 THEN k - 1 - 1 + 1 ELSE 0)
        /\ \A i \in 1..(k - 1 - 1 + 1) : a[i] = s[1 + i - 1]
    BY <1>1, SubSeqProperties
  <2> HIDE DEF a
  <2> QED
    BY <2>1, <1>1
<1>3. b \in Seq(S) /\ Len(b) = Len(s) - k /\ \A i \in 1..(Len(s) - k) : b[i] = s[k + i]
  <2>1. b \in Seq(S) /\ Len(b) = (IF k + 1 <= Len(s) THEN Len(s) - (k + 1) + 1 ELSE 0)
        /\ \A i \in 1..(Len(s) - (k + 1) + 1) : b[i] = s[k + 1 + i - 1]
    BY <1>1, SubSeqProperties
  <2> HIDE DEF b
  <2> QED
    BY <2>1, <1>1
<1>4. RemoveAt(s, k) = a \o b
  BY DEF RemoveAt
<1> HIDE DEF a, b
<1>5. /\ a \o b \in Seq(S)
      /\ Len(a \o b) = Len(a) + Len(b)
      /\ \A i \in 1..(Len(a) + Len(b)) :
           (a \o b)[i] = IF i <= Len(a) THEN a[i] ELSE b[i - Len(a)]
  BY <1>2, <1>3, ConcatProperties
<1>6. \A i \in 1..(Len(s) - 1) : (a \o b)[i] = IF i < k THEN s[i] ELSE s[i + 1]
  <2> SUFFICES ASSUME NEW i \in 1..(Len(s) - 1)
               PROVE  (a \o b)[i] = IF i < k THEN s[i] ELSE s[i + 1]
    OBVIOUS
  <2>1. i \in 1..(Len(a) + Len(b))
    BY <1>1, <1>2, <1>3
  <2>2. CASE i < k
    BY <2>1, <2>2, <1>1, <1>2, <1>5
  <2>3. CASE i >= k
    <3>1. i - Len(a) \in 1..(Len(s) - k) /\ k + (i - Len(a)) = i + 1 /\ ~(i <= Len(a))
      BY <2>3, <1>1, <1>2
    <3>2. (a \o b)[i] = b[i - Len(a)]
      BY <2>1, <3>1, <1>5
    <3>3. b[i - Len(a)] = s[k + (i - Len(a))]
      BY <3>1, <1>3
    <3>4. ~(i < k)
      BY <2>3, <1>1
    <3> QED
      BY <3>1, <3>2, <3>3, <3>4
  <2>4. i \in Int /\ k \in Int
    BY <1>1
  <2>5. i < k \/ i >= k
    BY <2>4
  <2> QED
    BY <2>2, <2>3, <2>5
<1>7. Len(a \o b) = Len(s) - 1
  BY <1>1, <1>2, <1>3, <1>5
<1> QED
  BY <1>4, <1>5, <1>6, <1>7

\* A cache keeps one entry for each key, and loses none.
LEMMA Remembered ==
  ASSUME NEW c \in Cache, NEW h \in CachedHub
  PROVE  /\ Remember(c, h) \in Cache
         /\ KeysOf(Remember(c, h)) = KeysOf(c) \cup {h.key}
<1> DEFINE old  == Of(c, h.key)
           e    == Entry(h, KeptRtt(c, old, h))
           k    == CHOOSE i \in old : TRUE
           rest == IF old = {} THEN c ELSE RemoveAt(c, k)
<1>1. c \in Seq(CachedHub) /\ \A i, j \in DOMAIN c : c[i].key = c[j].key => i = j
  BY DEF Cache
<1>2. old # {} => k \in DOMAIN c /\ c[k].key = h.key
  BY DEF Of
<1>3. \A i \in DOMAIN c : c[i].key = h.key => old # {} /\ i = k
  BY <1>1, <1>2 DEF Of
<1>4. e \in CachedHub /\ e.key = h.key
  <2>1. h.rtt \in 0..MaxRtt /\ h.key \in Key /\ h.addr \in Addr
    BY DEF CachedHub
  <2>2. KeptRtt(c, old, h) = IF h.rtt # 0 \/ old = {} THEN h.rtt ELSE c[k].rtt
    BY DEF KeptRtt
  <2> HIDE DEF old, k
  <2>3. old # {} => c[k].rtt \in 0..MaxRtt
    <3>1. \A i \in DOMAIN c : c[i] \in CachedHub
      BY <1>1
    <3> QED
      BY <3>1, <1>2 DEF CachedHub
  <2>4. KeptRtt(c, old, h) \in 0..MaxRtt
    BY <2>1, <2>2, <2>3
  <2> QED
    BY <2>1, <2>4 DEF Entry, CachedHub
<1>5. Remember(c, h) = Append(rest, e)
  BY DEF Remember, Replace
<1> HIDE DEF old, e, k
<1>6. /\ rest \in Seq(CachedHub)
      /\ \A i \in DOMAIN rest : rest[i].key # h.key /\ rest[i].key \in KeysOf(c)
      /\ \A i, j \in DOMAIN rest : rest[i].key = rest[j].key => i = j
      /\ \A i \in DOMAIN c : c[i].key # h.key => \E j \in DOMAIN rest : rest[j].key = c[i].key
  <2>1. CASE old = {}
    BY <2>1, <1>1, <1>3 DEF KeysOf
  <2>2. CASE old # {}
    <3>1. k \in DOMAIN c /\ c[k].key = h.key
      BY <2>2, <1>2
    <3>2. /\ rest \in Seq(CachedHub)
          /\ Len(rest) = Len(c) - 1
          /\ \A i \in 1..(Len(c) - 1) : rest[i] = IF i < k THEN c[i] ELSE c[i + 1]
      BY <2>2, <3>1, <1>1, RemoveOne
    <3> HIDE DEF rest
    <3>3. DOMAIN rest = 1..(Len(c) - 1) /\ DOMAIN c = 1..Len(c) /\ Len(c) \in Nat
      BY <3>2, <1>1
    <3>4. \A i \in DOMAIN rest : \E j \in DOMAIN c :
            j # k /\ rest[i] = c[j] /\ j = IF i < k THEN i ELSE i + 1
      BY <3>1, <3>2, <3>3
    <3>5. \A i \in DOMAIN rest : rest[i].key # h.key /\ rest[i].key \in KeysOf(c)
      BY <3>4, <1>3 DEF KeysOf
    <3>6. \A i, j \in DOMAIN rest : rest[i].key = rest[j].key => i = j
      <4> SUFFICES ASSUME NEW i \in DOMAIN rest, NEW j \in DOMAIN rest,
                          rest[i].key = rest[j].key
                   PROVE  i = j
        OBVIOUS
      <4>1. (IF i < k THEN i ELSE i + 1) = (IF j < k THEN j ELSE j + 1)
        BY <3>4, <1>1
      <4> QED
        BY <4>1, <3>1, <3>3
    <3>7. \A i \in DOMAIN c : c[i].key # h.key => \E j \in DOMAIN rest : rest[j].key = c[i].key
      <4> SUFFICES ASSUME NEW i \in DOMAIN c, c[i].key # h.key
                   PROVE  \E j \in DOMAIN rest : rest[j].key = c[i].key
        OBVIOUS
      <4>1. i # k
        BY <3>1
      <4>2. CASE i < k
        BY <4>2, <3>1, <3>2, <3>3
      <4>3. CASE i > k
        <5>1. i - 1 \in DOMAIN rest /\ ~(i - 1 < k) /\ (i - 1) + 1 = i
          BY <4>3, <3>1, <3>3
        <5> QED
          BY <5>1, <3>2, <3>3
      <4> QED
        BY <4>1, <4>2, <4>3, <3>1, <3>3
    <3> QED
      BY <3>2, <3>5, <3>6, <3>7
  <2> QED
    BY <2>1, <2>2
<1> HIDE DEF rest
<1>7. /\ Append(rest, e) \in Seq(CachedHub)
      /\ DOMAIN Append(rest, e) = 1..(Len(rest) + 1) /\ DOMAIN rest = 1..Len(rest)
      /\ Len(rest) \in Nat
      /\ \A i \in 1..Len(rest) : Append(rest, e)[i] = rest[i]
      /\ Append(rest, e)[Len(rest) + 1] = e
  BY <1>4, <1>6
<1>8. \A i, j \in DOMAIN Append(rest, e) :
        Append(rest, e)[i].key = Append(rest, e)[j].key => i = j
  BY <1>4, <1>6, <1>7
<1>9. KeysOf(Append(rest, e)) = KeysOf(c) \cup {h.key}
  <2>1. \A x \in KeysOf(Append(rest, e)) : x \in KeysOf(c) \cup {h.key}
    BY <1>4, <1>6, <1>7 DEF KeysOf
  <2>2. \A x \in KeysOf(c) \cup {h.key} : x \in KeysOf(Append(rest, e))
    BY <1>4, <1>6, <1>7 DEF KeysOf
  <2> QED
    BY <2>1, <2>2
<1> QED
  BY <1>5, <1>7, <1>8, <1>9 DEF Cache

-----------------------------------------------------------------------------
(* The dial order                                                          *)

LEMMA HasLeast ==
  ASSUME NEW I \in SUBSET Nat, I # {}
  PROVE  \E x \in I : \A y \in I : x <= y
<1>1. PICK x \in I : \A y \in I : ~(<<y, x>> \in OpToRel(<, Nat))
  BY NatLessThanWellFounded, WFMin
<1>2. OpToRel(<, Nat) = {p \in Nat \X Nat : p[1] < p[2]}
  BY Zenon DEF OpToRel
<1>3. ASSUME NEW y \in I, y < x PROVE FALSE
  <2>1. <<y, x>> \in {p \in Nat \X Nat : p[1] < p[2]}
    BY <1>3
  <2> QED
    BY <2>1, <1>1, <1>2, Zenon
<1> QED
  BY <1>3

\* Everything that DialOrder is given, before it leaves out what comes twice.
AllOf(c, inv) == Cached(c) \cup Listed \cup Invited(inv) \cup Typed(inv)

\* A hub may be typed in without its key.
Typable == [key : Key \cup {None}, addr : Addr]

LEMMA FromCache ==
  ASSUME NEW c \in Cache, NEW x \in Cached(c)
  PROVE  /\ x \in Candidate
         /\ x.list = (IF x.loc.key \in Seed THEN 5 ELSE 1) /\ x.loc.key \in Key
         /\ x.list = 5 => x.rtt = 0
         /\ \E i \in DOMAIN c : x.loc = Loc(c[i]) /\ x.rtt \in {0, c[i].rtt}
         /\ \A y \in Cached(c) : y.loc.key = x.loc.key => y = x
<1>1. c \in Seq(CachedHub) /\ \A i, j \in DOMAIN c : c[i].key = c[j].key => i = j
  BY DEF Cache
<1>2. \A i \in DOMAIN c : /\ c[i].key \in Key /\ c[i].addr \in Addr /\ c[i].rtt \in Nat
                          /\ Len(c) - i \in Nat
  <2>1. \A i \in DOMAIN c : c[i] \in CachedHub /\ Len(c) - i \in Nat
    BY <1>1
  <2> QED
    BY <2>1, ChoiceAssumption DEF CachedHub
<1> DEFINE P(i) == IF c[i].key \in Seed THEN Place(c[i], 5, 0, Len(c) - i)
                   ELSE Place(c[i], 1, c[i].rtt, Len(c) - i)
<1>3. Cached(c) = {P(i) : i \in DOMAIN c}
  BY DEF Cached
<1>4. \A i \in DOMAIN c :
        /\ P(i) \in Candidate /\ P(i).loc = Loc(c[i]) /\ P(i).loc.key = c[i].key
        /\ P(i).list = (IF c[i].key \in Seed THEN 5 ELSE 1)
        /\ P(i).rtt = (IF c[i].key \in Seed THEN 0 ELSE c[i].rtt)
  BY <1>2 DEF Place, Loc, Candidate, Dialable, Locator, Lists
<1>5. PICK i \in DOMAIN c : x = P(i)
  BY <1>3
<1>6. \A y \in Cached(c) : y.loc.key = x.loc.key => y = x
  <2> SUFFICES ASSUME NEW y \in Cached(c), y.loc.key = x.loc.key PROVE y = x
    OBVIOUS
  <2>1. PICK j \in DOMAIN c : y = P(j)
    BY <1>3
  <2> HIDE DEF P
  <2>2. i = j
    BY <1>1, <1>4, <1>5, <2>1
  <2> QED
    BY <1>5, <2>1, <2>2
<1> HIDE DEF P
<1> QED
  BY <1>2, <1>4, <1>5, <1>6

LEMMA Placed ==
  ASSUME NEW l \in Dialable, NEW list \in Lists, NEW rtt \in Nat, NEW pos \in Nat, Loc(l) = l
  PROVE  LET x == Place(l, list, rtt, pos)
         IN  x \in Candidate /\ x.loc = l /\ x.list = list /\ x.rtt = rtt /\ x.pos = pos
BY DEF Place, Candidate

LEMMA FromLists ==
  ASSUME NEW inv \in Seq(Locator)
  PROVE  /\ \A x \in Listed : /\ x \in Candidate /\ x.list = 2 /\ x.rtt = 0
                              /\ x.loc \in Range(Community) /\ x.loc.key \in Key
         /\ \A x \in Invited(inv) :
              /\ x \in Candidate /\ x.rtt = 0 /\ x.pos <= Len(inv)
              /\ x.list = (IF x.loc.key \in Seed THEN 4 ELSE 3)
              /\ x.loc \in Range(inv) /\ x.loc.key \in Key
         /\ \A x \in Typed(inv) :
              /\ x \in Candidate /\ x.list = 3 /\ x.rtt = 0 /\ x.pos > Len(inv)
              /\ x.loc \in Range(Manual)
              /\ \A y \in Typed(inv) : x = y
<1>1. \A l \in Locator \cup Typable : Loc(l) = l
  BY DEF Loc, Locator, Typable
<1>2. /\ \A i \in DOMAIN Community : Community[i] \in Locator /\ i \in Nat
      /\ \A i \in DOMAIN inv : inv[i] \in Locator /\ i \in Nat /\ i <= Len(inv)
      /\ \A i \in DOMAIN Manual : /\ Manual[i] \in Typable
                                  /\ i = 1
      /\ Len(inv) \in Nat
  <2>1. /\ Community \in Seq(Locator)
        /\ Manual \in Seq(Typable) /\ Len(Manual) <= 1
    BY ChoiceAssumption, Zenon DEF Typable
  <2>2. \A i \in DOMAIN Manual : /\ Manual[i] \in Typable
                                 /\ i = 1
    <3>1. \A i \in DOMAIN Manual : i \in 1..Len(Manual) /\ Len(Manual) \in Nat
      BY <2>1
    <3>2. \A i \in DOMAIN Manual : Manual[i] \in Typable
      BY <2>1
    <3> QED
      BY <3>1, <3>2, <2>1
  <2>3. \A i \in DOMAIN Community : Community[i] \in Locator /\ i \in Nat
    BY <2>1
  <2>4. \A i \in DOMAIN inv : inv[i] \in Locator /\ i \in Nat /\ i <= Len(inv)
    OBVIOUS
  <2>5. Len(inv) \in Nat
    OBVIOUS
  <2> QED
    BY <2>2, <2>3, <2>4, <2>5
<1>3. \A x \in Listed : /\ x \in Candidate /\ x.list = 2 /\ x.rtt = 0
                        /\ x.loc \in Range(Community) /\ x.loc.key \in Key
  <2> SUFFICES ASSUME NEW i \in DOMAIN Community, NEW x, x = Place(Community[i], 2, 0, i)
               PROVE  /\ x \in Candidate /\ x.list = 2 /\ x.rtt = 0
                      /\ x.loc \in Range(Community) /\ x.loc.key \in Key
    BY DEF Listed
  <2>1. /\ Community[i] \in Range(Community) /\ Community[i] \in Dialable
        /\ Community[i].key \in Key
    BY <1>2 DEF Range, Dialable, Locator
  <2>2. x \in Candidate /\ x.loc = Community[i] /\ x.list = 2 /\ x.rtt = 0
    BY <2>1, <1>1, <1>2, Placed DEF Lists
  <2> QED
    BY <2>1, <2>2
<1>4. \A x \in Invited(inv) :
        /\ x \in Candidate /\ x.rtt = 0 /\ x.pos <= Len(inv)
        /\ x.list = (IF x.loc.key \in Seed THEN 4 ELSE 3)
        /\ x.loc \in Range(inv) /\ x.loc.key \in Key
  <2> SUFFICES ASSUME NEW i \in DOMAIN inv, NEW x,
                      x = Place(inv[i], IF inv[i].key \in Seed THEN 4 ELSE 3, 0, i)
               PROVE  /\ x \in Candidate /\ x.rtt = 0 /\ x.pos <= Len(inv)
                      /\ x.list = (IF x.loc.key \in Seed THEN 4 ELSE 3)
                      /\ x.loc \in Range(inv) /\ x.loc.key \in Key
    BY DEF Invited
  <2>1. inv[i] \in Range(inv) /\ inv[i] \in Dialable /\ inv[i].key \in Key
    BY <1>2 DEF Range, Dialable, Locator
  <2>2. /\ x \in Candidate /\ x.loc = inv[i] /\ x.rtt = 0 /\ x.pos = i
        /\ x.list = (IF inv[i].key \in Seed THEN 4 ELSE 3)
    <3> DEFINE list == IF inv[i].key \in Seed THEN 4 ELSE 3
    <3>1. inv[i] \in Dialable /\ Loc(inv[i]) = inv[i] /\ i \in Nat
      BY <2>1, <1>1, <1>2
    <3>2. list \in Lists /\ 0 \in Nat
      BY DEF Lists
    <3>3. x = Place(inv[i], list, 0, i)
      OBVIOUS
    <3> HIDE DEF list
    <3>4. x \in Candidate /\ x.loc = inv[i] /\ x.list = list /\ x.rtt = 0 /\ x.pos = i
      BY <3>1, <3>2, <3>3, Placed
    <3> QED
      BY <3>4 DEF list
  <2> QED
    BY <2>1, <2>2, <1>2
<1>5. \A x \in Typed(inv) :
        /\ x \in Candidate /\ x.list = 3 /\ x.rtt = 0 /\ x.pos > Len(inv)
        /\ x.loc \in Range(Manual)
        /\ x = Place(Manual[1], 3, 0, Len(inv) + 1)
  <2> SUFFICES ASSUME NEW i \in DOMAIN Manual, NEW x,
                      x = Place(Manual[i], 3, 0, Len(inv) + i)
               PROVE  /\ x \in Candidate /\ x.list = 3 /\ x.rtt = 0 /\ x.pos > Len(inv)
                      /\ x.loc \in Range(Manual)
                      /\ x = Place(Manual[1], 3, 0, Len(inv) + 1)
    BY DEF Typed
  <2>1. Manual[i] \in Range(Manual) /\ Manual[i] \in Dialable /\ i = 1
    BY <1>2 DEF Range, Dialable
  <2>2. Len(inv) + i \in Nat /\ Len(inv) + i > Len(inv)
    BY <2>1, <1>2
  <2>3. /\ x \in Candidate /\ x.loc = Manual[i] /\ x.list = 3 /\ x.rtt = 0
        /\ x.pos = Len(inv) + i
    <3>1. Manual[i] \in Dialable /\ Loc(Manual[i]) = Manual[i] /\ 3 \in Lists /\ 0 \in Nat
      BY <2>1, <1>1, <1>2 DEF Lists
    <3> QED
      BY <2>2, <3>1, Placed
  <2> QED
    BY <2>1, <2>2, <2>3
<1> QED
  BY <1>3, <1>4, <1>5, Zenon

LEMMA AllTyped ==
  ASSUME NEW c \in Cache, NEW inv \in Seq(Locator)
  PROVE  AllOf(c, inv) \subseteq Candidate
BY FromCache, FromLists DEF AllOf

\* A hub that comes twice in one list has the same round trip there.
LEMMA SameRtt ==
  ASSUME NEW c \in Cache, NEW inv \in Seq(Locator),
         NEW x \in AllOf(c, inv), NEW y \in AllOf(c, inv),
         x.loc.key = y.loc.key, x.list = y.list
  PROVE  x.rtt = y.rtt
<1>1. CASE x \in Cached(c) /\ y \in Cached(c)
  BY <1>1, FromCache
<1>2. CASE x \in Listed \cup Invited(inv) \cup Typed(inv)
  <2>1. x.rtt = 0 /\ x.list \in {2, 3, 4}
    BY <1>2, FromLists
  <2>2. y \notin Cached(c)
    BY <2>1, FromCache
  <2> QED
    BY <2>1, <2>2, FromLists DEF AllOf
<1>3. CASE y \in Listed \cup Invited(inv) \cup Typed(inv)
  <2>1. y.rtt = 0 /\ y.list \in {2, 3, 4}
    BY <1>3, FromLists
  <2>2. x \notin Cached(c)
    BY <2>1, FromCache
  <2> QED
    BY <2>1, <2>2, FromLists DEF AllOf
<1> QED
  BY <1>1, <1>2, <1>3 DEF AllOf

\* The key of a site is that of its hub.
LEMMA SiteKey == ASSUME NEW l, NEW d, Site(l) = Site(d)
                 PROVE  l.key = d.key
<1>1. Site(l).key = l.key /\ Site(d).key = d.key
  BY DEF Site
<1> QED
  BY <1>1

\* DialOrder leaves a locator out only for another one of its site.
LEMMA FirstCovers ==
  ASSUME NEW c \in Cache, NEW inv \in Seq(Locator), NEW x \in AllOf(c, inv)
  PROVE  \E y \in DialOrder(c, inv) : Site(y.loc) = Site(x.loc)
<1> DEFINE T == {y \in AllOf(c, inv) : Site(y.loc) = Site(x.loc)}
<1>1. T \subseteq Candidate
  BY AllTyped
<1>2. PICK l \in {y.list : y \in T} : \A k \in {y.list : y \in T} : l <= k
  <2>1. {y.list : y \in T} \in SUBSET Nat
    BY <1>1 DEF Candidate, Lists
  <2>2. {y.list : y \in T} # {}
    OBVIOUS
  <2> QED
    BY <2>1, <2>2, HasLeast
<1> DEFINE U == {y \in T : y.list = l}
<1>3. PICK p \in {y.pos : y \in U} : \A k \in {y.pos : y \in U} : p <= k
  <2>1. {y.pos : y \in U} \in SUBSET Nat
    BY <1>1 DEF Candidate
  <2>2. {y.pos : y \in U} # {}
    BY <1>2
  <2> QED
    BY <2>1, <2>2, HasLeast
<1>4. PICK y \in U : y.pos = p
  BY <1>3
<1>5. \A z \in AllOf(c, inv) : Site(z.loc) = Site(y.loc) => ~Before(z, y)
  <2> SUFFICES ASSUME NEW z \in AllOf(c, inv), Site(z.loc) = Site(y.loc), Before(z, y)
               PROVE  FALSE
    OBVIOUS
  <2>1. z \in T /\ y \in T /\ y.list = l /\ l <= z.list
    <3>1. y \in T /\ y.list = l
      BY <1>4
    <3>2. z \in T
      BY <1>4
    <3>3. z.list \in {w.list : w \in T}
      BY <3>2
    <3> HIDE DEF T, U
    <3> QED
      BY <1>2, <3>1, <3>2, <3>3
  <2>2. z.list \in Nat /\ y.list \in Nat /\ z.pos \in Nat /\ y.pos \in Nat
    <3>1. z \in Candidate /\ y \in Candidate
      BY <1>1, <2>1
    <3> HIDE DEF T, U
    <3> QED
      BY <3>1 DEF Candidate, Lists
  <2>3. z.list = y.list /\ (Faster(z.rtt, y.rtt) \/ (z.rtt = y.rtt /\ z.pos < y.pos))
    <3>1. \/ z.list < y.list
          \/ /\ z.list = y.list
             /\ Faster(z.rtt, y.rtt) \/ (z.rtt = y.rtt /\ z.pos < y.pos)
      BY DEF Before
    <3>2. ~(z.list < y.list)
      BY <2>1, <2>2
    <3> QED
      BY <3>1, <3>2
  <2>4. z.rtt = y.rtt
    <3>1. z.loc.key = y.loc.key
      BY SiteKey
    <3>2. y \in AllOf(c, inv)
      BY <2>1
    <3> QED
      BY <2>3, <3>1, <3>2, SameRtt
  <2>5. y.pos <= z.pos
    BY <1>3, <1>4, <2>1, <2>3
  <2> QED
    BY <2>2, <2>3, <2>4, <2>5 DEF Faster
<1>6. y \in DialOrder(c, inv)
  BY <1>4, <1>5 DEF DialOrder, First, AllOf
<1> QED
  BY <1>4, <1>6

\* DialOrder has every hub that it is given at each of its IP addresses, and
\* nothing else.
LEMMA OrderCovers ==
  ASSUME NEW c \in Cache, NEW inv \in Seq(Locator)
  PROVE  /\ DialOrder(c, inv) \subseteq AllOf(c, inv)
         /\ \A l \in Locs(c) \cup Locs(inv) \cup Locs(Community) \cup Locs(Manual) :
              \E x \in DialOrder(c, inv) : Site(x.loc) = Site(l)
<1>1. DialOrder(c, inv) \subseteq AllOf(c, inv)
  BY DEF DialOrder, First, AllOf
<1>2. /\ Locs(c) = {x.loc : x \in Cached(c)}
      /\ Locs(inv) = {x.loc : x \in Invited(inv)}
      /\ Locs(Community) = {x.loc : x \in Listed}
      /\ Locs(Manual) = {x.loc : x \in Typed(inv)}
  <2>1. Locs(c) = {x.loc : x \in Cached(c)}
    <3> DEFINE P(i) == IF c[i].key \in Seed THEN Place(c[i], 5, 0, Len(c) - i)
                       ELSE Place(c[i], 1, c[i].rtt, Len(c) - i)
    <3>1. \A i : P(i).loc = Loc(c[i])
      BY DEF Place
    <3>2. Cached(c) = {P(i) : i \in DOMAIN c}
      BY DEF Cached
    <3> HIDE DEF P
    <3> QED
      BY <3>1, <3>2 DEF Locs, Range
  <2>2. Locs(inv) = {x.loc : x \in Invited(inv)}
    <3> DEFINE P(i) == Place(inv[i], IF inv[i].key \in Seed THEN 4 ELSE 3, 0, i)
    <3>1. \A i : P(i).loc = Loc(inv[i])
      BY DEF Place
    <3>2. Invited(inv) = {P(i) : i \in DOMAIN inv}
      BY DEF Invited
    <3> HIDE DEF P
    <3> QED
      BY <3>1, <3>2 DEF Locs, Range
  <2>3. Locs(Community) = {x.loc : x \in Listed}
    <3> DEFINE P(i) == Place(Community[i], 2, 0, i)
    <3>1. \A i : P(i).loc = Loc(Community[i])
      BY DEF Place
    <3>2. Listed = {P(i) : i \in DOMAIN Community}
      BY DEF Listed
    <3> HIDE DEF P
    <3> QED
      BY <3>1, <3>2 DEF Locs, Range
  <2>4. Locs(Manual) = {x.loc : x \in Typed(inv)}
    <3> DEFINE P(i) == Place(Manual[i], 3, 0, Len(inv) + i)
    <3>1. \A i : P(i).loc = Loc(Manual[i])
      BY DEF Place
    <3>2. Typed(inv) = {P(i) : i \in DOMAIN Manual}
      BY DEF Typed
    <3> HIDE DEF P
    <3> QED
      BY <3>1, <3>2 DEF Locs, Range
  <2> QED
    BY <2>1, <2>2, <2>3, <2>4
<1>3. ASSUME NEW l \in Locs(c) \cup Locs(inv) \cup Locs(Community) \cup Locs(Manual)
      PROVE  \E x \in DialOrder(c, inv) : Site(x.loc) = Site(l)
  <2>1. PICK y \in AllOf(c, inv) : y.loc = l
    BY <1>2 DEF AllOf
  <2>2. PICK x \in DialOrder(c, inv) : Site(x.loc) = Site(y.loc)
    BY FirstCovers
  <2> QED
    BY <2>1, <2>2
<1> QED
  BY <1>1, <1>3

\* Seeds that only invites and the cache name.
Late == Seed \ {h.key : h \in Range(Community)}

\* No such seed is ahead of another hub, nor a hub without a key.
LEMMA LateLast ==
  ASSUME NEW c \in Cache, NEW inv \in Seq(Locator),
         NEW x \in AllOf(c, inv), NEW y \in AllOf(c, inv), x # y,
         x.loc.key \in Late \cup {None}, y.loc.key \notin Seed
  PROVE  ~Before(x, y)
<1>1. None \notin Key
  BY ChoiceAssumption
<1>2. x.list \in {4, 5} \/ x \in Typed(inv)
  <2>1. x \in Cached(c) => x.list = 5
    BY <1>1, FromCache DEF Late
  <2>2. x \notin Listed
    BY <1>1, FromLists DEF Late
  <2>3. x \in Invited(inv) => x.list = 4
    BY <1>1, FromLists DEF Late
  <2> QED
    BY <2>1, <2>2, <2>3 DEF AllOf
<1>3. \/ y.list \in {1, 2}
      \/ y.list = 3 /\ y.rtt = 0 /\ (y \in Typed(inv) \/ y.pos <= Len(inv))
  <2>1. y \in Cached(c) => y.list = 1
    BY FromCache
  <2> QED
    BY <2>1, FromLists DEF AllOf
<1>4. CASE x.list \in {4, 5}
  BY <1>3, <1>4 DEF Before
<1>5. CASE x \in Typed(inv)
  <2>1. x.list = 3 /\ x.rtt = 0 /\ x.pos > Len(inv) /\ y \notin Typed(inv)
    BY <1>5, FromLists
  <2>2. x.pos \in Nat /\ y.pos \in Nat /\ Len(inv) \in Nat
    BY AllTyped DEF Candidate
  <2> QED
    BY <1>3, <2>1, <2>2 DEF Before, Faster
<1> QED
  BY <1>2, <1>4, <1>5

-----------------------------------------------------------------------------
(* The inductive invariant                                                 *)

\* Hubs that were reached stay in the cache and its file.
Kept ==
  /\ Session => cur \in Locator
  /\ reached \subseteq KeysOf(cache) \cap KeysOf(disk)
  /\ pc = "save" => cur.key \in KeysOf(cache)

\* A round loses no candidate, nor has it lost a hub to begin with.
Left == IF pc = "idle" THEN known = {} /\ dead = {} /\ dialled = {} /\ cands = {}
        ELSE \A l \in known : HasSite(dialled \cup {x.loc : x \in cands}, l)

\* Candidates are marked as they were when the round began, and the marked ones
\* are not dialled before the others.
Marked ==
  /\ pc = "read" => dialled = {} /\ dead = {}
  /\ pc # "read" => \A x \in cands : x.dead = (x.loc \in dead)
  /\ dialled \cap dead # {} => \A x \in cands : x.loc \in dead

SeedsLast ==
  \A x, y \in cands :
    x # y /\ x.loc.key \in Late \cup {None} /\ y.loc.key \notin Seed => ~Before(x, y)

IInv == TypeOK /\ Kept /\ Left /\ Marked /\ SeedsLast /\ SeedIsLastResort

LEMMA TypeInit == Init => TypeOK
<1> SUFFICES ASSUME Init PROVE TypeOK
  OBVIOUS
<1>1. <<>> \in Cache
  BY DEF Cache
<1> QED
  BY <1>1, ChoiceAssumption DEF Init, TypeOK

LEMMA InitIInv == Init => IInv
<1> SUFFICES ASSUME Init PROVE IInv
  OBVIOUS
<1>1. TypeOK
  BY TypeInit
<1>2. Kept
  BY DEF Init, Kept, Session
<1>3. Left /\ Marked /\ SeedsLast /\ SeedIsLastResort
  BY DEF Init, Left, Marked, SeedsLast, SeedIsLastResort, Session
<1> QED
  BY <1>1, <1>2, <1>3 DEF IInv

\* The entry that is remembered of an invite, or of the hub of a session.
LEMMA Entered ==
  ASSUME NEW l \in Locator, NEW rtt \in 0..MaxRtt
  PROVE  Entry(l, rtt) \in CachedHub /\ Entry(l, rtt).key = l.key
BY DEF Entry, CachedHub, Locator

\* The hub that answers a dial has a locator.
LEMMA Answerer ==
  ASSUME TypeOK, NEW x \in cands, serves[x.loc.addr] # None
  PROVE  [key |-> serves[x.loc.addr], addr |-> x.loc.addr] \in Locator
<1>1. x.loc \in Dialable
  BY DEF TypeOK, Candidate
<1>2. x.loc.addr \in Addr
  <2>1. Range(Manual) \subseteq Typable
    <3>1. Manual \in Seq(Typable)
      BY ChoiceAssumption, Zenon DEF Typable
    <3> QED
      BY <3>1 DEF Range
  <2> QED
    BY <1>1, <2>1 DEF Dialable, Locator, Typable
<1>3. serves[x.loc.addr] \in Key
  BY <1>2 DEF TypeOK
<1> QED
  BY <1>2, <1>3 DEF Locator

LEMMA Penalised ==
  ASSUME NEW x \in Candidate, NEW b
  PROVE  LET y == [x EXCEPT !.dead = x.loc \in b]
         IN  /\ y \in Candidate
             /\ y.loc = x.loc /\ y.list = x.list /\ y.rtt = x.rtt /\ y.pos = x.pos
             /\ y.dead = (x.loc \in b)
<1> DEFINE d == x.loc \in b
<1>1. x \in [loc : Dialable, list : Lists, rtt : Nat, pos : Nat, dead : BOOLEAN]
  BY DEF Candidate
<1>2. d \in BOOLEAN
  OBVIOUS
<1> HIDE DEF d
<1>3. LET y == [x EXCEPT !.dead = d]
      IN  /\ y \in [loc : Dialable, list : Lists, rtt : Nat, pos : Nat, dead : BOOLEAN]
          /\ y.loc = x.loc /\ y.list = x.list /\ y.rtt = x.rtt /\ y.pos = x.pos
          /\ y.dead = d
  BY <1>1, <1>2
<1> QED
  BY <1>3 DEF Candidate, d

LEMMA TypeStep == ASSUME TypeOK, Kept, [Next]_vars
                  PROVE  TypeOK'
<1> USE DEF TypeOK
<1>1. CASE Candidates
  <2>1. cands' \subseteq Candidate
    BY <1>1, OrderCovers, AllTyped DEF Candidates
  <2> QED
    BY <1>1, <2>1 DEF Candidates
<1>2. CASE ReadInvite
  <2>1. Head(unread) \in Locator /\ Tail(unread) \in Seq(Locator)
    BY <1>2 DEF ReadInvite
  <2>2. 0 \in 0..MaxRtt
    BY ChoiceAssumption
  <2>3. cache' \in Cache
    BY <1>2, <2>1, <2>2, Entered, Remembered DEF ReadInvite
  <2> QED
    BY <1>2, <2>1, <2>3 DEF ReadInvite
<1>3. CASE DeadLast
  <2>1. \A x \in cands : [x EXCEPT !.dead = x.loc \in failed] \in Candidate
    BY Penalised
  <2> QED
    BY <1>3, <2>1 DEF DeadLast
<1>4. ASSUME NEW x \in cands, DialFail(x) PROVE TypeOK'
  <2>1. x.loc \in Dialable
    BY DEF Candidate
  <2> QED
    BY <1>4, <2>1 DEF DialFail, Dial
<1>5. ASSUME NEW x \in cands, HandshakeFail(x) PROVE TypeOK'
  BY <1>5 DEF HandshakeFail, Dial
<1>6. ASSUME NEW x \in cands, Connect(x) PROVE TypeOK'
  <2>1. cur' \in Locator
    BY <1>6, Answerer DEF Connect
  <2>2. PICK rtt \in 0..MaxRtt : cache' = Remember(cache, Entry(cur', rtt))
    BY <1>6 DEF Connect
  <2>3. cache' \in Cache
    BY <2>1, <2>2, Entered, Remembered
  <2> QED
    BY <1>6, <2>1, <2>3 DEF Connect, Dial
<1>7. CASE Save
  BY <1>7 DEF Save
<1>8. CASE SessionEnd
  BY <1>8 DEF SessionEnd, Kept, Session, Dialable
<1>9. CASE GiveUp
  BY <1>9 DEF GiveUp
<1>10. ASSUME NEW l \in failed, Forget(l) PROVE TypeOK'
  BY <1>10 DEF Forget
<1>11. ASSUME NEW l \in Scanned, AddInvite(l) PROVE TypeOK'
  BY <1>11, ChoiceAssumption DEF AddInvite
<1>12. ASSUME NEW a \in Addr, NEW k \in Key \cup {None}, Move(a, k) PROVE TypeOK'
  BY <1>12, ChoiceAssumption DEF Move
<1>13. CASE Crash
  <2>1. <<>> \in Cache
    BY DEF Cache
  <2> QED
    BY <1>13, <2>1, ChoiceAssumption DEF Crash
<1>14. CASE UNCHANGED vars
  BY <1>14 DEF vars, history
<1> QED
  BY <1>1, <1>2, <1>3, <1>4, <1>5, <1>6, <1>7, <1>8, <1>9, <1>10, <1>11, <1>12, <1>13,
     <1>14 DEF Next

LEMMA KeptStep == ASSUME TypeOK, Kept, [Next]_vars
                  PROVE  Kept'
<1> USE DEF Kept, Session
<1>1. CASE ReadInvite
  <2>1. Head(unread) \in Locator
    BY <1>1 DEF ReadInvite, TypeOK
  <2>2. 0 \in 0..MaxRtt /\ cache \in Cache
    BY ChoiceAssumption DEF TypeOK
  <2>3. KeysOf(cache) \subseteq KeysOf(cache')
    BY <1>1, <2>1, <2>2, Entered, Remembered DEF ReadInvite
  <2>4. KeysOf(disk') = KeysOf(disk)
    BY <1>1 DEF ReadInvite
  <2> QED
    BY <1>1, <2>3, <2>4 DEF ReadInvite, history
<1>2. ASSUME NEW x \in cands, Connect(x) PROVE Kept'
  <2>1. cur' \in Locator /\ cache \in Cache
    BY <1>2, Answerer DEF Connect, TypeOK
  <2>2. PICK rtt \in 0..MaxRtt : cache' = Remember(cache, Entry(cur', rtt))
    BY <1>2 DEF Connect
  <2>3. KeysOf(cache') = KeysOf(cache) \cup {cur'.key}
    BY <2>1, <2>2, Entered, Remembered
  <2> QED
    BY <1>2, <2>1, <2>3 DEF Connect
<1>3. CASE Save
  BY <1>3 DEF Save
<1>4. CASE Crash
  BY <1>4 DEF Crash, KeysOf
<1>5. CASE Candidates
  BY <1>5 DEF Candidates
<1>6. CASE DeadLast
  BY <1>6 DEF DeadLast
<1>7. ASSUME NEW x \in cands, DialFail(x) \/ HandshakeFail(x) PROVE Kept'
  BY <1>7 DEF DialFail, HandshakeFail, Dial
<1>8. CASE SessionEnd \/ GiveUp
  BY <1>8 DEF SessionEnd, GiveUp
<1>9. CASE \/ \E l \in failed : Forget(l)
           \/ \E l \in Scanned : AddInvite(l)
           \/ \E a \in Addr, k \in Key \cup {None} : Move(a, k)
           \/ UNCHANGED vars
  BY <1>9 DEF Forget, AddInvite, Move, vars, history
<1> QED
  BY <1>1, <1>2, <1>3, <1>4, <1>5, <1>6, <1>7, <1>8, <1>9 DEF Next

\* What the dials of a round have in common.
LEMMA DialStep ==
  ASSUME NEW x \in cands, DialFail(x) \/ HandshakeFail(x) \/ Connect(x)
  PROVE  /\ Dial(x) /\ pc = "dial" /\ pc' \in {"dial", "save"}
         /\ cands' = cands \ {x} /\ dialled' = dialled \cup {x.loc}
         /\ known' = known /\ dead' = dead
BY DEF DialFail, HandshakeFail, Connect, Dial

\* What does not touch the round.
Aside == UNCHANGED <<known, dead, dialled, cands>> /\ (pc = "idle" <=> pc' = "idle")
                                                   /\ (pc = "read" <=> pc' = "read")

LEMMA OtherSteps ==
  ASSUME \/ ReadInvite \/ Save
         \/ \E l \in failed : Forget(l)
         \/ \E l \in Scanned : AddInvite(l)
         \/ \E a \in Addr, k \in Key \cup {None} : Move(a, k)
         \/ UNCHANGED vars
  PROVE  Aside
BY DEF ReadInvite, Save, Forget, AddInvite, Move, vars, history, Aside

\* What ends the round.
LEMMA EndSteps ==
  ASSUME SessionEnd \/ GiveUp \/ Crash
  PROVE  pc' = "idle" /\ known' = {} /\ dead' = {} /\ dialled' = {} /\ cands' = {}
BY DEF SessionEnd, GiveUp, Crash, RoundOver

LEMMA LeftStep == ASSUME TypeOK, Left, Marked, [Next]_vars
                  PROVE  Left' /\ Marked'
<1>1. CASE Candidates
  <2>1. cands' = DialOrder(cache, invites) /\ cache \in Cache /\ invites \in Seq(Locator)
    BY <1>1 DEF Candidates, TypeOK
  <2>2. known' = Locs(cache) \cup Locs(invites) \cup Locs(Community) \cup Locs(Manual)
    BY <1>1 DEF Candidates
  <2>3. dialled' = {} /\ dead' = {} /\ pc' = "read"
    BY <1>1 DEF Candidates, Left
  <2>4. \A l \in known' : \E x \in cands' : Site(x.loc) = Site(l)
    BY <2>1, <2>2, OrderCovers
  <2>5. Left'
    BY <2>3, <2>4 DEF Left, HasSite
  <2>6. Marked'
    BY <2>3 DEF Marked
  <2> QED
    BY <2>5, <2>6
<1>2. CASE DeadLast
  <2> DEFINE P(x) == [x EXCEPT !.dead = x.loc \in failed]
  <2>1. cands' = {P(x) : x \in cands} /\ cands \subseteq Candidate
    BY <1>2 DEF DeadLast, TypeOK
  <2>2. \A x \in cands : P(x).loc = x.loc /\ P(x).dead = (x.loc \in failed)
    BY <2>1, Penalised
  <2>3. /\ pc = "read" /\ pc' = "dial" /\ known' = known
        /\ dead' = {x.loc : x \in cands} \cap failed
        /\ dialled = {} /\ dialled' = {}
    BY <1>2 DEF DeadLast, Marked
  <2> HIDE DEF P
  <2>4. {x.loc : x \in cands'} = {x.loc : x \in cands}
    BY <2>1, <2>2
  <2>5. \A x \in cands' : x.dead = (x.loc \in dead')
    BY <2>1, <2>2, <2>3
  <2>6. Left'
    BY <2>3, <2>4 DEF Left, HasSite
  <2>7. Marked'
    BY <2>3, <2>5 DEF Marked
  <2> QED
    BY <2>6, <2>7
<1>3. ASSUME NEW x \in cands, DialFail(x) \/ HandshakeFail(x) \/ Connect(x)
      PROVE  Left' /\ Marked'
  <2>1. /\ Dial(x) /\ pc = "dial" /\ pc' \in {"dial", "save"}
        /\ cands' = cands \ {x} /\ dialled' = dialled \cup {x.loc}
        /\ known' = known /\ dead' = dead
    BY <1>3, DialStep
  <2>2. Left'
    <3>1. dialled' \cup {y.loc : y \in cands'} = dialled \cup {y.loc : y \in cands}
      BY <2>1
    <3> QED
      BY <2>1, <3>1 DEF Left, HasSite
  <2>3. \A y \in cands : y.dead = (y.loc \in dead)
    BY <2>1 DEF Marked
  <2>4. x.loc \in dead => \A y \in cands' : y.loc \in dead
    BY <2>1, <2>3 DEF Dial
  <2>5. Marked'
    BY <2>1, <2>3, <2>4 DEF Marked
  <2> QED
    BY <2>2, <2>5
<1>4. CASE Aside
  BY <1>4 DEF Aside, Left, Marked, HasSite
<1>5. CASE SessionEnd \/ GiveUp \/ Crash
  BY <1>5, EndSteps DEF Left, Marked
<1> QED
  BY <1>1, <1>2, <1>3, <1>4, <1>5, OtherSteps DEF Next

LEMMA SeedsStep == ASSUME TypeOK, Left, SeedsLast, [Next]_vars
                   PROVE  SeedsLast'
<1>1. CASE Candidates
  <2>1. cands' = DialOrder(cache, invites) /\ cache \in Cache /\ invites \in Seq(Locator)
    BY <1>1 DEF Candidates, TypeOK
  <2>2. cands' \subseteq AllOf(cache, invites)
    BY <2>1, OrderCovers
  <2> QED
    BY <2>1, <2>2, LateLast DEF SeedsLast
<1>2. CASE DeadLast
  <2> DEFINE P(x) == [x EXCEPT !.dead = x.loc \in failed]
  <2>1. cands' = {P(x) : x \in cands} /\ cands \subseteq Candidate
    BY <1>2 DEF DeadLast, TypeOK
  <2>2. \A x \in cands : /\ P(x).loc = x.loc /\ P(x).list = x.list
                         /\ P(x).rtt = x.rtt /\ P(x).pos = x.pos
    BY <2>1, Penalised
  <2> HIDE DEF P
  <2>3. \A x, y \in cands : Before(P(x), P(y)) => Before(x, y)
    BY <2>2 DEF Before
  <2> QED
    BY <2>1, <2>2, <2>3 DEF SeedsLast
<1>3. ASSUME NEW x \in cands, DialFail(x) \/ HandshakeFail(x) \/ Connect(x)
      PROVE  SeedsLast'
  <2>1. cands' \subseteq cands
    BY <1>3, DialStep
  <2> QED
    BY <2>1 DEF SeedsLast
<1>4. CASE Aside
  BY <1>4 DEF Aside, SeedsLast
<1>5. CASE SessionEnd \/ GiveUp \/ Crash
  BY <1>5, EndSteps DEF SeedsLast
<1> QED
  BY <1>1, <1>2, <1>3, <1>4, <1>5, OtherSteps DEF Next

LEMMA LastResortStep == ASSUME IInv, [Next]_vars
                        PROVE  SeedIsLastResort'
<1> USE DEF SeedIsLastResort, Session
<1>1. ASSUME NEW x \in cands, Connect(x) PROVE SeedIsLastResort'
  <2> SUFFICES ASSUME cur'.key \in Late, NEW l \in known, l.key \notin Seed,
                      ~HasSite(dialled' \cup dead', l)
               PROVE  FALSE
    BY <1>1, DialStep DEF Late, HasSite
  <2>1. /\ Dial(x) /\ pc = "dial"
        /\ cands' = cands \ {x} /\ dialled' = dialled \cup {x.loc} /\ dead' = dead
    BY <1>1, DialStep
  <2>2. x.loc.key \in Late \cup {None}
    BY <1>1 DEF Connect
  <2>3. PICK y \in cands : Site(y.loc) = Site(l)
    <3>1. HasSite(dialled \cup {y.loc : y \in cands}, l)
      BY <2>1 DEF IInv, Left
    <3> QED
      BY <2>1, <3>1 DEF HasSite
  <2>4. x # y
    BY <2>1, <2>3 DEF HasSite
  <2>5. ~Before(x, y)
    <3>1. y.loc.key \notin Seed
      BY <2>3, SiteKey
    <3> QED
      BY <2>2, <2>4, <3>1 DEF IInv, SeedsLast
  <2>6. ~ y.dead
    <3>1. y.dead = (y.loc \in dead)
      BY <2>1 DEF IInv, Marked
    <3>2. y.loc \notin dead
      BY <2>1, <2>3 DEF HasSite
    <3> QED
      BY <3>1, <3>2
  <2> QED
    BY <2>1, <2>4, <2>5, <2>6 DEF Dial
<1>2. ASSUME NEW x \in cands, DialFail(x) \/ HandshakeFail(x) PROVE SeedIsLastResort'
  BY <1>2 DEF DialFail, HandshakeFail, Dial
<1>3. CASE Save
  BY <1>3 DEF Save, IInv, HasSite
<1>4. CASE Candidates \/ DeadLast \/ ReadInvite
  BY <1>4 DEF Candidates, DeadLast, ReadInvite
<1>5. CASE SessionEnd \/ GiveUp \/ Crash
  BY <1>5, EndSteps
<1>6. CASE \/ \E l \in failed : Forget(l)
           \/ \E l \in Scanned : AddInvite(l)
           \/ \E a \in Addr, k \in Key \cup {None} : Move(a, k)
           \/ UNCHANGED vars
  BY <1>6 DEF IInv, Forget, AddInvite, Move, vars, history, HasSite
<1> QED
  BY <1>1, <1>2, <1>3, <1>4, <1>5, <1>6 DEF Next

LEMMA StepIInv == IInv /\ [Next]_vars => IInv'
<1> SUFFICES ASSUME IInv, [Next]_vars PROVE IInv'
  OBVIOUS
<1>1. TypeOK /\ Kept /\ Left /\ Marked /\ SeedsLast
  BY DEF IInv
<1>2. TypeOK' /\ Kept'
  BY <1>1, TypeStep, KeptStep
<1>3. Left' /\ Marked' /\ SeedsLast'
  BY <1>1, LeftStep, SeedsStep
<1>4. SeedIsLastResort'
  BY LastResortStep
<1> QED
  BY <1>2, <1>3, <1>4 DEF IInv

THEOREM Inductive == Spec => []IInv
BY InitIInv, StepIInv, PTL DEF Spec

-----------------------------------------------------------------------------
(* Theorems                                                                *)

\* Caches keep one entry for each key, and everything has its type.
THEOREM TypeCorrect == Spec => []TypeOK
<1>1. IInv => TypeOK
  BY DEF IInv
<1> QED
  BY <1>1, Inductive, PTL

\* DialOrder puts a seed behind every hub that did not fail, for any cache.
THEOREM SeedsComeLast == Spec => []SeedIsLastResort
<1>1. IInv => SeedIsLastResort
  BY DEF IInv
<1> QED
  BY <1>1, Inductive, PTL

\* candidates() puts hubs that failed behind all others.
THEOREM DeadComeLast == Spec => []DeadHubsLast
<1>1. IInv => DeadHubsLast
  <2> SUFFICES ASSUME IInv, dialled \cap dead # {}, NEW l \in known
               PROVE  HasSite(dialled \cup dead, l)
    BY DEF DeadHubsLast
  <2>1. HasSite(dialled \cup {x.loc : x \in cands}, l)
    BY DEF IInv, Left
  <2>2. \A x \in cands : x.loc \in dead
    BY DEF IInv, Marked
  <2> QED
    BY <2>1, <2>2 DEF HasSite
<1> QED
  BY <1>1, Inductive, PTL

\* connectOnce leaves out no hub that a list names, at none of its IP addresses,
\* before it gives up; of several ports at one of them, DialOrder leaves it one.
THEOREM AllAreDialled == Spec => []NoneSkipped
<1>1. IInv => NoneSkipped
  <2> SUFFICES ASSUME IInv, pc = "dial", cands = {}, NEW l \in known
               PROVE  HasSite(dialled, l)
    BY DEF NoneSkipped
  <2>1. HasSite(dialled \cup {x.loc : x \in cands}, l)
    BY DEF IInv, Left
  <2> QED
    BY <2>1 DEF HasSite
<1> QED
  BY <1>1, Inductive, PTL

\* A crash does not lose a hub that the spoke was connected to.
THEOREM ReachedIsKept == Spec => []ReachedIsOnDisk
<1>1. IInv => ReachedIsOnDisk
  BY DEF IInv, Kept, KeysOf, ReachedIsOnDisk, Range
<1> QED
  BY <1>1, Inductive, PTL
===============================================================================
