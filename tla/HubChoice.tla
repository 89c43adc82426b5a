------------------------------- MODULE HubChoice -------------------------------
(***************************************************************************)
(* Which hubs a spoke dials, and in which order (hub/spoke.go: candidates, *)
(* connectOnce, the failed map; hub/cache.go): invites, the community list *)
(* and the cache of hubs with its file, while hubs come and go.            *)
(*                                                                         *)
(* A locator is a hub's key and an address, which includes the port.       *)
(* DialOrder finds duplicates without the port: of two locators of a hub   *)
(* that differ in the port only, it keeps one (Site).  IPv6 and IPv4 are   *)
(* one here.  The cache is kept in the order of LastSeen, oldest first.    *)
(* Invites are blobs, which always decode.  Sessions themselves are the    *)
(* subject of module SpokeSession.                                         *)
(***************************************************************************)
EXTENDS Integers, SequencesExt

CONSTANTS Key,        \* hub identities
          Addr,       \* addresses with their ports
          Ip,         \* addresses without them: IPv6 and IPv4 together
          IpOf,       \* the latter of the former
          Seed,       \* the identities that run as cloud seeds
          Given,      \* the invites on the command line, in order
          Scanned,    \* invites that may be added later
          Community,  \* the community list, newest LastSeen first
          Manual,     \* --ipv6 and --key: none or one locator, or any key there
          Served,     \* the hub at each address at first
          MaxRtt,     \* bound: round trips in ms
          Moves,      \* bound: what may change: a hub appears, or None
          MaxMove,    \* bound: how often
          MaxCrash,   \* bound: restarts of the spoke
          None

Locator == [key : Key, addr : Addr]

ASSUME ChoiceAssumption ==
  /\ None \notin Key \cup Addr
  /\ IpOf \in [Addr -> Ip]
  /\ Seed \subseteq Key
  /\ Given \in Seq(Locator)
  /\ Scanned \subseteq Locator
  /\ Community \in Seq(Locator)
  /\ Manual \in Seq([key : Key \cup {None}, addr : Addr]) /\ Len(Manual) <= 1
  /\ Served \in [Addr -> Key \cup {None}]
  /\ Moves \subseteq Addr \X (Key \cup {None})
  /\ MaxRtt \in Nat /\ MaxMove \in Nat /\ MaxCrash \in Nat

VARIABLES serves,   \* the hub that listens at each address
          pc,       \* "idle", "read", "dial", "save" or "up": progress of connectOnce
          invites,  \* sp.cfg.Invites
          unread,   \* candidates(): the invites that are left in its loop
          cache,    \* Cache.Hubs, in memory
          disk,     \* the hubs in cache.json
          failed,   \* locators whose failure is less than 30 s old
          cands,    \* candidates not dialled yet, each with its place in the order
          cur,      \* the locator of the current session
          moves,
          crashes,
          known,    \* history: what this round of connectOnce could choose from
          dead,     \* history: its candidates that had failed recently
          dialled,  \* history: locators dialled in this round, in vain or not
          reached   \* history: hubs reached since cache.json was last torn

history == <<known, dead, dialled, reached>>
vars == <<serves, pc, invites, unread, cache, disk, failed, cands, cur, moves,
          crashes, history>>

Init ==
  /\ serves = Served
  /\ pc = "idle"
  /\ invites = Given /\ unread = <<>>
  /\ cache = <<>> /\ disk = <<>>
  /\ failed = {}
  /\ cands = {} /\ cur = None
  /\ moves = 0 /\ crashes = 0
  /\ known = {} /\ dead = {} /\ dialled = {} /\ reached = {}

Entry(l, rtt) == [key |-> l.key, addr |-> l.addr, rtt |-> rtt]
Loc(h) == [key |-> h.key, addr |-> h.addr]
Locs(s) == {Loc(h) : h \in Range(s)}

\* What DialOrder compares: Ed25519 | IPv6 | IPv4.
Site(l) == [key |-> l.key, ip |-> IpOf[l.addr]]

-----------------------------------------------------------------------------
(* The cache                                                               *)

Of(c, key) == {i \in DOMAIN c : c[i].key = key}

\* The round trip that is noted of h in place of the entries old.
KeptRtt(c, old, h) == IF h.rtt # 0 \/ old = {} THEN h.rtt
                      ELSE c[CHOOSE i \in old : TRUE].rtt

Replace(c, old, h) ==
  Append(IF old = {} THEN c ELSE RemoveAt(c, CHOOSE i \in old : TRUE),
         Entry(h, KeptRtt(c, old, h)))

\* Faulty variant: one entry for each locator.
RememberAll(c, h) == Replace(c, {i \in Of(c, h.key) : c[i].addr = h.addr}, h)

\* One entry for each key, replaced as a whole but for an unknown round trip.
Remember(c, h) == Replace(c, Of(c, h.key), h)

-----------------------------------------------------------------------------
(* The dial order.  A candidate has its place with it: the list that it    *)
(* comes from, its round trip and its position there, and whether it has   *)
(* failed recently.                                                        *)

Lists == 1..5   \* cache, community, fresh, seeds, cached seeds
Place(l, list, rtt, pos) ==
  [loc |-> Loc(l), list |-> list, rtt |-> rtt, pos |-> pos, dead |-> FALSE]

\* Faulty variant: cached seeds are sorted in with the other cached hubs.
CachedByRtt(c) == {Place(c[i], 1, c[i].rtt, Len(c) - i) : i \in DOMAIN c}

\* The newest first, and only the round trips of cached hubs count.
Cached(c) == {IF c[i].key \in Seed THEN Place(c[i], 5, 0, Len(c) - i)
              ELSE Place(c[i], 1, c[i].rtt, Len(c) - i) : i \in DOMAIN c}
Listed == {Place(Community[i], 2, 0, i) : i \in DOMAIN Community}
Invited(inv) == {Place(inv[i], IF inv[i].key \in Seed THEN 4 ELSE 3, 0, i) :
                 i \in DOMAIN inv}
Typed(inv) == {Place(Manual[i], 3, 0, Len(inv) + i) : i \in DOMAIN Manual}

\* Lowest round trip first, unknown ones (0) last.
Faster(r, q) == r # q /\ (q = 0 \/ (r # 0 /\ r < q))

Before(x, y) ==
  \/ x.list < y.list
  \/ /\ x.list = y.list
     /\ Faster(x.rtt, y.rtt) \/ (x.rtt = y.rtt /\ x.pos < y.pos)

\* Faulty variant: the first of several candidates with the same key.
FirstOfKey(S) == {x \in S : ~ \E y \in S : y.loc.key = x.loc.key /\ Before(y, x)}

\* The first of several candidates with the same key and address, whatever their
\* ports are.
First(S) == {x \in S : ~ \E y \in S : Site(y.loc) = Site(x.loc) /\ Before(y, x)}

\* DialOrder(cached, community, fresh, seeds).  The first list of the code, of
\* open sessions, is always empty here: connectOnce has none when it asks.
DialOrder(c, inv) == First(Cached(c) \cup Listed \cup Invited(inv) \cup Typed(inv))

-----------------------------------------------------------------------------
(* connectOnce                                                             *)

RoundOver == known' = {} /\ dead' = {} /\ dialled' = {}

\* candidates() begins: it copies the invites and the cache, before it remembers
\* the former.  What it makes of these lists is local to it.
Candidates ==
  /\ pc = "idle"
  /\ cands' = DialOrder(cache, invites)
  /\ unread' = invites
  /\ pc' = "read"
  /\ known' = Locs(cache) \cup Locs(invites) \cup Locs(Community) \cup Locs(Manual)
  /\ UNCHANGED <<serves, invites, cache, disk, failed, cur, moves, crashes, dead,
                 dialled, reached>>

ReadInvite ==
  /\ pc = "read"
  /\ unread # <<>>
  /\ cache' = Remember(cache, Entry(Head(unread), 0))
  /\ unread' = Tail(unread)
  /\ UNCHANGED <<serves, pc, invites, disk, failed, cands, cur, moves, crashes,
                 history>>

\* Faulty variant: failed hubs keep their place.
NoPenalty ==
  /\ pc = "read"
  /\ unread = <<>>
  /\ dead' = {x.loc : x \in cands} \cap failed
  /\ pc' = "dial"
  /\ UNCHANGED <<serves, invites, unread, cache, disk, failed, cands, cur, moves,
                 crashes, known, dialled, reached>>

\* Hubs that failed less than 30 s ago come last, in the same order.
DeadLast ==
  /\ pc = "read"
  /\ unread = <<>>
  /\ cands' = {[x EXCEPT !.dead = x.loc \in failed] : x \in cands}
  /\ dead' = {x.loc : x \in cands} \cap failed
  /\ pc' = "dial"
  /\ UNCHANGED <<serves, invites, unread, cache, disk, failed, cur, moves, crashes,
                 known, dialled, reached>>

\* The loop has come to candidate x.
Dial(x) ==
  /\ pc = "dial"
  /\ \A y \in cands \ {x} : IF x.dead = y.dead THEN Before(x, y) ELSE y.dead
  /\ cands' = cands \ {x}
  /\ dialled' = dialled \cup {x.loc}

\* It cannot be dialled.
DialFail(x) ==
  /\ Dial(x)
  /\ failed' = failed \cup {x.loc}
  /\ UNCHANGED <<serves, pc, invites, unread, cache, disk, cur, moves, crashes,
                 known, dead, reached>>

\* It can, but another hub is there, or the handshake fails for another reason.
HandshakeFail(x) ==
  /\ Dial(x)
  /\ serves[x.loc.addr] # None
  /\ UNCHANGED <<serves, pc, invites, unread, cache, disk, failed, cur, moves,
                 crashes, known, dead, reached>>

\* The hub answers and is remembered under the key it has proved.
Connect(x) ==
  /\ Dial(x)
  /\ serves[x.loc.addr] # None
  /\ x.loc.key \in {None, serves[x.loc.addr]}
  /\ cur' = [key |-> serves[x.loc.addr], addr |-> x.loc.addr]
  /\ \E rtt \in 0..MaxRtt : cache' = Remember(cache, Entry(cur', rtt))
  /\ pc' = "save"
  /\ UNCHANGED <<serves, invites, unread, disk, failed, moves, crashes, known,
                 dead, reached>>

\* Faulty variant: the cache is saved when the spoke exits.
SaveLater ==
  /\ pc = "save"
  /\ pc' = "up"
  /\ failed' = failed \ {cur}
  /\ reached' = reached \cup {cur.key}
  /\ UNCHANGED <<serves, invites, unread, cache, disk, cands, cur, moves, crashes,
                 known, dead, dialled>>

\* Cache.Save and clearFail, then the session begins.
Save ==
  /\ pc = "save"
  /\ disk' = cache
  /\ pc' = "up"
  /\ failed' = failed \ {cur}
  /\ reached' = reached \cup {cur.key}
  /\ UNCHANGED <<serves, invites, unread, cache, cands, cur, moves, crashes, known,
                 dead, dialled>>

\* The session ends: connectOnce notes the failure and returns.
SessionEnd ==
  /\ pc = "up"
  /\ failed' = failed \cup {cur}
  /\ cur' = None
  /\ cands' = {}
  /\ pc' = "idle"
  /\ RoundOver
  /\ UNCHANGED <<serves, invites, unread, cache, disk, moves, crashes, reached>>

\* All candidates have failed; Run waits and tries again.
GiveUp ==
  /\ pc = "dial"
  /\ cands = {}
  /\ pc' = "idle"
  /\ RoundOver
  /\ UNCHANGED <<serves, invites, unread, cache, disk, failed, cands, cur, moves,
                 crashes, reached>>

-----------------------------------------------------------------------------
(* Around connectOnce                                                      *)

\* 30 seconds have passed since l failed.
Forget(l) ==
  /\ failed' = failed \ {l}
  /\ UNCHANGED <<serves, pc, invites, unread, cache, disk, cands, cur, moves, crashes,
                 history>>

AddInvite(l) ==
  /\ l \in Scanned \ Range(invites)
  /\ invites' = Append(invites, l)
  /\ UNCHANGED <<serves, pc, unread, cache, disk, failed, cands, cur, moves, crashes,
                 history>>

\* A hub starts, stops or gets another prefix.
Move(a, k) ==
  /\ moves < MaxMove
  /\ <<a, k>> \in Moves
  /\ k # serves[a]
  /\ serves' = [serves EXCEPT ![a] = k]
  /\ moves' = moves + 1
  /\ UNCHANGED <<pc, invites, unread, cache, disk, failed, cands, cur, crashes,
                 history>>

\* The spoke is started again with the same command line; os.WriteFile may have
\* left a torn file, which OpenCache ignores.
Crash ==
  /\ crashes < MaxCrash
  /\ crashes' = crashes + 1
  /\ \/ cache' = disk /\ UNCHANGED reached
     \/ pc = "save" /\ cache' = <<>> /\ reached' = {}
  /\ disk' = cache'
  /\ pc' = "idle"
  /\ invites' = Given /\ unread' = <<>>
  /\ failed' = {}
  /\ cands' = {} /\ cur' = None
  /\ RoundOver
  /\ UNCHANGED <<serves, moves>>

-----------------------------------------------------------------------------

Next == \/ Candidates \/ ReadInvite \/ DeadLast
        \/ \E x \in cands : DialFail(x) \/ HandshakeFail(x) \/ Connect(x)
        \/ Save \/ SessionEnd \/ GiveUp
        \/ \E l \in failed : Forget(l)
        \/ \E l \in Scanned : AddInvite(l)
        \/ \E a \in Addr, k \in Key \cup {None} : Move(a, k)
        \/ Crash

Spec == Init /\ [][Next]_vars

-----------------------------------------------------------------------------
(* Properties                                                              *)

Dialable  == Locator \cup Range(Manual)
Candidate == [loc : Dialable, list : Lists, rtt : Nat, pos : Nat, dead : BOOLEAN]

\* A cache has one entry for each key (hub/cache.go:77-91).
CachedHub == [key : Key, addr : Addr, rtt : 0..MaxRtt]
Cache == {c \in Seq(CachedHub) :
            \A i, j \in DOMAIN c : c[i].key = c[j].key => i = j}

TypeOK ==
  /\ serves \in [Addr -> Key \cup {None}]
  /\ pc \in {"idle", "read", "dial", "save", "up"}
  /\ invites \in Seq(Locator) /\ unread \in Seq(Locator)
  /\ cache \in Cache /\ disk \in Cache
  /\ failed \subseteq Dialable
  /\ cands \subseteq Candidate
  /\ cur \in Locator \cup {None}
  /\ moves \in 0..MaxMove
  /\ crashes \in 0..MaxCrash

Session == pc \in {"save", "up"}

\* L has the hub of locator l at l's IP address, though perhaps at another port.
HasSite(L, l) == \E d \in L : Site(d) = Site(l)

\* A cloud seed is a last resort (docs/starlink.md:68-75, hub/cache.go:150-155): it
\* gets a session only when every other hub the spoke knew of was dialled in this
\* round, at each of its IP addresses, or had failed there a moment ago, however
\* often the seed was cached before.  A seed that the community list names is
\* dialled where the list has its place.
SeedIsLastResort ==
  Session /\ cur.key \in Seed \ {h.key : h \in Range(Community)} =>
    \A l \in known : l.key \notin Seed => HasSite(dialled \cup dead, l)

\* docs/starlink.md:71, "dead hub deprioritized": a hub that failed recently is
\* not dialled again before every other one the spoke knows of, so that losing
\* a hub leads to another one.
DeadHubsLast == dialled \cap dead # {} => \A l \in known : HasSite(dialled \cup dead, l)

\* A hub that was reached once is in cache.json, whatever invites and restarts
\* came later: the spoke finds it again without an invite.
ReachedIsOnDisk == \A k \in reached : \E h \in Range(disk) : h.key = k

\* A round is given up only after every hub it could choose from was dialled at
\* each IP address that a list has for it, the older ones and the ones that failed
\* before included.  It is dialled there at one port: of two locators that differ
\* in the port only, DialOrder drops the later one (hub/cache.go:176), so that a
\* hub which changed its port only is missed as long as an earlier list has the
\* old one.
NoneSkipped == pc = "dial" /\ cands = {} => \A l \in known : HasSite(dialled, l)
===============================================================================
