---------------------------- MODULE MemoryCache ----------------------------
(***************************************************************************)
(* MemoryCacheBackend: a JavaScript Map, which iterates in insertion       *)
(* order, as a least-recently-used cache with a lifetime per entry.        *)
(***************************************************************************)
EXTENDS Integers, Sequences, FiniteSets

CONSTANTS
  Keys,
  maxEntries,
  Ttls         \* lifetimes passed to set, 0: no expiry

VARIABLES
  store,  \* the Map: [key, left] in iteration order, left: time to expiry
  used,   \* keys by their last set or hit, the latest last (history)
  op      \* the last operation

vars == << store, used, op >>

\* The remaining time of an entry without expiry.
Never == 1000

KeysOf(s) == {s[i].key : i \in DOMAIN s}

Without(s, k) == SelectSeq(s, LAMBDA e : e.key # k)

\* expiresAt < Date.now(): an entry is still served in its last instant.
Expired(e) == e.left < 0

Drop(s, n) == IF n <= 0 THEN s ELSE SubSeq(s, n + 1, Len(s))

Use(k) == used' = Append(SelectSeq(used, LAMBDA u : u # k), k)

Entry(k) == CHOOSE e \in {store[i] : i \in DOMAIN store} : e.key = k

Init == store = << >> /\ used = << >> /\ op = "none"

\* A hit moves the entry to the end of the iteration order.
Touched(k) == Append(Without(store, k), Entry(k))

get(k) ==
  /\ k \in KeysOf(store)
  /\ op' = "get"
  /\ IF Expired(Entry(k))
     THEN store' = Without(store, k) /\ used' = used
     ELSE store' = Touched(k) /\ Use(k)

Inserted(k, left) == Append(Without(store, k), [key |-> k, left |-> left])

\* set: insert at the end, then evict from the front until the size fits.
set(k, ttl) ==
  LET all == Inserted(k, IF ttl > 0 THEN ttl ELSE Never)
  IN /\ op' = "set"
     /\ store' = Drop(all, Len(all) - maxEntries)
     /\ Use(k)

del(k) ==
  /\ op' = "del"
  /\ store' = Without(store, k)
  /\ used' = used

clear ==
  /\ op' = "clear"
  /\ store' = << >>
  /\ used' = used

tick ==
  /\ \E i \in DOMAIN store : store[i].left \notin {Never, -1}
  /\ op' = "tick"
  /\ store' = [i \in DOMAIN store |->
                 IF store[i].left \in {Never, -1} THEN store[i]
                 ELSE [store[i] EXCEPT !.left = @ - 1]]
  /\ used' = used

Next ==
  \/ \E k \in Keys : get(k) \/ del(k)
  \/ \E k \in Keys, ttl \in Ttls : set(k, ttl)
  \/ clear \/ tick

Spec == Init /\ [][Next]_vars

-----------------------------------------------------------------------------

Position(k) == CHOOSE i \in DOMAIN used : used[i] = k

\* The Map keeps the order of last use, so that the eviction of its first key
\* is an eviction of the least recently used one (get and set of the backend).
OrderedByUse ==
  /\ Cardinality(KeysOf(store)) = Len(store)
  /\ \A i, j \in DOMAIN store : i < j => Position(store[i].key) < Position(store[j].key)

\* set evicts only when the cache is full, never the key it sets, and never
\* an entry while it keeps one that was used before it.
EvictsLeastRecent ==
  op' = "set" =>
    LET evicted == KeysOf(store) \ KeysOf(store')
    IN /\ evicted # {} => Len(store') = maxEntries /\ Len(store) = maxEntries
       /\ \A e \in evicted, k \in KeysOf(store') :
            k \in KeysOf(store) => Position(e) < Position(k) \/ k = used'[Len(used')]
=============================================================================
