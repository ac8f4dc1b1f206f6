------------------------------ MODULE LRUCache ------------------------------
(***************************************************************************)
(* The response cache, include/cache/LRUCache.hpp. Every method takes mu_  *)
(* for its whole body and reads the clock under it, so each is one atomic  *)
(* step; the methods are operators on a cache record, which Pipeline calls *)
(* from its workers.                                                       *)
(*                                                                         *)
(* list_ is a sequence of entries, most recently used first; index_ is the *)
(* set of its keys, an iterator being the position of the key's entry.     *)
(***************************************************************************)
EXTENDS Integers, Sequences, FiniteSets

CONSTANTS
  Keys, Values,
  Capacity,  \* capacity_
  Ttl        \* ttl_: entries never expire when it is 0 or less

ASSUME CacheAssumption == Capacity \in Nat /\ Ttl \in Int

VARIABLES
  cache,  \* list_ and index_
  now     \* steady_clock::now()

Entry == [key : Keys, value : Values, at : Nat]
Empty == [list |-> <<>>, index |-> {}]

-----------------------------------------------------------------------------
Position(c, k) == CHOOSE i \in DOMAIN c.list : c.list[i].key = k

\* list_.erase and index_.erase.
Erase(c, k) ==
  LET i == Position(c, k)
  IN  [list |-> [j \in 1 .. Len(c.list) - 1 |-> IF j < i THEN c.list[j] ELSE c.list[j + 1]],
       index |-> c.index \ {k}]

\* list_.splice to the front of the entry at k, which becomes e.
ToFront(c, k, e) ==
  LET i == Position(c, k)
  IN  [c EXCEPT !.list = [j \in 1 .. Len(c.list) |->
         IF j = 1 THEN e ELSE IF j <= i THEN c.list[j - 1] ELSE c.list[j]]]

\* Mutant: an expired entry is only noticed a tick late.
MutExpiredLate(e, t) == Ttl > 0 /\ t - e.at > Ttl + 1

Expired(e, t) == Ttl > 0 /\ t - e.at > Ttl

\* Whether get() has a value to return, and which.
Found(c, k, t) == k \in c.index /\ ~Expired(c.list[Position(c, k)], t)
Value(c, k) == c.list[Position(c, k)].value

AfterGet(c, k, t) ==
  IF k \notin c.index THEN c
  ELSE IF Found(c, k, t) THEN ToFront(c, k, c.list[Position(c, k)])
  ELSE Erase(c, k)

\* Mutant: an evicted entry stays in the index.
MutEvictKeepsIndex(c) ==
  IF Cardinality(c.index) > Capacity
  THEN [c EXCEPT !.list = SubSeq(@, 1, Len(@) - 1)]
  ELSE c

\* put(), lines 51-55.
Evict(c) ==
  IF Cardinality(c.index) > Capacity
  THEN [list |-> SubSeq(c.list, 1, Len(c.list) - 1),
        index |-> c.index \ {c.list[Len(c.list)].key}]
  ELSE c

\* Mutant: an entry that is replaced keeps its old insertion time.
MutPutKeepsTime(c, k, v, t) ==
  LET e == [key |-> k, value |-> v, at |-> t]
  IN  IF k \in c.index
      THEN ToFront(c, k, [e EXCEPT !.at = c.list[Position(c, k)].at])
      ELSE Evict([list |-> <<e>> \o c.list, index |-> c.index \cup {k}])

AfterPut(c, k, v, t) ==
  LET e == [key |-> k, value |-> v, at |-> t]
  IN  IF k \in c.index
      THEN ToFront(c, k, e)
      ELSE Evict([list |-> <<e>> \o c.list, index |-> c.index \cup {k}])

-----------------------------------------------------------------------------
(* A cache by itself; the gateway calls neither invalidate nor clear.      *)

CacheInit == cache = Empty /\ now = 0

Get(k) == cache' = AfterGet(cache, k, now) /\ UNCHANGED now
Put(k, v) == cache' = AfterPut(cache, k, v, now) /\ UNCHANGED now
Invalidate(k) == cache' = (IF k \in cache.index THEN Erase(cache, k) ELSE cache) /\ UNCHANGED now
Clear == cache' = Empty /\ UNCHANGED now
Passes == now' = now + 1 /\ UNCHANGED cache

CacheNext ==
  \/ \E k \in Keys : Get(k) \/ Invalidate(k) \/ \E v \in Values : Put(k, v)
  \/ Clear
  \/ Passes

CacheSpec == CacheInit /\ [][CacheNext]_<<cache, now>>

-----------------------------------------------------------------------------
\* list_ and index_ describe the same cache whatever gets, puts, expiries and
\* evictions happen to it: one entry per key, each in the index, and no more
\* entries than capacity_. A key left in index_ would be a dangling iterator.
CacheConsistent ==
  /\ \A i, j \in DOMAIN cache.list : cache.list[i].key = cache.list[j].key => i = j
  /\ cache.index = {cache.list[i].key : i \in DOMAIN cache.list}
  /\ Len(cache.list) <= Capacity

\* What the cache holds by key, and the pairs of keys <<j, k>> with j in front of k.
Content(c) == [k \in c.index |-> [value |-> Value(c, k), at |-> c.list[Position(c, k)].at]]
Recency(c) == {p \in c.index \X c.index : Position(c, p[1]) < Position(c, p[2])}

Abstract == INSTANCE AbstractCache WITH content <- Content(cache), recency <- Recency(cache)

\* LRUCache.hpp, lines 11-14: list and map together are a bounded map with
\* expiry in which "front = most recently used": get() never returns anything
\* but what the last put() of its key stored, no entry is lost before it
\* expires except the least recently used one, and that one only when the
\* cache is full.
ImplementsLru == Abstract!Spec
=============================================================================
