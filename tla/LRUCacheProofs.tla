--------------------------- MODULE LRUCacheProofs ---------------------------
(***************************************************************************)
(* For every capacity, TTL and set of keys: list_ and index_ stay          *)
(* consistent, and together they implement AbstractCache.                  *)
(***************************************************************************)
EXTENDS LRUCache, FiniteSetTheorems, TLAPS

\* The inductive invariant. CacheConsistent says nothing of index_.size(),
\* which decides about evictions.
WellFormed(c) ==
  /\ c \in [list : Seq(Entry), index : SUBSET Keys]
  /\ \A i, j \in 1 .. Len(c.list) : c.list[i].key = c.list[j].key => i = j
  /\ c.index = {c.list[i].key : i \in 1 .. Len(c.list)}
  /\ IsFiniteSet(c.index)
  /\ Cardinality(c.index) = Len(c.list)

CacheInv ==
  /\ WellFormed(cache)
  /\ Len(cache.list) <= Capacity
  /\ now \in Nat

\* A cache as its users see it: entries by key, and which was used last.
At(c, k) == c.list[Position(c, k)]
Newer(c, j, k) == Position(c, j) < Position(c, k)

-----------------------------------------------------------------------------
\* Position finds the one entry of a key in the index.
LEMMA PositionFinds ==
  ASSUME NEW c, WellFormed(c), NEW k \in c.index
  PROVE  /\ Position(c, k) \in 1 .. Len(c.list)
         /\ At(c, k).key = k
         /\ At(c, k) \in Entry
         /\ k \in Keys
<1>1. DOMAIN c.list = 1 .. Len(c.list) /\ c.list \in Seq(Entry)
  BY DEF WellFormed
<1>2. \E i \in DOMAIN c.list : c.list[i].key = k
  BY <1>1 DEF WellFormed
<1>3. Position(c, k) \in DOMAIN c.list /\ c.list[Position(c, k)].key = k
  BY <1>2 DEF Position
<1>4. QED
  BY <1>1, <1>3 DEF WellFormed, At

\* The entry at i is the one Position finds for its key.
LEMMA PositionUnique ==
  ASSUME NEW c, WellFormed(c), NEW i \in 1 .. Len(c.list)
  PROVE  c.list[i].key \in c.index /\ Position(c, c.list[i].key) = i
<1>1. c.list[i].key \in c.index
  BY DEF WellFormed
<1>2. QED
  BY <1>1, PositionFinds DEF WellFormed, At

\* Erasing removes one key, and keeps the others' entries and order.
LEMMA EraseKeeps ==
  ASSUME NEW c, WellFormed(c), NEW k \in c.index, NEW d, d = Erase(c, k)
  PROVE  /\ WellFormed(d)
         /\ d.index = c.index \ {k}
         /\ Len(d.list) = Len(c.list) - 1
         /\ \A j \in d.index : At(d, j) = At(c, j)
         /\ \A j, m \in d.index : Newer(d, j, m) <=> Newer(c, j, m)
<1> DEFINE p == Position(c, k)
           n == Len(c.list)
           Old(j) == IF j < p THEN j ELSE j + 1
<1>1. /\ p \in 1 .. n /\ c.list[p].key = k
      /\ n \in Nat /\ c.list \in Seq(Entry)
      /\ \A i \in 1 .. n : c.list[i] \in Entry
  <2>1. p \in 1 .. n /\ c.list[p].key = k
    BY PositionFinds DEF At
  <2>2. c.list \in Seq(Entry)
    BY DEF WellFormed
  <2>3. QED
    BY <2>1, <2>2
<1>2. /\ d.list = [j \in 1 .. n - 1 |-> c.list[Old(j)]]
      /\ d.index = c.index \ {k}
      /\ d = [list |-> d.list, index |-> d.index]
  BY DEF Erase
<1> HIDE DEF p, n
<1>3. \A j \in 1 .. n - 1 : Old(j) \in 1 .. n
  BY <1>1
<1>4. d.list \in Seq(Entry) /\ Len(d.list) = n - 1
  <2>1. d.list \in [1 .. n - 1 -> Entry]
    BY <1>1, <1>2, <1>3
  <2>2. n - 1 \in Nat
    BY <1>1
  <2>3. QED
    BY <2>1, <2>2
<1>5. \A i \in 1 .. n - 1 : d.list[i] = c.list[Old(i)]
  BY <1>2
<1>6. \A i, j \in 1 .. n - 1 : d.list[i].key = d.list[j].key => i = j
  <2>1. \A i, j \in 1 .. n : c.list[i].key = c.list[j].key => i = j
    BY DEF WellFormed, n
  <2>2. \A i, j \in 1 .. n - 1 : Old(i) = Old(j) => i = j
    BY <1>1
  <2>3. QED
    BY <2>1, <2>2, <1>3, <1>5
<1>7. d.index = {d.list[i].key : i \in 1 .. n - 1}
  <2>1. \A i \in 1 .. n : c.list[i].key = k => i = p
    BY <1>1 DEF WellFormed, n
  <2>2. c.index = {c.list[i].key : i \in 1 .. n}
    BY DEF WellFormed, n
  <2>3. ASSUME NEW i \in 1 .. n - 1 PROVE d.list[i].key \in d.index
    <3>1. Old(i) # p
      BY <1>1
    <3>2. QED
      BY <1>2, <1>3, <1>5, <2>1, <2>2, <3>1
  <2>4. ASSUME NEW x \in d.index PROVE \E i \in 1 .. n - 1 : d.list[i].key = x
    <3>1. PICK i \in 1 .. n : c.list[i].key = x
      BY <1>2, <2>2
    <3>2. i # p
      BY <1>1, <1>2, <3>1
    <3>3. CASE i < p
      <4>1. i \in 1 .. n - 1 /\ Old(i) = i
        BY <1>1, <3>3
      <4>2. QED
        BY <1>5, <3>1, <4>1
    <3>4. CASE i > p
      <4>1. i - 1 \in 1 .. n - 1 /\ Old(i - 1) = i
        BY <1>1, <3>4
      <4>2. QED
        BY <1>5, <3>1, <4>1
    <3>5. QED
      BY <1>1, <3>2, <3>3, <3>4
  <2>5. QED
    BY <2>3, <2>4
<1>8. IsFiniteSet(d.index) /\ Cardinality(d.index) = n - 1
  <2>1. IsFiniteSet(c.index) /\ Cardinality(c.index) = n
    BY DEF WellFormed, n
  <2>2. QED
    BY <1>2, <2>1, FS_RemoveElement
<1>9. WellFormed(d)
  <2>1. d.index \in SUBSET Keys
    BY <1>2 DEF WellFormed
  <2>2. QED
    BY <1>2, <1>4, <1>6, <1>7, <1>8, <2>1 DEF WellFormed
<1>10. \A j \in d.index :
         /\ At(d, j) = At(c, j)
         /\ Position(d, j) \in 1 .. n - 1
         /\ Position(c, j) = Old(Position(d, j))
  <2> SUFFICES ASSUME NEW j \in d.index
               PROVE  /\ At(d, j) = At(c, j)
                      /\ Position(d, j) \in 1 .. n - 1
                      /\ Position(c, j) = Old(Position(d, j))
    OBVIOUS
  <2>1. Position(d, j) \in 1 .. n - 1 /\ d.list[Position(d, j)].key = j
    BY <1>4, <1>9, PositionFinds DEF At
  <2>2. Old(Position(d, j)) \in 1 .. n /\ c.list[Old(Position(d, j))].key = j
    BY <1>3, <1>5, <2>1
  <2>3. Position(c, j) = Old(Position(d, j))
    BY <2>2, PositionUnique DEF n
  <2>4. QED
    BY <1>5, <2>1, <2>3 DEF At
<1>11. ASSUME NEW j \in d.index, NEW m \in d.index
       PROVE  Newer(d, j, m) <=> Newer(c, j, m)
  BY <1>1, <1>10 DEF Newer
<1>12. QED
  BY <1>2, <1>4, <1>9, <1>10, <1>11 DEF n

\* The cache with a new entry in front.
Push(c, e) == [list |-> <<e>> \o c.list, index |-> c.index \cup {e.key}]

\* A new key comes first, and the others keep their entries and order.
LEMMA PushKeeps ==
  ASSUME NEW c, WellFormed(c), NEW e \in Entry, e.key \notin c.index, NEW d, d = Push(c, e)
  PROVE  /\ WellFormed(d)
         /\ d.index = c.index \cup {e.key}
         /\ Len(d.list) = Len(c.list) + 1
         /\ At(d, e.key) = e
         /\ \A j \in c.index : At(d, j) = At(c, j)
         /\ \A j, m \in c.index : Newer(d, j, m) <=> Newer(c, j, m)
         /\ \A j \in c.index : Newer(d, e.key, j) /\ ~Newer(d, j, e.key)
         /\ ~Newer(d, e.key, e.key)
<1> DEFINE n == Len(c.list)
<1>1. n \in Nat /\ c.list \in Seq(Entry) /\ \A i \in 1 .. n : c.list[i] \in Entry
  <2>1. c.list \in Seq(Entry)
    BY DEF WellFormed
  <2>2. QED
    BY <2>1
<1>2. /\ d.list = <<e>> \o c.list
      /\ d.index = c.index \cup {e.key}
      /\ d = [list |-> d.list, index |-> d.index]
  BY DEF Push
<1>3. d.list \in Seq(Entry) /\ Len(d.list) = n + 1
  BY <1>1, <1>2
<1>4. d.list[1] = e /\ \A i \in 1 .. n : d.list[i + 1] = c.list[i]
  <2>1. <<e>> \in Seq(Entry) /\ Len(<<e>>) = 1 /\ <<e>>[1] = e
    OBVIOUS
  <2>2. \A j \in 1 .. 1 + n :
          (<<e>> \o c.list)[j] = IF j <= 1 THEN <<e>>[j] ELSE c.list[j - 1]
    BY <1>1, <2>1
  <2>3. 1 \in 1 .. 1 + n /\ \A i \in 1 .. n : i + 1 \in 1 .. 1 + n /\ ~(i + 1 <= 1) /\ i + 1 - 1 = i
    BY <1>1
  <2>4. QED
    BY <1>2, <2>1, <2>2, <2>3
<1> HIDE DEF n
<1>5. \A i \in 1 .. n : c.list[i].key \in c.index /\ c.list[i].key # e.key
  BY DEF WellFormed, n
<1>6. \A i \in 2 .. n + 1 : i - 1 \in 1 .. n /\ d.list[i] = c.list[i - 1]
  BY <1>1, <1>4
<1>7. \A i, j \in 1 .. n + 1 : d.list[i].key = d.list[j].key => i = j
  <2>1. \A i, j \in 1 .. n : c.list[i].key = c.list[j].key => i = j
    BY DEF WellFormed, n
  <2> SUFFICES ASSUME NEW i \in 1 .. n + 1, NEW j \in 1 .. n + 1, d.list[i].key = d.list[j].key
               PROVE  i = j
    OBVIOUS
  <2>2. CASE i = 1 /\ j = 1
    BY <2>2
  <2>3. CASE i = 1 /\ j \in 2 .. n + 1
    BY <1>4, <1>5, <1>6, <2>3
  <2>4. CASE i \in 2 .. n + 1 /\ j = 1
    BY <1>4, <1>5, <1>6, <2>4
  <2>5. CASE i \in 2 .. n + 1 /\ j \in 2 .. n + 1
    <3>1. i - 1 = j - 1
      BY <1>6, <2>1, <2>5
    <3>2. QED
      BY <1>1, <3>1
  <2>6. QED
    BY <1>1, <2>2, <2>3, <2>4, <2>5
<1>8. d.index = {d.list[i].key : i \in 1 .. n + 1}
  <2>1. c.index = {c.list[i].key : i \in 1 .. n}
    BY DEF WellFormed, n
  <2>2. ASSUME NEW i \in 1 .. n + 1 PROVE d.list[i].key \in d.index
    <3>1. i = 1 \/ i \in 2 .. n + 1
      BY <1>1
    <3>2. QED
      BY <1>2, <1>4, <1>5, <1>6, <3>1
  <2>3. ASSUME NEW x \in d.index PROVE \E i \in 1 .. n + 1 : d.list[i].key = x
    <3>1. CASE x = e.key
      BY <1>1, <1>4, <3>1
    <3>2. CASE x \in c.index
      <4>1. PICK i \in 1 .. n : c.list[i].key = x
        BY <2>1, <3>2
      <4>2. i + 1 \in 1 .. n + 1 /\ d.list[i + 1].key = x
        BY <1>1, <1>4, <4>1
      <4>3. QED
        BY <4>2
    <3>3. QED
      BY <1>2, <3>1, <3>2
  <2>4. QED
    BY <2>2, <2>3
<1>9. IsFiniteSet(d.index) /\ Cardinality(d.index) = n + 1
  <2>1. IsFiniteSet(c.index) /\ Cardinality(c.index) = n
    BY DEF WellFormed, n
  <2>2. QED
    <3>1. IsFiniteSet(c.index \cup {e.key}) /\ Cardinality(c.index \cup {e.key}) = n + 1
      BY <2>1, FS_AddElement
    <3>2. QED
      BY <1>2, <3>1
<1>10. WellFormed(d)
  <2>1. d.index \in SUBSET Keys
    BY <1>2 DEF WellFormed, Entry
  <2>2. QED
    BY <1>2, <1>3, <1>7, <1>8, <1>9, <2>1 DEF WellFormed
<1>11. Position(d, e.key) = 1
  BY <1>1, <1>3, <1>4, <1>10, PositionUnique
<1>12. \A j \in c.index :
         /\ Position(c, j) \in 1 .. n
         /\ Position(d, j) = Position(c, j) + 1
         /\ At(d, j) = At(c, j)
  <2> SUFFICES ASSUME NEW j \in c.index
               PROVE  /\ Position(c, j) \in 1 .. n
                      /\ Position(d, j) = Position(c, j) + 1
                      /\ At(d, j) = At(c, j)
    OBVIOUS
  <2>1. Position(c, j) \in 1 .. n /\ c.list[Position(c, j)].key = j
    BY PositionFinds DEF At, n
  <2>2. /\ Position(c, j) + 1 \in 1 .. n + 1
        /\ d.list[Position(c, j) + 1] = c.list[Position(c, j)]
    BY <1>1, <1>4, <2>1
  <2>3. Position(d, j) = Position(c, j) + 1
    BY <1>3, <1>10, <2>1, <2>2, PositionUnique
  <2>4. QED
    BY <2>1, <2>2, <2>3 DEF At
<1>13. ASSUME NEW j \in c.index, NEW m \in c.index
       PROVE  /\ Newer(d, j, m) <=> Newer(c, j, m)
              /\ Newer(d, e.key, j) /\ ~Newer(d, j, e.key)
  BY <1>1, <1>11, <1>12 DEF Newer
<1>14. At(d, e.key) = e /\ ~Newer(d, e.key, e.key)
  BY <1>4, <1>11 DEF At, Newer
<1>15. QED
  BY <1>2, <1>3, <1>10, <1>12, <1>13, <1>14 DEF n

\* splice to the front is erase and push_front.
LEMMA ToFrontIs ==
  ASSUME NEW c, WellFormed(c), NEW k \in c.index, NEW e \in Entry, e.key = k
  PROVE  ToFront(c, k, e) = Push(Erase(c, k), e)
<1> DEFINE p == Position(c, k)
           n == Len(c.list)
           d == Erase(c, k)
<1>1. p \in 1 .. n /\ n \in Nat /\ k \in Keys
  <2>1. p \in 1 .. n /\ k \in Keys
    BY PositionFinds
  <2>2. c.list \in Seq(Entry)
    BY DEF WellFormed
  <2>3. QED
    BY <2>1, <2>2
<1>2. d.list \in Seq(Entry) /\ Len(d.list) = n - 1
  <2>1. WellFormed(d) /\ Len(d.list) = n - 1
    BY EraseKeeps
  <2>2. QED
    BY <2>1 DEF WellFormed
<1>3. \A j \in 1 .. n - 1 : d.list[j] = IF j < p THEN c.list[j] ELSE c.list[j + 1]
  BY DEF Erase
<1>4. d.index = c.index \ {k}
  BY DEF Erase
<1>5. /\ ToFront(c, k, e).list = [j \in 1 .. n |->
           IF j = 1 THEN e ELSE IF j <= p THEN c.list[j - 1] ELSE c.list[j]]
      /\ ToFront(c, k, e).index = c.index
      /\ ToFront(c, k, e) = [list |-> ToFront(c, k, e).list, index |-> ToFront(c, k, e).index]
  <2>1. c = [list |-> c.list, index |-> c.index]
    BY DEF WellFormed
  <2>2. ToFront(c, k, e) = [list |-> [j \in 1 .. n |->
           IF j = 1 THEN e ELSE IF j <= p THEN c.list[j - 1] ELSE c.list[j]], index |-> c.index]
    BY <2>1 DEF ToFront
  <2>3. QED
    BY <2>2
<1> HIDE DEF p, n, d
<1>6. <<e>> \o d.list = [j \in 1 .. n |->
        IF j = 1 THEN e ELSE IF j <= p THEN c.list[j - 1] ELSE c.list[j]]
  <2> DEFINE s == <<e>> \o d.list
  <2>1. s \in Seq(Entry) /\ Len(s) = n
    BY <1>1, <1>2
  <2>2. s[1] = e /\ \A j \in 2 .. n : s[j] = d.list[j - 1]
    BY <1>1, <1>2
  <2>3. \A j \in 2 .. n : d.list[j - 1] = IF j <= p THEN c.list[j - 1] ELSE c.list[j]
    BY <1>1, <1>3
  <2>4. s = [j \in 1 .. n |-> s[j]]
    BY <2>1
  <2> HIDE DEF s
  <2>5. \A j \in 1 .. n :
          s[j] = IF j = 1 THEN e ELSE IF j <= p THEN c.list[j - 1] ELSE c.list[j]
    BY <1>1, <2>2, <2>3
  <2>6. s = [j \in 1 .. n |->
        IF j = 1 THEN e ELSE IF j <= p THEN c.list[j - 1] ELSE c.list[j]]
    BY <2>4, <2>5
  <2>7. QED
    BY <2>6 DEF s
<1>7. (c.index \ {k}) \cup {k} = c.index
  OBVIOUS
<1>8. QED
  BY <1>4, <1>5, <1>6, <1>7 DEF Push, d

\* pop_back is erase of the last key.
LEMMA EvictIs ==
  ASSUME NEW c, WellFormed(c), Cardinality(c.index) > Capacity
  PROVE  /\ Len(c.list) \in 1 .. Len(c.list)
         /\ Evict(c) = Erase(c, c.list[Len(c.list)].key)
<1> DEFINE n == Len(c.list)
           k == c.list[n].key
<1>1. c.list \in Seq(Entry) /\ n \in Nat /\ Cardinality(c.index) = n
  BY DEF WellFormed
<1>2. n \in 1 .. n
  BY <1>1, CacheAssumption
<1>3. k \in c.index /\ Position(c, k) = n
  BY <1>2, PositionUnique
<1>4. SubSeq(c.list, 1, n - 1) = [j \in 1 .. n - 1 |-> c.list[j]]
  BY <1>1, <1>2
<1>5. Erase(c, k) = [list |-> [j \in 1 .. n - 1 |-> IF j < n THEN c.list[j] ELSE c.list[j + 1]],
                     index |-> c.index \ {k}]
  BY <1>3 DEF Erase
<1>6. [j \in 1 .. n - 1 |-> IF j < n THEN c.list[j] ELSE c.list[j + 1]]
        = [j \in 1 .. n - 1 |-> c.list[j]]
  BY <1>1
<1>7. QED
  BY <1>2, <1>4, <1>5, <1>6 DEF Evict

-----------------------------------------------------------------------------
(* What erase and push_front do to the entries by key and to their order.  *)

Only(f, S) == [j \in S |-> f[j]]
With(f, S, e) == [j \in S \cup {e.key} |->
                   IF j = e.key THEN [value |-> e.value, at |-> e.at] ELSE f[j]]
Without(r, k) == {p \in r : p[1] # k /\ p[2] # k}
Before(k, S) == {<<k, j>> : j \in S}

\* Erasing an entry removes its key from the content and from the order.
LEMMA EraseView ==
  ASSUME NEW c, WellFormed(c), NEW k \in c.index, NEW d, d = Erase(c, k)
  PROVE  /\ Content(d) = Only(Content(c), c.index \ {k})
         /\ Recency(d) = Without(Recency(c), k)
<1>1. /\ d.index = c.index \ {k}
      /\ \A j \in d.index : At(d, j) = At(c, j)
      /\ \A j, m \in d.index : Newer(d, j, m) <=> Newer(c, j, m)
  BY EraseKeeps
<1>2. Content(d) = Only(Content(c), c.index \ {k})
  BY <1>1 DEF Content, Value, At, Only
<1>3. \A p \in c.index \X c.index :
        p \in d.index \X d.index <=> p[1] # k /\ p[2] # k
  BY <1>1
<1>4. \A p \in d.index \X d.index : Newer(d, p[1], p[2]) <=> Newer(c, p[1], p[2])
  BY <1>1
<1>5. Recency(d) = Without(Recency(c), k)
  BY <1>1, <1>3, <1>4 DEF Recency, Newer, Without
<1>6. QED
  BY <1>2, <1>5

\* Pushing to the front adds an entry newer than all others.
LEMMA PushView ==
  ASSUME NEW c, WellFormed(c), NEW e \in Entry, e.key \notin c.index, NEW d, d = Push(c, e)
  PROVE  /\ Content(d) = With(Content(c), c.index, e)
         /\ Recency(d) = Recency(c) \cup Before(e.key, c.index)
<1> DEFINE k == e.key
<1>1. /\ d.index = c.index \cup {k}
      /\ At(d, k) = e
      /\ \A j \in c.index : At(d, j) = At(c, j)
      /\ \A j, m \in c.index : Newer(d, j, m) <=> Newer(c, j, m)
      /\ \A j \in c.index : Newer(d, k, j) /\ ~Newer(d, j, k)
      /\ ~Newer(d, k, k)
  BY PushKeeps
<1> HIDE DEF k
<1>2. Content(d) = With(Content(c), c.index, e)
  BY <1>1 DEF Content, Value, At, With, k
<1>3. ASSUME NEW x PROVE x \in Recency(d) <=> x \in Recency(c) \cup Before(k, c.index)
  <2>1. CASE x \in d.index \X d.index
    <3>1. PICK j \in d.index, m \in d.index : x = <<j, m>>
      BY <2>1
    <3>2. x \in Recency(d) <=> Newer(d, j, m)
      BY <3>1 DEF Recency, Newer
    <3>3. x \in Recency(c) <=> j \in c.index /\ m \in c.index /\ Newer(c, j, m)
      BY <3>1 DEF Recency, Newer
    <3>4. x \in Before(k, c.index) <=> j = k /\ m \in c.index
      BY <3>1 DEF Before
    <3>5. Newer(d, j, m) <=> (j \in c.index /\ m \in c.index /\ Newer(c, j, m)) \/ (j = k /\ m \in c.index)
      <4>1. k \notin c.index
        BY DEF k
      <4>2. QED
        BY <1>1, <4>1
    <3>6. QED
      BY <3>2, <3>3, <3>4, <3>5
  <2>2. CASE x \notin d.index \X d.index
    <3>1. x \notin Recency(d)
      BY <2>2 DEF Recency
    <3>2. x \notin Recency(c)
      BY <1>1, <2>2 DEF Recency
    <3>3. x \notin Before(k, c.index)
      BY <1>1, <2>2 DEF Before
    <3>4. QED
      BY <3>1, <3>2, <3>3
  <2>3. QED
    BY <2>1, <2>2
<1>4. Recency(d) = Recency(c) \cup Before(k, c.index)
  BY <1>3
<1>5. QED
  BY <1>2, <1>4 DEF k

\* Splicing an entry to the front keeps list and index in agreement.
LEMMA ToFrontKeeps ==
  ASSUME NEW c, WellFormed(c), NEW k \in c.index, NEW e \in Entry, e.key = k,
         NEW d, d = ToFront(c, k, e)
  PROVE  /\ WellFormed(d)
         /\ d.index = c.index
         /\ Len(d.list) = Len(c.list)
<1> DEFINE b == Erase(c, k)
<1>1. WellFormed(b) /\ b.index = c.index \ {k} /\ Len(b.list) = Len(c.list) - 1
  BY EraseKeeps
<1>2. d = Push(b, e)
  BY ToFrontIs
<1> HIDE DEF b
<1>3. WellFormed(d) /\ d.index = b.index \cup {k} /\ Len(d.list) = Len(b.list) + 1
  BY <1>1, <1>2, PushKeeps
<1>4. Len(c.list) \in Nat
  <2>1. c.list \in Seq(Entry)
    BY DEF WellFormed
  <2>2. QED
    BY <2>1
<1>5. QED
  BY <1>1, <1>3, <1>4

\* Splicing to the front makes an entry newer than all others.
LEMMA ToFrontView ==
  ASSUME NEW c, WellFormed(c), NEW k \in c.index, NEW e \in Entry, e.key = k,
         NEW d, d = ToFront(c, k, e)
  PROVE  /\ Content(d) = With(Content(c), c.index, e)
         /\ Recency(d) = Without(Recency(c), k) \cup Before(k, c.index \ {k})
<1> DEFINE b == Erase(c, k)
<1>1. b = Erase(c, k) /\ d = Push(b, e)
  BY ToFrontIs
<1> HIDE DEF b
<1>2. WellFormed(b) /\ b.index = c.index \ {k}
  BY <1>1, EraseKeeps
<1>3. Content(b) = Only(Content(c), c.index \ {k}) /\ Recency(b) = Without(Recency(c), k)
  BY <1>1, EraseView
<1>4. Content(d) = With(Content(b), b.index, e) /\ Recency(d) = Recency(b) \cup Before(k, b.index)
  BY <1>1, <1>2, PushView
<1>5. Content(d) = With(Content(c), c.index, e)
  BY <1>2, <1>3, <1>4 DEF With, Only
<1>6. QED
  BY <1>2, <1>3, <1>4, <1>5

\* Leaving out the pairs with a key outside of S, as AbstractCache!Keep does.
Among(r, S) == {p \in r : p[1] \in S /\ p[2] \in S}

\* Restricting to all keys, or to all but one, of a cache.
LEMMA AmongAll ==
  ASSUME NEW c
  PROVE  /\ DOMAIN Content(c) = c.index
         /\ Only(Content(c), c.index) = Content(c)
         /\ Among(Recency(c), c.index) = Recency(c)
         /\ \A k : Among(Recency(c), c.index \ {k}) = Without(Recency(c), k)
<1>1. DOMAIN Content(c) = c.index /\ Only(Content(c), c.index) = Content(c)
  BY DEF Content, Only
<1>2. \A p \in Recency(c) : p[1] \in c.index /\ p[2] \in c.index
  BY DEF Recency
<1>3. QED
  BY <1>1, <1>2 DEF Among, Without

\* get() is the lookup of the abstract cache.
LEMMA GetStep ==
  ASSUME CacheInv, NEW k \in Keys, Get(k)
  PROVE  CacheInv' /\ Abstract!Get(k)
<1> DEFINE c == cache
           d == cache'
           e == At(cache, k)
<1>1. WellFormed(c) /\ Len(c.list) <= Capacity /\ now \in Nat /\ now' = now /\ d = AfterGet(c, k, now)
  BY DEF CacheInv, Get
<1>2. CASE k \notin c.index
  <2>1. d = c
    BY <1>1, <1>2 DEF AfterGet
  <2>2. k \notin DOMAIN Content(c)
    BY <1>2, AmongAll
  <2>3. QED
    BY <1>1, <2>1, <2>2 DEF CacheInv, Abstract!Get
<1>3. CASE k \in c.index /\ Found(c, k, now)
  <2>1. e \in Entry /\ e.key = k
    BY <1>1, <1>3, PositionFinds
  <2>2. d = ToFront(c, k, e)
    BY <1>1, <1>3 DEF AfterGet, At
  <2>3. ~(Ttl > 0 /\ now - Content(c)[k].at > Ttl)
    BY <1>3 DEF Found, Expired, Content
  <2>4. /\ WellFormed(d) /\ d.index = c.index /\ Len(d.list) = Len(c.list)
        /\ Content(d) = With(Content(c), c.index, e)
        /\ Recency(d) = Without(Recency(c), k) \cup Before(k, c.index \ {k})
    <3> HIDE DEF c, d, e
    <3>1. WellFormed(d) /\ d.index = c.index /\ Len(d.list) = Len(c.list)
      BY <1>1, <1>3, <2>1, <2>2, ToFrontKeeps
    <3>2. /\ Content(d) = With(Content(c), c.index, e)
          /\ Recency(d) = Without(Recency(c), k) \cup Before(k, c.index \ {k})
      BY <1>1, <1>3, <2>1, <2>2, ToFrontView
    <3>3. QED
      BY <3>1, <3>2
  <2>5. With(Content(c), c.index, e) = Only(Content(c), c.index)
    BY <1>3, <2>1 DEF With, Only, Content, Value, At
  <2>6. Among(Recency(d), c.index) = Recency(d)
    BY <2>4, AmongAll
  <2>7. k \in DOMAIN Content(c) /\ DOMAIN Content(c) = c.index
    BY <1>3, AmongAll
  <2>8. Abstract!Keep(DOMAIN Content(c), Content(c), Abstract!Used(k, DOMAIN Content(c)))
    BY <2>4, <2>5, <2>6, <2>7 DEF Abstract!Keep, Abstract!Used, Among, Only, Without, Before
  <2>9. QED
    BY <1>1, <2>3, <2>4, <2>7, <2>8 DEF CacheInv, Abstract!Get
<1>4. CASE k \in c.index /\ ~Found(c, k, now)
  <2>1. d = Erase(c, k)
    BY <1>1, <1>4 DEF AfterGet
  <2>2. Ttl > 0 /\ now - Content(c)[k].at > Ttl
    BY <1>4 DEF Found, Expired, Content
  <2>3. WellFormed(d) /\ Len(d.list) = Len(c.list) - 1
    BY <1>1, <1>4, <2>1, EraseKeeps
  <2>4. Abstract!Keep(DOMAIN Content(c) \ {k}, Content(c), Recency(c))
    <3>1. Content(d) = Only(Content(c), c.index \ {k}) /\ Recency(d) = Without(Recency(c), k)
      BY <1>1, <1>4, <2>1, EraseView
    <3>2. DOMAIN Content(c) = c.index /\ Among(Recency(c), c.index \ {k}) = Without(Recency(c), k)
      BY AmongAll
    <3>3. QED
      BY <3>1, <3>2 DEF Abstract!Keep, Only, Among
  <2>5. Len(d.list) <= Capacity
    BY <1>1, <2>3, CacheAssumption DEF WellFormed
  <2>6. QED
    BY <1>1, <1>4, <2>2, <2>3, <2>4, <2>5, AmongAll DEF CacheInv, Abstract!Get
<1>5. QED
  BY <1>2, <1>3, <1>4

\* put(), eviction included, is the store of the abstract cache.
LEMMA PutStep ==
  ASSUME CacheInv, NEW k \in Keys, NEW v \in Values, Put(k, v)
  PROVE  CacheInv' /\ Abstract!Put(k, v)
<1> DEFINE c == cache
           d == cache'
           e == [key |-> k, value |-> v, at |-> now]
           S == DOMAIN Content(cache) \cup {k}
           f == [j \in S |-> IF j = k THEN [value |-> v, at |-> now] ELSE Content(cache)[j]]
<1>1. WellFormed(c) /\ Len(c.list) <= Capacity /\ now \in Nat /\ now' = now /\ d = AfterPut(c, k, v, now)
  BY DEF CacheInv, Put
<1>2. e \in Entry /\ e.key = k /\ e.value = v /\ e.at = now
  BY <1>1 DEF Entry
<1>3. S = c.index \cup {k} /\ f = With(Content(c), c.index, e)
  <2>1. DOMAIN Content(c) = c.index
    BY AmongAll
  <2>2. QED
    BY <1>2, <2>1 DEF With
<1> DEFINE Kept == Abstract!Keep(S, f, Abstract!Used(k, S))
           Evicted == \E o \in S : /\ \A j \in S \ {o} : <<j, o>> \in Abstract!Used(k, S)
                                  /\ Abstract!Keep(S \ {o}, f, Abstract!Used(k, S))
<1>put. /\ (k \in DOMAIN Content(c) \/ Cardinality(S) <= Capacity) /\ Kept => Abstract!Put(k, v)
        /\ k \notin DOMAIN Content(c) /\ Cardinality(S) > Capacity /\ Evicted => Abstract!Put(k, v)
  <2> HIDE DEF Kept, Evicted
  <2>1. Abstract!Put(k, v) <=>
          /\ UNCHANGED now
          /\ \/ (k \in DOMAIN Content(c) \/ Cardinality(S) <= Capacity) /\ Kept
             \/ k \notin DOMAIN Content(c) /\ Cardinality(S) > Capacity /\ Evicted
    <3>1. Abstract!Cardinality(S) = Cardinality(S)
      BY DEF Abstract!Cardinality, Cardinality
    <3>2. QED
      BY <3>1, Zenon DEF Abstract!Put, Kept, Evicted
  <2>2. QED
    BY <1>1, <2>1
<1>4. CASE k \in c.index
  <2>1. d = ToFront(c, k, e)
    BY <1>1, <1>4 DEF AfterPut
  <2>2. /\ WellFormed(d) /\ d.index = c.index /\ Len(d.list) = Len(c.list)
        /\ Content(d) = With(Content(c), c.index, e)
        /\ Recency(d) = Without(Recency(c), k) \cup Before(k, c.index \ {k})
    <3> HIDE DEF c, d, e
    <3>1. WellFormed(d) /\ d.index = c.index /\ Len(d.list) = Len(c.list)
      BY <1>1, <1>2, <1>4, <2>1, ToFrontKeeps
    <3>2. /\ Content(d) = With(Content(c), c.index, e)
          /\ Recency(d) = Without(Recency(c), k) \cup Before(k, c.index \ {k})
      BY <1>1, <1>2, <1>4, <2>1, ToFrontView
    <3>3. QED
      BY <3>1, <3>2
  <2>3. S = c.index /\ k \in DOMAIN Content(c)
    BY <1>3, <1>4, AmongAll
  <2>4. Among(Recency(d), S) = Recency(d) /\ Only(Content(d), S) = Content(d)
    BY <2>2, <2>3, AmongAll
  <2>5. Abstract!Used(k, S) = Recency(d)
    BY <2>2, <2>3 DEF Abstract!Used, Without, Before
  <2>6. Content(d) = f
    BY <1>3, <2>2
  <2>7. Abstract!Keep(S, f, Abstract!Used(k, S))
    <3> HIDE DEF f, S, c
    <3>1. QED
      BY <2>4, <2>5, <2>6 DEF Abstract!Keep, Among, Only
  <2>8. QED
    BY <1>1, <1>put, <2>2, <2>3, <2>7 DEF CacheInv
<1>5. CASE k \notin c.index
  <2> DEFINE b == Push(c, e)
  <2>1. d = Evict(b)
    BY <1>1, <1>2, <1>5 DEF AfterPut, Push
  <2>2. WellFormed(b) /\ b.index = S /\ Len(b.list) = Len(c.list) + 1
    <3> HIDE DEF c, d, e
    <3>1. QED
      BY <1>1, <1>2, <1>3, <1>5, PushKeeps
  <2>3. Content(b) = f /\ Recency(b) = Recency(c) \cup Before(k, c.index)
    <3> HIDE DEF c, d, e
    <3>1. Content(b) = With(Content(c), c.index, e) /\ Recency(b) = Recency(c) \cup Before(k, c.index)
      BY <1>1, <1>2, <1>5, PushView
    <3>2. QED
      BY <1>3, <3>1
  <2>4. Abstract!Used(k, S) = Recency(b)
    <3>1. S \ {k} = c.index
      BY <1>3, <1>5
    <3>2. \A p \in Recency(c) : p[1] # k /\ p[2] # k
      BY <1>5 DEF Recency
    <3>3. QED
      BY <2>3, <3>1, <3>2 DEF Abstract!Used, Before
  <2>5. Cardinality(S) = Len(b.list) /\ Len(c.list) \in Nat
    <3>1. Cardinality(S) = Len(b.list)
      BY <2>2 DEF WellFormed
    <3>2. c.list \in Seq(Entry)
      BY <1>1 DEF WellFormed
    <3>3. QED
      BY <3>1, <3>2
  <2>6. k \notin DOMAIN Content(c)
    BY <1>5, AmongAll
  <2> HIDE DEF b, S, f, e
  <2>7. CASE Cardinality(S) <= Capacity
    <3>1. d = b
      BY <2>1, <2>2, <2>5, <2>7, CacheAssumption DEF Evict
    <3>2. Among(Recency(b), S) = Recency(b) /\ Only(Content(b), S) = Content(b)
      BY <2>2, AmongAll
    <3>3. Abstract!Keep(S, f, Abstract!Used(k, S))
      BY <2>3, <2>4, <3>1, <3>2 DEF Abstract!Keep, Among, Only
    <3>4. Abstract!Put(k, v)
      BY <1>put, <2>7, <3>3
    <3>5. QED
      BY <1>1, <2>2, <2>5, <2>7, <3>1, <3>4 DEF CacheInv
  <2>8. CASE Cardinality(S) > Capacity
    <3> DEFINE n == Len(b.list)
               o == b.list[n].key
    <3>1. n \in 1 .. n /\ d = Erase(b, o)
      BY <2>1, <2>2, <2>8, EvictIs
    <3>2. o \in b.index /\ Position(b, o) = n
      BY <2>2, <3>1, PositionUnique
    <3> HIDE DEF n, o
    <3>3. WellFormed(d) /\ Len(d.list) = n - 1
      BY <2>2, <3>1, <3>2, EraseKeeps DEF n
    <3>4. Content(d) = Only(f, S \ {o}) /\ Recency(d) = Among(Recency(b), S \ {o})
      <4>1. Content(d) = Only(Content(b), b.index \ {o}) /\ Recency(d) = Without(Recency(b), o)
        BY <2>2, <3>1, <3>2, EraseView
      <4>2. Among(Recency(b), b.index \ {o}) = Without(Recency(b), o)
        BY AmongAll
      <4>3. QED
        BY <2>2, <2>3, <4>1, <4>2
    <3>5. Abstract!Keep(S \ {o}, f, Abstract!Used(k, S))
      BY <2>4, <3>4 DEF Abstract!Keep, Among, Only
    <3>6. ASSUME NEW j \in S \ {o} PROVE <<j, o>> \in Abstract!Used(k, S)
      <4>1. j \in b.index /\ o \in b.index /\ j # o
        BY <2>2, <3>2
      <4>2. Position(b, j) \in 1 .. n /\ b.list[Position(b, j)].key = j
        BY <2>2, <4>1, PositionFinds DEF At, n
      <4>3. Position(b, j) # n
        BY <4>1, <4>2 DEF o
      <4>4. Position(b, j) < Position(b, o)
        BY <3>1, <3>2, <4>2, <4>3
      <4>5. <<j, o>> \in Recency(b)
        BY <4>1, <4>4 DEF Recency
      <4>6. QED
        BY <2>4, <4>5
    <3>7. Evicted
      BY <2>2, <3>2, <3>5, <3>6
    <3>8. Abstract!Put(k, v)
      BY <1>put, <2>6, <2>8, <3>7
    <3>9. Len(d.list) <= Capacity
      BY <1>1, <2>2, <2>5, <3>3, CacheAssumption DEF n
    <3>10. QED
      BY <1>1, <3>3, <3>8, <3>9 DEF CacheInv
  <2>9. QED
    BY <2>2, <2>5, <2>7, <2>8, CacheAssumption
<1>6. QED
  BY <1>4, <1>5

\* invalidate() is the removal of the abstract cache.
LEMMA InvalidateStep ==
  ASSUME CacheInv, NEW k \in Keys, Invalidate(k)
  PROVE  CacheInv' /\ Abstract!Invalidate(k)
<1> DEFINE c == cache
           d == cache'
<1>1. WellFormed(c) /\ Len(c.list) <= Capacity /\ now \in Nat /\ now' = now
  BY DEF CacheInv, Invalidate
<1>2. DOMAIN Content(c) = c.index
  BY AmongAll
<1>3. CASE k \in c.index
  <2>1. d = Erase(c, k)
    BY <1>3 DEF Invalidate
  <2>2. WellFormed(d) /\ Len(d.list) = Len(c.list) - 1
    BY <1>1, <1>3, <2>1, EraseKeeps
  <2>3. Content(d) = Only(Content(c), c.index \ {k}) /\ Recency(d) = Without(Recency(c), k)
    BY <1>1, <1>3, <2>1, EraseView
  <2>4. Among(Recency(c), c.index \ {k}) = Without(Recency(c), k)
    BY AmongAll
  <2>5. Abstract!Invalidate(k)
    BY <1>1, <1>2, <2>3, <2>4 DEF Abstract!Invalidate, Abstract!Keep, Only, Among
  <2>6. QED
    BY <1>1, <2>2, <2>5, CacheAssumption DEF CacheInv, WellFormed
<1>4. CASE k \notin c.index
  <2>1. d = c
    BY <1>4 DEF Invalidate
  <2>2. c.index \ {k} = c.index
    BY <1>4
  <2>3. Only(Content(c), c.index) = Content(c) /\ Among(Recency(c), c.index) = Recency(c)
    BY AmongAll
  <2>4. Abstract!Invalidate(k)
    BY <1>1, <1>2, <2>1, <2>2, <2>3 DEF Abstract!Invalidate, Abstract!Keep, Only, Among
  <2>5. QED
    BY <1>1, <2>1, <2>4 DEF CacheInv
<1>5. QED
  BY <1>3, <1>4

\* The empty cache.
LEMMA EmptyView ==
  /\ WellFormed(Empty) /\ Len(Empty.list) = 0
  /\ Content(Empty) = [k \in {} |-> k]
  /\ Recency(Empty) = {}
<1>1. Empty.list = <<>> /\ Empty.index = {} /\ Empty \in [list : Seq(Entry), index : SUBSET Keys]
  BY DEF Empty
<1>2. IsFiniteSet({}) /\ Cardinality({}) = 0
  BY FS_EmptySet
<1>3. WellFormed(Empty) /\ Len(Empty.list) = 0
  BY <1>1, <1>2 DEF WellFormed
<1>4. Content(Empty) = [k \in {} |-> k]
  BY <1>1 DEF Content
<1>5. Recency(Empty) = {}
  BY <1>1 DEF Recency
<1>6. QED
  BY <1>3, <1>4, <1>5

\* Every step of the cache is a step of AbstractCache and keeps the invariant.
LEMMA CacheStep ==
  ASSUME CacheInv, [CacheNext]_<<cache, now>>
  PROVE  CacheInv' /\ [Abstract!Next]_(Abstract!vars)
<1>1. CASE \E k \in Keys : Get(k)
  BY <1>1, GetStep DEF Abstract!Next
<1>2. CASE \E k \in Keys : Invalidate(k)
  BY <1>2, InvalidateStep DEF Abstract!Next
<1>3. CASE \E k \in Keys, v \in Values : Put(k, v)
  BY <1>3, PutStep DEF Abstract!Next
<1>4. CASE Clear
  <2>1. cache' = Empty /\ now' = now
    BY <1>4 DEF Clear
  <2>2. CacheInv'
    BY <2>1, EmptyView, CacheAssumption DEF CacheInv
  <2>3. Content(cache') = [k \in {} |-> Content(cache)[k]] /\ Recency(cache') = {}
    BY <2>1, EmptyView
  <2>4. Abstract!Clear
    BY <2>1, <2>3 DEF Abstract!Clear, Abstract!Keep
  <2>5. QED
    BY <2>2, <2>4 DEF Abstract!Next
<1>5. CASE Passes
  <2>1. cache' = cache /\ now' = now + 1
    BY <1>5 DEF Passes
  <2>2. QED
    BY <2>1 DEF CacheInv, Abstract!Next, Abstract!Passes
<1>6. CASE UNCHANGED <<cache, now>>
  BY <1>6 DEF CacheInv, Abstract!vars
<1>7. QED
  BY <1>1, <1>2, <1>3, <1>4, <1>5, <1>6 DEF CacheNext

\* LRUCache.hpp: whatever the capacity, the TTL and the keys, list_ and index_
\* describe the same cache after every method.
THEOREM CacheIsConsistent == CacheSpec => []CacheConsistent
<1>1. CacheInit => CacheInv
  BY EmptyView, CacheAssumption DEF CacheInit, CacheInv
<1>2. CacheInv /\ [CacheNext]_<<cache, now>> => CacheInv'
  BY CacheStep
<1>3. CacheInv => CacheConsistent
  <2> SUFFICES ASSUME CacheInv PROVE CacheConsistent
    OBVIOUS
  <2>1. DOMAIN cache.list = 1 .. Len(cache.list)
    BY DEF CacheInv, WellFormed
  <2>2. QED
    BY <2>1 DEF CacheInv, WellFormed, CacheConsistent
<1>4. QED
  BY <1>1, <1>2, <1>3, PTL DEF CacheSpec

\* LRUCache.hpp: the list and the index implement a bounded map with expiry
\* and least-recently-used replacement, whatever the capacity and the TTL.
THEOREM CacheIsLru == CacheSpec => ImplementsLru
<1>1. CacheInit => CacheInv /\ Abstract!Init
  BY EmptyView, CacheAssumption DEF CacheInit, CacheInv, Abstract!Init
<1>2. CacheInv /\ [CacheNext]_<<cache, now>> => CacheInv' /\ [Abstract!Next]_(Abstract!vars)
  BY CacheStep
<1>3. QED
  BY <1>1, <1>2, PTL DEF CacheSpec, ImplementsLru, Abstract!Spec
=============================================================================
