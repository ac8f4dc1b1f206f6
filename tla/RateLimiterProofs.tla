-------------------------- MODULE RateLimiterProofs --------------------------
(***************************************************************************)
(* Proofs about RateLimiter, for every set of threads and keys and every   *)
(* capacity, refill rate and cost.                                         *)
(***************************************************************************)
EXTENDS RateLimiter, TLAPS

-----------------------------------------------------------------------------
(* Arithmetic of refills: time spans times a rate.                         *)

\* What is refilled over two adjacent spans is refilled over both.
LEMMA SpansAdd ==
  ASSUME NEW a \in Int, NEW b \in Int, NEW c \in Int, NEW r \in Int
  PROVE  (c - a) * r = (c - b) * r + (b - a) * r
OBVIOUS

\* A refill is an integer.
LEMMA SpanType ==
  ASSUME NEW a \in Int, NEW b \in Int, NEW r \in Int
  PROVE  (a - b) * r \in Int
OBVIOUS

\* A refill over a span of time is not negative.
LEMMA SpanNotNegative ==
  ASSUME NEW a \in Int, NEW b \in Int, NEW r \in Nat, a <= b
  PROVE  0 <= (b - a) * r
<1>1. ASSUME NEW d \in Nat PROVE 0 <= d * r
  BY <1>1
<1>2. b - a \in Nat
  OBVIOUS
<1> QED
  BY <1>1, <1>2

\* One request more costs its unit more.
LEMMA OneMore ==
  ASSUME NEW n \in Int, NEW r \in Int
  PROVE  (n + 1) * r = n * r + r
OBVIOUS

-----------------------------------------------------------------------------
(* The inductive invariant. The bound on grants needs the balance as part  *)
(* of it: what was granted plus what is left never exceeds what came in.   *)

Budget(k) ==
  credit[k] + granted[k] * Cost <= Capacity + (newest[k] - windowStart[k]) * RefillPerTick

LimiterInv ==
  /\ TypeOK
  /\ TokensConserved
  /\ \A k \in Keys :
       IF newest[k] = 0
       THEN /\ buckets[k].lastRefill = 0
            /\ credit[k] = Capacity
            /\ granted[k] = 0
            /\ windowStart[k] = 0
       ELSE buckets[k].lastRefill # 0
  /\ \A k \in Keys : Budget(k)

\* A limiter with no bucket satisfies the invariant.
LEMMA LimiterInit == Init => LimiterInv
<1> SUFFICES ASSUME Init PROVE LimiterInv
  OBVIOUS
<1>1. TypeOK
  BY LimiterAssumption DEF Init, TypeOK
<1>2. TokensConserved
  BY DEF Init, TokensConserved
<1>3. \A k \in Keys : Budget(k)
  BY LimiterAssumption DEF Init, Budget
<1> QED
  BY <1>1, <1>2, <1>3 DEF Init, LimiterInv

\* What a refill does to a bucket that has been filled before: an up-to-date
\* reading gives the ideal balance; an older one gives the ideal balance less
\* the refill of the time it is behind.
LEMMA RefillIsIdeal ==
  ASSUME LimiterInv, NEW k \in Keys, newest[k] # 0, NEW s \in Nat
  PROVE  /\ s > newest[k] =>
              Refilled(buckets[k], s) = IdealBalance(k, s)
         /\ s <= newest[k] =>
              Refilled(buckets[k], s) = IdealBalance(k, s) - (newest[k] - s) * RefillPerTick
<1> DEFINE T == buckets[k].tokens
           L == buckets[k].lastRefill
           N == newest[k]
           R == RefillPerTick
           C == credit[k]
<1>1. /\ T \in Int /\ L \in Nat /\ N \in Nat /\ R \in Nat /\ C \in Int /\ Capacity \in Nat
      /\ L # 0
      /\ T + (N - L) * R = C
      /\ C <= Capacity
  BY LimiterAssumption DEF LimiterInv, TypeOK, TokensConserved
<1>2. /\ (s - L) * R = (s - N) * R + (N - L) * R
      /\ (N - L) * R = (N - s) * R + (s - L) * R
      /\ (s - L) * R \in Int /\ (s - N) * R \in Int /\ (N - s) * R \in Int /\ (N - L) * R \in Int
  BY <1>1, SpansAdd, SpanType
<1>3. Refilled(buckets[k], s) = Min(Capacity, T + (s - L) * R)
  BY <1>1 DEF Refilled
<1>4. CASE s > N
  <2>1. T + (s - L) * R = C + (s - N) * R
    BY <1>1, <1>2
  <2> QED
    BY <1>1, <1>3, <1>4, <2>1 DEF IdealBalance
<1>5. CASE s <= N
  <2>1. 0 <= (N - s) * R
    BY <1>1, <1>5, SpanNotNegative
  <2>2. T + (s - L) * R = C - (N - s) * R
    BY <1>1, <1>2
  <2>3. C - (N - s) * R <= Capacity
    BY <1>1, <1>2, <2>1
  <2>4. IdealBalance(k, s) = C
    BY <1>1, <1>5 DEF IdealBalance
  <2> QED
    <3> DEFINE X == C - (N - s) * R
    <3>1. X \in Int /\ X <= Capacity
      BY <1>1, <1>2, <2>3
    <3>2. Refilled(buckets[k], s) = Min(Capacity, X)
      BY <1>3, <2>2
    <3> HIDE DEF X
    <3>3. Refilled(buckets[k], s) = X
      BY <1>1, <3>1, <3>2 DEF Min
    <3>4. Refilled(buckets[k], s) = C - (N - s) * R
      BY <3>3 DEF X
    <3> QED
      BY <1>1, <1>5, <2>4, <3>4
<1> QED
  BY <1>1, <1>4, <1>5

\* The decision allow() takes for key k with reading s, on the four numbers
\* that describe the key; C1 is the ideal balance before the charge.
LEMMA AllowKeepsKey ==
  ASSUME LimiterInv, NEW t \in Threads, Allow(t)
  PROVE  LET k == key[t] IN
         /\ buckets'[k].tokens \in Int /\ buckets'[k].lastRefill \in Nat \ {0}
         /\ newest'[k] \in Nat \ {0}
         /\ credit'[k] \in 0 .. Capacity
         /\ granted'[k] \in Nat /\ windowStart'[k] \in Nat
         /\ buckets'[k].tokens + (newest'[k] - buckets'[k].lastRefill) * RefillPerTick = credit'[k]
         /\ credit'[k] + granted'[k] * Cost
              <= Capacity + (newest'[k] - windowStart'[k]) * RefillPerTick
<1> DEFINE k == key[t]
           s == stamp[t]
           R == RefillPerTick
           B == Refilled(buckets[k], s)
           I == IdealBalance(k, s)
           N == newest[k]
           W == windowStart[k]
           G == granted[k]
<1> USE LimiterAssumption
<1>1. /\ k \in Keys /\ s \in Nat /\ s # 0
      /\ N \in Nat /\ W \in Nat /\ G \in Nat /\ R \in Nat
      /\ credit[k] \in Int
      /\ buckets[k].tokens \in Int /\ buckets[k].lastRefill \in Nat
  BY DEF Allow, LimiterInv, TypeOK
<1>2. /\ buckets'[k].tokens = B - Charge(t) /\ buckets'[k].lastRefill = s
      /\ credit'[k] = I - Charge(t)
      /\ granted'[k] = IF Grants(t) THEN G + 1 ELSE G
      /\ newest'[k] = IF s > N THEN s ELSE N
      /\ windowStart'[k] = IF N = 0 THEN s ELSE W
  BY <1>1 DEF Allow, LimiterInv, TypeOK
<1>3. /\ Grants(t) <=> B >= Cost
      /\ Charge(t) = IF B >= Cost THEN Cost ELSE 0
  BY DEF Grants, Charge
<1>4. CASE N = 0
  <2>1. B = Capacity /\ I = Capacity /\ G = 0
    BY <1>1, <1>4 DEF LimiterInv, Refilled, IdealBalance
  <2>2. newest'[k] = s /\ windowStart'[k] = s
    BY <1>1, <1>2, <1>4
  <2>3. credit'[k] = Capacity - Charge(t) /\ credit'[k] \in 0 .. Capacity
    BY <1>2, <1>3, <2>1
  <2>4. granted'[k] * Cost = Charge(t) /\ granted'[k] \in Nat
    BY <1>2, <1>3, <2>1
  <2>5. (s - s) * R = 0
    BY <1>1
  <2> QED
    BY <1>1, <1>2, <1>3, <2>1, <2>2, <2>3, <2>4, <2>5
<1>5. CASE N # 0
  <2>1. /\ credit[k] \in 0 .. Capacity
        /\ credit[k] + G * Cost <= Capacity + (N - W) * R
        /\ G * Cost \in Int
    BY <1>1, <1>5 DEF LimiterInv, TokensConserved, Budget
  <2>2. (G + 1) * Cost = G * Cost + Cost
    BY <1>1, OneMore
  <2>3. granted'[k] * Cost = G * Cost + Charge(t) /\ granted'[k] \in Nat
    BY <1>1, <1>2, <1>3, <2>1, <2>2
  <2>4. windowStart'[k] = W
    BY <1>2, <1>5
  <2>5. CASE s > N
    <3>1. newest'[k] = s /\ B = I
      BY <1>1, <1>2, <1>5, <2>5, RefillIsIdeal
    <3>2. I = Min(Capacity, credit[k] + (s - N) * R)
      BY <1>1, <1>5, <2>5 DEF IdealBalance
    <3>3. 0 <= (s - N) * R /\ (s - N) * R \in Int
      <4>1. N \in Int /\ s \in Int /\ R \in Nat /\ N <= s
        BY <1>1, <2>5
      <4> HIDE DEF N, s, R
      <4> QED
        BY <4>1, SpanNotNegative, SpanType
    <3>4. I \in 0 .. Capacity /\ I <= credit[k] + (s - N) * R
      BY <2>1, <3>2, <3>3 DEF Min
    <3>5. credit'[k] \in 0 .. Capacity
      BY <1>2, <1>3, <3>1, <3>4
    <3>6. (s - W) * R = (s - N) * R + (N - W) * R /\ (s - W) * R \in Int /\ (N - W) * R \in Int
      <4>1. N \in Int /\ W \in Int /\ s \in Int /\ R \in Int
        BY <1>1
      <4> HIDE DEF N, W, s, R
      <4> QED
        BY <4>1, SpansAdd, SpanType
    <3>7. credit'[k] + granted'[k] * Cost <= Capacity + (s - W) * R
      BY <1>2, <1>3, <2>1, <2>3, <3>3, <3>4, <3>6
    <3>8. (s - s) * R = 0
      BY <1>1
    <3> QED
      BY <1>1, <1>2, <1>3, <2>3, <2>4, <3>1, <3>4, <3>5, <3>7, <3>8
  <2>6. CASE s <= N
    <3>1. newest'[k] = N /\ I = credit[k] /\ B = I - (N - s) * R
      BY <1>1, <1>2, <1>5, <2>6, RefillIsIdeal DEF IdealBalance
    <3>2. 0 <= (N - s) * R /\ (N - s) * R \in Int /\ (N - W) * R \in Int
      <4>1. N \in Int /\ W \in Int /\ s \in Int /\ R \in Nat /\ s <= N
        BY <1>1, <2>6
      <4> HIDE DEF N, W, s, R
      <4> QED
        BY <4>1, SpanNotNegative, SpanType
    <3>3. credit'[k] \in 0 .. Capacity
      BY <1>2, <1>3, <2>1, <3>1, <3>2
    <3>4. credit'[k] + granted'[k] * Cost <= Capacity + (N - W) * R
      BY <1>2, <1>3, <2>1, <2>3, <3>1, <3>2
    <3> QED
      BY <1>1, <1>2, <1>3, <1>5, <2>1, <2>3, <2>4, <3>1, <3>2, <3>3, <3>4
  <2> QED
    BY <1>1, <2>5, <2>6
<1> QED
  BY <1>1, <1>4, <1>5

\* allow() keeps the invariant for every key.
LEMMA AllowKeepsLimiterInv ==
  ASSUME LimiterInv, NEW t \in Threads, Allow(t)
  PROVE  LimiterInv'
<1> USE LimiterAssumption
<1>0. key[t] \in Keys
  BY DEF LimiterInv, TypeOK
<1>1. ASSUME NEW j \in Keys, j # key[t]
      PROVE  /\ buckets'[j] = buckets[j] /\ credit'[j] = credit[j] /\ granted'[j] = granted[j]
             /\ newest'[j] = newest[j] /\ windowStart'[j] = windowStart[j]
  BY <1>1 DEF Allow, LimiterInv, TypeOK
<1>2. TypeOK'
  <2>1. /\ buckets' = [buckets EXCEPT ![key[t]] = buckets'[key[t]]]
        /\ credit' = [credit EXCEPT ![key[t]] = credit'[key[t]]]
        /\ granted' = [granted EXCEPT ![key[t]] = granted'[key[t]]]
        /\ newest' = [newest EXCEPT ![key[t]] = newest'[key[t]]]
        /\ windowStart' = [windowStart EXCEPT ![key[t]] = windowStart'[key[t]]]
        /\ buckets'[key[t]] = [tokens |-> buckets'[key[t]].tokens, lastRefill |-> buckets'[key[t]].lastRefill]
    BY <1>0 DEF Allow, LimiterInv, TypeOK
  <2>2. buckets'[key[t]] \in [tokens : Int, lastRefill : Nat]
    BY <2>1, AllowKeepsKey
  <2>3. /\ buckets' \in [Keys -> [tokens : Int, lastRefill : Nat]]
        /\ credit' \in [Keys -> Int]
        /\ granted' \in [Keys -> Nat]
        /\ newest' \in [Keys -> Nat]
        /\ windowStart' \in [Keys -> Nat]
    <3>1. /\ credit'[key[t]] \in Int /\ granted'[key[t]] \in Nat
          /\ newest'[key[t]] \in Nat /\ windowStart'[key[t]] \in Nat
      BY AllowKeepsKey
    <3>2. /\ buckets \in [Keys -> [tokens : Int, lastRefill : Nat]]
          /\ credit \in [Keys -> Int]
          /\ granted \in [Keys -> Nat]
          /\ newest \in [Keys -> Nat]
          /\ windowStart \in [Keys -> Nat]
      BY DEF LimiterInv, TypeOK
    <3>3. buckets' \in [Keys -> [tokens : Int, lastRefill : Nat]]
      BY ONLY <1>0, <2>1, <2>2, <3>2
    <3>4. credit' \in [Keys -> Int]
      BY ONLY <1>0, <2>1, <3>1, <3>2
    <3>5. granted' \in [Keys -> Nat]
      BY ONLY <1>0, <2>1, <3>1, <3>2
    <3>6. newest' \in [Keys -> Nat]
      BY ONLY <1>0, <2>1, <3>1, <3>2
    <3>7. windowStart' \in [Keys -> Nat]
      BY ONLY <1>0, <2>1, <3>1, <3>2
    <3> QED
      BY <3>3, <3>4, <3>5, <3>6, <3>7
  <2>4. UNCHANGED <<now, key>> /\ stamp' \in [Threads -> Nat]
    BY DEF Allow, LimiterInv, TypeOK
  <2> QED
    BY <2>3, <2>4 DEF LimiterInv, TypeOK
<1>3. TokensConserved'
  BY <1>0, <1>1, AllowKeepsKey DEF LimiterInv, TokensConserved
<1>4. \A j \in Keys : Budget(j)'
  <2> SUFFICES ASSUME NEW j \in Keys
               PROVE  credit'[j] + granted'[j] * Cost
                        <= Capacity + (newest'[j] - windowStart'[j]) * RefillPerTick
    BY DEF Budget
  <2>1. CASE j = key[t]
    BY <2>1, AllowKeepsKey
  <2>2. CASE j # key[t]
    BY <1>1, <2>2 DEF LimiterInv, Budget
  <2> QED
    BY <2>1, <2>2
<1> QED
  BY <1>0, <1>1, <1>2, <1>3, <1>4, AllowKeepsKey DEF LimiterInv

\* A window may be opened to observe any key.
LEMMA OpenWindowKeepsLimiterInv ==
  ASSUME LimiterInv, NEW k \in Keys, OpenWindow(k)
  PROVE  LimiterInv'
<1> USE LimiterAssumption
<1>1. /\ newest[k] # 0
      /\ granted' = [granted EXCEPT ![k] = 0]
      /\ windowStart' = [windowStart EXCEPT ![k] = newest[k]]
      /\ UNCHANGED <<now, key, stamp, buckets, newest, credit>>
  BY DEF OpenWindow
<1>2. TypeOK'
  BY <1>1 DEF LimiterInv, TypeOK
<1>3. TokensConserved'
  BY <1>1 DEF LimiterInv, TokensConserved
<1>4. ASSUME NEW j \in Keys PROVE Budget(j)'
  <2>1. CASE j = k
    <3>1. /\ credit[k] <= Capacity /\ credit[k] \in Int
          /\ newest[k] \in Nat /\ 0 * Cost = 0
          /\ (newest[k] - newest[k]) * RefillPerTick = 0
      BY <1>1 DEF LimiterInv, TokensConserved, TypeOK
    <3>2. granted'[k] = 0 /\ windowStart'[k] = newest[k]
      BY <1>1 DEF LimiterInv, TypeOK
    <3> QED
      BY <1>1, <2>1, <3>1, <3>2 DEF Budget
  <2>2. CASE j # k
    BY <1>1, <1>4, <2>2 DEF LimiterInv, TypeOK, Budget
  <2> QED
    BY <2>1, <2>2
<1> QED
  BY <1>1, <1>2, <1>3, <1>4 DEF LimiterInv, TypeOK

\* Every step keeps the invariant.
LEMMA NextKeepsLimiterInv == LimiterInv /\ [Next]_vars => LimiterInv'
<1> SUFFICES ASSUME LimiterInv, [Next]_vars PROVE LimiterInv'
  OBVIOUS
<1>1. CASE Tick
  BY <1>1 DEF Tick, history, LimiterInv, TypeOK, TokensConserved, Budget
<1>2. ASSUME NEW t \in Threads, NEW k \in Keys, ReadClock(t, k) PROVE LimiterInv'
  BY <1>2 DEF ReadClock, history, LimiterInv, TypeOK, TokensConserved, Budget
<1>3. ASSUME NEW t \in Threads, Allow(t) PROVE LimiterInv'
  BY <1>3, AllowKeepsLimiterInv
<1>4. ASSUME NEW k \in Keys, OpenWindow(k) PROVE LimiterInv'
  BY <1>4, OpenWindowKeepsLimiterInv
<1>5. CASE UNCHANGED vars
  BY <1>5 DEF vars, history, LimiterInv, TypeOK, TokensConserved, Budget
<1> QED
  BY <1>1, <1>2, <1>3, <1>4, <1>5 DEF Next

\* The budget of every bucket of RateLimiter.hpp holds in every reachable
\* state.
THEOREM SpecKeepsLimiterInv == Spec => []LimiterInv
BY LimiterInit, NextKeepsLimiterInv, PTL DEF Spec

\* Whatever the order in which threads reach the lock with their clock
\* readings, a bucket holds the balance of a monotone clock.
THEOREM ReadingsConserveTokens == Spec => []TokensConserved
BY SpecKeepsLimiterInv, PTL DEF LimiterInv

\* The rate limit is never exceeded, in any window that starts at a request.
THEOREM RateIsBounded == Spec => []RateBound
<1>1. ASSUME LimiterInv, NEW k \in Keys
      PROVE  granted[k] * Cost <= Capacity + (newest[k] - windowStart[k]) * RefillPerTick
  <2>1. /\ 0 <= credit[k] /\ credit[k] \in Int
        /\ granted[k] * Cost \in Int
        /\ (newest[k] - windowStart[k]) * RefillPerTick \in Int
        /\ Capacity \in Int
    BY <1>1, LimiterAssumption DEF LimiterInv, TypeOK, TokensConserved
  <2> QED
    BY <1>1, <2>1 DEF LimiterInv, Budget
<1>2. LimiterInv => RateBound
  BY <1>1 DEF RateBound
<1> QED
  BY <1>2, SpecKeepsLimiterInv, PTL
=============================================================================
