---------------------------- MODULE RateLimiter ----------------------------
(***************************************************************************)
(* TokenBucketRateLimiter, include/resilience/RateLimiter.hpp, called by   *)
(* every worker thread from handleRequest with the client's address.       *)
(*                                                                         *)
(* allow() reads the clock before it takes mu_, so the two are separate    *)
(* steps and a thread may enter the critical section with a reading older  *)
(* than the bucket's lastRefill. Elapsed time is then negative and the     *)
(* refill takes tokens away.                                               *)
(*                                                                         *)
(* Tokens are doubles in the code; here they are integers in a unit small  *)
(* enough for capacity_, the refill of one clock tick and the cost of a    *)
(* request (1.0 token) to be whole numbers. Rounding is not modelled.      *)
(***************************************************************************)
EXTENDS Integers

CONSTANTS
  Threads,        \* worker threads
  Keys,           \* client addresses
  Capacity,       \* capacity_
  RefillPerTick,  \* refillPerSecond_, per clock tick
  Cost,           \* the price of a request
  MaxTime         \* bound: the clock stops here

ASSUME LimiterAssumption ==
  /\ Capacity \in Nat
  /\ RefillPerTick \in Nat
  /\ Cost \in Nat \ {0}
  /\ MaxTime \in Nat

VARIABLES
  now,          \* steady_clock::now(); starts at 1, 0 is the clock's epoch
  key,          \* the key a thread passes to allow()
  stamp,        \* the clock reading it took; 0 when it is not in allow()
  buckets,      \* buckets_: tokens and lastRefill (0: bucket not yet filled)
  newest,       \* history: the latest reading a key's bucket has seen
  credit,       \* history: the balance of a bucket whose clock readings never go back
  granted,      \* history: requests granted to a key in the current window
  windowStart   \* history: where the window starts

history == <<newest, credit, granted, windowStart>>
vars == <<now, key, stamp, buckets, history>>

Min(a, b) == IF a <= b THEN a ELSE b

Init ==
  /\ now = 1
  /\ key \in [Threads -> Keys]
  /\ stamp = [t \in Threads |-> 0]
  /\ buckets = [k \in Keys |-> [tokens |-> 0, lastRefill |-> 0]]
  /\ newest = [k \in Keys |-> 0]
  /\ credit = [k \in Keys |-> Capacity]
  /\ granted = [k \in Keys |-> 0]
  /\ windowStart = [k \in Keys |-> 0]

Tick ==
  /\ now < MaxTime
  /\ now' = now + 1
  /\ UNCHANGED <<key, stamp, buckets, history>>

\* allow(), line 20: the clock is read before the lock is taken.
ReadClock(t, k) ==
  /\ stamp[t] = 0
  /\ key' = [key EXCEPT ![t] = k]
  /\ stamp' = [stamp EXCEPT ![t] = now]
  /\ UNCHANGED <<now, buckets, history>>

\* Mutant: a bucket seen for the first time is refilled like any other.
MutRefilledNoInit(b, s) == Min(Capacity, b.tokens + (s - b.lastRefill) * RefillPerTick)

\* Mutant: the refill is not capped.
MutRefilledUncapped(b, s) ==
  IF b.lastRefill = 0 THEN Capacity ELSE b.tokens + (s - b.lastRefill) * RefillPerTick

\* Mutant: a reading older than lastRefill refills nothing, but is stored.
MutRefilledClamped(b, s) ==
  IF b.lastRefill = 0 THEN Capacity
  ELSE IF s < b.lastRefill THEN b.tokens
  ELSE Min(Capacity, b.tokens + (s - b.lastRefill) * RefillPerTick)

\* Lines 23-29: the balance after the refill up to reading s.
Refilled(b, s) ==
  IF b.lastRefill = 0
  THEN Capacity
  ELSE Min(Capacity, b.tokens + (s - b.lastRefill) * RefillPerTick)

\* The balance a bucket with a monotone clock would have at reading s.
IdealBalance(k, s) ==
  IF s > newest[k] /\ newest[k] # 0
  THEN Min(Capacity, credit[k] + (s - newest[k]) * RefillPerTick)
  ELSE credit[k]

\* Line 31: the value allow() returns.
Grants(t) == Refilled(buckets[key[t]], stamp[t]) >= Cost

Charge(t) == IF Grants(t) THEN Cost ELSE 0

\* Lines 21-35, under mu_.
Allow(t) ==
  LET k == key[t]
      s == stamp[t]
  IN  /\ s # 0
      /\ buckets' = [buckets EXCEPT
           ![k] = [tokens |-> Refilled(@, s) - Charge(t), lastRefill |-> s]]
      /\ credit' = [credit EXCEPT ![k] = IdealBalance(k, s) - Charge(t)]
      /\ granted' = [granted EXCEPT ![k] = IF Grants(t) THEN @ + 1 ELSE @]
      /\ newest' = [newest EXCEPT ![k] = IF s > @ THEN s ELSE @]
      /\ windowStart' = [windowStart EXCEPT ![k] = IF newest[k] = 0 THEN s ELSE @]
      /\ stamp' = [stamp EXCEPT ![t] = 0]
      /\ UNCHANGED <<now, key>>

\* History only: start counting afresh, so that RateBound speaks of every window.
OpenWindow(k) ==
  /\ newest[k] # 0
  /\ granted' = [granted EXCEPT ![k] = 0]
  /\ windowStart' = [windowStart EXCEPT ![k] = newest[k]]
  /\ UNCHANGED <<now, key, stamp, buckets, newest, credit>>

Next ==
  \/ Tick
  \/ \E t \in Threads : Allow(t) \/ \E k \in Keys : ReadClock(t, k)
  \/ \E k \in Keys : OpenWindow(k)

Spec == Init /\ [][Next]_vars

-----------------------------------------------------------------------------
TypeOK ==
  /\ now \in Nat \ {0}
  /\ key \in [Threads -> Keys]
  /\ stamp \in [Threads -> Nat]
  /\ buckets \in [Keys -> [tokens : Int, lastRefill : Nat]]
  /\ newest \in [Keys -> Nat]
  /\ credit \in [Keys -> Int]
  /\ granted \in [Keys -> Nat]
  /\ windowStart \in [Keys -> Nat]

\* Stale clock readings neither mint nor lose tokens for good: what a bucket
\* holds, plus the refill between its lastRefill and the latest reading it
\* has seen, is the balance it would have had with a monotone clock, and that
\* lies between 0 and capacity_.
TokensConserved ==
  \A k \in Keys :
    newest[k] # 0 =>
      /\ buckets[k].tokens + (newest[k] - buckets[k].lastRefill) * RefillPerTick = credit[k]
      /\ credit[k] \in 0 .. Capacity

\* The steady-state promise: in any window of time that starts at a request, a
\* key is granted at most capacity_ plus the refill of that window, whatever
\* the threads' clock readings are and in whatever order they get the lock.
RateBound ==
  \A k \in Keys :
    granted[k] * Cost <= Capacity + (newest[k] - windowStart[k]) * RefillPerTick

\* Header, lines 9-11: the bucket "allows short bursts up to `capacity`". A
\* request is refused only when its key's balance cannot pay for it, or when
\* its clock reading is older than one the bucket has already seen.
NoEarlyRefusal ==
  [][\A t \in Threads :
       (/\ stamp[t] # 0 /\ stamp'[t] = 0
        /\ granted'[key[t]] = granted[key[t]]
        /\ stamp[t] >= newest[key[t]]) => IdealBalance(key[t], stamp[t]) < Cost]_vars
=============================================================================
