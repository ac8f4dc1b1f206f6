-------------------------- MODULE ForwardingSteps ---------------------------
(***************************************************************************)
(* The invariant of Forwarding, and that the steps of a worker keep it,    *)
(* for any number of workers, backends, descriptors and retries: where a   *)
(* worker is in forwardWithResilience decides what it has counted, what it *)
(* holds and what it owes.                                                 *)
(***************************************************************************)
EXTENDS Forwarding, TLAPS

Scans == [status : {"idle", "scanning", "looking", "done"}, n : Int, i : Int, at : Int,
          best : Int, conns : Int]

\* A scan that goes on is within the group, and what it has found is in it.
ScanInGroup(sc) ==
  /\ sc \in Scans
  /\ sc.best \in Backends \cup {None}
  /\ sc.at \in Backends
  /\ sc.status # "idle" => sc.n = size
  /\ sc.status \in {"scanning", "looking"} => sc.i \in 0 .. size - 1

OnScan(sc) == ScanInGroup(sc) /\ sc.status # "idle"

Unassigned == {"idle", "pick", "exited"}
Assigned == {"admit", "count", "acquire", "dial", "exchange", "uncount", "report", "giveback"}

ControlType ==
  /\ size \in 1 .. N
  /\ strategy \in {"round_robin", "least_connections"}
  /\ rr \in 0 .. size - 1
  /\ active \in [Backends -> Int]
  /\ scan \in [Workers -> Scans]
  /\ pc \in [Workers -> Unassigned \cup Assigned]
  /\ backend \in [Workers -> Backends \cup {None}]
  /\ outcome \in [Workers -> {Failed} \cup Answered]
  /\ call \in [Workers -> {"none", "normal", "trial"}]
  /\ sock \in [Workers -> Sockets \cup {NoSocket}]
  /\ key \in [Workers -> Backends \cup {None}]

\* Where a worker is decides what it knows and holds.
Located ==
  \A w \in Workers :
    /\ ScanInGroup(scan[w])
    /\ pc[w] = "pick" => scan[w].status \in {"scanning", "looking"}
    /\ pc[w] \in Assigned => backend[w] \in Backends
    /\ pc[w] \in {"pick", "admit", "count", "acquire", "dial"} => outcome[w] = Failed

HandsOf(w) ==
  /\ pc[w] \in Unassigned \cup {"admit", "count", "acquire"} => sock[w] = NoSocket /\ key[w] = None
  /\ pc[w] = "dial" => sock[w] = NoSocket
  /\ pc[w] = "exchange" => sock[w] # NoSocket
  /\ pc[w] \in {"uncount", "giveback", "report"} /\ sock[w] = NoSocket => key[w] = None
  /\ pc[w] = "report" /\ ~outcome[w].ok => sock[w] = NoSocket

Hands == \A w \in Workers : HandsOf(w)

Counts == \A b \in Backends : active[b] = Cardinality(InFlight(b))

Due(w) ==
  \/ pc[w] \in {"count", "acquire", "dial", "exchange", "uncount", "report"}
  \/ pc[w] = "giveback" /\ ~outcome[w].ok

Reports == \A w \in Workers : call[w] # "none" <=> Due(w)

\* Whoever gave up on an answer still has the socket, and will not release it.
Awaited(s) ==
  \E w \in Workers : sock[w] = s /\ pc[w] \in {"uncount", "giveback"} /\ outcome[w] = Failed

OwedIsHeld == owed \subseteq Sockets /\ \A s \in owed : Awaited(s)

LateIsDue == late \subseteq {w \in Workers : call[w] # "none"}

ForwardInv == ControlType /\ Located /\ Hands /\ Counts /\ Reports /\ OwedIsHeld /\ LateIsDue

Domains == DOMAIN breaker = Backends /\ DOMAIN elapsed = Backends

CallInv == ForwardInv /\ Domains

-----------------------------------------------------------------------------
\* An attempt that got no answer leaves nothing to reuse.
LEMMA FailedOutcome == ~Failed.ok /\ \A o \in {Failed} \cup Answered : ~o.ok => ~o.reusable
  BY DEF Failed, Answered

\* An answer stays awaited unless the worker that steps is the one that gave up.
LEMMA StillAwaited ==
  ASSUME NEW s, Awaited(s), NEW w \in Workers,
         \A v \in Workers : v # w => sock'[v] = sock[v] /\ pc'[v] = pc[v] /\ outcome'[v] = outcome[v],
         sock[w] = s => pc[w] \notin {"uncount", "giveback"} \/ outcome[w] # Failed
  PROVE  Awaited(s)'
<1>1. PICK v \in Workers : sock[v] = s /\ pc[v] \in {"uncount", "giveback"} /\ outcome[v] = Failed
  BY DEF Awaited
<1>2. v # w
  BY <1>1
<1>3. QED
  BY <1>1, <1>2 DEF Awaited

\* The hands of the workers that do not step stay as they are.
LEMMA OtherHands ==
  ASSUME Hands, NEW w \in Workers, HandsOf(w)',
         \A v \in Workers : v # w =>
           sock'[v] = sock[v] /\ key'[v] = key[v] /\ pc'[v] = pc[v] /\ outcome'[v] = outcome[v]
  PROVE  Hands'
<1>1. ASSUME NEW v \in Workers, v # w PROVE HandsOf(v)'
  <2>1. sock'[v] = sock[v] /\ key'[v] = key[v] /\ pc'[v] = pc[v] /\ outcome'[v] = outcome[v]
    BY <1>1
  <2>2. HandsOf(v)
    BY DEF Hands
  <2>3. QED
    BY <2>1, <2>2 DEF HandsOf
<1>2. QED
  BY <1>1 DEF Hands

\* Each access of pick() keeps its scan within the group.
LEMMA ScanSteps ==
  ASSUME ControlType, NEW sc, ScanInGroup(sc), sc.status \in {"scanning", "looking"}
  PROVE  /\ sc.status = "scanning" => OnScan(TakeTurn(sc, rr))
         /\ OnScan(LookAtTurn(sc, healthy))
         /\ OnScan(CheckHealth(sc, healthy))
         /\ OnScan(CompareLoad(sc, active))
<1>1. size \in 1 .. N /\ N \in Nat /\ rr \in Backends /\ sc.i \in Backends /\ None \in Int
  BY BalancerAssumption DEF ControlType, ScanInGroup, Backends, None
<1>2. Backends \subseteq Int
  BY <1>1 DEF Backends
<1>3. ASSUME NEW x, ScanInGroup(x), x.status \in {"scanning", "looking"}
      PROVE  OnScan(NextIteration(x))
  <2> DEFINE y == NextIteration(x)
  <2>1. x \in Scans /\ x.n = size /\ x.i \in 0 .. size - 1
    BY <1>3 DEF ScanInGroup
  <2> DEFINE next == IF x.i + 1 = x.n THEN "done" ELSE "scanning"
  <2>a. y = [x EXCEPT !.i = x.i + 1, !.status = next]
    BY DEF NextIteration
  <2>b. next \in {"scanning", "done"} /\ x.i + 1 \in Int
    BY <2>1, <1>1
  <2> HIDE DEF y, next
  <2>2. y \in Scans /\ y.best = x.best /\ y.at = x.at /\ y.n = x.n /\ y.i = x.i + 1 /\ y.status = next
    BY <2>1, <2>a, <2>b DEF Scans
  <2> USE DEF next
  <2> HIDE DEF y
  <2>3. y.status \in {"scanning", "looking"} => y.i \in 0 .. size - 1
    BY <1>1, <2>1, <2>2
  <2>4. OnScan(y)
    BY <1>3, <2>1, <2>2, <2>3 DEF OnScan, ScanInGroup
  <2>5. QED
    BY <2>4 DEF y
<1>4. sc.status = "scanning" => OnScan(TakeTurn(sc, rr))
  BY <1>1, <1>2 DEF OnScan, ScanInGroup, Scans, TakeTurn
<1>5. OnScan(LookAtTurn(sc, healthy))
  BY <1>1, <1>2, <1>3 DEF OnScan, ScanInGroup, Scans, LookAtTurn
<1>6. OnScan(CheckHealth(sc, healthy))
  <2>1. OnScan([sc EXCEPT !.status = "looking"])
    BY <1>1 DEF OnScan, ScanInGroup, Scans
  <2>2. QED
    BY <1>3, <2>1 DEF CheckHealth
<1>7. OnScan(CompareLoad(sc, active))
  <2> DEFINE better == [sc EXCEPT !.best = sc.i, !.conns = active[sc.i]]
  <2>1. active[sc.i] \in Int
    BY <1>1 DEF ControlType
  <2>2. ScanInGroup(better) /\ better.status = sc.status
    BY <1>1, <1>2, <2>1 DEF ScanInGroup, Scans
  <2> HIDE DEF better
  <2>3. QED
    BY <1>3, <2>2 DEF CompareLoad, better
<1>8. QED
  BY <1>4, <1>5, <1>6, <1>7

\* What each way out of an attempt does to the worker's locals.
Restarts(w, l, sc) ==
  /\ l \in {"idle", "pick"}
  /\ ScanInGroup(sc)
  /\ l = "pick" => sc.status = "scanning"
  /\ pc' = [pc EXCEPT ![w] = l]
  /\ backend' = [backend EXCEPT ![w] = None]
  /\ outcome' = [outcome EXCEPT ![w] = Failed]
  /\ scan' = [scan EXCEPT ![w] = sc]

\* An idle worker and a new call of pick() are within the group.
LEMMA ScanStarts ==
  ASSUME ControlType
  PROVE  ScanInGroup(Idle) /\ ScanInGroup(NewScan(size)) /\ NewScan(size).status = "scanning"
<1>1. size \in 1 .. N /\ N \in Nat /\ 0 \in Backends /\ None \in Int /\ -1 \in Int
  BY BalancerAssumption DEF ControlType, Backends, None
<1>2. ScanInGroup(Idle)
  BY <1>1 DEF ScanInGroup, Scans, Idle
<1>3. Idle.i = 0
  BY DEF Idle
<1>4. ScanInGroup(NewScan(size)) /\ NewScan(size).status = "scanning"
  <2> DEFINE z == [Idle EXCEPT !.status = "scanning"]
  <2>1. z \in Scans /\ z.best = Idle.best /\ z.at = Idle.at /\ z.i = 0 /\ z.status = "scanning"
    BY <1>2, <1>3 DEF ScanInGroup, Scans
  <2>2. NewScan(size) = [z EXCEPT !.n = size]
    BY DEF NewScan
  <2> HIDE DEF z
  <2> DEFINE y == [z EXCEPT !.n = size]
  <2>3. y \in Scans /\ y.best = z.best /\ y.at = z.at /\ y.i = z.i /\ y.n = size /\ y.status = z.status
    BY <1>1, <2>1 DEF Scans
  <2> HIDE DEF y
  <2>4. ScanInGroup(y)
    BY <1>1, <1>2, <2>1, <2>3 DEF ScanInGroup
  <2>5. QED
    BY <2>1, <2>2, <2>3, <2>4 DEF y
<1>5. QED
  BY <1>2, <1>4

\* forwardWithResilience returns.
LEMMA ReturnRestarts ==
  ASSUME ControlType, NEW w \in Workers, Return(w)
  PROVE  Restarts(w, "idle", Idle)
  BY ScanStarts DEF Return, Restarts, Goto

\* The head of the retry loop returns or starts to pick.
LEMMA LoopRestarts ==
  ASSUME ControlType, NEW w \in Workers, NEW a, Loop(w, a)
  PROVE  \E l, sc : Restarts(w, l, sc)
<1>1. CASE a < Attempts
  <2>1. Restarts(w, "pick", NewScan(size))
    BY <1>1, ScanStarts DEF Loop, Restarts, Goto
  <2>2. QED
    BY <2>1
<1>2. CASE ~(a < Attempts)
  BY <1>2, ReturnRestarts DEF Loop
<1>3. QED
  BY <1>1, <1>2

\* A failed attempt goes back to the head of the retry loop.
LEMMA RetryRestarts ==
  ASSUME ControlType, NEW w \in Workers, Retry(w)
  PROVE  \E l, sc : Restarts(w, l, sc)
  BY LoopRestarts, ReturnRestarts DEF Retry

-----------------------------------------------------------------------------
\* The books of b are right if the same workers are on it as before.
LEMMA CountsKept ==
  ASSUME Counts, active' = active, \A b \in Backends : InFlight(b)' = InFlight(b)
  PROVE  Counts'
  BY DEF Counts

\* Between two attempts a worker's locals are those it starts with.
LEMMA RestartKeeps ==
  ASSUME ControlType, Located, NEW w \in Workers, NEW l, NEW sc, Restarts(w, l, sc), UNCHANGED group
  PROVE  /\ pc' \in [Workers -> Unassigned \cup Assigned]
         /\ backend' \in [Workers -> Backends \cup {None}]
         /\ outcome' \in [Workers -> {Failed} \cup Answered]
         /\ scan' \in [Workers -> Scans]
         /\ Located'
         /\ pc'[w] \in {"idle", "pick"} /\ \A v \in Workers : v # w => pc'[v] = pc[v] /\ backend'[v] = backend[v] /\ outcome'[v] = outcome[v]
<1>1. /\ pc' \in [Workers -> Unassigned \cup Assigned]
      /\ backend' \in [Workers -> Backends \cup {None}]
      /\ outcome' \in [Workers -> {Failed} \cup Answered]
      /\ scan' \in [Workers -> Scans]
  BY DEF Restarts, ControlType, Unassigned, ScanInGroup
<1>2. pc'[w] = l /\ scan'[w] = sc /\ outcome'[w] = Failed
  BY DEF Restarts, ControlType
<1>3. \A v \in Workers : v # w => pc'[v] = pc[v] /\ backend'[v] = backend[v] /\ outcome'[v] = outcome[v] /\ scan'[v] = scan[v]
  BY DEF Restarts, ControlType
<1>4. size' = size
  BY DEF group
<1>5. ASSUME NEW v \in Workers
      PROVE  /\ ScanInGroup(scan[v])'
             /\ pc'[v] = "pick" => scan'[v].status \in {"scanning", "looking"}
             /\ pc'[v] \in Assigned => backend'[v] \in Backends
             /\ pc'[v] \in {"pick", "admit", "count", "acquire", "dial"} => outcome'[v] = Failed
  <2>1. CASE v = w
    BY <2>1, <1>2, <1>4 DEF Restarts, ScanInGroup, Assigned
  <2>2. CASE v # w
    BY <2>2, <1>3, <1>4 DEF Located, ScanInGroup
  <2>3. QED
    BY <2>1, <2>2
<1>6. QED
  BY <1>1, <1>2, <1>3, <1>5 DEF Located, Restarts

\* A worker that has nothing in its hands starts an attempt or returns.
LEMMA IdleRestartKeeps ==
  ASSUME ForwardInv, NEW w \in Workers, NEW l, NEW sc, Restarts(w, l, sc),
         pc[w] \in {"idle", "pick", "admit"},
         UNCHANGED <<group, active, call, sock, key, owed>>,
         rr' \in 0 .. size - 1,
         late' \subseteq {v \in Workers : call[v] # "none"}
  PROVE  ForwardInv'
<1> USE DEF ForwardInv
<1>1. UNCHANGED <<size, strategy>>
  BY DEF group
<1>2. ControlType' /\ Located'
  BY <1>1, RestartKeeps DEF ControlType
<1>3. /\ pc'[w] \in {"idle", "pick"}
      /\ \A v \in Workers : v # w => pc'[v] = pc[v] /\ backend'[v] = backend[v] /\ outcome'[v] = outcome[v]
  BY RestartKeeps
<1>4. Hands'
  BY <1>3 DEF Hands, HandsOf, Unassigned
<1>5. Counts'
  <2>1. \A b \in Backends : InFlight(b)' = InFlight(b)
    BY <1>3 DEF InFlight
  <2>2. QED
    BY <2>1, CountsKept
<1>6. Reports' /\ LateIsDue'
  BY <1>3 DEF Reports, Due, LateIsDue
<1>7. OwedIsHeld'
  BY <1>3 DEF OwedIsHeld, Awaited
<1>8. QED
  BY <1>2, <1>4, <1>5, <1>6, <1>7

\* A worker takes up a request.
LEMMA BeginKeeps ==
  ASSUME ForwardInv, NEW w \in Workers, Begin(w)
  PROVE  ForwardInv'
<1>1. \E l, sc : Restarts(w, l, sc)
  BY LoopRestarts DEF Begin, ForwardInv
<1>2. UNCHANGED <<group, rr, active, call, late, sock, key, owed>> /\ pc[w] = "idle"
  BY DEF Begin, cbVars, poolVars
<1>3. size' = size /\ rr' \in 0 .. size - 1 /\ late' \subseteq {v \in Workers : call[v] # "none"}
  BY <1>2 DEF ForwardInv, ControlType, LateIsDue, group
<1>4. QED
  BY <1>1, <1>2, <1>3, IdleRestartKeeps

\* A worker goes on with an attempt: only pc, and perhaps its outcome, change.
LEMMA MoveKeeps ==
  ASSUME ControlType, Located, NEW w \in Workers, NEW l \in Assigned,
         pc' = [pc EXCEPT ![w] = l], UNCHANGED <<group, scan, backend>>, backend[w] \in Backends,
         outcome' \in [Workers -> {Failed} \cup Answered],
         \A v \in Workers : v # w => outcome'[v] = outcome[v],
         l \in {"admit", "count", "acquire", "dial"} => outcome'[w] = Failed
  PROVE  /\ pc' \in [Workers -> Unassigned \cup Assigned]
         /\ Located'
         /\ pc'[w] = l /\ \A v \in Workers : v # w => pc'[v] = pc[v]
<1>1. /\ pc' \in [Workers -> Unassigned \cup Assigned]
      /\ pc'[w] = l /\ \A v \in Workers : v # w => pc'[v] = pc[v]
  BY DEF ControlType
<1>2. size' = size
  BY DEF group
<1>3. ASSUME NEW v \in Workers
      PROVE  /\ ScanInGroup(scan[v])'
             /\ pc'[v] = "pick" => scan'[v].status \in {"scanning", "looking"}
             /\ pc'[v] \in Assigned => backend'[v] \in Backends
             /\ pc'[v] \in {"pick", "admit", "count", "acquire", "dial"} => outcome'[v] = Failed
  <2>1. CASE v = w
    BY <2>1, <1>1, <1>2 DEF Located, ScanInGroup, Assigned
  <2>2. CASE v # w
    BY <2>2, <1>1, <1>2 DEF Located, ScanInGroup
  <2>3. QED
    BY <2>1, <2>2
<1>4. QED
  BY <1>1, <1>3 DEF Located

\* One access of pick(): the scan goes on, is given up or yields a backend.
LEMMA PickOutcome ==
  ASSUME ForwardInv, NEW w \in Workers, Pick(w)
  PROVE  /\ pc[w] = "pick" /\ rr' \in 0 .. size - 1
         /\ \E sc : OnScan(sc) /\ Picked(w, sc)
<1> USE DEF ForwardInv
<1>1. pc[w] = "pick" /\ ScanInGroup(scan[w]) /\ scan[w].status \in {"scanning", "looking"}
  BY DEF Pick, Located
<1>2. size \in Nat \ {0} /\ rr \in Int
  BY BalancerAssumption DEF ControlType
<1>3. (rr + 1) % size \in 0 .. size - 1
  BY <1>2
<1>4. rr' \in 0 .. size - 1
  BY <1>3 DEF Pick, PickRoundRobin, PickLeastConnections, ControlType
<1>5. \E sc : OnScan(sc) /\ Picked(w, sc)
  BY <1>1, ScanSteps DEF Pick, PickRoundRobin, PickLeastConnections
<1>6. QED
  BY <1>1, <1>4, <1>5

\* pick() keeps the invariant.
LEMMA PickKeeps ==
  ASSUME ForwardInv, NEW w \in Workers, Pick(w)
  PROVE  ForwardInv'
<1> USE DEF ForwardInv
<1>1. pc[w] = "pick" /\ rr' \in 0 .. size - 1
  BY PickOutcome
<1>2. PICK sc : OnScan(sc) /\ Picked(w, sc)
  BY PickOutcome
<1>3. UNCHANGED <<group, size, strategy, active, call, late, sock, key, owed>>
  BY DEF Pick, group, cbVars, poolVars
<1>4. CASE sc.status # "done" /\ scan' = [scan EXCEPT ![w] = sc] /\ UNCHANGED ctlVars
  <2>1. UNCHANGED <<pc, backend, outcome>>
    BY <1>4 DEF ctlVars
  <2>2. sc \in Scans /\ sc.status \in {"scanning", "looking"}
    BY <1>2, <1>4 DEF OnScan, ScanInGroup, Scans
  <2>3. ControlType'
    BY <1>1, <1>3, <1>4, <2>1, <2>2 DEF ControlType
  <2>4. Located'
    BY <1>2, <1>3, <1>4, <2>1, <2>2 DEF ControlType, Located, OnScan, ScanInGroup
  <2>5. Counts'
    BY <1>3, <2>1, CountsKept DEF InFlight
  <2>6. Hands' /\ Reports' /\ LateIsDue' /\ OwedIsHeld'
    <3>1. Hands' /\ OwedIsHeld'
      BY <1>3, <2>1 DEF Hands, HandsOf, OwedIsHeld, Awaited
    <3>2. Reports' /\ LateIsDue'
      BY <1>3, <2>1 DEF Reports, Due, LateIsDue
    <3>3. QED
      BY <3>1, <3>2
  <2>7. QED
    BY <2>3, <2>4, <2>5, <2>6
<1>5. CASE sc.status = "done" /\ sc.best = None /\ Return(w)
  <2>1. Restarts(w, "idle", Idle)
    BY <1>5, ReturnRestarts
  <2>2. QED
    BY <1>1, <1>3, <2>1, IdleRestartKeeps DEF LateIsDue
<1>6. CASE /\ sc.status = "done" /\ sc.best # None
           /\ Goto(w, "admit")
           /\ backend' = [backend EXCEPT ![w] = sc.best]
           /\ scan' = [scan EXCEPT ![w] = Idle]
           /\ UNCHANGED <<attempt, outcome>>
  <2>1. sc.best \in Backends /\ ScanInGroup(Idle) /\ Idle \in Scans
    BY <1>2, <1>6, ScanStarts DEF OnScan, ScanInGroup
  <2>2. pc' = [pc EXCEPT ![w] = "admit"] /\ outcome' = outcome
    BY <1>6 DEF Goto
  <2>3. ControlType'
    BY <1>1, <1>3, <1>6, <2>1, <2>2 DEF ControlType, Assigned
  <2>4. pc'[w] = "admit" /\ \A v \in Workers : v # w => pc'[v] = pc[v] /\ backend'[v] = backend[v] /\ scan'[v] = scan[v]
    BY <1>6, <2>2 DEF ControlType
  <2>5. backend'[w] \in Backends /\ scan'[w] = Idle
    BY <1>6, <2>1 DEF ControlType
  <2>6. Located'
    <3>1. ASSUME NEW v \in Workers
          PROVE  /\ ScanInGroup(scan[v])'
                 /\ pc'[v] = "pick" => scan'[v].status \in {"scanning", "looking"}
                 /\ pc'[v] \in Assigned => backend'[v] \in Backends
                 /\ pc'[v] \in {"pick", "admit", "count", "acquire", "dial"} => outcome'[v] = Failed
      <4>1. CASE v = w
        <5> HIDE DEF Idle
        <5>1. QED
          BY <4>1, <1>1, <1>3, <2>1, <2>2, <2>4, <2>5 DEF Located, ScanInGroup
      <4>2. CASE v # w
        BY <4>2, <1>3, <2>2, <2>4 DEF Located, ScanInGroup
      <4>3. QED
        BY <4>1, <4>2
    <3>2. QED
      BY <3>1 DEF Located
  <2>7. Counts'
    <3>1. \A b \in Backends : InFlight(b)' = InFlight(b)
      BY <1>1, <2>4 DEF InFlight
    <3>2. QED
      BY <1>3, <3>1, CountsKept
  <2>8. Hands' /\ Reports' /\ LateIsDue'
    <3>1. Hands'
      BY <1>1, <1>3, <2>2, <2>4 DEF Hands, HandsOf, Unassigned
    <3>2. Reports' /\ LateIsDue'
      BY <1>1, <1>3, <2>2, <2>4 DEF Reports, Due, LateIsDue
    <3>3. QED
      BY <3>1, <3>2
  <2>9. OwedIsHeld'
    BY <1>1, <1>3, <2>2, <2>4 DEF OwedIsHeld, Awaited
  <2>10. QED
    BY <2>3, <2>6, <2>7, <2>8, <2>9
<1>7. QED
  BY <1>2, <1>4, <1>5, <1>6 DEF Picked

\* A report to the breaker of b leaves only b's own outstanding calls late.
LEMMA SetBreakerLate ==
  ASSUME NEW b, NEW cb, NEW due, due \subseteq Outstanding(b), SetBreaker(b, cb, due)
  PROVE  late' \subseteq (late \ Outstanding(b)) \cup due
  BY DEF SetBreaker

\* allowRequest: a refused worker retries, an admitted one owes a report.
LEMMA AdmitKeeps ==
  ASSUME ForwardInv, NEW w \in Workers, Admit(w)
  PROVE  ForwardInv'
<1> USE DEF ForwardInv
<1>1. /\ pc[w] = "admit" /\ backend[w] \in Backends /\ outcome[w] = Failed
      /\ UNCHANGED <<group, size, strategy, rr, active, sock, key, owed>>
  BY DEF Admit, group, poolVars, Located, Assigned
<1>2. late' \subseteq {v \in Workers : call[v] # "none"}
  <2>1. late' \subseteq (late \ Outstanding(backend[w])) \cup Outstanding(backend[w])
    BY SetBreakerLate DEF Admit
  <2>2. QED
    BY <2>1 DEF LateIsDue, Outstanding
<1>3. CASE PickAgain(w) /\ UNCHANGED call
  <2>1. \E l, sc : Restarts(w, l, sc)
    BY <1>3, LoopRestarts DEF PickAgain
  <2>2. rr' \in 0 .. size - 1
    BY <1>1 DEF ControlType
  <2>3. QED
    BY <1>1, <1>2, <1>3, <2>1, <2>2, IdleRestartKeeps
<1>4. ASSUME NEW how \in {"trial", "normal"}, call' = [call EXCEPT ![w] = how], Goto(w, "count"),
             UNCHANGED <<attempt, backend, outcome, scan>>
      PROVE  ForwardInv'
  <2>1. /\ pc' \in [Workers -> Unassigned \cup Assigned] /\ Located'
        /\ pc'[w] = "count" /\ \A v \in Workers : v # w => pc'[v] = pc[v]
    BY <1>1, <1>4, MoveKeeps DEF Goto, Assigned, ControlType
  <2>2. call' \in [Workers -> {"none", "normal", "trial"}] /\ call'[w] # "none" /\ \A v \in Workers : v # w => call'[v] = call[v]
    BY <1>4 DEF ControlType
  <2>3. ControlType'
    BY <1>1, <1>4, <2>1, <2>2 DEF ControlType
  <2>4. Counts'
    <3>1. \A b \in Backends : InFlight(b)' = InFlight(b)
      BY <1>1, <1>4, <2>1 DEF InFlight
    <3>2. QED
      BY <1>1, <3>1, CountsKept
  <2>5. Hands'
    BY <1>1, <1>4, <2>1 DEF Hands, HandsOf, Unassigned
  <2>6. Reports' /\ LateIsDue'
    <3>1. Due(w)' /\ \A v \in Workers : v # w => (Due(v)' <=> Due(v))
      BY <1>4, <2>1 DEF Due
    <3>2. Reports'
      BY <2>2, <3>1 DEF Reports
    <3>3. LateIsDue'
      BY <1>2, <2>2 DEF LateIsDue
    <3>4. QED
      BY <3>2, <3>3
  <2>7. OwedIsHeld'
    BY <1>1, <1>4, <2>1 DEF OwedIsHeld, Awaited
  <2>8. QED
    BY <2>1, <2>3, <2>4, <2>5, <2>6, <2>7
<1>5. QED
  BY <1>3, <1>4 DEF Admit

\* A worker that moves from a place in flight to another, or from one out of
\* flight to another.
LEMMA FlightKept ==
  ASSUME NEW w \in Workers, UNCHANGED backend,
         \A v \in Workers : v # w => pc'[v] = pc[v],
         pc[w] \in {"acquire", "dial", "exchange", "uncount"} <=> pc'[w] \in {"acquire", "dial", "exchange", "uncount"}
  PROVE  \A b \in Backends : InFlight(b)' = InFlight(b)
  BY DEF InFlight

\* A worker gets a socket, or is left without one, and goes on with the attempt.
LEMMA SocketKeeps ==
  ASSUME ForwardInv, NEW w \in Workers, NEW from \in {"acquire", "dial"}, pc[w] = from,
         NEW l \in {"dial", "exchange", "uncount"}, Goto(w, l),
         UNCHANGED <<lbVars, cbVars, attempt, backend, outcome, owed>>,
         sock' \in [Workers -> Sockets \cup {NoSocket}], key' \in [Workers -> Backends \cup {None}],
         \A v \in Workers : v # w => sock'[v] = sock[v] /\ key'[v] = key[v],
         l = "exchange" <=> sock'[w] # NoSocket,
         l = "uncount" => key'[w] = None
  PROVE  ForwardInv'
<1> USE DEF ForwardInv
<1>0. UNCHANGED <<group, size, strategy, rr, active, scan, call, late>>
  BY DEF lbVars, group, cbVars
<1>1. /\ backend[w] \in Backends /\ outcome[w] = Failed /\ ~outcome[w].ok
      /\ UNCHANGED <<group, size, strategy, rr, active, scan, call, late>>
  <2>1. backend[w] \in Backends /\ outcome[w] = Failed
    BY DEF Located, Assigned
  <2>2. QED
    BY <1>0, <2>1, FailedOutcome
<1>2. /\ pc' \in [Workers -> Unassigned \cup Assigned] /\ Located'
      /\ pc'[w] = l /\ \A v \in Workers : v # w => pc'[v] = pc[v]
  BY <1>1, MoveKeeps DEF Goto, Assigned, ControlType
<1>3. ControlType'
  BY <1>1, <1>2 DEF ControlType
<1>4. Counts'
  BY <1>1, <1>2, FlightKept, CountsKept
<1>5. Hands'
  <2>1. HandsOf(w)'
    BY <1>2 DEF HandsOf, Unassigned
  <2>2. QED
    BY <1>2, <2>1, OtherHands
<1>6. Reports' /\ LateIsDue'
  BY <1>1, <1>2 DEF Reports, Due, LateIsDue
<1>7. OwedIsHeld'
  BY <1>1, <1>2, StillAwaited DEF OwedIsHeld
<1>8. QED
  BY <1>2, <1>3, <1>4, <1>5, <1>6, <1>7

\* acquire() puts a socket, or the duty to connect, in the hands of the worker.
LEMMA AcquireKeeps ==
  ASSUME ForwardInv, Pool!TypeOK, NEW w \in Workers, Acquire(w)
  PROVE  ForwardInv'
<1> USE DEF ForwardInv
<1>1. /\ pc[w] = "acquire" /\ sock[w] = NoSocket /\ backend[w] \in Backends /\ backend[w] # None
      /\ UNCHANGED <<lbVars, cbVars, attempt, backend, outcome, owed>>
  <2>1. pc[w] = "acquire" /\ UNCHANGED <<lbVars, cbVars, attempt, backend, outcome, owed>>
    BY DEF Acquire
  <2>2. sock[w] = NoSocket
    BY <2>1 DEF Hands, HandsOf
  <2>3. backend[w] \in Backends
    BY <2>1 DEF Located, Assigned
  <2>4. backend[w] # None
    BY <2>3, BalancerAssumption DEF Backends, None
  <2>5. QED
    BY <2>1, <2>2, <2>3, <2>4
<1>2. CASE Pool!AcquireIdle(w, backend[w]) /\ Goto(w, "exchange")
  <2> DEFINE q == idle[backend[w]]
  <2>1. q \in Seq(Sockets) /\ q # <<>>
    BY <1>1, <1>2 DEF Pool!TypeOK, Pool!AcquireIdle
  <2>2. Head(q) \in Sockets /\ Head(q) # NoSocket
    BY <2>1, ForwardingAssumption
  <2>3. sock' = [sock EXCEPT ![w] = Head(q)] /\ key' = [key EXCEPT ![w] = backend[w]]
    BY <1>2 DEF Pool!AcquireIdle
  <2> HIDE DEF q
  <2>4. /\ sock' \in [Workers -> Sockets \cup {NoSocket}] /\ key' \in [Workers -> Backends \cup {None}]
        /\ sock'[w] # NoSocket
        /\ \A v \in Workers : v # w => sock'[v] = sock[v] /\ key'[v] = key[v]
    BY <1>1, <2>2, <2>3 DEF ControlType
  <2>5. QED
    BY <1>1, <1>2, <2>4, SocketKeeps
<1>3. CASE Pool!AcquireMiss(w, backend[w]) /\ Goto(w, "dial")
  <2>1. sock' = sock /\ key' = [key EXCEPT ![w] = backend[w]]
    BY <1>3 DEF Pool!AcquireMiss
  <2>2. /\ sock' \in [Workers -> Sockets \cup {NoSocket}] /\ key' \in [Workers -> Backends \cup {None}]
        /\ sock'[w] = NoSocket
        /\ \A v \in Workers : v # w => sock'[v] = sock[v] /\ key'[v] = key[v]
    BY <1>1, <2>1 DEF ControlType
  <2>3. QED
    BY <1>1, <1>3, <2>2, SocketKeeps
<1>4. QED
  BY <1>2, <1>3 DEF Acquire

\* A connect gives the worker its socket or ends the attempt.
LEMMA DialKeeps ==
  ASSUME ForwardInv, NEW w \in Workers, Dial(w)
  PROVE  ForwardInv'
<1> USE DEF ForwardInv
<1>1. /\ pc[w] = "dial" /\ sock[w] = NoSocket
      /\ UNCHANGED <<lbVars, cbVars, attempt, backend, outcome, owed>>
  BY DEF Dial, Hands, HandsOf
<1>2. CASE Pool!DialSucceeds(w) /\ Goto(w, "exchange")
  <2>1. PICK s \in Sockets : sock' = [sock EXCEPT ![w] = s] /\ key' = key
    BY <1>2 DEF Pool!DialSucceeds
  <2>2. /\ sock' \in [Workers -> Sockets \cup {NoSocket}] /\ key' \in [Workers -> Backends \cup {None}]
        /\ sock'[w] # NoSocket
        /\ \A v \in Workers : v # w => sock'[v] = sock[v] /\ key'[v] = key[v]
    BY <2>1, ForwardingAssumption DEF ControlType
  <2>3. QED
    BY <1>1, <1>2, <2>2, SocketKeeps
<1>3. CASE Pool!DialFails(w) /\ Goto(w, "uncount")
  <2>1. sock' = sock /\ key' = [key EXCEPT ![w] = None]
    BY <1>3 DEF Pool!DialFails
  <2>2. /\ sock' \in [Workers -> Sockets \cup {NoSocket}] /\ key' \in [Workers -> Backends \cup {None}]
        /\ sock'[w] = NoSocket /\ key'[w] = None
        /\ \A v \in Workers : v # w => sock'[v] = sock[v] /\ key'[v] = key[v]
    BY <1>1, <2>1 DEF ControlType
  <2>3. QED
    BY <1>1, <1>3, <2>2, SocketKeeps
<1>4. QED
  BY <1>2, <1>3 DEF Dial

\* A failed exchange leaves an answer owed on a socket only its holder has.
LEMMA ExchangeKeeps ==
  ASSUME ForwardInv, NEW w \in Workers, Exchange(w)
  PROVE  ForwardInv'
<1> USE DEF ForwardInv
<1>1. /\ pc[w] = "exchange" /\ backend[w] \in Backends /\ sock[w] # NoSocket
      /\ UNCHANGED <<group, size, strategy, rr, active, scan, backend, call, late, sock, key>>
      /\ pc' = [pc EXCEPT ![w] = "uncount"]
  BY DEF Exchange, Goto, lbVars, group, cbVars, poolVars, Located, Assigned, Hands, HandsOf
<1>2. \E o \in {Failed} \cup Answered :
        /\ outcome' = [outcome EXCEPT ![w] = o]
        /\ owed' = owed \/ (owed' = owed \cup {sock[w]} /\ o = Failed)
  BY DEF Exchange
<1>3. /\ outcome' \in [Workers -> {Failed} \cup Answered]
      /\ \A v \in Workers : v # w => outcome'[v] = outcome[v]
      /\ owed' = owed \/ (owed' = owed \cup {sock[w]} /\ outcome'[w] = Failed)
  BY <1>2 DEF ControlType
<1>4. /\ pc' \in [Workers -> Unassigned \cup Assigned] /\ Located'
      /\ pc'[w] = "uncount" /\ \A v \in Workers : v # w => pc'[v] = pc[v]
  BY <1>1, <1>3, MoveKeeps DEF Assigned
<1>5. ControlType'
  BY <1>1, <1>3, <1>4 DEF ControlType
<1>6. Counts'
  BY <1>1, <1>4, FlightKept, CountsKept
<1>7. Hands'
  BY <1>1, <1>3, <1>4 DEF Hands, HandsOf, Unassigned
<1>8. Reports' /\ LateIsDue'
  BY <1>1, <1>3, <1>4 DEF Reports, Due, LateIsDue
<1>9. OwedIsHeld'
  <2>1. sock[w] \in Sockets
    BY <1>1 DEF ControlType
  <2>2. \A s \in owed : Awaited(s)'
    BY <1>1, <1>3, <1>4, StillAwaited DEF OwedIsHeld
  <2>3. PICK t : t = sock[w]
    OBVIOUS
  <2>4. outcome'[w] = Failed => Awaited(t)'
    BY <1>1, <1>4, <2>3 DEF Awaited
  <2>5. owed' \subseteq Sockets
    BY <1>3, <2>1 DEF OwedIsHeld
  <2>6. ASSUME NEW s \in owed' PROVE Awaited(s)'
    <3>1. s \in owed \/ (s = t /\ outcome'[w] = Failed)
      BY <1>3, <2>3, <2>6
    <3>2. QED
      BY <2>2, <2>4, <3>1
  <2>7. QED
    BY <2>5, <2>6 DEF OwedIsHeld
<1>10. QED
  BY <1>4, <1>5, <1>6, <1>7, <1>8, <1>9

\* The end of an attempt: nothing is in the worker's hands any more.
LEMMA EndKeeps ==
  ASSUME ForwardInv, NEW w \in Workers, Retry(w),
         pc[w] = "report" \/ (pc[w] = "giveback" /\ outcome[w].ok),
         UNCHANGED <<group, rr, active>>,
         call' \in [Workers -> {"none", "normal", "trial"}], call'[w] = "none",
         sock' \in [Workers -> Sockets \cup {NoSocket}], sock'[w] = NoSocket,
         key' \in [Workers -> Backends \cup {None}], key'[w] = None,
         \A v \in Workers : v # w => call'[v] = call[v] /\ sock'[v] = sock[v] /\ key'[v] = key[v],
         late' \subseteq {v \in Workers : call'[v] # "none"},
         owed' \subseteq owed
  PROVE  ForwardInv'
<1> USE DEF ForwardInv
<1>1. PICK l, sc : Restarts(w, l, sc)
  BY RetryRestarts
<1>2. UNCHANGED <<size, strategy>>
  BY DEF group
<1>3. /\ pc'[w] \in {"idle", "pick"}
      /\ \A v \in Workers : v # w => pc'[v] = pc[v] /\ backend'[v] = backend[v] /\ outcome'[v] = outcome[v]
  BY <1>1, RestartKeeps
<1>4. ControlType' /\ Located'
  <2>1. /\ Located' /\ scan' \in [Workers -> Scans] /\ pc' \in [Workers -> Unassigned \cup Assigned]
        /\ backend' \in [Workers -> Backends \cup {None}] /\ outcome' \in [Workers -> {Failed} \cup Answered]
    BY <1>1, <1>2, RestartKeeps
  <2>2. QED
    BY <1>2, <2>1 DEF ControlType
<1>5. Hands'
  <2>1. HandsOf(w)'
    BY <1>3 DEF HandsOf
  <2>2. QED
    BY <1>3, <2>1, OtherHands
<1>6. Counts'
  <2>1. ASSUME NEW b \in Backends PROVE InFlight(b)' = InFlight(b)
    <3> DEFINE P(v) == backend[v] = b /\ pc[v] \in {"acquire", "dial", "exchange", "uncount"}
    <3>1. ~P(w) /\ ~P(w)'
      BY <1>3
    <3>2. \A v \in Workers : v # w => (P(v)' <=> P(v))
      BY <1>3
    <3>3. QED
      BY <3>1, <3>2 DEF InFlight
  <2>2. QED
    BY <2>1, CountsKept
<1>7. Reports' /\ LateIsDue'
  <2>1. ~Due(w)' /\ \A v \in Workers : v # w => (Due(v)' <=> Due(v))
    BY <1>3 DEF Due
  <2>2. Reports'
    BY <2>1 DEF Reports
  <2>3. QED
    BY <2>2 DEF LateIsDue
<1>8. OwedIsHeld'
  <2>1. pc[w] \notin {"uncount", "giveback"} \/ outcome[w] # Failed
    BY FailedOutcome
  <2>2. QED
    BY <1>3, <2>1, StillAwaited DEF OwedIsHeld
<1>9. QED
  BY <1>4, <1>5, <1>6, <1>7, <1>8

\* The outcome goes to the breaker that admitted the call.
LEMMA ReportKeeps ==
  ASSUME ForwardInv, NEW w \in Workers, Report(w)
  PROVE  ForwardInv'
<1> USE DEF ForwardInv
<1>1. /\ pc[w] = "report" /\ backend[w] \in Backends /\ call[w] # "none"
      /\ UNCHANGED <<group, size, strategy, rr, active, sock, key, owed>>
      /\ call' = [call EXCEPT ![w] = "none"]
  BY DEF Report, group, poolVars, Located, Assigned, Reports, Due
<1>2. call' \in [Workers -> {"none", "normal", "trial"}] /\ call'[w] = "none" /\ \A v \in Workers : v # w => call'[v] = call[v]
  BY <1>1 DEF ControlType
<1>3. late' \subseteq {v \in Workers : call'[v] # "none"}
  <2>1. late' \subseteq (late \ Outstanding(backend[w])) \cup (Outstanding(backend[w]) \ {w})
    <3>1. \E cb : SetBreaker(backend[w], cb, Outstanding(backend[w]) \ {w})
      BY DEF Report
    <3>2. QED
      BY <3>1, SetBreakerLate
  <2>2. w \in Outstanding(backend[w])
    BY <1>1 DEF Outstanding
  <2>3. QED
    BY <1>2, <2>1, <2>2 DEF LateIsDue, Outstanding
<1>4. CASE ~outcome[w].ok
  <2>1. Retry(w) /\ sock'[w] = NoSocket /\ key'[w] = None
    BY <1>1, <1>4 DEF Report, Hands, HandsOf
  <2>2. QED
    BY <1>1, <1>2, <1>3, <2>1, EndKeeps DEF ControlType
<1>5. CASE outcome[w].ok
  <2>1. pc' = [pc EXCEPT ![w] = "giveback"] /\ UNCHANGED <<backend, outcome, scan>>
    BY <1>5 DEF Report, Goto
  <2>2. /\ pc' \in [Workers -> Unassigned \cup Assigned] /\ Located'
        /\ pc'[w] = "giveback" /\ \A v \in Workers : v # w => pc'[v] = pc[v]
    BY <1>1, <2>1, MoveKeeps DEF Assigned, ControlType
  <2>3. ControlType'
    BY <1>1, <1>2, <2>1, <2>2 DEF ControlType
  <2>4. Counts'
    BY <1>1, <2>1, <2>2, FlightKept, CountsKept
  <2>5. Hands'
    BY <1>1, <1>5, <2>1, <2>2 DEF Hands, HandsOf, Unassigned
  <2>6. Reports' /\ LateIsDue'
    <3>1. ~Due(w)' /\ \A v \in Workers : v # w => (Due(v)' <=> Due(v))
      BY <1>5, <2>1, <2>2 DEF Due
    <3>2. Reports'
      BY <1>2, <3>1 DEF Reports
    <3>3. QED
      BY <1>3, <3>2 DEF LateIsDue
  <2>7. OwedIsHeld'
    BY <1>1, <2>1, <2>2 DEF OwedIsHeld, Awaited
  <2>8. QED
    BY <2>2, <2>3, <2>4, <2>5, <2>6, <2>7
<1>6. QED
  BY <1>4, <1>5

\* The socket is released after an answer and closed after a failure.
LEMMA GiveBackKeeps ==
  ASSUME ForwardInv, NEW w \in Workers, GiveBack(w)
  PROVE  ForwardInv'
<1> USE DEF ForwardInv
<1>1. /\ pc[w] = "giveback" /\ backend[w] \in Backends
      /\ UNCHANGED <<group, size, strategy, rr, active, call, late>>
  BY DEF GiveBack, group, cbVars, Located, Assigned
<1>2. /\ sock' \in [Workers -> Sockets \cup {NoSocket}] /\ sock'[w] = NoSocket
      /\ key' \in [Workers -> Backends \cup {None}] /\ key'[w] = None
      /\ \A v \in Workers : v # w => sock'[v] = sock[v] /\ key'[v] = key[v]
      /\ owed' \subseteq owed
      /\ ~outcome[w].ok => sock[w] \notin owed'
  <2>1. CASE sock[w] = NoSocket
    <3>1. UNCHANGED <<sock, key, owed>> /\ key[w] = None
      BY <1>1, <2>1 DEF GiveBack, poolVars, Hands, HandsOf
    <3>2. NoSocket \notin owed
      BY ForwardingAssumption DEF OwedIsHeld, Awaited
    <3>3. QED
      BY <2>1, <3>1, <3>2 DEF ControlType
  <2>2. CASE sock[w] # NoSocket
    <3>1. Dispose(w) /\ owed' = owed \cap open'
      BY <2>2 DEF GiveBack
    <3>2. sock' = [sock EXCEPT ![w] = NoSocket] /\ key' = [key EXCEPT ![w] = None]
      BY <3>1 DEF Dispose, Pool!Release, Pool!Discard
    <3>3. ASSUME ~outcome[w].ok PROVE sock[w] \notin open'
      <4>1. ~outcome[w].reusable
        BY <3>3, FailedOutcome DEF ControlType
      <4>2. QED
        BY <3>1, <4>1 DEF Dispose, Pool!Discard, Pool!Close
    <3>4. QED
      BY <3>1, <3>2, <3>3 DEF ControlType
  <2>3. QED
    BY <2>1, <2>2
<1>3. CASE outcome[w].ok
  <2>1. Retry(w) /\ call'[w] = "none"
    BY <1>1, <1>3 DEF GiveBack, Reports, Due
  <2>2. late' \subseteq {v \in Workers : call'[v] # "none"}
    BY <1>1 DEF LateIsDue
  <2>3. QED
    BY <1>1, <1>2, <1>3, <2>1, <2>2, EndKeeps DEF ControlType
<1>4. CASE ~outcome[w].ok
  <2>1. pc' = [pc EXCEPT ![w] = "report"] /\ UNCHANGED <<backend, outcome, scan>>
    BY <1>4 DEF GiveBack, Goto
  <2>2. /\ pc' \in [Workers -> Unassigned \cup Assigned] /\ Located'
        /\ pc'[w] = "report" /\ \A v \in Workers : v # w => pc'[v] = pc[v]
    BY <1>1, <2>1, MoveKeeps DEF Assigned, ControlType
  <2>3. ControlType'
    BY <1>1, <1>2, <2>1, <2>2 DEF ControlType
  <2>4. Counts'
    BY <1>1, <2>1, <2>2, FlightKept, CountsKept
  <2>5. Hands'
    <3>1. HandsOf(w)'
      BY <1>2, <2>2 DEF HandsOf, Unassigned
    <3>2. QED
      BY <1>2, <2>1, <2>2, <3>1, OtherHands
  <2>6. Reports' /\ LateIsDue'
    BY <1>1, <1>4, <2>1, <2>2 DEF Reports, Due, LateIsDue
  <2>7. OwedIsHeld'
    <3>1. \A s \in owed' : sock[w] # s /\ Awaited(s)
      BY <1>2, <1>4 DEF OwedIsHeld
    <3>2. \A s \in owed' : Awaited(s)'
      BY <1>2, <2>1, <2>2, <3>1, StillAwaited
    <3>3. QED
      BY <1>2, <3>2 DEF OwedIsHeld
  <2>8. QED
    BY <2>2, <2>3, <2>4, <2>5, <2>6, <2>7
<1>5. QED
  BY <1>3, <1>4

\* Steps that leave every worker where it is.
LEMMA SurroundingsKeep ==
  ASSUME ForwardInv, UNCHANGED <<lbVars, call, late, sock, key, ctlVars>> \/ UNCHANGED vars
                       \/ \E b \in Backends : SetHealth(b),
         owed' \subseteq owed
  PROVE  ForwardInv'
<1> USE DEF ForwardInv
<1>1. UNCHANGED <<size, strategy, rr, active, scan, pc, backend, outcome, call, late, sock, key>>
  BY DEF lbVars, group, cbVars, poolVars, ctlVars, vars, SetHealth
<1>2. ControlType'
  BY <1>1 DEF ControlType
<1>3. Located' /\ Hands'
  BY <1>1 DEF Located, ScanInGroup, Hands, HandsOf
<1>4. Counts'
  BY <1>1, CountsKept DEF InFlight
<1>5. Reports' /\ LateIsDue' /\ OwedIsHeld'
  BY <1>1 DEF Reports, Due, LateIsDue, OwedIsHeld, Awaited
<1>6. QED
  BY <1>2, <1>3, <1>4, <1>5

\* A worker thread ends between requests, with nothing in its hands.
LEMMA ExitKeeps ==
  ASSUME ForwardInv, NEW w \in Workers, Exit(w)
  PROVE  ForwardInv'
<1> USE DEF ForwardInv
<1>1. /\ pc[w] = "idle" /\ pc' = [pc EXCEPT ![w] = "exited"]
      /\ UNCHANGED <<size, strategy, rr, active, scan, backend, outcome, call, late, sock, key, owed>>
  BY DEF Exit, Goto, lbVars, group, cbVars, poolVars
<1>2. pc' \in [Workers -> Unassigned \cup Assigned] /\ pc'[w] = "exited" /\ \A v \in Workers : v # w => pc'[v] = pc[v]
  BY <1>1 DEF ControlType, Unassigned
<1>3. ControlType'
  BY <1>1, <1>2 DEF ControlType
<1>4. Located' /\ Hands'
  <2>1. Located'
    BY <1>1, <1>2 DEF Located, ScanInGroup, Assigned
  <2>2. HandsOf(w)'
    BY <1>1, <1>2 DEF Hands, HandsOf, Unassigned
  <2>3. QED
    BY <1>1, <1>2, <2>1, <2>2, OtherHands
<1>5. Counts'
  BY <1>1, <1>2, FlightKept, CountsKept
<1>6. Reports' /\ LateIsDue' /\ OwedIsHeld'
  <2>1. Reports' /\ LateIsDue'
    BY <1>1, <1>2 DEF Reports, Due, LateIsDue
  <2>2. QED
    BY <1>1, <1>2, <2>1, StillAwaited DEF OwedIsHeld
<1>7. QED
  BY <1>3, <1>4, <1>5, <1>6

\* Every backend keeps its breaker.
LEMMA DomainsKept ==
  ASSUME Domains, [Next]_vars
  PROVE  Domains'
<1> USE DEF Domains
<1>1. ASSUME NEW w \in Workers, Admit(w) \/ Report(w) PROVE Domains'
  BY <1>1 DEF Admit, Report, SetBreaker
<1>2. ASSUME NEW b \in Backends, ResetTimeoutElapses(b) PROVE Domains'
  BY <1>2 DEF ResetTimeoutElapses
<1>3. ASSUME NEW w \in Workers, \/ Begin(w) \/ Pick(w) \/ Count(w) \/ Acquire(w) \/ Dial(w) \/ Exchange(w)
                                \/ Uncount(w) \/ GiveBack(w) \/ Exit(w)
      PROVE  Domains'
  BY <1>3 DEF Begin, Pick, Count, Acquire, Dial, Exchange, Uncount, GiveBack, Exit, cbVars
<1>4. CASE \/ \E b \in Backends : SetHealth(b)
           \/ \E s \in Sockets : PeerCloses(s)
           \/ Stop \/ CloseAll \/ Finished \/ UNCHANGED vars
  BY <1>4 DEF SetHealth, PeerCloses, Stop, CloseAll, Finished, vars, cbVars
<1>5. QED
  BY <1>1, <1>2, <1>3, <1>4 DEF Next, Serve
=============================================================================
