-------------------------- MODULE ForwardingProofs --------------------------
(***************************************************************************)
(* For any number of workers, backends, descriptors and retries: on every  *)
(* path through forwardWithResilience what was taken is given back, the    *)
(* pool and the breakers are used as their modules demand, and no socket   *)
(* that is owed an answer is used again.                                   *)
(***************************************************************************)
EXTENDS ForwardingSteps, FiniteSetTheorems, TLAPS

-----------------------------------------------------------------------------
(* Each breaker is used as CircuitBreaker says.                            *)

\* What the breaker of b sees of the workers.
Calls(b) == [w \in Workers |-> IF backend[w] = b THEN call[w] ELSE "none"]
Lates(b) == {w \in late : backend[w] = b}

\* A worker without an outstanding call may change its backend.
LEMMA ViewKept ==
  ASSUME ForwardInv, NEW w \in Workers, call[w] = "none", UNCHANGED cbVars,
         \A v \in Workers : v # w => backend'[v] = backend[v]
  PROVE  \A b \in Backends : UNCHANGED CB(b)!vars
<1> SUFFICES ASSUME NEW b \in Backends PROVE UNCHANGED CB(b)!vars
  OBVIOUS
<1>1. UNCHANGED <<breaker, elapsed, call, late>> /\ w \notin late /\ late \subseteq Workers
  BY DEF cbVars, ForwardInv, LateIsDue
<1>2. Calls(b)' = Calls(b)
  BY <1>1 DEF Calls
<1>3. Lates(b)' = Lates(b)
  BY <1>1 DEF Lates
<1>4. QED
  BY <1>1, <1>2, <1>3 DEF CB!vars, Calls, Lates

\* A worker that is not between admission and report owes none.
LEMMA NotDue ==
  ASSUME ForwardInv, NEW w \in Workers,
         pc[w] \in {"idle", "pick", "admit"} \/ (pc[w] = "giveback" /\ outcome[w].ok)
  PROVE  call[w] = "none"
  BY DEF ForwardInv, Reports, Due

\* A worker's question, or its report, to the breaker of its backend b.
Tells(w, b, cb, due, c) ==
  /\ b = backend[w]
  /\ due \in {Outstanding(b), Outstanding(b) \ {w}}
  /\ SetBreaker(b, cb, due)
  /\ call' = [call EXCEPT ![w] = c]
  /\ IF c = "none" THEN w \notin due ELSE backend'[w] = b
  /\ backend'[w] \in {b, None}
  /\ \A v \in Workers : v # w => backend'[v] = backend[v]

\* What the breaker of b and the others see of it.
Seen(w, b, cb, due, c) ==
  /\ breaker'[b] = cb
  /\ Calls(b)' = [Calls(b) EXCEPT ![w] = c]
  /\ Lates(b)' = IF cb.state # breaker[b].state THEN due ELSE Lates(b) \cap due
  /\ \A d \in Backends : d # b =>
       breaker'[d] = breaker[d] /\ Calls(d)' = Calls(d) /\ Lates(d)' = Lates(d)

\* A report changes what the breaker it goes to sees, and no other.
LEMMA BreakerView ==
  ASSUME CallInv, NEW w \in Workers, NEW b \in Backends, NEW cb, NEW due, NEW c, Tells(w, b, cb, due, c)
  PROVE  Seen(w, b, cb, due, c)
<1> USE DEF Tells
<1>1. /\ breaker' = [breaker EXCEPT ![b] = cb]
      /\ late' = (late \ Outstanding(b)) \cup (IF cb.state # breaker[b].state THEN due ELSE late \cap due)
  BY DEF SetBreaker
<1>2. None \notin Backends
  BY BalancerAssumption DEF Backends, None
<1>3. late \subseteq {v \in Workers : call[v] # "none"} /\ call \in [Workers -> {"none", "normal", "trial"}]
  BY DEF CallInv, ForwardInv, LateIsDue, ControlType
<1>4. breaker'[b] = cb /\ \A d \in Backends : d # b => breaker'[d] = breaker[d]
  BY <1>1 DEF CallInv, Domains
<1>5. call'[w] = c /\ \A v \in Workers : v # w => call'[v] = call[v]
  BY <1>3
<1>6. Calls(b)' = [Calls(b) EXCEPT ![w] = c]
  <2>1. Calls(b)' = [v \in Workers |-> IF v = w THEN c ELSE Calls(b)[v]]
    BY <1>2, <1>5 DEF Calls
  <2>2. QED
    BY <2>1 DEF Calls
<1>7. \A d \in Backends : d # b => Calls(d)' = Calls(d)
  BY <1>2, <1>5 DEF Calls
<1>8. due \subseteq Outstanding(b) /\ \A v \in due : v \in Workers /\ backend[v] = b /\ backend'[v] = b
  <2>1. \A v \in Outstanding(b) : v \in Workers /\ backend[v] = b
    BY DEF Outstanding
  <2>2. QED
    BY <2>1
<1>9. \A v \in late \ Outstanding(b) : v \in Workers /\ backend[v] # b
  BY <1>3 DEF Outstanding
<1>10. \A v \in late \ Outstanding(b) : v # w /\ backend'[v] = backend[v]
  BY <1>9
<1>11. Lates(b)' = IF cb.state # breaker[b].state THEN due ELSE Lates(b) \cap due
  <2>1. ASSUME NEW v PROVE v \in Lates(b)' <=> v \in (IF cb.state # breaker[b].state THEN due ELSE late \cap due)
    BY <1>1, <1>8, <1>9, <1>10 DEF Lates
  <2>2. Lates(b) \cap due = late \cap due
    BY <1>8 DEF Lates
  <2>3. QED
    BY <2>1, <2>2
<1>12. ASSUME NEW d \in Backends, d # b PROVE Lates(d)' = Lates(d)
  <2>1. ASSUME NEW v PROVE v \in Lates(d)' <=> v \in Lates(d)
    BY <1>1, <1>3, <1>8, <1>9, <1>10, <1>12 DEF Lates, Outstanding
  <2>2. QED
    BY <2>1
<1>13. QED
  BY <1>4, <1>6, <1>7, <1>11, <1>12 DEF Seen

\* An admission is a step of the backend's breaker and of no other.
LEMMA AdmitDrives ==
  ASSUME CallInv, NEW w \in Workers, Admit(w), NEW d \in Backends
  PROVE  CB(d)!Next \/ UNCHANGED CB(d)!vars
<1>b. PICK b \in Backends : b = backend[w]
  BY DEF Admit, CallInv, ForwardInv, Located, Assigned
<1> DEFINE cb == CB(b)!AfterAllow(breaker[b], elapsed[b])
           how == IF cb.state = "HalfOpen" THEN "trial" ELSE "normal"
           yes == CB(b)!Admits(breaker[b], elapsed[b])
<1>1. pc[w] = "admit" /\ call[w] = "none" /\ call \in [Workers -> {"none", "normal", "trial"}]
  BY NotDue DEF Admit, CallInv, ForwardInv, ControlType
<1>2. SetBreaker(b, cb, Outstanding(b)) /\ elapsed' = elapsed
  BY <1>b DEF Admit
<1>3. \/ yes /\ call' = [call EXCEPT ![w] = how] /\ backend' = backend
      \/ ~yes /\ PickAgain(w) /\ call' = call
  BY <1>b DEF Admit
<1> HIDE DEF cb, how, yes
<1>4. \E c \in {"none", how} :
        /\ call' = [call EXCEPT ![w] = c]
        /\ c = "none" <=> ~yes
        /\ backend'[w] \in {b, None} /\ (c # "none" => backend'[w] = b)
        /\ \A v \in Workers : v # w => backend'[v] = backend[v]
  <2>1. CASE yes /\ call' = [call EXCEPT ![w] = how] /\ backend' = backend
    BY <1>b, <2>1 DEF how
  <2>2. CASE ~yes /\ PickAgain(w) /\ call' = call
    <3>1. PICK l, sc : Restarts(w, l, sc)
      BY <2>2, LoopRestarts DEF PickAgain, CallInv, ForwardInv
    <3>2. call' = [call EXCEPT ![w] = "none"]
      BY <1>1, <2>2
    <3>3. backend'[w] = None /\ \A v \in Workers : v # w => backend'[v] = backend[v]
      BY <3>1 DEF Restarts, CallInv, ForwardInv, ControlType
    <3>4. QED
      BY <2>2, <3>2, <3>3
  <2>3. QED
    BY <1>3, <2>1, <2>2
<1>5. PICK c \in {"none", how} :
        /\ call' = [call EXCEPT ![w] = c]
        /\ c = "none" <=> ~yes
        /\ backend'[w] \in {b, None} /\ (c # "none" => backend'[w] = b)
        /\ \A v \in Workers : v # w => backend'[v] = backend[v]
  BY <1>4
<1>6. w \notin Outstanding(b)
  BY <1>1 DEF Outstanding
<1>7. /\ breaker'[b] = cb
      /\ Calls(b)' = [Calls(b) EXCEPT ![w] = c]
      /\ Lates(b)' = IF cb.state # breaker[b].state THEN Outstanding(b) ELSE Lates(b) \cap Outstanding(b)
      /\ \A e \in Backends : e # b =>
           breaker'[e] = breaker[e] /\ Calls(e)' = Calls(e) /\ Lates(e)' = Lates(e)
  <2>1. Tells(w, b, cb, Outstanding(b), c)
    BY <1>b, <1>2, <1>5, <1>6 DEF Tells
  <2>2. Seen(w, b, cb, Outstanding(b), c)
    BY <2>1, BreakerView
  <2>3. QED
    BY <2>2 DEF Seen
<1>8. CASE d # b
  BY <1>2, <1>7, <1>8 DEF CB!vars, Calls, Lates
<1>9. CASE d = b
  <2>1. CB(b)!Outstanding = Outstanding(b)
    BY DEF CB!Outstanding, Outstanding
  <2>2. Calls(b)[w] = "none"
    BY <1>1, <1>b DEF Calls
  <2>3. CB(b)!Admitted(w) \/ CB(b)!Rejected(w)
    <3>1. CASE yes
      BY <3>1, <1>5, <1>7 DEF CB!Admitted, Calls, yes, how, cb
    <3>2. CASE ~yes
      <4>1. Calls(b)' = Calls(b)
        BY <1>5, <1>7, <2>2, <3>2 DEF Calls
      <4>2. QED
        BY <3>2, <4>1 DEF CB!Rejected, Calls, yes
    <3>3. QED
      BY <3>1, <3>2
  <2>4. CB(b)!AllowRequest(w)
    BY <1>2, <1>7, <2>1, <2>2, <2>3 DEF CB!AllowRequest, CB!MarkLate, Calls, Lates, cb
  <2>5. QED
    BY <1>9, <2>4 DEF CB!Next
<1>10. QED
  BY <1>8, <1>9

\* A report is a step of the backend's breaker and of no other.
LEMMA ReportDrives ==
  ASSUME CallInv, NEW w \in Workers, Report(w), NEW d \in Backends
  PROVE  CB(d)!Next \/ UNCHANGED CB(d)!vars
<1>b. PICK b \in Backends : b = backend[w]
  BY DEF Report, CallInv, ForwardInv, Located, Assigned
<1> DEFINE cb == IF outcome[w].ok THEN CB(b)!AfterSuccess(breaker[b]) ELSE CB(b)!AfterFailure(breaker[b])
           due == Outstanding(b) \ {w}
<1>1. pc[w] = "report" /\ call[w] # "none"
  BY DEF Report, CallInv, ForwardInv, Reports, Due
<1>2. /\ SetBreaker(b, cb, due) /\ call' = [call EXCEPT ![w] = "none"]
      /\ IF ~outcome[w].ok /\ CB(b)!Trips(breaker[b])
         THEN \E e \in BOOLEAN : elapsed' = [elapsed EXCEPT ![b] = e]
         ELSE elapsed' = elapsed
  BY <1>b DEF Report
<1>3. /\ backend'[w] \in {b, None}
      /\ \A v \in Workers : v # w => backend'[v] = backend[v]
  <2>1. CASE outcome[w].ok
    BY <1>b, <2>1 DEF Report
  <2>2. CASE ~outcome[w].ok
    <3>1. PICK l, sc : Restarts(w, l, sc)
      BY <2>2, RetryRestarts DEF Report, CallInv, ForwardInv
    <3>2. QED
      BY <3>1 DEF Restarts, CallInv, ForwardInv, ControlType
  <2>3. QED
    BY <2>1, <2>2
<1> HIDE DEF cb
<1>4. /\ breaker'[b] = cb
      /\ Calls(b)' = [Calls(b) EXCEPT ![w] = "none"]
      /\ Lates(b)' = IF cb.state # breaker[b].state THEN due ELSE Lates(b) \cap due
      /\ \A e \in Backends : e # b =>
           breaker'[e] = breaker[e] /\ Calls(e)' = Calls(e) /\ Lates(e)' = Lates(e)
  <2>1. Tells(w, b, cb, due, "none")
    BY <1>b, <1>2, <1>3 DEF Tells
  <2> HIDE DEF due
  <2>2. Seen(w, b, cb, due, "none")
    BY <2>1, BreakerView
  <2>3. QED
    BY <2>2 DEF Seen
<1>5. CASE d # b
  <2>1. elapsed'[d] = elapsed[d]
    BY <1>2, <1>5 DEF CallInv, Domains
  <2>2. QED
    BY <1>4, <1>5, <2>1 DEF CB!vars, Calls, Lates
<1>6. CASE d = b
  <2>1. CB(b)!Outstanding = Outstanding(b)
    BY DEF CB!Outstanding, Outstanding
  <2>2. Calls(b)[w] # "none"
    BY <1>1, <1>b DEF Calls
  <2>3. CASE outcome[w].ok
    <3>1. CB(b)!OnSuccess(w)
      BY <1>2, <1>4, <2>1, <2>2, <2>3 DEF CB!OnSuccess, CB!MarkLate, Calls, Lates, cb
    <3>2. QED
      BY <1>6, <3>1 DEF CB!Next
  <2>4. CASE ~outcome[w].ok
    <3>1. IF CB(b)!Trips(breaker[b]) THEN elapsed'[b] \in BOOLEAN ELSE elapsed'[b] = elapsed[b]
      BY <1>2, <2>4 DEF CallInv, Domains
    <3>2. CB(b)!OnFailure(w)
      BY <1>4, <2>1, <2>2, <2>4, <3>1 DEF CB!OnFailure, CB!MarkLate, Calls, Lates, cb
    <3>3. QED
      BY <1>6, <3>2 DEF CB!Next
  <2>5. QED
    BY <2>3, <2>4
<1>7. QED
  BY <1>5, <1>6

\* Every step is, for each breaker, one of its steps or none.
LEMMA BreakerSteps ==
  ASSUME CallInv, [Next]_vars
  PROVE  \A b \in Backends : CB(b)!Next \/ UNCHANGED CB(b)!vars
<1> USE DEF CallInv
<1>1. ASSUME NEW w \in Workers, Begin(w) \/ Pick(w) \/ (GiveBack(w) /\ outcome[w].ok)
      PROVE  \A b \in Backends : UNCHANGED CB(b)!vars
  <2>1. call[w] = "none"
    BY <1>1, NotDue DEF Begin, Pick, GiveBack
  <2>2. UNCHANGED cbVars
    BY <1>1 DEF Begin, Pick, GiveBack
  <2>3. \A v \in Workers : v # w => backend'[v] = backend[v]
    <3>1. CASE Begin(w) \/ (GiveBack(w) /\ outcome[w].ok)
      <4>1. \E l, sc : Restarts(w, l, sc)
        BY <3>1, LoopRestarts, RetryRestarts DEF Begin, GiveBack, ForwardInv
      <4>2. QED
        BY <4>1 DEF Restarts, ForwardInv, ControlType
    <3>2. CASE Pick(w)
      <4>1. PICK sc : Picked(w, sc)
        BY <3>2, PickOutcome
      <4>2. QED
        BY <4>1 DEF Picked, Return, ctlVars, ForwardInv, ControlType
    <3>3. QED
      BY <1>1, <3>1, <3>2
  <2>4. QED
    BY <2>1, <2>2, <2>3, ViewKept
<1>2. ASSUME NEW w \in Workers, Admit(w) \/ Report(w)
      PROVE  \A b \in Backends : CB(b)!Next \/ UNCHANGED CB(b)!vars
  BY <1>2, AdmitDrives, ReportDrives
<1>3. ASSUME NEW d \in Backends, ResetTimeoutElapses(d), NEW b \in Backends
      PROVE  CB(b)!Next \/ UNCHANGED CB(b)!vars
  <2>1. /\ ~elapsed[d] /\ elapsed' = [elapsed EXCEPT ![d] = TRUE]
        /\ UNCHANGED <<breaker, call, late, backend>>
    BY <1>3 DEF ResetTimeoutElapses, ctlVars
  <2>2. CASE b = d
    <3>1. elapsed'[b] = TRUE
      BY <2>1, <2>2 DEF Domains
    <3>2. CB(b)!ResetTimeoutElapses
      BY <2>1, <2>2, <3>1 DEF CB!ResetTimeoutElapses
    <3>3. QED
      BY <3>2 DEF CB!Next
  <2>3. CASE b # d
    <3>1. elapsed'[b] = elapsed[b]
      BY <2>1, <2>3 DEF Domains
    <3>2. QED
      BY <2>1, <3>1 DEF CB!vars
  <2>4. QED
    BY <2>2, <2>3
<1>4. ASSUME NEW w \in Workers, \/ Count(w) \/ Acquire(w) \/ Dial(w) \/ Exchange(w) \/ Uncount(w) \/ Exit(w)
                                \/ GiveBack(w) /\ ~outcome[w].ok
      PROVE  UNCHANGED <<cbVars, backend>>
  BY <1>4 DEF Count, Acquire, Dial, Exchange, Uncount, Exit, GiveBack
<1>5. ASSUME \/ \E b \in Backends : SetHealth(b)
             \/ \E s \in Sockets : PeerCloses(s)
             \/ Stop \/ CloseAll \/ Finished \/ UNCHANGED vars
      PROVE  UNCHANGED <<cbVars, backend>>
  BY <1>5 DEF SetHealth, PeerCloses, Stop, CloseAll, Finished, vars, ctlVars
<1>6. ASSUME UNCHANGED <<cbVars, backend>>, NEW b \in Backends PROVE UNCHANGED CB(b)!vars
  BY <1>6 DEF cbVars, CB!vars
<1>7. ASSUME UNCHANGED <<cbVars, backend>>
      PROVE  \A b \in Backends : CB(b)!Next \/ UNCHANGED CB(b)!vars
  BY <1>6, <1>7
<1>8. ASSUME NEW w \in Workers, Begin(w) \/ Serve(w) \/ Exit(w)
      PROVE  \A b \in Backends : CB(b)!Next \/ UNCHANGED CB(b)!vars
  <2>1. CASE Begin(w) \/ Pick(w) \/ (GiveBack(w) /\ outcome[w].ok)
    BY <1>1, <2>1
  <2>2. CASE Admit(w) \/ Report(w)
    BY <1>2, <2>2
  <2>3. CASE \/ Count(w) \/ Acquire(w) \/ Dial(w) \/ Exchange(w) \/ Uncount(w) \/ Exit(w)
             \/ GiveBack(w) /\ ~outcome[w].ok
    BY <1>4, <1>7, <2>3
  <2>4. QED
    BY <1>8, <2>1, <2>2, <2>3 DEF Serve
<1>9. CASE \E b \in Backends : ResetTimeoutElapses(b)
  BY <1>3, <1>9
<1>10. CASE \/ \E b \in Backends : SetHealth(b)
            \/ \E s \in Sockets : PeerCloses(s)
            \/ Stop \/ CloseAll \/ Finished \/ UNCHANGED vars
  BY <1>5, <1>7, <1>10
<1>11. QED
  BY <1>8, <1>9, <1>10 DEF Next

-----------------------------------------------------------------------------
(* activeConnections counts the workers in flight.                         *)

\* The forwards in flight to a backend can be counted.
LEMMA FlightFinite ==
  ASSUME NEW b
  PROVE  IsFiniteSet(InFlight(b)) /\ Cardinality(InFlight(b)) \in Nat
<1>1. IsFiniteSet(InFlight(b))
  BY FS_Subset, ForwardingAssumption DEF InFlight
<1>2. QED
  BY <1>1, FS_CardinalityType

\* activeConnections is incremented by the worker that enters.
LEMMA CountKeeps ==
  ASSUME ForwardInv, NEW w \in Workers, Count(w)
  PROVE  ForwardInv'
<1> USE DEF ForwardInv
<1>1. /\ pc[w] = "count" /\ backend[w] \in Backends /\ outcome[w] = Failed
      /\ UNCHANGED <<group, size, strategy, rr, scan, backend, outcome, call, late, sock, key, owed>>
  BY DEF Count, group, cbVars, poolVars, Located, Assigned
<1>2. /\ pc' \in [Workers -> Unassigned \cup Assigned] /\ Located'
      /\ pc'[w] = "acquire" /\ \A v \in Workers : v # w => pc'[v] = pc[v]
  BY <1>1, MoveKeeps DEF Count, Goto, Assigned, ControlType
<1>3. active' = [active EXCEPT ![backend[w]] = @ + 1]
  BY DEF Count
<1>4. ControlType'
  BY <1>1, <1>2, <1>3 DEF ControlType
<1>5. Counts'
  <2>1. /\ InFlight(backend[w])' = InFlight(backend[w]) \cup {w} /\ w \notin InFlight(backend[w])
        /\ \A b \in Backends : b # backend[w] => InFlight(b)' = InFlight(b)
    BY <1>1, <1>2 DEF InFlight
  <2>2. Cardinality(InFlight(backend[w]) \cup {w}) = Cardinality(InFlight(backend[w])) + 1
    BY <2>1, FlightFinite, FS_AddElement
  <2>3. QED
    BY <1>1, <1>3, <2>1, <2>2 DEF Counts, ControlType
<1>6. Hands'
  BY <1>1, <1>2 DEF Hands, HandsOf, Unassigned
<1>7. Reports' /\ LateIsDue'
  BY <1>1, <1>2 DEF Reports, Due, LateIsDue
<1>8. OwedIsHeld'
  BY <1>1, <1>2 DEF OwedIsHeld, Awaited
<1>9. QED
  BY <1>2, <1>4, <1>5, <1>6, <1>7, <1>8

\* activeConnections is decremented by the worker that leaves.
LEMMA UncountKeeps ==
  ASSUME ForwardInv, NEW w \in Workers, Uncount(w)
  PROVE  ForwardInv'
<1> USE DEF ForwardInv
<1>1. /\ pc[w] = "uncount" /\ backend[w] \in Backends
      /\ UNCHANGED <<group, size, strategy, rr, scan, backend, outcome, call, late, sock, key, owed>>
  BY DEF Uncount, group, cbVars, poolVars, Located, Assigned
<1>2. /\ pc' \in [Workers -> Unassigned \cup Assigned] /\ Located'
      /\ pc'[w] = (IF outcome[w].ok THEN "report" ELSE "giveback") /\ \A v \in Workers : v # w => pc'[v] = pc[v]
  BY <1>1, MoveKeeps DEF Uncount, Goto, Assigned, ControlType
<1>3. active' = [active EXCEPT ![backend[w]] = @ - 1]
  BY DEF Uncount
<1>4. ControlType'
  <2>1. active' \in [Backends -> Int]
    BY <1>1, <1>3 DEF ControlType
  <2>2. QED
    BY <1>1, <1>2, <2>1 DEF ControlType
<1>5. Counts'
  <2>1. /\ InFlight(backend[w])' = InFlight(backend[w]) \ {w} /\ w \in InFlight(backend[w])
        /\ \A b \in Backends : b # backend[w] => InFlight(b)' = InFlight(b)
    BY <1>1, <1>2 DEF InFlight
  <2>2. Cardinality(InFlight(backend[w]) \ {w}) = Cardinality(InFlight(backend[w])) - 1
    BY <2>1, FlightFinite, FS_RemoveElement
  <2>3. QED
    BY <1>1, <1>3, <2>1, <2>2 DEF Counts, ControlType
<1>6. Hands'
  BY <1>1, <1>2 DEF Hands, HandsOf, Unassigned
<1>7. Reports' /\ LateIsDue'
  BY <1>1, <1>2 DEF Reports, Due, LateIsDue
<1>8. OwedIsHeld'
  <2>1. outcome[w] = Failed => pc'[w] = "giveback"
    BY <1>2, FailedOutcome
  <2>2. QED
    BY <1>1, <1>2, <2>1 DEF OwedIsHeld, Awaited
<1>9. QED
  BY <1>2, <1>4, <1>5, <1>6, <1>7, <1>8

-----------------------------------------------------------------------------
(* The pool is used as ConnectionPool says, so its invariant holds here.   *)

PoolProofs == INSTANCE ConnectionPoolProofs WITH Threads <- Workers, Keys <- Backends, NoKey <- None

\* What a step does to the pool is a step of ConnectionPool.
LEMMA PoolStep ==
  ASSUME ForwardInv, [Next]_vars
  PROVE  [Pool!Next]_(Pool!poolVars)
<1> USE DEF Pool!poolVars
<1>1. ASSUME NEW w \in Workers, Acquire(w) PROVE Pool!Next
  <2>1. backend[w] \in Backends
    BY <1>1 DEF Acquire, ForwardInv, Located, Assigned
  <2>2. Pool!AcquireIdle(w, backend[w]) \/ Pool!AcquireMiss(w, backend[w])
    BY <1>1 DEF Acquire
  <2>3. QED
    BY <2>1, <2>2 DEF Pool!Next
<1>2. ASSUME NEW w \in Workers, Dial(w) PROVE Pool!Next
  <2>1. Pool!DialSucceeds(w) \/ Pool!DialFails(w)
    BY <1>2 DEF Dial
  <2>2. QED
    BY <2>1 DEF Pool!Next
<1>3. ASSUME NEW w \in Workers, GiveBack(w) PROVE [Pool!Next]_(Pool!poolVars)
  <2>1. UNCHANGED poolVars \/ Pool!Release(w) \/ Pool!Discard(w)
    BY <1>3 DEF GiveBack, Dispose
  <2>2. QED
    BY <2>1 DEF Pool!Next, poolVars
<1>4. ASSUME NEW s \in Sockets, PeerCloses(s) PROVE Pool!Next
  <2>1. Pool!PeerCloses(s)
    BY <1>4 DEF PeerCloses
  <2>2. QED
    BY <2>1 DEF Pool!Next
<1>5. CASE CloseAll
  BY <1>5 DEF CloseAll, Pool!Next
<1>6. ASSUME NEW w \in Workers,
             Begin(w) \/ Pick(w) \/ Admit(w) \/ Count(w) \/ Exchange(w) \/ Uncount(w) \/ Report(w) \/ Exit(w)
      PROVE  UNCHANGED poolVars
  BY <1>6 DEF Begin, Pick, Admit, Count, Exchange, Uncount, Report, Exit
<1>7. CASE \/ \E b \in Backends : SetHealth(b) \/ ResetTimeoutElapses(b)
           \/ Stop \/ Finished \/ UNCHANGED vars
  BY <1>7 DEF SetHealth, ResetTimeoutElapses, Stop, Finished, vars, poolVars
<1>8. QED
  BY <1>1, <1>2, <1>3, <1>4, <1>5, <1>6, <1>7 DEF Next, Serve, poolVars

\* The pool as Forwarding and as ConnectionPoolProofs name it.
LEMMA SamePool ==
  /\ Pool!Init => PoolProofs!Init
  /\ [Pool!Next]_(Pool!poolVars) => [PoolProofs!Next]_(PoolProofs!poolVars)
<1>1. Pool!Init => PoolProofs!Init
  BY DEF Pool!Init, PoolProofs!Init
<1>3. Pool!Next => PoolProofs!Next
  <2>1. ASSUME NEW t \in Workers, NEW k \in Backends
        PROVE  /\ Pool!AcquireIdle(t, k) => PoolProofs!AcquireIdle(t, k)
               /\ Pool!AcquireMiss(t, k) => PoolProofs!AcquireMiss(t, k)
    BY DEF Pool!AcquireIdle, Pool!AcquireMiss, PoolProofs!AcquireIdle, PoolProofs!AcquireMiss
  <2>2. ASSUME NEW t \in Workers
        PROVE  /\ Pool!DialSucceeds(t) => PoolProofs!DialSucceeds(t)
               /\ Pool!DialFails(t) => PoolProofs!DialFails(t)
    BY DEF Pool!DialSucceeds, Pool!DialFails, Pool!Dialling,
           PoolProofs!DialSucceeds, PoolProofs!DialFails, PoolProofs!Dialling
  <2>3. ASSUME NEW t \in Workers
        PROVE  /\ Pool!Release(t) => PoolProofs!Release(t)
               /\ Pool!Discard(t) => PoolProofs!Discard(t)
    BY DEF Pool!Release, Pool!Discard, Pool!Close, PoolProofs!Release, PoolProofs!Discard, PoolProofs!Close
  <2>4. ASSUME NEW s \in Sockets
        PROVE  Pool!PeerCloses(s) => PoolProofs!PeerCloses(s)
    BY DEF Pool!PeerCloses, PoolProofs!PeerCloses
  <2>5. Pool!CloseAll => PoolProofs!CloseAll
    BY DEF Pool!CloseAll, Pool!Close, Pool!IdleSockets, PoolProofs!CloseAll, PoolProofs!Close, PoolProofs!IdleSockets
  <2>6. Pool!Finished => PoolProofs!Finished
    BY DEF Pool!Finished, Pool!poolVars, PoolProofs!Finished, PoolProofs!poolVars
  <2>7. QED
    BY <2>1, <2>2, <2>3, <2>4, <2>5, <2>6 DEF Pool!Next, PoolProofs!Next
<1>4. QED
  BY <1>1, <1>3 DEF Pool!poolVars, PoolProofs!poolVars

Inv == ForwardInv /\ PoolProofs!PoolInv /\ Domains

\* The pool's own invariant holds while it is used by forwarding.
LEMMA PoolKept ==
  ASSUME ForwardInv, PoolProofs!PoolInv, [Next]_vars
  PROVE  PoolProofs!PoolInv'
<1>1. [PoolProofs!Next]_(PoolProofs!poolVars)
  BY PoolStep, SamePool
<1>2. QED
  BY <1>1, PoolProofs!NextKeepsPoolInv, BalancerAssumption, ForwardingAssumption DEF Backends, None

\* Every step keeps the invariant of forwarding.
LEMMA ForwardKept ==
  ASSUME Inv, [Next]_vars
  PROVE  ForwardInv'
<1>1. ForwardInv /\ Pool!TypeOK
  BY DEF Inv, PoolProofs!PoolInv, PoolProofs!TypeOK, Pool!TypeOK
<1>2. ASSUME NEW w \in Workers, Begin(w) \/ Serve(w) \/ Exit(w)
      PROVE  ForwardInv'
  BY <1>1, <1>2, BeginKeeps, PickKeeps, AdmitKeeps, CountKeeps, AcquireKeeps, DialKeeps, ExchangeKeeps,
     UncountKeeps, ReportKeeps, GiveBackKeeps, ExitKeeps DEF Serve
<1>3. ASSUME NEW b \in Backends, SetHealth(b) \/ ResetTimeoutElapses(b)
      PROVE  ForwardInv'
  <2>1. owed' = owed
    BY <1>3 DEF SetHealth, ResetTimeoutElapses
  <2>2. CASE SetHealth(b)
    BY <1>1, <2>1, <2>2, SurroundingsKeep
  <2>3. CASE ResetTimeoutElapses(b)
    <3>1. UNCHANGED <<lbVars, call, late, sock, key, ctlVars>>
      BY <2>3 DEF ResetTimeoutElapses, poolVars
    <3>2. QED
      BY <1>1, <2>1, <3>1, SurroundingsKeep
  <2>4. QED
    BY <1>3, <2>2, <2>3
<1>4. CASE (\E s \in Sockets : PeerCloses(s)) \/ Stop \/ CloseAll
  <2>1. UNCHANGED <<lbVars, call, late, sock, key, ctlVars>> /\ owed' \subseteq owed
    BY <1>4 DEF PeerCloses, Stop, CloseAll, Pool!PeerCloses, Pool!CloseAll, cbVars, poolVars
  <2>2. QED
    BY <1>1, <2>1, SurroundingsKeep
<1>5. CASE Finished \/ UNCHANGED vars
  <2>1. UNCHANGED vars /\ owed' = owed
    BY <1>5 DEF Finished, vars
  <2>2. QED
    BY <1>1, <2>1, SurroundingsKeep
<1>6. QED
  BY <1>2, <1>3, <1>4, <1>5 DEF Next

\* The invariant holds when the gateway starts.
LEMMA InitInv == Init => Inv
<1> SUFFICES ASSUME Init PROVE Inv
  OBVIOUS
<1>1. PoolProofs!PoolInv
  BY SamePool, PoolProofs!InitPoolInv, BalancerAssumption, ForwardingAssumption DEF Init, Backends, None
<1>2. PICK d \in Deployments : /\ strategy = d.strategy /\ size = d.size
                              /\ pc = [w \in Workers |-> IF w \in d.threads THEN "idle" ELSE "exited"]
  BY DEF Init
<1>3. size \in 1 .. N /\ strategy \in {"round_robin", "least_connections"}
  BY <1>2, ForwardingAssumption
<1>4. ControlType
  <2>1. Idle \in Scans
    BY DEF Idle, Scans, None
  <2> HIDE DEF Idle
  <2>2. /\ rr = 0 /\ active = [b \in Backends |-> 0] /\ scan = [w \in Workers |-> Idle]
        /\ backend = [w \in Workers |-> None] /\ outcome = [w \in Workers |-> Failed]
        /\ call = [w \in Workers |-> "none"]
        /\ sock = [w \in Workers |-> NoSocket] /\ key = [w \in Workers |-> None]
    BY DEF Init, Pool!Init
  <2>3. size \in 1 .. N /\ rr \in 0 .. size - 1 /\ active \in [Backends -> Int]
    BY <1>3, <2>2, BalancerAssumption
  <2>4. pc \in [Workers -> Unassigned \cup Assigned]
    BY <1>2 DEF Unassigned
  <2>5. QED
    BY <1>3, <2>1, <2>2, <2>3, <2>4 DEF ControlType
<1>5. Located
  BY <1>2, <1>4, ScanStarts DEF Init, Located, Assigned
<1>6. Hands /\ Reports /\ OwedIsHeld /\ LateIsDue
  BY <1>2 DEF Init, Pool!Init, Hands, HandsOf, Reports, Due, OwedIsHeld, Awaited, LateIsDue, Unassigned
<1>7. Counts
  <2>1. \A b \in Backends : InFlight(b) = {} /\ active[b] = 0
    BY <1>2 DEF Init, InFlight
  <2>2. QED
    BY <2>1, FS_EmptySet DEF Counts
<1>8. Domains
  BY DEF Init, Domains
<1>9. QED
  BY <1>1, <1>4, <1>5, <1>6, <1>7, <1>8 DEF Inv, ForwardInv

\* The invariant of the composition.
THEOREM ForwardingInvariant == Spec => []Inv
<1>1. Inv /\ [Next]_vars => Inv'
  BY PoolKept, ForwardKept, DomainsKept DEF Inv
<1>2. QED
  BY <1>1, InitInv, PTL DEF Spec

\* Whatever path a request takes, activeConnections is given back and every
\* admitted call is reported.
THEOREM BooksAlwaysBalance == Spec => []BooksBalance
<1>1. Inv => BooksBalance
  BY DEF Inv, ForwardInv, Counts, Reports, Due, Hands, HandsOf, Unassigned, BooksBalance
<1>2. QED
  BY <1>1, ForwardingInvariant, PTL

\* forwardWithResilience and Gateway::run drive the pool as ConnectionPool
\* allows, so what ConnectionPoolProofs proves holds in the gateway.
THEOREM PoolIsUsedCorrectly == Spec => UsesPoolCorrectly
<1>1. Init => Pool!Init
  BY DEF Init
<1>2. Inv /\ [Next]_vars => [Pool!Next]_(Pool!poolVars)
  BY PoolStep DEF Inv
<1>3. QED
  BY <1>1, <1>2, ForwardingInvariant, PTL DEF Spec, UsesPoolCorrectly, Pool!Spec

\* No client is sent the answer to an abandoned exchange.
THEOREM NoAnswerIsStale == Spec => []NoStaleAnswer
<1>1. Inv => NoStaleAnswer
  <2> SUFFICES ASSUME Inv PROVE NoStaleAnswer
    OBVIOUS
  <2>1. /\ \A t, u \in Workers : sock[t] # NoSocket /\ sock[t] = sock[u] => t = u
        /\ \A t \in Workers, k \in Backends : sock[t] # NoSocket => \A i \in 1 .. Len(idle[k]) : sock[t] # idle[k][i]
    BY DEF Inv, PoolProofs!PoolInv, PoolProofs!ExactlyOneOwner, PoolProofs!HeldOnce, PoolProofs!HeldNotQueued,
           PoolProofs!Holders, PoolProofs!Queued
  <2>2. NoSocket \notin owed /\ \A s \in owed : \E w \in Workers : sock[w] = s /\ pc[w] # "exchange"
    <3>1. owed \subseteq Sockets /\ \A s \in owed : Awaited(s)
      BY DEF Inv, ForwardInv, OwedIsHeld
    <3>2. QED
      BY <3>1, ForwardingAssumption DEF Awaited
  <2>3. QED
    BY <2>1, <2>2 DEF NoStaleAnswer, Pool!IdleSockets
<1>2. QED
  BY <1>1, ForwardingInvariant, PTL

\* forwardWithResilience reports to each backend's breaker exactly the calls
\* that breaker admitted, so what CircuitBreakerProofs proves holds for each.
THEOREM BreakersAreUsedCorrectly == Spec => UsesBreakersCorrectly
<1>1. Init => \A b \in Backends : CB(b)!Init
  BY DEF Init, CB!Init
<1>2. Inv /\ [Next]_vars => [\A b \in Backends : CB(b)!Next \/ UNCHANGED CB(b)!vars]_vars
  BY BreakerSteps DEF Inv, CallInv
<1>3. QED
  BY <1>1, <1>2, ForwardingInvariant, PTL DEF Spec, UsesBreakersCorrectly
=============================================================================
