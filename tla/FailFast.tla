------------------------------ MODULE FailFast ------------------------------
(***************************************************************************)
(* Forwarding with a record of which backends could have served a request, *)
(* to ask when forwardWithResilience gives up without contacting any.      *)
(***************************************************************************)
EXTENDS Forwarding

VARIABLES
  avail,  \* history: backends healthy with a Closed breaker since the request began
  tried   \* history: workers whose request has been admitted by some breaker

ffVars == <<vars, avail, tried>>

UsableNext == {b \in 0 .. size - 1 : healthy'[b] /\ breaker'[b].state = "Closed"}

Observe ==
  /\ avail' = [w \in Workers |->
       IF pc'[w] \in {"idle", "exited"} THEN {}
       ELSE IF pc[w] = "idle" THEN UsableNext
       ELSE avail[w] \cap UsableNext]
  /\ tried' = {w \in Workers : pc'[w] = "count" \/ (w \in tried /\ pc'[w] # "idle")}

FFInit == Init /\ avail = [w \in Workers |-> {}] /\ tried = {}
FFNext == Next /\ Observe
FFSpec == FFInit /\ [][FFNext]_ffVars
FFFairSpec == FFSpec /\ \A w \in Workers : WF_vars(Serve(w))

\* A worker gives up before any breaker has admitted its request.
RefusedUntried(w) == pc[w] \in {"pick", "admit"} /\ pc'[w] = "idle" /\ w \notin tried

\* README.md, lines 248-250: "A single failing instance behind a load balancer
\* shouldn't cause the gateway to fail-fast requests that would've been routed
\* to its healthy siblings". A request is refused with 503 before any backend
\* is contacted only if no backend was healthy with a Closed breaker
\* throughout. (With least connections an Open backend has the least load and
\* is picked again; with round robin the turn after an Open backend's may be
\* taken by another worker, and both attempts fall to that backend.)
SiblingServes == [][\A w \in Workers : RefusedUntried(w) => avail[w] = {}]_ffVars
=============================================================================
