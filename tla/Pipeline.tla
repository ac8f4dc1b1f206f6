------------------------------ MODULE Pipeline ------------------------------
(***************************************************************************)
(* From the configuration file to the answer: main loads a Config, the     *)
(* Gateway's constructor builds the Router, and the workers take requests  *)
(* through handleRequest, src/core/Gateway.cpp, lines 120-199: built-in    *)
(* endpoints, rate limit, route, cache, backend, with the counters of      *)
(* include/observability/Metrics.hpp.                                      *)
(*                                                                         *)
(* The router is not written after start-up, so what reads it belongs to   *)
(* the step before. RateLimiter and Forwarding model allow() and           *)
(* forwardWithResilience; here they have any of their results, the latter  *)
(* a response that a backend of the route's group made at some moment of   *)
(* the call.                                                               *)
(***************************************************************************)
EXTENDS LRUCache, Config, Router, FiniteSetsExt

CONSTANTS
  Workers,
  Files,        \* configuration files: the lines, and what their author means
  Requests,     \* what clients ask for: method and path, as its segments
  Statuses,     \* the statuses of backends' responses
  BuiltIn,      \* the paths /metrics and /gateway/health
  MaxCall,      \* the longest time a response takes from its backend to put()
  MaxRequests(_, _),  \* bound: the requests before this kind is no longer sent, by configuration
  MaxTime       \* bound: the clock stops here

VARIABLES
  phase,   \* "off", "serving", or "exit": main has returned 1
  cfg,     \* cfg_: its settings, groups and routes
  table,   \* router_.routes_
  metrics, \* Metrics::instance()
  pc, req, \* where each worker is in handleRequest, and its request
  resp,    \* its response
  meant,   \* history: what the file's author means, and which keys begin its items
  sent     \* history: the answers that have been queued, by kind

vars == <<phase, cfg, table, metrics, pc, req, resp, meant, sent, cache, now>>

Blank == [status |-> 0, source |-> "gateway"]
Zero == [requests |-> 0, errors |-> 0, hits |-> 0, misses |-> 0, limited |-> 0,
         latencies |-> 0, responses |-> [class \in 1 .. 5 |-> 0]]

Init ==
  /\ CacheInit
  /\ phase = "off"
  /\ cfg = <<>> /\ table = <<>> /\ meant = <<>>
  /\ metrics = Zero
  /\ sent = [all |-> 0, unclassed |-> 0, faults |-> 0, limited |-> 0]
  /\ pc = [w \in Workers |-> "idle"]
  /\ req = [w \in Workers |-> <<>>]
  /\ resp = [w \in Workers |-> Blank]

\* The text of a path with these segments.
Text(segments) ==
  IF segments = <<>> THEN <<"/">>
  ELSE FlattenSeq([i \in DOMAIN segments |-> <<"/">> \o segments[i]])

\* main, lines 22-34, and Gateway::Gateway.
Load(file) ==
  LET loaded == LoadFromFile(file.lines)
  IN  /\ phase = "off"
      /\ meant' = file.meant
      /\ IF Valid(loaded)
         THEN /\ phase' = "serving"
              /\ cfg' = [settings |-> loaded.settings, groups |-> loaded.groups, routes |-> loaded.routes]
              /\ table' \in Sorted(BuildRouter(loaded.groups, loaded.routes))
         ELSE phase' = "exit" /\ UNCHANGED <<cfg, table>>
      /\ UNCHANGED <<metrics, pc, req, resp, sent, cache, now>>

-----------------------------------------------------------------------------
RouteOf(w) == Match(table, Text(req[w].path))
Cacheable(w) == RouteOf(w)[1].cacheable /\ req[w].method \in {"GET", "HEAD"}

\* HttpRequest::cacheKey, which is injective: neither part holds a blank.
CacheKey(r) == <<r.method, Text(r.path)>>

Goto(w, l) == pc' = [pc EXCEPT ![w] = l]
Answer(w, r) == Goto(w, "respond") /\ resp' = [resp EXCEPT ![w] = r]
Own(status) == [status |-> status, source |-> "gateway"]

\* Lines 121-143.
Receive(w, r) ==
  /\ phase = "serving"
  /\ pc[w] = "idle"
  /\ metrics.requests < MaxRequests(meant, r)
  /\ metrics' = [metrics EXCEPT !.requests = @ + 1]
  /\ req' = [req EXCEPT ![w] = r]
  /\ IF r.path \in BuiltIn THEN Answer(w, Own(200)) ELSE Goto(w, "limit") /\ UNCHANGED resp
  /\ UNCHANGED <<phase, cfg, table, meant, sent, cache, now>>

\* Lines 145-162: refused, no route, or on to the cache or the backend.
RateLimit(w) ==
  /\ pc[w] = "limit"
  /\ \/ /\ Answer(w, Own(429))
        /\ metrics' = [metrics EXCEPT !.limited = @ + 1]
     \/ /\ RouteOf(w) = <<>>
        /\ Answer(w, Own(404))
        /\ metrics' = [metrics EXCEPT !.errors = @ + 1]
     \/ /\ RouteOf(w) # <<>>
        /\ Goto(w, IF Cacheable(w) THEN "get" ELSE "forward")
        /\ UNCHANGED <<resp, metrics>>
  /\ UNCHANGED <<phase, cfg, table, req, meant, sent, cache, now>>

\* Lines 163-174.
CacheGet(w) ==
  LET k == CacheKey(req[w])
  IN  /\ pc[w] = "get"
      /\ cache' = AfterGet(cache, k, now)
      /\ IF Found(cache, k, now)
         THEN /\ Answer(w, [Value(cache, k) EXCEPT !.source = "cache"])
              /\ metrics' = [metrics EXCEPT !.hits = @ + 1]
         ELSE /\ Goto(w, "forward")
              /\ metrics' = [metrics EXCEPT !.misses = @ + 1]
              /\ UNCHANGED resp
      /\ UNCHANGED <<phase, cfg, table, req, meant, sent, now>>

\* Line 177: a backend makes its response, or there is none and the gateway
\* makes one; it is on its way until the next step. The status is what atoi
\* makes of the status line, line 453, and need not be one of HTTP's.
Forward(w) ==
  /\ pc[w] = "forward"
  /\ Goto(w, "return")
  /\ \E s \in Statuses :
       resp' = [resp EXCEPT ![w] =
         [status |-> s, source |-> "backend", made |-> now, to |-> req[w], lb |-> RouteOf(w)[1].lb]]
  /\ UNCHANGED <<phase, cfg, table, metrics, req, meant, sent, cache, now>>

\* Line 179.
Stores(w) == Cacheable(w) /\ resp[w].status = 200

\* Lines 178-183.
Return(w) ==
  /\ pc[w] = "return"
  /\ Goto(w, "respond")
  /\ cache' = IF Stores(w) THEN AfterPut(cache, CacheKey(req[w]), resp[w], now) ELSE cache
  /\ metrics' = [metrics EXCEPT !.errors = @ + IF resp[w].status >= 500 THEN 1 ELSE 0]
  /\ UNCHANGED <<phase, cfg, table, req, resp, meant, sent, now>>

\* Mutant: cache hits are left out of the latency histogram.
MutRecordLatency(w) ==
  /\ pc[w] = "respond"
  /\ metrics' = [metrics EXCEPT !.latencies = @ + IF resp[w].source = "cache" THEN 0 ELSE 1]
  /\ Goto(w, "queue")
  /\ UNCHANGED <<phase, cfg, table, req, resp, meant, sent, cache, now>>

\* recordLatency, at the end of every path.
RecordLatency(w) ==
  /\ pc[w] = "respond"
  /\ metrics' = [metrics EXCEPT !.latencies = @ + 1]
  /\ Goto(w, "queue")
  /\ UNCHANGED <<phase, cfg, table, req, resp, meant, sent, cache, now>>

\* Metrics::recordResponse only counts statuses that have a class.
Classed(status) == status >= 100 /\ status < 600

\* An answer that has been counted as an error: lines 154 and 183.
Fault(r) == r = Own(404) \/ r.status >= 500

One(b) == IF b THEN 1 ELSE 0

\* queueResponse, lines 195-199, and back to the caller.
QueueResponse(w) ==
  LET r == resp[w]
  IN  /\ pc[w] = "queue"
      /\ metrics' = IF Classed(r.status)
                    THEN [metrics EXCEPT !.responses[r.status \div 100] = @ + 1] ELSE metrics
      /\ sent' = [all |-> sent.all + 1, unclassed |-> sent.unclassed + One(~Classed(r.status)),
                  faults |-> sent.faults + One(Fault(r)), limited |-> sent.limited + One(r = Own(429))]
      /\ Goto(w, "idle")
      /\ req' = [req EXCEPT ![w] = <<>>] /\ resp' = [resp EXCEPT ![w] = Blank]
      /\ UNCHANGED <<phase, cfg, table, meant, cache, now>>

\* Time passes, but no response is on its way for longer than the timeouts allow.
Tick ==
  /\ phase = "serving"
  /\ now < MaxTime
  /\ \A w \in Workers : pc[w] = "return" => now - resp[w].made < MaxCall
  /\ now' = now + 1
  /\ UNCHANGED <<phase, cfg, table, metrics, pc, req, resp, meant, sent, cache>>

Next ==
  \/ \E file \in Files : Load(file)
  \/ \E w \in Workers :
       \/ \E r \in Requests : Receive(w, r)
       \/ RateLimit(w) \/ CacheGet(w) \/ Forward(w) \/ Return(w)
       \/ RecordLatency(w) \/ QueueResponse(w)
  \/ Tick

Spec == Init /\ [][Next]_vars

-----------------------------------------------------------------------------
\* The first key of an item only counts if it is the one that the line with
\* the marker is searched for: name, host or path_prefix. Any other is lost,
\* and the setting keeps its default or, where that is invalid, the file is
\* refused.
Fatal(first) == first.group = "backends" \/ first.backend = "port" \/ first.route = "backend_group"
GroupRead(g, first) == IF first.group = "strategy" THEN [g EXCEPT !.strategy = "round_robin"] ELSE g
RouteRead(r, first) ==
  [prefix |-> Text(r.segments), group |-> r.group, cacheable |-> r.cacheable /\ first.route # "cacheable"]

\* Config.cpp, lines 7-13: a file of the subset described there is loaded as
\* it is written but for a lost first key, whatever the order of its sections
\* and keys and its indentation: no key strays into another item or section,
\* and no other is lost. A file is refused if it is broken, or if the first
\* key of its items is one that cannot be left out, and only then.
LoadedAsWritten ==
  /\ phase = "exit" => meant = <<>> \/ Fatal(meant.first)
  /\ phase = "serving" =>
       /\ meant # <<>> /\ ~Fatal(meant.first)
       /\ cfg.settings = meant.settings
       /\ cfg.groups = [i \in DOMAIN meant.groups |-> GroupRead(meant.groups[i], meant.first)]
       /\ cfg.routes = [i \in DOMAIN meant.routes |-> RouteRead(meant.routes[i], meant.first)]

\* The routes with an existing group that a request's path is under, segment
\* by segment, and the one of them that is most specific.
Under(r) == {i \in DOMAIN meant.routes :
               /\ IsPrefix(meant.routes[i].segments, r.path)
               /\ Known(meant.groups, meant.routes[i])}
MostSpecific(r) ==
  meant.routes[CHOOSE i \in Under(r) :
    \A j \in Under(r) : Len(meant.routes[j].segments) <= Len(meant.routes[i].segments)]

\* Router.hpp, lines 16-19: "a specific route like /api/users/admin wins over
\* the more general /api/users", and a path is only under a prefix that ends
\* where one of its segments does. Every client gets an answer that the group
\* configured for its path gave to a request for the same thing, be it from
\* the backend or from the cache, and only 200s of routes configured as
\* cacheable come from the cache.
ServedAsConfigured ==
  \A w \in Workers : pc[w] = "respond" =>
    LET r == resp[w]
    IN  /\ r.source # "gateway" =>
             /\ Under(req[w]) # {}
             /\ meant.groups[r.lb].name = MostSpecific(req[w]).group
             /\ r.to = req[w]
        /\ r.source = "cache" => MostSpecific(req[w]).cacheable /\ r.status = 200 /\ r.to.method # "POST"
        /\ r = Own(404) => Under(req[w]) = {}

\* LRUCache.hpp, lines 11-12: entries have a TTL. A client is never served a
\* cached response that its backend made more than ttl_ and one call ago,
\* though responses of slow calls may arrive after, and replace, newer ones.
HitIsFresh ==
  [][\A w \in Workers :
       pc[w] = "get" /\ pc'[w] = "respond" /\ Ttl > 0 => now - resp'[w].made <= Ttl + MaxCall]_vars

Before(labels) == {w \in Workers : pc[w] \in labels}
Counted(Kind(_)) == {w \in Before({"respond", "queue"}) : Kind(resp[w])}

\* Metrics.hpp, lines 60-62: the counters need "eventual consistency for
\* reporting". Up to the requests that are between two updates just now, and
\* hence exactly when no request is in flight, every request counted has been
\* timed and answered once, every answer whose status has a class is in it,
\* and errors and refusals are those that were sent. An answer without a class
\* is in requests and latencies only. (onReadable's 400 for a malformed request
\* does not come from handleRequest and is not among them.)
CountersAgree ==
  LET answered == MapThenSumSet(LAMBDA class : metrics.responses[class], 1 .. 5)
      untimed == Before({"limit", "get", "forward", "return", "respond"})
  IN  /\ metrics.requests = metrics.latencies + Cardinality(untimed)
      /\ metrics.latencies = sent.all + Cardinality(Before({"queue"}))
      /\ answered + sent.unclassed = sent.all
      /\ metrics.errors = sent.faults + Cardinality(Counted(Fault))
      /\ metrics.limited = sent.limited + Cardinality(Counted(LAMBDA r : r = Own(429)))
=============================================================================
