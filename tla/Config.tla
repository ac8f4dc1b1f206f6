------------------------------- MODULE Config -------------------------------
(***************************************************************************)
(* GatewayConfig::loadFromFile, src/config/Config.cpp: the state machine   *)
(* that reads the configuration line by line, and the checks it ends with. *)
(*                                                                         *)
(* tokenize and splitKv have done their work: a line is its indentation,   *)
(* whether it starts with "- ", its key and its value. A path is a         *)
(* sequence of characters, a number an integer, other text a string.       *)
(***************************************************************************)
EXTENDS Integers, SequencesExt

\* What a number's text is when std::stoi throws; toInt keeps the default.
NotANumber == -1000000

ToInt(val, default) == IF val = NotANumber THEN default ELSE val

\* The settings by section and key, with their defaults.
Defaults ==
  <<"", "workers">> :> 4 @@ <<"", "metrics_port">> :> 9090 @@
  <<"listen", "host">> :> "0.0.0.0" @@ <<"listen", "port">> :> 8080 @@
  <<"rate_limit", "capacity">> :> 100 @@ <<"rate_limit", "refill_per_second">> :> 50 @@
  <<"cache", "capacity">> :> 1000 @@ <<"cache", "ttl_ms">> :> 5000 @@
  <<"circuit_breaker", "failure_threshold">> :> 5 @@
  <<"circuit_breaker", "reset_timeout_ms">> :> 10000 @@
  <<"retry", "max_retries">> :> 2 @@ <<"retry", "base_delay_ms">> :> 50 @@
  <<"retry", "max_delay_ms">> :> 1000 @@
  <<"connection", "connect_timeout_ms">> :> 1000 @@
  <<"connection", "backend_read_timeout_ms">> :> 3000 @@
  <<"connection", "max_response_body_bytes">> :> 10485760 @@
  <<"connection", "max_idle_per_backend">> :> 16 @@
  <<"health_check", "interval_ms">> :> 5000 @@ <<"health_check", "timeout_ms">> :> 1000 @@
  <<"health_check", "path">> :> "/health"

\* The settings that are text and are taken as they stand.
Texts == {<<"listen", "host">>, <<"health_check", "path">>}

\* The settings that must be above zero; ports are treated by themselves.
Positive ==
  {<<"", "workers">>, <<"rate_limit", "capacity">>, <<"rate_limit", "refill_per_second">>,
   <<"connection", "connect_timeout_ms">>, <<"connection", "backend_read_timeout_ms">>}

\* The locals of loadFromFile. curGroup and curRoute are null or point to the
\* last group and the last route.
Start ==
  [settings |-> Defaults, groups |-> <<>>, routes |-> <<>>,
   section |-> "", inGroup |-> FALSE, inRoute |-> FALSE, inBackends |-> FALSE,
   groupIndent |-> -1, routeIndent |-> -1]

NewGroup == [name |-> "", strategy |-> "round_robin", backends |-> <<>>]
NewBackend == [host |-> "", port |-> 0]
NewRoute == [prefix |-> <<>>, group |-> "", cacheable |-> FALSE]

SetIf(known, rec, field, val) == IF known THEN [rec EXCEPT ![field] = val] ELSE rec

SetLast(seq, e) == Append(Front(seq), e)

\* splitKv of the whole line: a list marker becomes part of the key.
KeyOf(ln) == IF ln.item THEN "- " ELSE ln.key

\* Lines 97-98 and 103-134.
Setting(st, section, ln) ==
  LET s == <<section, KeyOf(ln)>>
  IN  IF s \in DOMAIN Defaults
      THEN [st EXCEPT !.settings[s] = IF s \in Texts THEN ln.val ELSE ToInt(ln.val, @)]
      ELSE st

\* Lines 90-101.
TopLevel(st, ln) ==
  [Setting(st, "", ln) EXCEPT
     !.section = IF KeyOf(ln) \in {"workers", "metrics_port"} THEN "" ELSE KeyOf(ln),
     !.inGroup = FALSE, !.inRoute = FALSE, !.inBackends = FALSE,
     !.groupIndent = -1, !.routeIndent = -1]

\* Lines 151-159: a key of the current group, or of its last backend.
GroupKey(st, ln) ==
  LET g == Last(st.groups)
      inBackend == st.inBackends /\ g.backends # <<>>
      b == Last(g.backends)
  IN  CASE KeyOf(ln) \in {"name", "strategy"} ->
             [st EXCEPT !.groups = SetLast(@, [g EXCEPT ![KeyOf(ln)] = ln.val])]
        [] KeyOf(ln) = "backends" -> [st EXCEPT !.inBackends = TRUE]
        [] KeyOf(ln) = "host" /\ inBackend ->
             [st EXCEPT !.groups = SetLast(@, [g EXCEPT !.backends = SetLast(@, [b EXCEPT !.host = ln.val])])]
        [] KeyOf(ln) = "port" /\ inBackend ->
             [st EXCEPT !.groups = SetLast(@, [g EXCEPT !.backends = SetLast(@, [b EXCEPT !.port = ToInt(ln.val, 0)])])]
        [] OTHER -> st

\* Mutant: a marker under "backends:" starts a group of its own.
MutGroupLine(st, ln) ==
  IF ln.item
  THEN [st EXCEPT !.groupIndent = ln.indent, !.inGroup = TRUE, !.inBackends = FALSE,
                  !.groups = Append(@, SetIf(ln.key = "name", NewGroup, "name", ln.val))]
  ELSE IF st.inGroup THEN GroupKey(st, ln) ELSE st

\* Lines 136-160.
GroupLine(st, ln) ==
  IF ln.item /\ st.groupIndent \in {-1, ln.indent}
  THEN [st EXCEPT !.groupIndent = ln.indent, !.inGroup = TRUE, !.inBackends = FALSE,
                  !.groups = Append(@, SetIf(ln.key = "name", NewGroup, "name", ln.val))]
  ELSE IF ln.item /\ st.inGroup /\ st.inBackends /\ ln.indent > st.groupIndent
  THEN LET g == Last(st.groups)
       IN  [st EXCEPT !.groups = SetLast(@,
              [g EXCEPT !.backends = Append(@, SetIf(ln.key = "host", NewBackend, "host", ln.val))])]
  ELSE IF st.inGroup THEN GroupKey(st, ln) ELSE st

\* Lines 162-174.
RouteLine(st, ln) ==
  IF ln.item /\ (st.routeIndent = -1 \/ ln.indent <= st.routeIndent)
  THEN [st EXCEPT !.routeIndent = ln.indent, !.inRoute = TRUE,
                  !.routes = Append(@, SetIf(ln.key = "path_prefix", NewRoute, "prefix", ln.val))]
  ELSE IF ~st.inRoute THEN st
  ELSE LET r == Last(st.routes)
       IN  [st EXCEPT !.routes = SetLast(@,
              CASE KeyOf(ln) = "path_prefix" -> [r EXCEPT !.prefix = ln.val]
                [] KeyOf(ln) = "backend_group" -> [r EXCEPT !.group = ln.val]
                [] KeyOf(ln) = "cacheable" -> [r EXCEPT !.cacheable = (ln.val = "true")]
                [] OTHER -> r)]

ReadLine(st, ln) ==
  CASE ln.indent = 0 -> TopLevel(st, ln)
    [] ln.indent # 0 /\ st.section = "backend_groups" -> GroupLine(st, ln)
    [] ln.indent # 0 /\ st.section = "routes" -> RouteLine(st, ln)
    [] ln.indent # 0 /\ st.section = "" -> st
    [] OTHER -> Setting(st, st.section, ln)

LoadFromFile(lines) ==
  LET after[i \in 0 .. Len(lines)] ==
        IF i = 0 THEN Start ELSE ReadLine(after[i - 1], lines[i])
  IN  after[Len(lines)]

-----------------------------------------------------------------------------
IsPort(p) == p \in 1 .. 65535

\* Lines 178-200; where it is false the load throws and main returns 1. The
\* body limit is unsigned: a negative number is a very large one.
Valid(cfg) ==
  LET listen == cfg.settings[<<"listen", "port">>]
      metrics == cfg.settings[<<"", "metrics_port">>]
  IN  /\ IsPort(listen) /\ IsPort(metrics) /\ listen # metrics
      /\ \A s \in Positive : cfg.settings[s] > 0
      /\ cfg.settings[<<"connection", "max_response_body_bytes">>] # 0
      /\ cfg.groups # <<>> /\ cfg.routes # <<>>
      /\ \A g \in Range(cfg.groups) :
           /\ g.name # "" /\ g.backends # <<>>
           /\ g.strategy \in {"round_robin", "least_connections"}
           /\ \A b \in Range(g.backends) : b.host # "" /\ IsPort(b.port)
      /\ \A r \in Range(cfg.routes) : r.prefix # <<>> /\ r.prefix[1] = "/" /\ r.group # ""
=============================================================================
