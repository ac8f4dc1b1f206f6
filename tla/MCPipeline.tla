----------------------------- MODULE MCPipeline -----------------------------
(***************************************************************************)
(* Model checking of Pipeline: configurations, and the files in which they *)
(* can be written down.                                                    *)
(***************************************************************************)
EXTENDS Pipeline

WorkerSymmetry == Permutations(Workers)

\* Path segments; the second begins with the first.
a == <<"a">>
ab == <<"a", "b">>

Group(name, strategy, ports) ==
  [name |-> name, strategy |-> strategy,
   backends |-> [i \in DOMAIN ports |-> [host |-> "localhost", port |-> ports[i]]]]
Path(segments, group, cacheable) ==
  [segments |-> segments, group |-> group, cacheable |-> cacheable]

Settings == [Defaults EXCEPT ![<<"listen", "host">>] = "here", ![<<"cache", "capacity">>] = 2,
                             ![<<"", "metrics_port">>] = 9000]

Groups == <<Group("x", "least_connections", <<1, 2>>), Group("y", "round_robin", <<3>>)>>
Meanings ==
  {[settings |-> Settings, groups |-> Groups, routes |-> <<Path(<<>>, "y", TRUE), Path(<<a>>, "x", TRUE)>>],
   [settings |-> Settings, groups |-> Groups,
    routes |-> <<Path(<<a>>, "x", TRUE), Path(<<ab>>, "gone", TRUE), Path(<<a, ab>>, "y", FALSE),
                 Path(<<<<"c">>>>, "y", TRUE)>>]}

\* How a file is laid out: the indentation of lists, the further indentation
\* of the lists in them, the order of keys and of sections, and the key that
\* each kind of item begins with.
Usual == [group |-> "name", backend |-> "host", route |-> "path_prefix"]
Firsts == [group : {"name", "strategy", "backends"}, backend : {"host", "port"},
           route : {"path_prefix", "backend_group", "cacheable"}]
Styles == [indent : {1, 2}, deeper : {0, 2}, straight : BOOLEAN, routesFirst : BOOLEAN, first : Firsts]

Ln(indent, item, key, val) == [indent |-> indent, item |-> item, key |-> key, val |-> val]

ForEach(Op(_), seq) == FlattenSeq([i \in DOMAIN seq |-> Op(seq[i])])

\* The keys of an item, each with the lines that belong to it: the first one
\* has the marker, the others follow in the given order or the opposite one.
Item(keys, first, indent, straight) ==
  LET Is(block) == block[1].key = first
      rest == SelectSeq(keys, LAMBDA block : ~Is(block))
      ordered == SelectSeq(keys, Is) \o (IF straight THEN rest ELSE Reverse(rest))
  IN  [FlattenSeq(ordered) EXCEPT ![1].item = TRUE, ![1].indent = indent]

GroupText(g, st) ==
  LET in == st.indent + 2
      Backend(b) == Item(<<<<Ln(in + st.deeper + 2, FALSE, "host", b.host)>>,
                           <<Ln(in + st.deeper + 2, FALSE, "port", b.port)>>>>,
                         st.first.backend, in + st.deeper, TRUE)
  IN  Item(<<<<Ln(in, FALSE, "name", g.name)>>, <<Ln(in, FALSE, "strategy", g.strategy)>>,
             <<Ln(in, FALSE, "backends", "")>> \o ForEach(Backend, g.backends)>>,
           st.first.group, st.indent, st.straight)

RouteText(r, st) ==
  LET in == st.indent + 2
  IN  Item(<<<<Ln(in, FALSE, "path_prefix", Text(r.segments))>>, <<Ln(in, FALSE, "backend_group", r.group)>>,
             <<Ln(in, FALSE, "cacheable", IF r.cacheable THEN "true" ELSE "false")>>>>,
           st.first.route, st.indent, st.straight)

\* Two sections and the list of backends share keys; the indented line after
\* the top-level setting is in no section.
SettingsText ==
  <<Ln(0, FALSE, "listen", ""), Ln(2, FALSE, "host", "here"), Ln(2, FALSE, "port", NotANumber),
    Ln(0, FALSE, "cache", ""), Ln(2, FALSE, "capacity", 2), Ln(2, FALSE, "port", 7),
    Ln(0, FALSE, "metrics_port", 9000), Ln(2, FALSE, "capacity", 0)>>

FileText(m, st) ==
  LET groups == <<Ln(0, FALSE, "backend_groups", "")>> \o ForEach(LAMBDA g : GroupText(g, st), m.groups)
      routes == <<Ln(0, FALSE, "routes", "")>> \o ForEach(LAMBDA r : RouteText(r, st), m.routes)
  IN  IF st.routesFirst THEN routes \o SettingsText \o groups
      ELSE SettingsText \o groups \o routes

Meant(m, st) == [settings |-> m.settings, groups |-> m.groups, routes |-> m.routes, first |-> st.first]
Written == {[lines |-> FileText(m, st), meant |-> Meant(m, st)] : m \in Meanings, st \in Styles}

\* Files with something missing or wrong.
Without(lines, key) == SelectSeq(lines, LAMBDA ln : ln.key # key)
Broken ==
  {[lines |-> ls, meant |-> <<>>] : ls \in
     UNION {{Without(f.lines, key) : key \in {"port", "host", "name", "backend_group", "path_prefix", "routes"}}
              \cup {f.lines \o <<Ln(0, FALSE, "metrics_port", p)>> : p \in {0, 8080, 65536}}
              \cup {f.lines \o <<Ln(0, FALSE, "connection", ""), Ln(1, FALSE, "connect_timeout_ms", 0)>>} :
            f \in {w \in Written : w.meant.first = Usual}}}

MCFiles == Written \cup Broken

MCCached == {[method |-> "GET", path |-> p] : p \in {<<a>>, <<ab>>, <<a, ab>>}}
MCBuiltIn == {<<<<"m">>>>}
MCRequests == MCCached \cup {[method |-> "POST", path |-> <<a>>], [method |-> "GET", path |-> <<<<"m">>>>]}

\* Three requests for three cacheable things are what it takes to evict; the
\* third is for the path whose first segment begins with another's.
MCMaxRequests(m, r) ==
  IF m.first # Usual THEN 1
  ELSE IF Len(m.routes) = 2 /\ r = [method |-> "GET", path |-> <<ab>>] THEN 3 ELSE 2

\* What is cached is a 200, and a POST and a built-in path are not.
MCValues == [status : {200}, source : {"backend"}, made : 0 .. MaxTime, to : MCCached, lb : {1, 2}]
MCKeys == {CacheKey(r) : r \in MCCached}
=============================================================================
