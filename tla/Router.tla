------------------------------- MODULE Router -------------------------------
(***************************************************************************)
(* The route table: Router, include/routing/Router.hpp, and                *)
(* Gateway::buildRouter, src/core/Gateway.cpp, which fills it. Paths and   *)
(* prefixes are sequences of characters. A load balancer is the index of   *)
(* its group in the configuration.                                         *)
(***************************************************************************)
EXTENDS Naturals, SequencesExt

\* loadBalancers_[name]: the last group of that name.
Balancer(groups, name) == Max({i \in DOMAIN groups : groups[i].name = name})

\* buildRouter: a route whose group is unknown is skipped.
Known(groups, r) == \E i \in DOMAIN groups : groups[i].name = r.group

BuildRouter(groups, routes) ==
  LET known == SelectSeq(routes, LAMBDA r : Known(groups, r))
  IN  [i \in DOMAIN known |->
         [prefix |-> known[i].prefix, lb |-> Balancer(groups, known[i].group),
          cacheable |-> known[i].cacheable]]

\* addRoute: std::sort by length, longest first, leaves routes of one length
\* in any order.
Sorted(routes) ==
  {p \in {[i \in DOMAIN routes |-> routes[f[i]]] :
            f \in {g \in [DOMAIN routes -> DOMAIN routes] : IsInjective(g)}} :
     \A i, j \in DOMAIN routes : i < j => Len(p[i].prefix) >= Len(p[j].prefix)}

\* Mutant: a prefix need not end where a segment does.
MutMatches(prefix, path) == IsPrefix(prefix, path)

\* match(), lines 31-36.
Matches(prefix, path) ==
  \/ path = prefix
  \/ prefix = <<"/">>
  \/ /\ IsStrictPrefix(prefix, path)
     /\ path[Len(prefix) + 1] = "/"

\* match(): the first route that matches, as a sequence of at most one.
Match(table, path) ==
  LET hits == SelectSeq(table, LAMBDA r : Matches(r.prefix, path))
  IN  SubSeq(hits, 1, Min({1, Len(hits)}))
=============================================================================
