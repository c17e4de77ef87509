----------------------------- MODULE RouteTable -----------------------------
(* RouteTable and RoundRobinBalancer: the route of a path, the endpoint of a *)
(* request.  Routes are those of GatewayConfig, paths sequences.             *)
EXTENDS Integers, Sequences, SequencesExt, Ordering

\* Mutant: routes are tried in the order of their names alone.
BeforeByName(left, right) == left.name < right.name

\* A longer prefix comes first, then the smaller name.
Before(left, right) ==
  \/ Len(left.prefix) > Len(right.prefix)
  \/ Len(left.prefix) = Len(right.prefix) /\ left.name < right.name

OrderedRoutes(routes) == Sorted(Range(routes), Before)

\* The routes that match, at most one of them the first.
Match(routes, path) ==
  LET ordered == OrderedRoutes(routes)
      i == SelectInSeq(ordered, LAMBDA r : IsPrefix(r.prefix, path))
  IN IF i = 0 THEN {} ELSE {ordered[i]}

\* select: the index of an upstream, and where the cursor goes.
Selected(route, cursor) == cursor % Len(route.upstreams)

Advanced(route, cursor) == (Selected(route, cursor) + 1) % Len(route.upstreams)
=============================================================================
