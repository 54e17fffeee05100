-------------------------------- MODULE Routing --------------------------------
(***************************************************************************)
(* The routes of the simulated network: DefaultMetric.cc, Dijkstra.cc and  *)
(* FakedRoutingDaemon.cc in GoBackN/protsim.  A link is the pair of the    *)
(* nodes it leads from and to; "cost" is the parameter of each.            *)
(***************************************************************************)
EXTENDS Integers, FiniteSets, FiniteSetsExt

CONSTANTS Node, Link, INFINITY, NoRoute

\* DefaultMetric::getMetric.
getMetric(cost, l) == IF cost[l] =< 0 THEN 1 ELSE cost[l]

(***************************************************************************)
(* doDijkstra.  The loop has the nodes N that are not done, the distances  *)
(* D, the next hops P, and closestNode, which keeps its value when no node *)
(* of N can be reached: the next round then runs into assert(0), "stuck".  *)
(* Sets of nodes are ordered by address.                                   *)
(***************************************************************************)
DijkstraInit(src) ==
    [N |-> Node, D |-> [n \in Node |-> IF n = src THEN 0 ELSE INFINITY],
     P |-> [n \in Node |-> NoRoute], closest |-> src, stuck |-> FALSE]

Relax(cost, src, d, n) ==
    LET c == d.closest  l == <<c, n>>
        new == d.D[c] + getMetric(cost, l)
    IN IF l \in Link /\ n \in d.N \ {c} /\ new < d.D[n]
          THEN [D |-> new, P |-> IF c = src THEN n ELSE d.P[c]]
          ELSE [D |-> d.D[n], P |-> d.P[n]]

DijkstraRound(cost, src, d) ==
    IF d.closest \notin d.N THEN [d EXCEPT !.stuck = TRUE]
    ELSE LET N == d.N \ {d.closest}
             D == [n \in Node |-> Relax(cost, src, d, n).D]
             best == {n \in N : D[n] < INFINITY /\ \A m \in N : D[n] =< D[m]}
         IN [d EXCEPT !.N = N, !.D = D,
                      !.P = [n \in Node |-> Relax(cost, src, d, n).P],
                      !.closest = IF best = {} THEN @ ELSE Min(best)]

doDijkstra(cost, src) ==
    LET after[k \in 0 .. Cardinality(Node)] ==
          IF k = 0 THEN DijkstraInit(src) ELSE DijkstraRound(cost, src, after[k - 1])
    IN after[Cardinality(Node)]

(***************************************************************************)
(* calculateRoutes: what it finds is put into the forwarding table, and    *)
(* nothing is taken out.                                                   *)
(***************************************************************************)
calculateRoutes(cost, src, table) ==
    LET P == doDijkstra(cost, src).P
    IN [n \in Node |-> IF P[n] = NoRoute THEN table[n] ELSE P[n]]

----------------------------------------------------------------------------
(***************************************************************************)
(* The reference: distances by the length of the path (Bellman and Ford),  *)
(* and the next hops that start a shortest path.                           *)
(***************************************************************************)
Distance(cost) ==
    LET within[k \in 0 .. Cardinality(Node)] ==
          IF k = 0 THEN [p \in Node \X Node |-> IF p[1] = p[2] THEN 0 ELSE INFINITY]
          ELSE [p \in Node \X Node |->
                  Min({within[k - 1][p]} \cup
                      {getMetric(cost, <<p[1], m>>) + within[k - 1][<<m, p[2]>>] :
                         m \in {x \in Node : <<p[1], x>> \in Link}})]
    IN within[Cardinality(Node)]

StartsShortest(cost, n, dest, hop) ==
    /\ <<n, hop>> \in Link
    /\ Distance(cost)[<<n, dest>>] =
         getMetric(cost, <<n, hop>>) + Distance(cost)[<<hop, dest>>]
===============================================================================
