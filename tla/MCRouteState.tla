---------------------------- MODULE MCRouteState ----------------------------
(* Small instances of RouteState.                                          *)
EXTENDS RouteState, TLC

\* Request IDs, routes and session keys are interchangeable: no action and no
\* property singles one out.
Symmetry == Permutations(Requests) \cup Permutations(Routes) \cup Permutations(Sessions)
=============================================================================
