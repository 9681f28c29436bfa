--------------------------- MODULE MCSwitchGuard ----------------------------
(* Small instances of SwitchGuard.                                         *)
EXTENDS SwitchGuard, TLC

\* Nothing singles out a request, a route or a reasoning item.
Symmetry == Permutations(Requests) \cup Permutations(Routes) \cup Permutations(Reasoning)
=============================================================================
