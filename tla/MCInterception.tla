--------------------------- MODULE MCInterception ----------------------------
(* Instances of Interception for TLC. *)
EXTENDS Interception, TLC

\* Requests are interchangeable, and so are completions: no action or property tells
\* one from another.
Symmetry == Permutations(Requests) \cup Permutations(Notices)
=============================================================================
