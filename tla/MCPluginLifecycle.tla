------------------------- MODULE MCPluginLifecycle --------------------------
(* Small instances of PluginLifecycle.                                     *)
EXTENDS PluginLifecycle, TLC

\* Stores and host threads are interchangeable; used for safety only.
Symmetry == Permutations(Stores) \cup Permutations(Calls)
=============================================================================
