--------------------------- MODULE MCJobLifecycle ---------------------------
(* Job lifecycles for TLC. *)
EXTENDS JobLifecycle, TLC

Symmetric == Permutations(Dispatchers) \cup Permutations(Clerks)
=============================================================================
