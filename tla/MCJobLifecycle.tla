--------------------------- MODULE MCJobLifecycle ---------------------------
(* Finite instances of JobLifecycle for TLC. *)
EXTENDS JobLifecycle, TLC

Symmetry == Permutations(Requests) \cup Permutations(Workers)
=============================================================================
