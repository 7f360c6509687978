---------------------------- MODULE MCPgJobStore ----------------------------
(* Two sessions at a time, each of any number of handlers and workers in turn. *)
EXTENDS PgJobStore, TLC

Symmetry == Permutations(Clients) \cup Permutations(Prints)
=============================================================================
