----------------------------- MODULE MCDemoJobs -----------------------------
(* Interchangeable requests and job ids for DemoJobs.                       *)
EXTENDS DemoJobs, TLC

Interchangeable == Permutations(Requests) \cup Permutations(Jobs)

\* The guards CanGoOn names are those of the actions.
GuardsAreThoseOfTheActions ==
    \A r \in Requests : CanGoOn(r) <=> ENABLED (Handle(r) \/ Execute(r))
=============================================================================
