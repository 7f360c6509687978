----------------------------- MODULE Preparation -----------------------------
(***************************************************************************)
(* What prepare_sources promises its caller: one verdict, once, that is a  *)
(* function of the outcomes of the sources and of nothing else. In         *)
(* particular neither the order in which the sources finish nor the        *)
(* waiting for the two semaphores can be seen in it.                       *)
(***************************************************************************)
EXTENDS SourceVerdict

CONSTANTS Sources,   \* documents and recordings
          Audio      \* the sources that are recordings

VARIABLES given,     \* the sources, in the order they were submitted
          verdict    \* NoVerdict until every source has been dealt with

NoVerdict == [error |-> "undecided"]

\* Every way the sources of a submission may come out; no other source has an
\* outcome.
Judged(g) ==
    {o \in [Sources -> Outcomes \cup {"none"}] :
        \A s \in Sources : s \in InputOf(g) <=> o[s] \in Outcomes}

Possible(g) ==
    IF g = <<>> THEN {NoSources}
    ELSE {Verdict(g, o) : o \in Judged(g)}
         \cup (IF InputOf(g) \cap Audio = {} THEN {} ELSE {TooMuchAudio})

Decide == verdict = NoVerdict /\ verdict' \in Possible(given) /\ UNCHANGED given

Spec == verdict = NoVerdict /\ [][Decide]_<<given, verdict>>
=============================================================================
