---------------------------- MODULE PrepareSources ----------------------------
(***************************************************************************)
(* The prepare_sources node: one task per source under a semaphore of      *)
(* SourceConcurrency permits; a recording also takes one of SttConcurrency *)
(* permits while a speech-to-text provider works on it, and asks the other *)
(* provider when the first one fails. A step is the code between two       *)
(* awaits; tasks of one event loop interleave at the awaits only.          *)
(***************************************************************************)
EXTENDS Naturals, FiniteSets, SourceVerdict

CONSTANTS
    Sources,            \* documents and recordings
    Audio,              \* the recordings among them
    Inputs,             \* the submissions to consider, as sequences of sources
    SourceConcurrency,  \* SOURCE_PROCESS_CONCURRENCY
    SttConcurrency      \* STT_CONCURRENCY

ASSUME SourcesAssumption ==
    /\ IsFiniteSet(Sources)
    /\ Audio \subseteq Sources
    /\ Inputs \subseteq Seq(Sources)
ASSUME ConcurrencyAssumption ==
    /\ SourceConcurrency \in Nat \ {0}
    /\ SttConcurrency \in Nat \ {0}

VARIABLES
    given,      \* the submission, in its order
    pc,         \* where the task of each source is
    permits,    \* free permits of source_sem
    sttPermits, \* free permits of stt_sem
    outcome,    \* status of the ProcessedSource of each source
    finished,   \* history: the sources in the order they finished
    verdict     \* what the node returns

vars == <<given, pc, permits, sttPermits, outcome, finished, verdict>>

Contract == INSTANCE Preparation
NoVerdict == Contract!NoVerdict

Init ==
    /\ given \in Inputs
    /\ pc = [s \in Sources |-> "idle"]
    /\ permits = SourceConcurrency
    /\ sttPermits = SttConcurrency
    /\ outcome = [s \in Sources |-> "none"]
    /\ finished = <<>>
    /\ verdict = NoVerdict

Goto(s, stage) == pc' = [pc EXCEPT ![s] = stage]

----------------------------------------------------------------------------
(* The node.                                                               *)

\* Nothing to process, or more audio than a job may have: no task is started.
Refuse ==
    /\ verdict = NoVerdict /\ \A s \in Sources : pc[s] = "idle"
    /\ \/ given = <<>> /\ verdict' = NoSources
       \/ InputOf(given) \cap Audio # {} /\ verdict' = TooMuchAudio
    /\ UNCHANGED <<given, pc, permits, sttPermits, outcome, finished>>

\* asyncio.gather starts every task, and each of them queues for source_sem.
StartAll ==
    /\ verdict = NoVerdict /\ given # <<>> /\ \A s \in Sources : pc[s] = "idle"
    /\ pc' = [s \in Sources |-> IF s \in InputOf(given) THEN "queued" ELSE "idle"]
    /\ UNCHANGED <<given, permits, sttPermits, outcome, finished,
                   verdict>>

\* Faulty variant of Merge: the corpus is in the order the sources finished.
MergeAsFinished ==
    /\ verdict = NoVerdict /\ given # <<>>
    /\ \A s \in InputOf(given) : pc[s] = "done"
    /\ verdict' = Verdict(finished, outcome)
    /\ UNCHANGED <<given, pc, permits, sttPermits, outcome, finished>>

\* gather returns the outcomes in the order of its arguments.
Merge ==
    /\ verdict = NoVerdict /\ given # <<>>
    /\ \A s \in InputOf(given) : pc[s] = "done"
    /\ verdict' = Verdict(given, outcome)
    /\ UNCHANGED <<given, pc, permits, sttPermits, outcome, finished>>

----------------------------------------------------------------------------
(* One source.                                                             *)

Admit(s) ==
    /\ pc[s] = "queued" /\ permits > 0
    /\ permits' = permits - 1
    /\ Goto(s, "started")
    /\ UNCHANGED <<given, sttPermits, outcome, finished, verdict>>

\* Faulty variant of Finish: a failing source keeps its permit.
FinishKeepingPermit(s, status) ==
    /\ outcome' = [outcome EXCEPT ![s] = status]
    /\ permits' = IF status = "failed" THEN permits ELSE permits + 1
    /\ finished' = Append(finished, s)
    /\ Goto(s, "done")

\* process_single_source returns: its permit is released on every path.
Finish(s, status) ==
    /\ outcome' = [outcome EXCEPT ![s] = status]
    /\ permits' = permits + 1
    /\ finished' = Append(finished, s)
    /\ Goto(s, "done")

\* Text is extracted from a document up to the await of the relevance check.
ReadDocument(s) ==
    /\ pc[s] = "started" /\ s \notin Audio
    /\ \/ Goto(s, "relevance") /\ UNCHANGED <<permits, outcome, finished>>
       \/ Finish(s, "failed")
    /\ UNCHANGED <<given, sttPermits, verdict>>

\* A recording that cannot be transcribed at all fails before any provider.
InspectAudio(s) ==
    /\ pc[s] = "started" /\ s \in Audio
    /\ \/ Goto(s, "primary") /\ UNCHANGED <<permits, outcome, finished>>
       \/ Finish(s, "failed")
    /\ UNCHANGED <<given, sttPermits, verdict>>

Calling(stage) == IF stage = "primary" THEN "callPrimary" ELSE "callFallback"

CallStt(s) ==
    /\ pc[s] \in {"primary", "fallback"} /\ sttPermits > 0
    /\ sttPermits' = sttPermits - 1
    /\ Goto(s, Calling(pc[s]))
    /\ UNCHANGED <<given, permits, outcome, finished, verdict>>

\* The transcript is long enough for the relevance check, or the source fails.
SttAnswers(s) ==
    /\ pc[s] \in {"callPrimary", "callFallback"}
    /\ sttPermits' = sttPermits + 1
    /\ \/ Goto(s, "relevance") /\ UNCHANGED <<permits, outcome, finished>>
       \/ Finish(s, "failed")
    /\ UNCHANGED <<given, verdict>>

\* Faulty variant of PrimaryFails: its permit is kept for the second call.
PrimaryFailsHolding(s) ==
    /\ pc[s] = "callPrimary"
    /\ Goto(s, "fallback")
    /\ UNCHANGED <<given, permits, sttPermits, outcome, finished,
                   verdict>>

\* The permit goes back before the other provider's turn is waited for.
PrimaryFails(s) ==
    /\ pc[s] = "callPrimary"
    /\ sttPermits' = sttPermits + 1
    /\ Goto(s, "fallback")
    /\ UNCHANGED <<given, permits, outcome, finished, verdict>>

\* The relevance check answers; any exception up to the return is isolated.
Judge(s) ==
    /\ pc[s] = "relevance"
    /\ \E status \in Outcomes : Finish(s, status)
    /\ UNCHANGED <<given, sttPermits, verdict>>

----------------------------------------------------------------------------

Step(s) ==
    \/ Admit(s) \/ ReadDocument(s) \/ InspectAudio(s)
    \/ CallStt(s) \/ SttAnswers(s) \/ PrimaryFails(s) \/ Judge(s)

Node == Refuse \/ StartAll \/ Merge

Next == Node \/ \E s \in Sources : Step(s)

Spec == Init /\ [][Next]_vars

\* The event loop resumes every task that can run, the semaphores are fair,
\* and a provider's call is bounded by the timeout of its HTTP client.
FairSpec == Spec /\ WF_vars(Node) /\ \A s \in Sources : WF_vars(Step(s))

----------------------------------------------------------------------------

Serving == {"started", "primary", "callPrimary", "fallback", "callFallback",
            "relevance"}
OnCall == {"callPrimary", "callFallback"}
In(stages) == {s \in Sources : pc[s] \in stages}

\* No permit is lost or made up by a failure or a second call: what is not held
\* is free, so whatever fails and falls back the two settings bound what runs.
PermitsConserved ==
    /\ permits \in Nat /\ sttPermits \in Nat
    /\ permits + Cardinality(In(Serving)) = SourceConcurrency
    /\ sttPermits + Cardinality(In(OnCall)) = SttConcurrency

\* The node implements the contract of Preparation: one verdict, which depends
\* on the outcomes only.
ContractSpec == Contract!Spec

\* Every preparation ends with a verdict, although tasks that hold a permit of
\* one semaphore wait for the other.
Prepared == <>(verdict # NoVerdict)

----------------------------------------------------------------------------
(* The part of Prepared that is not about fairness: the node is never      *)
(* stuck and never goes round in circles.                                  *)

\* A task that does not have to wait for another one.
CanStep(s) ==
    \/ pc[s] \in {"started", "relevance"} \cup OnCall
    \/ pc[s] = "queued" /\ permits > 0
    \/ pc[s] \in {"primary", "fallback"} /\ sttPermits > 0

NodeCanStep ==
    \/ \A s \in Sources : pc[s] = "idle"
    \/ given # <<>> /\ \A s \in InputOf(given) : pc[s] = "done"

\* Until there is a verdict the node or some task can take its next step: the
\* tasks that wait for a permit never wait for each other in a circle, although
\* a recording holds one of source_sem while it waits for one of stt_sem.
NeverStuck == verdict = NoVerdict => NodeCanStep \/ \E s \in Sources : CanStep(s)

Rank == [idle |-> 0, queued |-> 1, started |-> 2, primary |-> 3, callPrimary |-> 4,
         fallback |-> 5, callFallback |-> 6, relevance |-> 7, done |-> 8]

\* Every step takes a task further and none back, or is the one that decides: a
\* recording asks each provider once.
EveryStepAdvances ==
    [][/\ verdict = NoVerdict
       /\ \/ verdict' # NoVerdict /\ pc' = pc
          \/ /\ verdict' = NoVerdict
             /\ \A s \in Sources : Rank[pc[s]] <= Rank[pc'[s]]
             /\ \E s \in Sources : Rank[pc[s]] < Rank[pc'[s]]]_vars
=============================================================================
