---------------------------- MODULE SourceVerdict ----------------------------
(***************************************************************************)
(* What prepare_sources makes of the outcomes of its sources: the corpus,  *)
(* the verdict on the whole input and the warnings that travel with it.    *)
(***************************************************************************)
EXTENDS Sequences

\* The three statuses of a ProcessedSource.
Outcomes == {"ready", "rejected", "failed"}

InputOf(given) == {given[i] : i \in DOMAIN given}

\* The sources with a status, in the order of the submission.
With(status, given, outcome) ==
    SelectSeq(given, LAMBDA s : outcome[s] = status)

SomeAre(status, given, outcome) == \E s \in InputOf(given) : outcome[s] = status

\* Warnings the rest of the pipeline looks at.
SourceWarnings(given, outcome) ==
    (IF SomeAre("failed", given, outcome) THEN {"SOURCE_PROCESSING_FAILED"} ELSE {})
    \cup (IF SomeAre("rejected", given, outcome)
          THEN {"SOURCE_REJECTED_IRRELEVANT"} ELSE {})

Unusable(error, warnings) ==
    [useful |-> FALSE, error |-> error, corpus |-> <<>>, partial |-> FALSE,
     warnings |-> warnings]

Usable(given, outcome) ==
    LET loss == SomeAre("failed", given, outcome)
    IN  [useful |-> TRUE, error |-> "none",
         corpus |-> With("ready", given, outcome), partial |-> loss,
         warnings |-> SourceWarnings(given, outcome)
                      \cup (IF loss THEN {"PARTIAL_SOURCE_FAILURE"} ELSE {})]

\* The verdict without any processing: nothing given, or too much audio.
NoSources == Unusable("NO_SOURCES", {})
TooMuchAudio == Unusable("AGGREGATE_AUDIO_DURATION_EXCEEDED",
                         {"AGGREGATE_AUDIO_DURATION_EXCEEDED"})

\* Faulty variant of Verdict: a failure does not outweigh the rejections.
VerdictAnyRejected(given, outcome) ==
    CASE SomeAre("ready", given, outcome) -> Usable(given, outcome)
      [] ~SomeAre("ready", given, outcome)
         /\ SomeAre("rejected", given, outcome) ->
            Unusable("DOCUMENT_REJECTED", SourceWarnings(given, outcome))
      [] OTHER -> Unusable("ALL_SOURCES_FAILED", SourceWarnings(given, outcome))

\* The verdict once every source has an outcome.
Verdict(given, outcome) ==
    CASE SomeAre("ready", given, outcome) -> Usable(given, outcome)
      [] ~SomeAre("ready", given, outcome)
         /\ SomeAre("failed", given, outcome) ->
            Unusable("ALL_SOURCES_FAILED", SourceWarnings(given, outcome))
      [] OTHER -> Unusable("DOCUMENT_REJECTED", SourceWarnings(given, outcome))
=============================================================================
