---------------------------- MODULE PipelineGraph ----------------------------
(***************************************************************************)
(* The pipeline of one execution: a node per action, with the router that  *)
(* follows it. What a model answers and how texts compare is any choice    *)
(* the code accepts. A node that raises ends the execution, as does a      *)
(* cancel between two nodes: both are Abort and NodeCheck of JobLifecycle. *)
(***************************************************************************)
EXTENDS Requirements, SourceVerdict

CONSTANTS
    Audio,            \* the sources that are recordings
    Inputs,           \* the submissions to consider, as sequences of sources
    Extractions,      \* what extraction may find, as sequences of [origin, special]
    MaxRequirements,  \* bound: requirements found by one extraction
    MaxProposals,     \* bound: stories in the answer of the model
    MaxRepairs,       \* MAX_REPAIR_ATTEMPTS; 0 when repair is disabled
    Radix             \* base of the numerals in story ids: 10 in the code

\* What extraction finds: something said about it, or several things.
Kinds == [origin : (SUBSET Dispositions) \ {{}}, special : SUBSET Special]

ASSUME BoundsAssumption ==
    /\ MaxRequirements \in Nat /\ MaxProposals \in Nat /\ MaxRepairs \in Nat
    /\ Radix \in Nat \ {0, 1}
    /\ \A found \in Extractions : found \in Seq(Kinds) /\ Len(found) <= MaxRequirements

VARIABLES
    node,        \* the node to run next
    given,       \* the submission
    err,         \* state["error"]
    useful,      \* state["is_useful"]
    lossy,       \* state["partial_source_failure"]
    warned,      \* codes of the warnings
    reqs,        \* the requirements
    issues,      \* severe issues, by rule and requirement
    stories,     \* by the requirement they were made for
    unsanitized, \* the stories were not sanitized yet
    coverage,    \* rows of requirement, type, stories and where they come from
    flagged,     \* stories with a repairable issue
    attempts,    \* repair attempts
    result       \* status of the result, "none" until it is there

input == <<given, err, useful, lossy, warned>>
work == <<reqs, issues, stories, unsanitized, coverage, flagged, attempts>>

\* What happened, for the properties: the outcome of every source, how the chunks
\* fared, and the stories last sent for repair.
VARIABLES outcome, chunks, offered
history == <<outcome, chunks, offered>>

vars == <<node, input, work, result, history>>

Goto(next) == node' = next

Init ==
    /\ node = "detect_file_type"
    /\ given \in Inputs
    /\ err = "none" /\ useful = FALSE /\ lossy = FALSE
    /\ warned = {}
    /\ reqs = <<>> /\ issues = {}
    /\ stories = <<>> /\ unsanitized = FALSE /\ coverage = {}
    /\ flagged = {} /\ attempts = 0
    /\ result = "none"
    /\ outcome = [s \in InputOf(given) |-> "none"]
    /\ chunks = "none" /\ offered = {}

----------------------------------------------------------------------------
(* Sources.                                                                *)

\* A refused input is an error in the state, and the graph goes on.
Detect ==
    /\ node = "detect_file_type" /\ Goto("prepare_sources")
    /\ err' \in {"FILE_TYPE_REJECTED"} \cup (IF given = <<>> THEN {} ELSE {err})
    /\ UNCHANGED <<given, useful, lossy, warned, work, result, history>>

\* The node's verdict replaces the error, and the router looks at it.
Receive(verdict) ==
    /\ err' = verdict.error /\ useful' = verdict.useful
    /\ lossy' = verdict.partial
    /\ warned' = warned \cup verdict.warnings
    /\ Goto(IF verdict.corpus = <<>> \/ ~verdict.useful
            THEN "format" ELSE "build_source_index")

Prepare ==
    /\ node = "prepare_sources"
    /\ \/ given = <<>> /\ Receive(NoSources) /\ UNCHANGED outcome
       \/ InputOf(given) \cap Audio # {} /\ Receive(TooMuchAudio)
          /\ UNCHANGED outcome
       \/ /\ given # <<>>
          /\ \E o \in [InputOf(given) -> Outcomes] :
                outcome' = o /\ Receive(Verdict(given, o))
    /\ UNCHANGED <<given, work, result, chunks, offered>>

\* Indexing, retrieval and the summary leave the modelled state alone.
Pass(here, next) ==
    /\ node = here /\ Goto(next)
    /\ UNCHANGED <<input, work, result, history>>

----------------------------------------------------------------------------
(* Requirements.                                                           *)

Found(kinds) ==
    [i \in DOMAIN kinds |->
        [origin |-> kinds[i].origin, special |-> kinds[i].special,
         label |-> {}, evidence |-> FALSE, conflict |-> FALSE]]

\* Every chunk failed, or the node did; or some chunks failed; or all were read.
Extract ==
    /\ node = "extract" /\ Goto("dedupe_requirements")
    /\ \/ /\ chunks' = "failed" /\ err' = "EXTRACT_FAILURE"
          /\ UNCHANGED <<reqs, issues, warned>>
       \/ /\ chunks' \in {"mixed", "read"}
          /\ \E kinds \in Extractions :
                /\ reqs' = Found(kinds)
                /\ issues' = IF kinds # <<>> THEN issues
                             ELSE issues \cup
                                  {[rule |-> "USEFUL_INPUT_WITH_EMPTY_EXTRACTION",
                                    item |-> 0]}
                /\ warned' = warned \cup
                     CASE kinds = <<>> -> {"EXTRACT_EMPTY"}
                       [] kinds # <<>> /\ chunks' = "mixed" ->
                             {"EXTRACT_PARTIAL_CHUNK_FAILURE"}
                       [] OTHER -> {}
          /\ UNCHANGED err
    /\ UNCHANGED <<given, useful, lossy, stories, unsanitized, coverage,
                   flagged, attempts, result, outcome, offered>>

Severe(rule, items) == {[rule |-> rule, item |-> i] : i \in items}

\* Duplicates are merged, and a model looks for conflicts among the rest.
Dedupe ==
    /\ node = "dedupe_requirements" /\ Goto("retrieve_evidence")
    /\ \E keep \in Clusterings(reqs) :
          LET rs == Canonical(reqs, keep)
          IN  \E c \in IF Len(rs) > 1 THEN SUBSET DOMAIN rs ELSE {{}} :
                 /\ reqs' = [i \in DOMAIN rs |-> [rs[i] EXCEPT !.conflict = i \in c]]
                 /\ issues' = issues \cup Severe("semantic_conflict", c)
    /\ UNCHANGED <<input, stories, unsanitized, coverage, flagged,
                   attempts, result, history>>

\* A rejected or deferred requirement is out of scope. The model only knows other
\* labels; of the special ones a requirement has, any one becomes its label.
Candidates(r) ==
    r.special \cup (IF Disposition(r) \in {"rejected", "deferred"}
                    THEN {"Out-of-Scope"} ELSE {})

Classify ==
    /\ node = "classify" /\ Goto("evidence_grounding")
    /\ \E label \in [DOMAIN reqs -> {{}} \cup {{l} : l \in Special}] :
          /\ \A i \in DOMAIN reqs :
                /\ label[i] \subseteq Candidates(reqs[i])
                /\ label[i] = {} <=> Candidates(reqs[i]) = {}
          /\ reqs' = [i \in DOMAIN reqs |->
                [reqs[i] EXCEPT !.special = Candidates(reqs[i]), !.label = label[i]]]
    /\ UNCHANGED <<input, issues, stories, unsanitized, coverage, flagged,
                   attempts, result, history>>

\* Quotes are verified in their chunk; a fragment of a clause loses its quotes.
Ground ==
    /\ node = "evidence_grounding" /\ Goto("generate")
    /\ \E verified \in SUBSET DOMAIN reqs :
       \E fragments \in SUBSET (DOMAIN reqs \ verified) :
          /\ reqs' = [i \in DOMAIN reqs |-> [reqs[i] EXCEPT !.evidence = i \in verified]]
          /\ issues' = issues
                \cup Severe("requirement_clause_integrity", fragments)
                \cup Severe("missing_verified_evidence",
                            DOMAIN reqs \ (verified \cup fragments))
    /\ UNCHANGED <<input, stories, unsanitized, coverage, flagged, attempts,
                   result, history>>

----------------------------------------------------------------------------
(* Stories. The story made for requirement i has the id <job>_story_i.     *)

Row(i, type, ids) ==
    [requirement |-> i, type |-> type, stories |-> ids]

\* Rows of the requirements that get no story.
Skipped(rs) ==
    {Row(i, Treatment(rs[i]), {}) : i \in DOMAIN rs \ ToGenerate(rs)}

Linking(ss, i) == {s \in DOMAIN ss : i \in ss[s].links}
First(ids) == CHOOSE i \in ids : \A j \in ids : i <= j

CoverageOf(rs, ss, i) ==
    IF Treatment([rs[i] EXCEPT !.evidence = TRUE]) # "story"
    THEN Row(i, Treatment(rs[i]), {})
    ELSE IF Linking(ss, i) = {} THEN Row(i, "needs_review", {})
    ELSE LET s == First(Linking(ss, i))
         IN  Row(i, IF Cardinality(ss[s].links) > 1 THEN "merged_into_story"
                                                    ELSE "covered_by_story", {s})

\* Faulty variant of Rebuilt: rows without a story are not carried over.
RebuiltDroppingSkipped(rs, ss, rows) ==
    LET kept == {row \in rows : row.type \in {"non_story", "needs_review"}}
        known == {row.requirement : row \in kept}
    IN  {CoverageOf(rs, ss, i) : i \in DOMAIN rs \ known}

\* Rows without a story are kept, all others are made anew from the stories.
Rebuilt(rs, ss, rows) ==
    LET kept == {row \in rows : /\ row.type \in {"non_story", "needs_review"}
                                /\ row.requirement \in DOMAIN rs}
        known == {row.requirement : row \in kept}
    IN  kept \cup {CoverageOf(rs, ss, i) : i \in DOMAIN rs \ known}

\* Links the wording supports, or the first one that is known at all.
Sanitized(links, supported, known) ==
    IF links \cap known \cap supported # {} THEN links \cap known \cap supported
    ELSE IF links \cap known # {} THEN {First(links \cap known)}
    ELSE {}

\* What the model proposes: the requirements a story declares, and those its
\* wording supports.
Proposals(rs) ==
    {p \in [declared : SUBSET DOMAIN rs, supported : SUBSET DOMAIN rs] :
        p.supported \subseteq p.declared}

\* Faulty variant of Accepts: a story may be made for several requirements.
AcceptsAny(p, i, targets) == i \in p.declared \cap targets \cap p.supported

\* A proposal that declares more than one target is no story of any of them.
Accepts(p, i, targets) == p.declared \cap targets = {i} /\ i \in p.supported

\* A story per target: the first proposal accepted for it, or one made from the
\* requirement alone.
Written(targets, proposed) ==
    LET for(i) == {n \in DOMAIN proposed : Accepts(proposed[n], i, targets)}
    IN  [i \in targets |->
           IF for(i) = {} THEN {i}
           ELSE LET p == proposed[First(for(i))]
                IN  Sanitized(p.declared \cup {i}, p.supported, targets)]

\* Stories worded alike are one only when they share a requirement.
Repeats(links) ==
    {i \in DOMAIN links : \E j \in DOMAIN links : j < i /\ links[i] \cap links[j] # {}}

WithoutRepeats(links, gone) ==
    [i \in DOMAIN links \ gone |->
        links[i] \cup UNION {links[g] : g \in {x \in gone :
            i = First({j \in DOMAIN links \ gone : links[j] \cap links[x] # {}})}}]

\* Issues that a merge settles: evidence that came with the other requirement.
EvidenceRules == {"missing_evidence", "missing_verified_evidence"}

\* Faulty variant of Remapped: an issue keeps the id its requirement had.
RemappedKeepingIds(found, keep, rs) ==
    {q \in found : /\ q.rule # "duplicate_requirement"
                   /\ ~(/\ q.rule \in EvidenceRules
                        /\ q.item \in DOMAIN rs
                        /\ rs[q.item].evidence)}

\* Issues follow their requirement through a merge.
Remapped(found, keep, rs) ==
    LET moved == {[q EXCEPT !.item = IF q.item \in DOMAIN keep
                                     THEN NewId(keep, q.item) ELSE q.item] :
                  q \in {x \in found : x.rule # "duplicate_requirement"}}
    IN  {q \in moved : ~(/\ q.rule \in EvidenceRules
                         /\ q.item \in DOMAIN rs
                         /\ rs[q.item].evidence)}

\* Any story may turn out to have a repairable defect.
Worded(links, defective) ==
    [i \in DOMAIN links |-> [links |-> links[i], defective |-> i \in defective]]

\* The rows of the targets before the one whose story cannot be made: they stay
\* in the list when that story raises. "drafted" is merged_into_story or
\* covered_by_story, with the criteria of the story that is given up; nothing
\* tells the two apart in a row of a requirement that gets a story.
Drafted(targets, raised) ==
    {Row(i, "drafted", {i}) : i \in {t \in targets : t < raised}}

\* Stories from the model, or from the requirements if everything fails: before
\* the first story, at one of them, or after the last, when the list may have been
\* rebuilt and says of every target what the rows to come say.
WriteStories(rs) ==
    LET targets == ToGenerate(rs)
    IN  \/ /\ targets = {}
           /\ stories' = <<>> /\ coverage' = Skipped(rs) /\ UNCHANGED unsanitized
        \/ /\ targets # {} /\ unsanitized' = FALSE
           /\ \E proposed \in [1 .. MaxProposals -> Proposals(rs)],
                 defective \in SUBSET targets :
                LET links == Written(targets, proposed)
                IN  \E gone \in SUBSET Repeats(links) :
                       stories' = Worded(WithoutRepeats(links, gone),
                                         defective \ gone)
           /\ coverage' = Rebuilt(rs, stories', Skipped(rs))
        \/ /\ targets # {} /\ unsanitized' = TRUE
           /\ \E defective \in SUBSET targets :
                stories' = Worded([i \in targets |-> {i}], defective)
           /\ \E raised \in targets \cup {Len(rs) + 1} :
                coverage' = Skipped(rs) \cup Drafted(targets, raised)
                    \cup {Row(i, "covered_by_story", {i}) : i \in targets}

Generate ==
    /\ node = "generate" /\ Goto("quality_gate")
    /\ \/ reqs = <<>> /\ UNCHANGED <<reqs, issues, stories, unsanitized, coverage>>
       \/ /\ reqs # <<>>
          /\ \E keep \in Clusterings(reqs) :
                /\ reqs' = Canonical(reqs, keep)
                /\ issues' = IF NothingMerged(keep) THEN issues
                             ELSE Remapped(issues, keep, reqs')
          /\ WriteStories(reqs')
    /\ UNCHANGED <<input, flagged, attempts, result, history>>

----------------------------------------------------------------------------
(* The gate and the repair loop.                                           *)

\* Requirements worded like an earlier one: a later pass sees the same wording.
Duplicates ==
    LET seen == {i \in DOMAIN reqs : [rule |-> "duplicate_requirement", item |-> i]
                                        \in issues}
    IN  IF attempts > 0 THEN {seen} ELSE SUBSET (DOMAIN reqs \ {1})

\* Requirements without special label that have no evidence.
Unverified ==
    {i \in DOMAIN reqs : reqs[i].special = {} /\ ~reqs[i].evidence}

\* Requirements that should have no story but are covered by one.
Overcovered ==
    {i \in DOMAIN reqs :
        /\ reqs[i].special \cap {"Out-of-Scope", "Open Question"} # {}
        /\ \E row \in coverage : row.requirement = i /\ row.type = "covered_by_story"}

MayRepair(defects) == defects # {} /\ attempts < MaxRepairs

Gate ==
    /\ node = "quality_gate"
    /\ \E duplicates \in Duplicates :
          issues' = issues \cup Severe("duplicate_requirement", duplicates)
                           \cup Severe("missing_evidence", Unverified)
                           \cup Severe("non_story_covered_by_story", Overcovered)
    /\ flagged' = {s \in DOMAIN stories : stories[s].defective}
    /\ Goto(IF MayRepair(flagged') THEN "repair_stories" ELSE "summarize")
    /\ UNCHANGED <<input, reqs, stories, unsanitized, coverage, attempts,
                   result, history>>

\* The id of story r is part of the id of story q: the numeral of r begins that
\* of q.
Occurs(r, q) == \E k \in 0 .. q : q \div (Radix ^ k) = r

\* An issue is grouped under some story whose id its text contains.
Groupings ==
    {f \in [flagged -> DOMAIN stories] : \A q \in flagged : Occurs(f[q], q)}

\* The model rewrites what it likes, and every story is sanitized again.
Rewrite(ids) ==
    /\ \E defective \in SUBSET IF unsanitized THEN DOMAIN stories ELSE ids,
          supported \in SUBSET UNION {stories[s].links : s \in DOMAIN stories} :
          stories' =
             [s \in DOMAIN stories |->
                [links |-> Sanitized(stories[s].links, supported, DOMAIN reqs),
                 defective |-> IF s \in ids \/ unsanitized THEN s \in defective
                               ELSE stories[s].defective]]
    /\ unsanitized' = FALSE
    /\ coverage' = Rebuilt(reqs, stories', coverage)
    /\ flagged' = {q \in flagged : ~\E r \in ids : Occurs(r, q)}

\* Faulty variant of Repair: an attempt that fails is not counted.
RepairUncounted ==
    /\ node = "repair_stories" /\ Goto("quality_gate")
    /\ \E f \in Groupings : offered' = {f[q] : q \in flagged}
    /\ \/ UNCHANGED <<attempts, stories, unsanitized, coverage, flagged>>
       \/ /\ attempts' = attempts + 1
          /\ \E ids \in SUBSET DOMAIN stories : Rewrite(ids)
    /\ UNCHANGED <<input, reqs, issues, result, outcome, chunks>>

\* One call for all stories in question; when it fails the attempt counts too.
Repair ==
    /\ node = "repair_stories" /\ Goto("quality_gate")
    /\ attempts' = attempts + 1
    /\ \E f \in Groupings : offered' = {f[q] : q \in flagged}
    /\ \/ UNCHANGED <<stories, unsanitized, coverage, flagged>>
       \/ \E ids \in SUBSET DOMAIN stories : Rewrite(ids)
    /\ UNCHANGED <<input, reqs, issues, result, outcome, chunks>>

----------------------------------------------------------------------------
(* The result.                                                             *)

\* Issues that keep a result from being completed.
Fatal ==
    {q \in issues : \/ q.item \in Actionable(reqs)
                    \/ q.rule = "USEFUL_INPUT_WITH_EMPTY_EXTRACTION"}

Status ==
    CASE ~useful /\ err \in {"ALL_SOURCES_FAILED", "NO_SOURCES"} -> "failed"
      [] ~useful /\ err \notin {"ALL_SOURCES_FAILED", "NO_SOURCES"} -> "rejected"
      [] useful /\ err # "none" /\ stories = <<>> /\ reqs = <<>> -> "failed"
      [] useful /\ ~(err # "none" /\ stories = <<>> /\ reqs = <<>>)
         /\ (\/ reqs = <<>> \/ stories = <<>> \/ lossy \/ Fatal # {}
             \/ warned \cap {"PARTIAL_SOURCE_FAILURE",
                             "SOURCE_PROCESSING_FAILED"} # {}) -> "partial"
      [] OTHER -> "completed"

Format ==
    /\ node = "format" /\ Goto("done")
    /\ result' = Status
    /\ UNCHANGED <<input, work, history>>

----------------------------------------------------------------------------

Next ==
    \/ Detect \/ Prepare
    \/ Pass("build_source_index", "extract")
    \/ Extract \/ Dedupe
    \/ Pass("retrieve_evidence", "classify")
    \/ Classify \/ Ground \/ Generate \/ Gate \/ Repair
    \/ Pass("summarize", "format")
    \/ Format

Spec == Init /\ [][Next]_vars

\* The graph runs its next node, and every call of a model has a timeout.
FairSpec == Spec /\ WF_vars(Next)

----------------------------------------------------------------------------

Nodes == {"detect_file_type", "prepare_sources", "build_source_index", "extract",
          "dedupe_requirements", "retrieve_evidence", "classify",
          "evidence_grounding", "generate", "quality_gate", "repair_stories",
          "summarize", "format", "done"}

\* A completed result is a verified one: no source was lost, and every
\* requirement it promises has verified evidence, no severe conflict and a story
\* - whatever was merged or renumbered since its issues were found (format_node).
CompletedMeansVerified ==
    result = "completed" =>
        /\ ~SomeAre("failed", given, outcome) /\ reqs # <<>>
        /\ \A i \in Actionable(reqs) :
              /\ ~reqs[i].conflict
              /\ reqs[i].special = {} =>
                    reqs[i].evidence /\ Linking(stories, i) # {}

\* Past generation every requirement has a row of coverage, which names a story
\* that links the requirement, or none when no story does: also after repair
\* sanitized the stories again (rebuild_requirement_coverages). It has a second
\* row only after a total fallback that no repair has rewritten, which adds its
\* rows to those of the failed attempt, and then both name the same story
\* (generate_node).
CoverageIsTrue ==
    node \in {"quality_gate", "repair_stories", "summarize"} =>
        /\ {row.requirement : row \in coverage} = DOMAIN reqs
        /\ \A row, other \in coverage :
              row.requirement = other.requirement =>
                 \/ row = other
                 \/ unsanitized /\ row.stories = other.stories /\ row.stories # {}
        /\ \A row \in coverage :
              IF row.stories = {} THEN Linking(stories, row.requirement) = {}
              ELSE row.stories \subseteq Linking(stories, row.requirement)

\* A story stands for one requirement, and one that may become a story: the
\* contract has a single primary requirement_id (generate_node, repair).
OnePrimaryRequirement ==
    \A s \in DOMAIN stories : stories[s].links = {s} /\ s \in ToGenerate(reqs)

\* A result says "failed" exactly when nothing was submitted, no source could be
\* used and one of them failed, or no chunk could be read (format_node).
FailureIsReported ==
    node = "done" =>
        (result = "failed" <=>
            \/ given = <<>>
            \/ /\ SomeAre("failed", given, outcome)
               /\ ~SomeAre("ready", given, outcome)
            \/ chunks = "failed")

\* Whatever the models answer and however often repair fails, the graph ends
\* with a result (route_after_quality_gate).
Ends == <>(node = "done" /\ result # "none")

\* The repair node runs only with an attempt left and a story to repair, and what
\* the gate flagged are stories that exist (route_after_quality_gate).
RepairIsDue ==
    node = "repair_stories" =>
        attempts < MaxRepairs /\ flagged # {} /\ flagged \subseteq DOMAIN stories

\* How far the execution has come: the place of its node, and two steps for each
\* turn of the repair loop.
Place == [detect_file_type |-> 0, prepare_sources |-> 1, build_source_index |-> 2,
          extract |-> 3, dedupe_requirements |-> 4, retrieve_evidence |-> 5,
          classify |-> 6, evidence_grounding |-> 7, generate |-> 8,
          quality_gate |-> 9, repair_stories |-> 10, summarize |-> 11,
          format |-> 12, done |-> 13]

Progress ==
    Place[node] + 2 * (IF node \in {"summarize", "format", "done"} THEN MaxRepairs
                                                                  ELSE attempts)

\* The part of Ends that is not about fairness: every step takes the execution
\* further, and there is an end, whatever models and repairs do (create_graph).
EveryStepAdvances ==
    [][Progress < Progress' /\ Progress' <= 13 + 2 * MaxRepairs]_vars

----------------------------------------------------------------------------
(* What documents and comments say.                                        *)

\* repair_stories.py:90: issues are grouped by the story they are about.
IssuesAreGroupedByStory ==
    [][node = "repair_stories" => offered' = flagged]_vars
=============================================================================
