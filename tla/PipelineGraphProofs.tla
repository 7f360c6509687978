------------------------ MODULE PipelineGraphProofs ------------------------
(***************************************************************************)
(* Proofs about PipelineGraph for every submission, whatever extraction    *)
(* finds and the models answer, and however many repairs there are.        *)
(***************************************************************************)
EXTENDS PipelineGraph, FiniteSetTheorems, WellFoundedInduction, TLAPS

Fresh == {"detect_file_type", "prepare_sources"}
Unread == Fresh \cup {"build_source_index", "extract"}
Told == {"quality_gate", "repair_stories", "summarize", "format", "done"}

Shape ==
    /\ node \in Nodes
    /\ reqs \in Seq(Requirement)
    /\ node \in Unread => reqs = <<>> /\ chunks = "none"
    /\ node \notin Told => stories = <<>> /\ coverage = {}
    /\ reqs = <<>> => stories = <<>>

\* Nothing useful and no result.
Failed ==
    \/ given = <<>>
    \/ SomeAre("failed", given, outcome) /\ ~SomeAre("ready", given, outcome)

\* What the state says of the sources.
SourcesOK ==
    /\ node \in Fresh =>
        /\ ~useful
        /\ \A s \in InputOf(given) : outcome[s] = "none"
    /\ node \notin Fresh /\ useful =>
        /\ SomeAre("ready", given, outcome)
        /\ SomeAre("failed", given, outcome) => lossy
        /\ err \in {"none", "EXTRACT_FAILURE"}
        /\ err = "EXTRACT_FAILURE" <=> chunks = "failed"
        /\ chunks = "failed" => reqs = <<>>
    /\ node \notin Fresh /\ ~useful =>
        /\ node \in {"format", "done"}
        /\ chunks = "none" /\ reqs = <<>>
        /\ err \in {"ALL_SOURCES_FAILED", "NO_SOURCES"} <=> Failed

\* A row that a rewriting repair keeps names no story.
Plain(rows) ==
    \A row \in rows : row.type \in {"non_story", "needs_review"} => row.stories = {}

\* A story for every requirement that gets one, and of no other.
StoriesOK ==
    node \in Told =>
        /\ DOMAIN stories = ToGenerate(reqs)
        /\ \A s \in DOMAIN stories : stories[s].links = {s}
        /\ Plain(coverage)

\* Every conflict and, past the gate, every gap in the evidence is an issue
\* of the requirement as it is numbered now.
IssuesOK ==
    /\ \A i \in DOMAIN reqs :
          reqs[i].conflict => [rule |-> "semantic_conflict", item |-> i] \in issues
    /\ node \in {"repair_stories", "summarize", "format", "done"} =>
          \A i \in Unverified : [rule |-> "missing_evidence", item |-> i] \in issues

ResultOK == result = IF node = "done" THEN Status ELSE "none"

Sound == Shape /\ SourcesOK /\ StoriesOK /\ CoverageIsTrue /\ IssuesOK /\ ResultOK

----------------------------------------------------------------------------
(* First.                                                                  *)

\* A set of naturals has a least element.
LEMMA Least ==
    ASSUME NEW S \in SUBSET Nat, S # {}
    PROVE  \E m \in S : \A k \in S : m <= k
<1> DEFINE R == OpToRel(<, Nat)
<1>1. IsWellFoundedOn(R, Nat)
  BY NatLessThanWellFounded
<1>2. \A x, y \in Nat : x < y => <<x, y>> \in R
  BY DEF OpToRel
<1> HIDE DEF R
<1>3. PICK m \in S : \A y \in S : ~(<<y, m>> \in R)
  BY <1>1, WFMin
<1>4. ASSUME NEW k \in S PROVE m <= k
  <2>1. ~(<<k, m>> \in R)
    BY <1>3
  <2>2. ~(k < m)
    BY <1>2, <2>1
  <2> QED BY <2>2
<1> QED BY <1>4

LEMMA FirstOf ==
    ASSUME NEW S \in SUBSET Nat, S # {}
    PROVE  First(S) \in S
  BY Least DEF First

LEMMA FirstOfOne == ASSUME NEW i \in Nat PROVE First({i}) = i
  BY FirstOf

----------------------------------------------------------------------------
(* Merges.                                                                 *)

LEMMA MergeKeeps ==
    ASSUME NEW rs \in Seq(Requirement), NEW keep \in Clusterings(rs)
    PROVE  /\ keep \in [DOMAIN rs -> DOMAIN rs]
           /\ Canonical(rs, keep) \in Seq(Requirement)
           /\ rs = <<>> => Canonical(rs, keep) = <<>>
           /\ \A k \in DOMAIN Canonical(rs, keep) : Canonical(rs, keep)[k].conflict =>
                 \E i \in DOMAIN rs : NewId(keep, i) = k /\ rs[i].conflict
<1> DEFINE roots == {i \in DOMAIN rs : keep[i] = i}
           group(k) == {i \in DOMAIN rs : NewId(keep, i) = k}
           merged(k) == [origin   |-> UNION {rs[i].origin : i \in group(k)},
                         special  |-> UNION {rs[i].special : i \in group(k)},
                         label    |-> UNION {rs[i].label : i \in group(k)},
                         evidence |-> \E i \in group(k) : rs[i].evidence,
                         conflict |-> \E i \in group(k) : rs[i].conflict]
<1>1. keep \in [DOMAIN rs -> DOMAIN rs]
  BY DEF Clusterings
<1>2. Canonical(rs, keep) = [k \in 1 .. Cardinality(roots) |-> merged(k)]
  BY DEF Canonical
<1>3. DOMAIN rs = 1 .. Len(rs) /\ IsFiniteSet(DOMAIN rs)
  BY FS_Interval
<1>4. Cardinality(roots) \in Nat
  BY <1>3, FS_Subset, FS_CardinalityType
<1>5. ASSUME NEW k PROVE merged(k) \in Requirement
  <2>1. \A i \in group(k) : rs[i] \in Requirement
    OBVIOUS
  <2> HIDE DEF group
  <2>2. \A i \in group(k) : /\ rs[i].origin \subseteq Dispositions
                            /\ rs[i].special \subseteq Special
                            /\ rs[i].label \subseteq Special
    BY <2>1 DEF Requirement
  <2> QED BY <2>2 DEF Requirement
<1>6. rs = <<>> => Canonical(rs, keep) = <<>>
  <2> SUFFICES ASSUME rs = <<>> PROVE Canonical(rs, keep) = <<>>
    OBVIOUS
  <2>1. roots = {}
    BY <1>3
  <2>2. Cardinality(roots) = 0
    BY <2>1, FS_EmptySet
  <2> HIDE DEF roots, merged
  <2> QED BY <1>2, <2>2
<1>7. \A k \in 1 .. Cardinality(roots) : merged(k).conflict =>
         \E i \in DOMAIN rs : NewId(keep, i) = k /\ rs[i].conflict
  OBVIOUS
<1> HIDE DEF merged, roots
<1>8. Canonical(rs, keep) \in Seq(Requirement)
  BY <1>2, <1>4, <1>5
<1> QED BY <1>1, <1>2, <1>6, <1>7, <1>8

\* When nothing is merged every requirement keeps its number.
LEMMA SameNumbers ==
    ASSUME NEW rs \in Seq(Requirement), NEW keep \in [DOMAIN rs -> DOMAIN rs],
           NothingMerged(keep), NEW i \in DOMAIN rs
    PROVE  NewId(keep, i) = i
<1>1. DOMAIN rs = 1 .. Len(rs) /\ DOMAIN keep = DOMAIN rs /\ keep[i] = i
  BY DEF NothingMerged
<1>2. {j \in DOMAIN keep : keep[j] = j /\ j <= keep[i]} = 1 .. i
  BY <1>1 DEF NothingMerged
<1>3. i \in Nat /\ Cardinality(1 .. i) = i
  BY <1>1, FS_Interval
<1> QED BY <1>2, <1>3 DEF NewId

----------------------------------------------------------------------------
(* Stories.                                                                *)

\* However many requirements a proposal names, the story made from it is for
\* one.
LEMMA WrittenForOne ==
    ASSUME NEW rs \in Seq(Requirement), NEW targets \in SUBSET DOMAIN rs,
           NEW proposed \in [1 .. MaxProposals -> Proposals(rs)]
    PROVE  Written(targets, proposed) = [i \in targets |-> {i}]
<1> DEFINE for(i) == {n \in DOMAIN proposed : Accepts(proposed[n], i, targets)}
           story(i) == IF for(i) = {} THEN {i}
                       ELSE LET p == proposed[First(for(i))]
                            IN  Sanitized(p.declared \cup {i}, p.supported, targets)
<1>1. ASSUME NEW i \in targets PROVE story(i) = {i}
  <2> SUFFICES ASSUME for(i) # {} PROVE story(i) = {i}
    OBVIOUS
  <2>1. for(i) \in SUBSET Nat
    BY BoundsAssumption
  <2>2. First(for(i)) \in for(i)
    BY <2>1, FirstOf
  <2> DEFINE p == proposed[First(for(i))]
  <2>3. p.declared \cap targets = {i} /\ i \in p.supported
    BY <2>2 DEF Accepts
  <2> HIDE DEF p
  <2>4. (p.declared \cup {i}) \cap targets \cap p.supported = {i}
    BY <2>3
  <2>5. Sanitized(p.declared \cup {i}, p.supported, targets) = {i}
    BY <2>4 DEF Sanitized
  <2> QED BY <2>5 DEF p
<1>2. Written(targets, proposed) = [i \in targets |-> story(i)]
  BY DEF Written
<1> HIDE DEF story
<1> QED BY <1>1, <1>2

LEMMA NothingRepeats ==
    ASSUME NEW T \in SUBSET Nat
    PROVE  LET links == [i \in T |-> {i}]
           IN  Repeats(links) = {} /\ WithoutRepeats(links, {}) = links
<1> DEFINE links == [i \in T |-> {i}]
<1>1. Repeats(links) = {}
  <2>1. ASSUME NEW i \in T, NEW j \in T, j < i PROVE links[i] \cap links[j] = {}
    <3>1. i # j
      BY <2>1
    <3>2. links[i] = {i} /\ links[j] = {j}
      OBVIOUS
    <3> QED BY <3>1, <3>2
  <2>2. DOMAIN links = T
    OBVIOUS
  <2> HIDE DEF links
  <2> QED BY <2>1, <2>2 DEF Repeats
<1>2. WithoutRepeats(links, {}) = links
  <2> DEFINE joined(i) == UNION {links[g] : g \in {x \in {} :
                 i = First({j \in DOMAIN links \ {} : links[j] \cap links[x] # {}})}}
  <2>1. WithoutRepeats(links, {}) = [i \in DOMAIN links \ {} |-> links[i] \cup joined(i)]
    BY DEF WithoutRepeats
  <2>2. \A i : joined(i) = {}
    OBVIOUS
  <2> HIDE DEF joined
  <2>3. DOMAIN links \ {} = T /\ \A i \in T : links[i] \cup joined(i) = links[i]
    BY <2>2
  <2> QED BY <2>1, <2>3
<1> QED BY <1>1, <1>2

----------------------------------------------------------------------------
(* The sources.                                                            *)

LEMMA EmptyList ==
    /\ <<>> \in Seq(Requirement) /\ DOMAIN <<>> = {} /\ ToGenerate(<<>>) = {}
    /\ InputOf(<<>>) = {}
  BY DEF ToGenerate, InputOf

LEMMA SoundInit == Init => Sound
<1> SUFFICES ASSUME Init PROVE Sound
  OBVIOUS
<1>1. Shape /\ StoriesOK /\ ResultOK
  BY EmptyList DEF Init, Shape, StoriesOK, Plain, ResultOK, Nodes, Told, Unread
<1>2. SourcesOK
  BY DEF Init, SourcesOK, Fresh
<1>3. CoverageIsTrue /\ IssuesOK
  BY EmptyList DEF Init, CoverageIsTrue, IssuesOK
<1> QED BY <1>1, <1>2, <1>3 DEF Sound

LEMMA DetectStep == Sound /\ Detect => Sound'
<1> SUFFICES ASSUME Sound, Detect PROVE Sound'
  OBVIOUS
<1> USE DEF Sound, Detect, Goto, work, history
<1>1. Shape' /\ StoriesOK' /\ ResultOK'
  BY DEF Shape, StoriesOK, Plain, ResultOK, Nodes, Told, Unread, Fresh
<1>2. SourcesOK'
  BY DEF SourcesOK, Fresh
<1>3. CoverageIsTrue' /\ IssuesOK'
  BY DEF CoverageIsTrue, IssuesOK
<1> QED BY <1>1, <1>2, <1>3

\* The verdict on the sources, by what became of them.
LEMMA VerdictSays ==
    ASSUME NEW g, NEW o
    PROVE  LET v == Verdict(g, o) IN
           /\ SomeAre("ready", g, o) =>
                 /\ v.useful = TRUE /\ v.error = "none"
                 /\ SomeAre("failed", g, o) => v.partial = TRUE
           /\ ~SomeAre("ready", g, o) =>
                 /\ v.useful = FALSE
                 /\ v.error = IF SomeAre("failed", g, o)
                              THEN "ALL_SOURCES_FAILED" ELSE "DOCUMENT_REJECTED"
<1>1. CASE SomeAre("ready", g, o)
  BY <1>1 DEF Verdict, Usable
<1>2. CASE ~SomeAre("ready", g, o) /\ SomeAre("failed", g, o)
  BY <1>2 DEF Verdict, Unusable
<1>3. CASE ~SomeAre("ready", g, o) /\ ~SomeAre("failed", g, o)
  BY <1>3 DEF Verdict, Unusable
<1> QED BY <1>1, <1>2, <1>3

LEMMA PrepareStep == Sound /\ Prepare => Sound'
<1> SUFFICES ASSUME Sound, Prepare PROVE Sound'
  OBVIOUS
<1>1. /\ node' \in {"format", "build_source_index"}
      /\ useful' = FALSE => node' = "format"
      /\ reqs' = <<>> /\ stories' = <<>> /\ coverage' = {} /\ chunks' = "none"
      /\ given' = given /\ issues' = issues /\ result' = "none"
  BY DEF Sound, Shape, SourcesOK, ResultOK, Prepare, Receive, Goto, work, Fresh, Unread, Told
<1>2. Shape' /\ StoriesOK' /\ ResultOK' /\ CoverageIsTrue' /\ IssuesOK'
  <2>1. Shape' /\ StoriesOK' /\ ResultOK'
    BY <1>1, EmptyList DEF Shape, StoriesOK, Plain, ResultOK, Nodes
  <2>2. CoverageIsTrue' /\ IssuesOK'
    BY <1>1, EmptyList DEF CoverageIsTrue, IssuesOK, Unverified
  <2> QED BY <2>1, <2>2
<1>3. SourcesOK'
  <2>1. CASE given = <<>> /\ Receive(NoSources)
    <3>1. useful' = FALSE /\ err' = "NO_SOURCES"
      BY <2>1 DEF Receive, NoSources, Unusable
    <3> QED BY <1>1, <2>1, <3>1 DEF SourcesOK, Failed, Fresh
  <2>2. CASE InputOf(given) \cap Audio # {} /\ Receive(TooMuchAudio) /\ UNCHANGED outcome
    <3>1. useful' = FALSE /\ err' = "AGGREGATE_AUDIO_DURATION_EXCEEDED"
      BY <2>2 DEF Receive, TooMuchAudio, Unusable
    <3>2. ~SomeAre("failed", given, outcome)
      BY DEF SomeAre, Sound, SourcesOK, Prepare, Fresh
    <3>3. given # <<>>
      BY <2>2, EmptyList
    <3>4. ~Failed'
      BY <1>1, <2>2, <3>2, <3>3 DEF Failed
    <3> QED BY <1>1, <3>1, <3>4 DEF SourcesOK, Fresh
  <2>3. ASSUME given # <<>>, NEW o \in [InputOf(given) -> Outcomes],
               outcome' = o, Receive(Verdict(given, o))
        PROVE  SourcesOK'
    <3> DEFINE v == Verdict(given, o)
    <3>1. useful' = v.useful /\ err' = v.error /\ lossy' = v.partial
      BY <2>3 DEF Receive
    <3>2. CASE SomeAre("ready", given, o)
      <4>1. useful' = TRUE /\ err' = "none" /\ (SomeAre("failed", given, o) => lossy' = TRUE)
        BY <3>1, <3>2, VerdictSays
      <4> QED BY <1>1, <2>3, <3>2, <4>1 DEF SourcesOK, Fresh
    <3>3. CASE ~SomeAre("ready", given, o)
      <4>1. useful' = FALSE /\ err' = IF SomeAre("failed", given, o)
                                     THEN "ALL_SOURCES_FAILED" ELSE "DOCUMENT_REJECTED"
        BY <3>1, <3>3, VerdictSays
      <4>2. Failed' <=> SomeAre("failed", given, o)
        BY <1>1, <2>3, <3>3 DEF Failed
      <4> QED BY <1>1, <4>1, <4>2 DEF SourcesOK, Fresh
    <3> QED BY <3>2, <3>3
  <2> QED BY <2>1, <2>2, <2>3 DEF Prepare
<1> QED BY <1>2, <1>3 DEF Sound

----------------------------------------------------------------------------
(* The requirements.                                                       *)

LEMMA PassStep ==
    Sound /\ (\/ Pass("build_source_index", "extract")
              \/ Pass("retrieve_evidence", "classify")
              \/ Pass("summarize", "format")) => Sound'
<1> SUFFICES ASSUME Sound,
                    \/ Pass("build_source_index", "extract")
                    \/ Pass("retrieve_evidence", "classify")
                    \/ Pass("summarize", "format")
             PROVE  Sound'
  OBVIOUS
<1>0. /\ \/ node = "build_source_index" /\ node' = "extract"
         \/ node = "retrieve_evidence" /\ node' = "classify"
         \/ node = "summarize" /\ node' = "format"
      /\ UNCHANGED <<input, work, result, history>>
  BY DEF Pass, Goto
<1> USE <1>0 DEF Sound, work, history, input
<1>1. Shape' /\ StoriesOK' /\ ResultOK'
  BY DEF Shape, StoriesOK, Plain, ResultOK, Told, Unread, Fresh, Nodes
<1>2. SourcesOK'
  BY DEF SourcesOK, Fresh, Failed, SomeAre
<1>3. CoverageIsTrue' /\ IssuesOK'
  BY DEF CoverageIsTrue, IssuesOK, Unverified, Told, Linking
<1> QED BY <1>1, <1>2, <1>3

\* Before the stories: what such a node has to keep.
LEMMA EarlyStep ==
    ASSUME Sound, node \notin Fresh \cup Told, node' \in Nodes \ (Unread \cup Told),
           UNCHANGED <<given, useful, lossy, stories, coverage, result, outcome>>,
           reqs' \in Seq(Requirement), reqs = <<>> /\ chunks = "failed" => reqs' = <<>>
    PROVE  /\ Shape' /\ StoriesOK' /\ CoverageIsTrue' /\ ResultOK'
           /\ UNCHANGED <<err, chunks>> => SourcesOK'
<1>1. Shape' /\ StoriesOK' /\ ResultOK'
  BY DEF Sound, Shape, StoriesOK, Plain, ResultOK, Told, Unread, Fresh
<1>2. CoverageIsTrue'
  BY DEF CoverageIsTrue, Told
<1>3. ASSUME UNCHANGED <<err, chunks>> PROVE SourcesOK'
  BY <1>3 DEF Sound, SourcesOK, Told, Unread, Fresh, SomeAre
<1> QED BY <1>1, <1>2, <1>3

LEMMA ExtractStep == Sound /\ Extract => Sound'
<1> SUFFICES ASSUME Sound, Extract PROVE Sound'
  OBVIOUS
<1>1. /\ node = "extract" /\ node' = "dedupe_requirements"
      /\ UNCHANGED <<given, useful, lossy, stories, coverage, result, outcome>>
  BY DEF Extract, Goto
<1>2. useful /\ err \in {"none", "EXTRACT_FAILURE"}
  BY <1>1 DEF Sound, SourcesOK, Fresh
<1>3. reqs = <<>> /\ chunks = "none" /\ err = "none"
  BY <1>1, <1>2 DEF Sound, Shape, SourcesOK, Unread, Fresh
<1>4. \/ /\ chunks' = "failed" /\ err' = "EXTRACT_FAILURE" /\ reqs' = <<>>
      \/ /\ chunks' # "failed" /\ err' = "none"
         /\ \E kinds \in Extractions : reqs' = Found(kinds)
  BY <1>3 DEF Extract
<1>5. ASSUME NEW kinds \in Extractions
      PROVE  /\ Found(kinds) \in Seq(Requirement)
             /\ \A i \in DOMAIN Found(kinds) : ~Found(kinds)[i].conflict
  <2>1. kinds \in Seq(Kinds)
    BY BoundsAssumption
  <2>2. DOMAIN kinds = 1 .. Len(kinds) /\ Len(kinds) \in Nat
    BY <2>1
  <2>3. ASSUME NEW i \in DOMAIN kinds
        PROVE  [origin |-> kinds[i].origin, special |-> kinds[i].special,
                label |-> {}, evidence |-> FALSE, conflict |-> FALSE] \in Requirement
    <3>1. kinds[i] \in Kinds
      BY <2>1
    <3> QED BY <3>1 DEF Kinds, Requirement
  <2> QED BY <2>2, <2>3 DEF Found
<1>6. /\ reqs' \in Seq(Requirement)
      /\ \A i \in DOMAIN reqs' : ~reqs'[i].conflict
  BY <1>4, <1>5, EmptyList
<1>7. Shape' /\ StoriesOK' /\ CoverageIsTrue' /\ ResultOK'
  BY <1>1, <1>3, <1>6, EarlyStep DEF Nodes, Unread, Fresh, Told
<1>8. SourcesOK'
  BY <1>1, <1>2, <1>4 DEF Sound, SourcesOK, Fresh, SomeAre
<1>9. IssuesOK'
  BY <1>1, <1>6 DEF IssuesOK
<1> QED BY <1>7, <1>8, <1>9 DEF Sound

LEMMA DedupeStep == Sound /\ Dedupe => Sound'
<1> SUFFICES ASSUME Sound, Dedupe PROVE Sound'
  OBVIOUS
<1>1. /\ node = "dedupe_requirements" /\ node' = "retrieve_evidence"
      /\ UNCHANGED <<given, useful, lossy, stories, coverage, result, outcome, err, chunks>>
  BY DEF Dedupe, Goto, input, history
<1>2. PICK keep \in Clusterings(reqs) :
        LET rs == Canonical(reqs, keep)
        IN  \E c \in IF Len(rs) > 1 THEN SUBSET DOMAIN rs ELSE {{}} :
               /\ reqs' = [i \in DOMAIN rs |-> [rs[i] EXCEPT !.conflict = i \in c]]
               /\ issues' = issues \cup Severe("semantic_conflict", c)
  BY DEF Dedupe
<1> DEFINE rs == Canonical(reqs, keep)
<1>3. rs \in Seq(Requirement) /\ (reqs = <<>> => rs = <<>>)
  BY MergeKeeps DEF Sound, Shape
<1> HIDE DEF rs
<1>4. PICK c \in SUBSET DOMAIN rs :
        /\ reqs' = [i \in DOMAIN rs |-> [rs[i] EXCEPT !.conflict = i \in c]]
        /\ issues' = issues \cup Severe("semantic_conflict", c)
  BY <1>2 DEF rs
<1>5. DOMAIN rs = 1 .. Len(rs) /\ Len(rs) \in Nat
  BY <1>3
<1>6. ASSUME NEW i \in DOMAIN rs
      PROVE  [rs[i] EXCEPT !.conflict = i \in c] \in Requirement
  <2>1. rs[i] \in Requirement /\ (i \in c) \in BOOLEAN
    BY <1>3
  <2> QED BY <2>1 DEF Requirement
<1>7. reqs' \in Seq(Requirement) /\ (reqs = <<>> => reqs' = <<>>)
  BY <1>3, <1>4, <1>5, <1>6
<1>8. \A i \in DOMAIN reqs' : reqs'[i].conflict => i \in c
  <2> SUFFICES ASSUME NEW i \in DOMAIN rs PROVE reqs'[i].conflict <=> i \in c
    BY <1>4
  <2>1. rs[i] \in Requirement /\ reqs'[i] = [rs[i] EXCEPT !.conflict = i \in c]
    BY <1>3, <1>4
  <2>2. "conflict" \in DOMAIN rs[i]
    BY <2>1 DEF Requirement
  <2>3. reqs'[i].conflict = (i \in c)
    BY <2>1, <2>2, Zenon
  <2> QED BY <2>3
<1>9. IssuesOK'
  BY <1>1, <1>4, <1>8 DEF IssuesOK, Severe
<1> QED BY <1>1, <1>7, <1>9, EarlyStep DEF Sound, Nodes, Unread, Fresh, Told

LEMMA ClassifyStep == Sound /\ Classify => Sound'
<1> SUFFICES ASSUME Sound, Classify PROVE Sound'
  OBVIOUS
<1>1. /\ node = "classify" /\ node' = "evidence_grounding"
      /\ UNCHANGED <<given, useful, lossy, stories, coverage, result, outcome, err, chunks,
                     issues>>
  BY DEF Classify, Goto, input, history
<1>2. PICK label \in [DOMAIN reqs -> {{}} \cup {{l} : l \in Special}] :
        reqs' = [i \in DOMAIN reqs |->
                [reqs[i] EXCEPT !.special = Candidates(reqs[i]), !.label = label[i]]]
  BY DEF Classify
<1>3. reqs \in Seq(Requirement) /\ DOMAIN reqs = 1 .. Len(reqs) /\ Len(reqs) \in Nat
  BY DEF Sound, Shape
<1>4. ASSUME NEW i \in DOMAIN reqs
      PROVE  reqs'[i] \in Requirement /\ reqs'[i].conflict = reqs[i].conflict
  <2>1. reqs[i] \in Requirement
    BY <1>3
  <2>2. Candidates(reqs[i]) \in SUBSET Special
    BY <2>1 DEF Candidates, Requirement, Special
  <2>3. label[i] \in SUBSET Special
    <3>1. label[i] \in {{}} \cup {{l} : l \in Special}
      OBVIOUS
    <3> QED BY <3>1
  <2>4. reqs'[i] = [reqs[i] EXCEPT !.special = Candidates(reqs[i]), !.label = label[i]]
    BY <1>2
  <2> QED BY <2>1, <2>2, <2>3, <2>4 DEF Requirement
<1>5. DOMAIN reqs' = DOMAIN reqs /\ reqs' \in Seq(Requirement) /\ (reqs = <<>> => reqs' = <<>>)
  <2>1. reqs' = [i \in DOMAIN reqs |-> reqs'[i]]
    BY <1>2
  <2> QED BY <1>3, <1>4, <2>1
<1>6. IssuesOK'
  BY <1>1, <1>4, <1>5 DEF IssuesOK, Sound
<1> QED BY <1>1, <1>5, <1>6, EarlyStep DEF Sound, Nodes, Unread, Fresh, Told

LEMMA GroundStep == Sound /\ Ground => Sound'
<1> SUFFICES ASSUME Sound, Ground PROVE Sound'
  OBVIOUS
<1>1. /\ node = "evidence_grounding" /\ node' = "generate"
      /\ UNCHANGED <<given, useful, lossy, stories, coverage, result, outcome, err, chunks>>
      /\ issues \subseteq issues'
  BY DEF Ground, Goto, input, history
<1>2. PICK verified \in SUBSET DOMAIN reqs :
        reqs' = [i \in DOMAIN reqs |-> [reqs[i] EXCEPT !.evidence = i \in verified]]
  BY DEF Ground
<1>3. reqs \in Seq(Requirement) /\ DOMAIN reqs = 1 .. Len(reqs) /\ Len(reqs) \in Nat
  BY DEF Sound, Shape
<1>4. ASSUME NEW i \in DOMAIN reqs
      PROVE  reqs'[i] \in Requirement /\ reqs'[i].conflict = reqs[i].conflict
  <2>1. reqs[i] \in Requirement /\ reqs'[i] = [reqs[i] EXCEPT !.evidence = i \in verified]
    BY <1>2, <1>3
  <2>2. (i \in verified) \in BOOLEAN
    OBVIOUS
  <2> QED BY <2>1, <2>2 DEF Requirement
<1>5. DOMAIN reqs' = DOMAIN reqs /\ reqs' \in Seq(Requirement) /\ (reqs = <<>> => reqs' = <<>>)
  BY <1>2, <1>3, <1>4
<1>6. IssuesOK'
  BY <1>1, <1>4, <1>5 DEF IssuesOK, Sound
<1> QED BY <1>1, <1>5, <1>6, EarlyStep DEF Sound, Nodes, Unread, Fresh, Told

----------------------------------------------------------------------------
(* The stories and their coverage.                                         *)

Single(rs, ss) ==
    /\ DOMAIN ss = ToGenerate(rs)
    /\ \A s \in DOMAIN ss : ss[s].links = {s}

\* A row that tells what the stories link.
Tells(ss, row) ==
    IF row.stories = {} THEN Linking(ss, row.requirement) = {}
    ELSE row.stories \subseteq Linking(ss, row.requirement)

\* Two rows of one requirement, if there may be two.
Agree(row, other, twice) ==
    row = other \/ (twice /\ row.stories = other.stories /\ row.stories # {})

Covers(rs, ss, rows, twice) ==
    /\ {row.requirement : row \in rows} = DOMAIN rs
    /\ \A row, other \in rows :
          row.requirement = other.requirement => Agree(row, other, twice)
    /\ \A row \in rows : Tells(ss, row)

LEMMA CoverageMeans ==
    CoverageIsTrue <=> (node \in {"quality_gate", "repair_stories", "summarize"} =>
                            Covers(reqs, stories, coverage, unsanitized))
  BY DEF CoverageIsTrue, Covers, Agree, Tells

LEMMA RequirementsOf ==
    ASSUME NEW rows, NEW T, \A row \in rows : row.requirement \in T,
           \A i \in T : \E row \in rows : row.requirement = i
    PROVE  {row.requirement : row \in rows} = T
  OBVIOUS

LEMMA LinkingOne ==
    ASSUME NEW rs, NEW ss, Single(rs, ss), NEW i
    PROVE  /\ i \in ToGenerate(rs) => Linking(ss, i) = {i}
           /\ i \notin ToGenerate(rs) => Linking(ss, i) = {}
  BY DEF Single, Linking

\* Its evidence does not keep a requirement that gets a story from one.
LEMMA EvidenceIsNoObstacle ==
    ASSUME NEW r \in Requirement, Treatment(r) = "story"
    PROVE  Treatment([r EXCEPT !.evidence = TRUE]) = "story"
<1> DEFINE q == [r EXCEPT !.evidence = TRUE]
<1>1. q.origin = r.origin /\ q.special = r.special /\ q.evidence = TRUE
  BY DEF Requirement
<1> HIDE DEF q
<1>2. Disposition(q) = Disposition(r)
  BY <1>1 DEF Disposition
<1>3. /\ Disposition(r) \notin {"rejected", "deferred", "proposed", "uncertain"}
      /\ Disposition(r) = "accepted" => r.special = {}
  BY DEF Treatment
<1>4. Treatment(q) = "story"
  BY <1>1, <1>2, <1>3 DEF Treatment
<1> QED BY <1>4 DEF q

LEMMA CoverageOfOne ==
    ASSUME NEW rs \in Seq(Requirement), NEW ss, Single(rs, ss), NEW i \in DOMAIN rs
    PROVE  /\ CoverageOf(rs, ss, i).requirement = i /\ Tells(ss, CoverageOf(rs, ss, i))
           /\ Plain({CoverageOf(rs, ss, i)})
<1>1. rs[i] \in Requirement /\ i \in Nat
  OBVIOUS
<1>2. CASE Treatment([rs[i] EXCEPT !.evidence = TRUE]) # "story"
  <2>1. i \notin ToGenerate(rs)
    BY <1>1, <1>2, EvidenceIsNoObstacle DEF ToGenerate
  <2>2. CoverageOf(rs, ss, i) = Row(i, Treatment(rs[i]), {})
    BY <1>2 DEF CoverageOf
  <2> QED BY <2>1, <2>2, LinkingOne DEF Row, Tells, Plain
<1>3. CASE Treatment([rs[i] EXCEPT !.evidence = TRUE]) = "story" /\ Linking(ss, i) = {}
  <2>1. CoverageOf(rs, ss, i) = Row(i, "needs_review", {})
    BY <1>3 DEF CoverageOf
  <2> QED BY <1>3, <2>1 DEF Row, Tells, Plain
<1>4. CASE Treatment([rs[i] EXCEPT !.evidence = TRUE]) = "story" /\ Linking(ss, i) # {}
  <2>1. Linking(ss, i) = {i} /\ First(Linking(ss, i)) = i
    BY <1>1, <1>4, LinkingOne, FirstOfOne
  <2>2. \E type \in {"merged_into_story", "covered_by_story"} :
           CoverageOf(rs, ss, i) = Row(i, type, {i})
    BY <1>4, <2>1 DEF CoverageOf
  <2> QED BY <2>1, <2>2 DEF Row, Tells, Plain
<1> QED BY <1>2, <1>3, <1>4

LEMMA RebuiltCovers ==
    ASSUME NEW rs \in Seq(Requirement), NEW ss, Single(rs, ss), NEW rows,
           Plain(rows), \A row \in rows : Tells(ss, row), NEW before, NEW twice,
           \A row, other \in rows :
              row.requirement = other.requirement => Agree(row, other, before)
    PROVE  Covers(rs, ss, Rebuilt(rs, ss, rows), twice) /\ Plain(Rebuilt(rs, ss, rows))
<1> DEFINE kept == {row \in rows : /\ row.type \in {"non_story", "needs_review"}
                                  /\ row.requirement \in DOMAIN rs}
           known == {row.requirement : row \in kept}
           made == {CoverageOf(rs, ss, i) : i \in DOMAIN rs \ known}
<1>1. Rebuilt(rs, ss, rows) = kept \cup made
  BY DEF Rebuilt
<1>2. kept \subseteq rows /\ known \subseteq DOMAIN rs
  OBVIOUS
<1>3. \A row \in kept : row.requirement \in known
  OBVIOUS
<1>4. \A i \in known : \E row \in kept : row.requirement = i
  OBVIOUS
<1>11. \A row \in kept : row.stories = {}
  BY DEF Plain
<1> HIDE DEF kept, known
<1>5. \A row \in made : \E i \in DOMAIN rs \ known : row = CoverageOf(rs, ss, i)
  OBVIOUS
<1>6. \A i \in DOMAIN rs \ known : CoverageOf(rs, ss, i) \in made
  OBVIOUS
<1> HIDE DEF made
<1>7. \A row \in made : row.requirement \in DOMAIN rs \ known /\ Tells(ss, row)
                        /\ row = CoverageOf(rs, ss, row.requirement)
  <2>1. SUFFICES ASSUME NEW row \in made
                 PROVE  /\ row.requirement \in DOMAIN rs \ known /\ Tells(ss, row)
                        /\ row = CoverageOf(rs, ss, row.requirement)
    OBVIOUS
  <2>2. PICK i \in DOMAIN rs \ known : row = CoverageOf(rs, ss, i)
    BY <1>5
  <2>3. row.requirement = i /\ Tells(ss, row)
    BY <2>2, CoverageOfOne
  <2> QED BY <2>2, <2>3
<1> DEFINE all == kept \cup made
           named == {row.requirement : row \in all}
<1>8. named = DOMAIN rs
  <2>1. \A i \in DOMAIN rs : \E row \in all : row.requirement = i
    BY <1>4, <1>6, CoverageOfOne
  <2>2. \A row \in all : row.requirement \in DOMAIN rs
    BY <1>2, <1>3, <1>7
  <2> HIDE DEF all
  <2> QED BY <2>1, <2>2, RequirementsOf
<1>9. \A row, other \in kept \cup made : row.requirement = other.requirement => row = other
  <2>1. \A row, other \in kept : row.requirement = other.requirement => row = other
    BY <1>2, <1>11 DEF Agree
  <2> QED BY <2>1, <1>3, <1>7
<1>10. \A row \in kept \cup made : Tells(ss, row)
  BY <1>2, <1>7
<1>12. Plain(kept \cup made)
  <2>1. \A row \in made : Plain({row})
    BY <1>5, CoverageOfOne
  <2> QED BY <2>1, <1>11 DEF Plain
<1> QED BY <1>1, <1>8, <1>9, <1>10, <1>12 DEF Covers, Agree

LEMMA SkippedTells ==
    ASSUME NEW rs \in Seq(Requirement), NEW ss, Single(rs, ss)
    PROVE  /\ {row.requirement : row \in Skipped(rs)} = DOMAIN rs \ ToGenerate(rs)
           /\ \A row \in Skipped(rs) : row.stories = {} /\ Tells(ss, row)
           /\ \A row, other \in Skipped(rs) : row.requirement = other.requirement => row = other
<1>1. \A i : Row(i, Treatment(rs[i]), {}).requirement = i
             /\ Row(i, Treatment(rs[i]), {}).stories = {}
  BY DEF Row
<1>2. \A row \in Skipped(rs) : \E i \in DOMAIN rs \ ToGenerate(rs) :
         row = Row(i, Treatment(rs[i]), {})
  BY DEF Skipped
<1>3. \A i \in DOMAIN rs \ ToGenerate(rs) : Row(i, Treatment(rs[i]), {}) \in Skipped(rs)
  BY DEF Skipped
<1>4. \A row \in Skipped(rs) :
         /\ row.requirement \in DOMAIN rs \ ToGenerate(rs) /\ row.stories = {}
         /\ row = Row(row.requirement, Treatment(rs[row.requirement]), {})
  BY <1>1, <1>2
<1>5. \A row \in Skipped(rs) : Tells(ss, row)
  BY <1>4, LinkingOne DEF Tells
<1>6. {row.requirement : row \in Skipped(rs)} = DOMAIN rs \ ToGenerate(rs)
  BY <1>1, <1>3, <1>4
<1> QED BY <1>4, <1>5, <1>6

\* The rows a failed attempt left, and those made after it.
LEMMA FallbackTells ==
    ASSUME NEW rs \in Seq(Requirement), NEW ss, Single(rs, ss),
           NEW raised, NEW rows,
           rows = Skipped(rs) \cup Drafted(ToGenerate(rs), raised)
                    \cup {Row(i, "covered_by_story", {i}) : i \in ToGenerate(rs)}
    PROVE  Covers(rs, ss, rows, TRUE) /\ Plain(rows)
<1> DEFINE targets == ToGenerate(rs)
           made == {Row(i, "covered_by_story", {i}) : i \in targets}
           drafted == Drafted(targets, raised)
<1>1. targets \in SUBSET DOMAIN rs
  BY DEF ToGenerate
<1>2. \A i \in targets : \E row \in made : row.requirement = i
  <2>1. \A i \in targets : Row(i, "covered_by_story", {i}) \in made
    OBVIOUS
  <2>2. \A i : Row(i, "covered_by_story", {i}).requirement = i
    BY DEF Row
  <2> QED BY <2>1, <2>2
<1>3. \A row \in made : /\ row.requirement \in targets /\ row.stories = {row.requirement}
                        /\ row.type = "covered_by_story"
  BY DEF Row
<1>4. \A row \in drafted : /\ row.requirement \in targets /\ row.stories = {row.requirement}
                           /\ row.type \in {"drafted", "covered_by_story"}
  BY DEF Row, Drafted
<1>5. rows = Skipped(rs) \cup (drafted \cup made)
  OBVIOUS
<1> DEFINE told == drafted \cup made
<1>6. \A row \in told : /\ row.requirement \in targets /\ row.stories = {row.requirement}
                        /\ row.type \in {"drafted", "covered_by_story"}
  BY <1>3, <1>4
<1>7. \A i \in targets : \E row \in told : row.requirement = i
  BY <1>2
<1> HIDE DEF told, made, drafted
<1>8. /\ \A row \in Skipped(rs) : row.requirement \in DOMAIN rs \ targets
      /\ \A i \in DOMAIN rs \ targets : \E row \in Skipped(rs) : row.requirement = i
      /\ \A row \in Skipped(rs) : row.stories = {} /\ Tells(ss, row)
      /\ \A row, other \in Skipped(rs) : row.requirement = other.requirement => row = other
  BY SkippedTells
<1>9. rows = Skipped(rs) \cup told
  BY <1>5 DEF told
<1>10. {row.requirement : row \in rows} = DOMAIN rs
  <2>1. \A row \in rows : row.requirement \in DOMAIN rs
    BY <1>1, <1>6, <1>8, <1>9
  <2>2. \A i \in DOMAIN rs : \E row \in rows : row.requirement = i
    BY <1>7, <1>8, <1>9
  <2> QED BY <2>1, <2>2, RequirementsOf
<1>11. ASSUME NEW row \in rows, NEW other \in rows, row.requirement = other.requirement
       PROVE  Agree(row, other, TRUE)
  <2>1. CASE row \in Skipped(rs)
    BY <1>6, <1>8, <1>9, <1>11, <2>1 DEF Agree
  <2>2. CASE row \in told
    <3>1. other \in told
      BY <1>6, <1>8, <1>9, <1>11, <2>2
    <3>2. row.stories = {row.requirement} /\ other.stories = {row.requirement}
      BY <1>6, <1>11, <2>2, <3>1
    <3> QED BY <3>2 DEF Agree
  <2> QED BY <1>9, <2>1, <2>2
<1>12. ASSUME NEW row \in told PROVE Tells(ss, row)
  <2>1. row.stories = {row.requirement} /\ row.requirement \in ToGenerate(rs)
    BY <1>6
  <2>2. Linking(ss, row.requirement) = {row.requirement}
    BY <2>1, LinkingOne
  <2> QED BY <2>1, <2>2 DEF Tells
<1>13. Plain(rows)
  BY <1>6, <1>8, <1>9 DEF Plain
<1> QED BY <1>8, <1>9, <1>10, <1>11, <1>12, <1>13 DEF Covers

\* Whoever wrote the stories, the model or nobody, there is one for each
\* target, and the coverage says so.
LEMMA StoriesAreTold ==
    ASSUME NEW rs \in Seq(Requirement), WriteStories(rs)
    PROVE  /\ Single(rs, stories') /\ Covers(rs, stories', coverage', unsanitized')
           /\ Plain(coverage')
<1> DEFINE targets == ToGenerate(rs)
           Goal == /\ Single(rs, stories') /\ Covers(rs, stories', coverage', unsanitized')
                   /\ Plain(coverage')
<1>1. targets \in SUBSET DOMAIN rs /\ targets \in SUBSET Nat
  BY DEF ToGenerate
<1>2. ASSUME NEW defective, stories' = Worded([i \in targets |-> {i}], defective)
      PROVE  Single(rs, stories')
  BY <1>2 DEF Worded, Single
<1>3. ASSUME targets = {}, stories' = <<>>, coverage' = Skipped(rs)
      PROVE  Goal
  <2>1. Single(rs, stories')
    BY <1>3, EmptyList DEF Single
  <2> QED BY <1>3, <2>1, SkippedTells DEF Covers, Agree, Plain
<1>4. ASSUME NEW proposed \in [1 .. MaxProposals -> Proposals(rs)],
             NEW defective,
             LET links == Written(targets, proposed)
             IN  \E gone \in SUBSET Repeats(links) :
                    stories' = Worded(WithoutRepeats(links, gone), defective \ gone),
             coverage' = Rebuilt(rs, stories', Skipped(rs))
      PROVE  Goal
  <2> DEFINE links == [i \in targets |-> {i}]
  <2>1. Written(targets, proposed) = links
    BY <1>1, WrittenForOne
  <2>2. Repeats(links) = {} /\ WithoutRepeats(links, {}) = links
    BY <1>1, NothingRepeats
  <2>3. stories' = Worded(links, defective \ {})
    BY <1>4, <2>1, <2>2
  <2>4. Single(rs, stories')
    BY <1>2, <2>3
  <2>5. /\ Plain(Skipped(rs)) /\ \A row \in Skipped(rs) : Tells(stories', row)
        /\ \A row, other \in Skipped(rs) :
              row.requirement = other.requirement => Agree(row, other, FALSE)
    BY <2>4, SkippedTells DEF Plain, Agree
  <2>6. /\ Covers(rs, stories', Rebuilt(rs, stories', Skipped(rs)), unsanitized')
        /\ Plain(Rebuilt(rs, stories', Skipped(rs)))
    BY <2>4, <2>5, RebuiltCovers
  <2> QED BY <1>4, <2>4, <2>6
<1>5. ASSUME NEW defective, stories' = Worded([i \in targets |-> {i}], defective),
             NEW raised,
             coverage' = Skipped(rs) \cup Drafted(targets, raised)
                \cup {Row(i, "covered_by_story", {i}) : i \in targets},
             unsanitized' = TRUE
      PROVE  Goal
  <2>1. Single(rs, stories')
    BY <1>2, <1>5
  <2>2. Covers(rs, stories', coverage', TRUE) /\ Plain(coverage')
    BY <1>5, <2>1, FallbackTells
  <2> QED BY <1>5, <2>1, <2>2
<1> HIDE DEF Goal
<1>6. Goal
  BY <1>3, <1>4, <1>5 DEF WriteStories
<1> QED BY <1>6 DEF Goal

\* A conflict is recorded under the number its requirement has after a merge.
LEMMA ConflictsFollow ==
    ASSUME NEW rs \in Seq(Requirement), NEW keep \in Clusterings(rs), NEW found,
           \A i \in DOMAIN rs :
              rs[i].conflict => [rule |-> "semantic_conflict", item |-> i] \in found,
           NEW k \in DOMAIN Canonical(rs, keep), Canonical(rs, keep)[k].conflict
    PROVE  [rule |-> "semantic_conflict", item |-> k] \in
              IF NothingMerged(keep) THEN found ELSE Remapped(found, keep, Canonical(rs, keep))
<1>1. PICK i \in DOMAIN rs : NewId(keep, i) = k /\ rs[i].conflict
  BY MergeKeeps
<1>2. keep \in [DOMAIN rs -> DOMAIN rs]
  BY MergeKeeps
<1> DEFINE q == [rule |-> "semantic_conflict", item |-> i]
<1>3. q \in found
  BY <1>1
<1>4. CASE NothingMerged(keep)
  <2>1. k = i
    BY <1>1, <1>2, <1>4, SameNumbers
  <2> QED BY <1>3, <1>4, <2>1
<1>5. CASE ~NothingMerged(keep)
  <2> DEFINE new(x) == [x EXCEPT !.item = IF x.item \in DOMAIN keep
                                          THEN NewId(keep, x.item) ELSE x.item]
             moved == {new(x) : x \in {y \in found : y.rule # "duplicate_requirement"}}
  <2>1. new(q) = [rule |-> "semantic_conflict", item |-> k]
    BY <1>1, <1>2
  <2>2. new(q) \in moved
    BY <1>3
  <2> HIDE DEF new
  <2>3. new(q) \in {x \in moved : ~(/\ x.rule \in EvidenceRules
                                   /\ x.item \in DOMAIN Canonical(rs, keep)
                                   /\ Canonical(rs, keep)[x.item].evidence)}
    BY <2>1, <2>2 DEF EvidenceRules
  <2>4. Remapped(found, keep, Canonical(rs, keep)) =
           {x \in moved : ~(/\ x.rule \in EvidenceRules
                           /\ x.item \in DOMAIN Canonical(rs, keep)
                           /\ Canonical(rs, keep)[x.item].evidence)}
    BY DEF Remapped, new
  <2> QED BY <1>5, <2>1, <2>3, <2>4
<1> QED BY <1>4, <1>5

LEMMA GenerateStep == Sound /\ Generate => Sound'
<1> SUFFICES ASSUME Sound, Generate PROVE Sound'
  OBVIOUS
<1>1. /\ node = "generate" /\ node' = "quality_gate"
      /\ UNCHANGED <<given, err, useful, lossy, result, outcome, chunks>>
  BY DEF Generate, Goto, input, history
<1>2. useful /\ reqs \in Seq(Requirement) /\ result = "none"
  BY <1>1 DEF Sound, SourcesOK, Shape, ResultOK, Fresh
<1> DEFINE Follow == \A i \in DOMAIN reqs' :
              reqs'[i].conflict => [rule |-> "semantic_conflict", item |-> i] \in issues'
           AllTold == /\ reqs' \in Seq(Requirement)
                      /\ reqs = <<>> => reqs' = <<>>
                      /\ reqs' = <<>> => stories' = <<>>
                      /\ Single(reqs', stories') /\ Covers(reqs', stories', coverage', unsanitized')
                      /\ Plain(coverage')
<1>3. AllTold /\ Follow
  <2>1. CASE reqs = <<>> /\ UNCHANGED <<reqs, issues, stories, unsanitized, coverage>>
    <3>1. stories = <<>> /\ coverage = {}
      BY <1>1 DEF Sound, Shape, Told
    <3> QED BY <2>1, <3>1, EmptyList DEF Single, Covers, Plain
  <2>2. ASSUME reqs # <<>>, NEW keep \in Clusterings(reqs), reqs' = Canonical(reqs, keep),
               issues' = IF NothingMerged(keep) THEN issues ELSE Remapped(issues, keep, reqs'),
               WriteStories(reqs')
        PROVE  AllTold /\ Follow
    <3>1. reqs' \in Seq(Requirement)
      BY <1>2, <2>2, MergeKeeps
    <3>2. /\ Single(reqs', stories') /\ Covers(reqs', stories', coverage', unsanitized')
          /\ Plain(coverage')
      BY <2>2, <3>1, StoriesAreTold
    <3>3. ASSUME reqs' = <<>> PROVE stories' = <<>>
      BY <2>2, <3>3, EmptyList DEF WriteStories
    <3>4. Follow
      <4> SUFFICES ASSUME NEW i \in DOMAIN reqs', reqs'[i].conflict
                   PROVE  [rule |-> "semantic_conflict", item |-> i] \in issues'
        OBVIOUS
      <4>1. \A j \in DOMAIN reqs :
               reqs[j].conflict => [rule |-> "semantic_conflict", item |-> j] \in issues
        BY DEF Sound, IssuesOK
      <4> QED BY <1>2, <2>2, <4>1, ConflictsFollow
    <3> QED BY <2>2, <3>1, <3>2, <3>3, <3>4
  <2> HIDE DEF AllTold, Follow
  <2>3. CASE reqs = <<>>
    BY <2>1, <2>3 DEF Generate
  <2>4. CASE reqs # <<>>
    <3>1. PICK keep \in Clusterings(reqs) :
            /\ reqs' = Canonical(reqs, keep)
            /\ issues' = IF NothingMerged(keep) THEN issues
                         ELSE Remapped(issues, keep, reqs')
      BY <2>4 DEF Generate
    <3>2. WriteStories(reqs')
      BY <2>4 DEF Generate
    <3> QED BY <2>2, <2>4, <3>1, <3>2
  <2> QED BY <2>3, <2>4
<1>4. Shape' /\ StoriesOK' /\ ResultOK'
  BY <1>1, <1>2, <1>3 DEF Shape, StoriesOK, Plain, ResultOK, Single, Nodes, Unread, Fresh, Told
<1>5. SourcesOK'
  BY <1>1, <1>2, <1>3 DEF Sound, SourcesOK, Fresh, SomeAre
<1>6. CoverageIsTrue'
  <2>1. Covers(reqs, stories, coverage, unsanitized)'
    BY <1>3 DEF Covers, Agree, Tells, Linking
  <2> QED BY <2>1 DEF CoverageIsTrue, Covers, Agree, Tells
<1>7. IssuesOK'
  BY <1>1, <1>3 DEF IssuesOK
<1> QED BY <1>4, <1>5, <1>6, <1>7 DEF Sound

----------------------------------------------------------------------------
(* The gate, the repair loop and the result.                               *)

LEMMA GateStep == Sound /\ Gate => Sound'
<1> SUFFICES ASSUME Sound, Gate PROVE Sound'
  OBVIOUS
<1>1. /\ node = "quality_gate" /\ node' \in {"repair_stories", "summarize"}
      /\ UNCHANGED <<input, reqs, stories, unsanitized, coverage, result, history>>
      /\ issues \subseteq issues'
      /\ \A i \in Unverified : [rule |-> "missing_evidence", item |-> i] \in issues'
  <2>1. PICK duplicates \in Duplicates :
          issues' = issues \cup Severe("duplicate_requirement", duplicates)
                           \cup Severe("missing_evidence", Unverified)
                           \cup Severe("non_story_covered_by_story", Overcovered)
    BY DEF Gate
  <2>2. \A i \in Unverified : [rule |-> "missing_evidence", item |-> i] \in issues'
    BY <2>1 DEF Severe
  <2> QED BY <2>1, <2>2 DEF Gate, Goto
<1> USE <1>1 DEF Sound, input, history
<1>2. Shape' /\ StoriesOK' /\ ResultOK'
  BY DEF Shape, StoriesOK, Plain, ResultOK, Nodes, Unread, Fresh, Told
<1>3. SourcesOK'
  BY DEF SourcesOK, Fresh, SomeAre
<1>4. CoverageIsTrue'
  BY DEF CoverageIsTrue, Linking
<1>5. IssuesOK'
  BY DEF IssuesOK, Unverified
<1> QED BY <1>2, <1>3, <1>4, <1>5

LEMMA RepairStep == Sound /\ Repair => Sound'
<1> SUFFICES ASSUME Sound, Repair PROVE Sound'
  OBVIOUS
<1>1. /\ node = "repair_stories" /\ node' = "quality_gate"
      /\ UNCHANGED <<input, reqs, issues, result, outcome, chunks>>
      /\ \/ UNCHANGED <<stories, unsanitized, coverage>>
         \/ \E ids \in SUBSET DOMAIN stories : Rewrite(ids)
  BY DEF Repair, Goto
<1>2. /\ reqs \in Seq(Requirement) /\ Single(reqs, stories) /\ Plain(coverage)
      /\ Covers(reqs, stories, coverage, unsanitized)
  BY <1>1 DEF Sound, Shape, StoriesOK, Single, Told, CoverageIsTrue, Covers, Agree, Tells
<1>3. /\ Single(reqs, stories') /\ Plain(coverage')
      /\ Covers(reqs, stories', coverage', unsanitized')
  <2>1. CASE UNCHANGED <<stories, unsanitized, coverage>>
    BY <1>2, <2>1
  <2>2. ASSUME NEW ids \in SUBSET DOMAIN stories, Rewrite(ids)
        PROVE  /\ Single(reqs, stories') /\ Plain(coverage')
               /\ Covers(reqs, stories', coverage', unsanitized')
    <3>1. PICK defective, supported :
            stories' =
               [s \in DOMAIN stories |->
                  [links |-> Sanitized(stories[s].links, supported, DOMAIN reqs),
                   defective |-> IF s \in ids \/ unsanitized THEN s \in defective
                                 ELSE stories[s].defective]]
      BY <2>2 DEF Rewrite
    <3>2. ASSUME NEW s \in DOMAIN stories
          PROVE  Sanitized(stories[s].links, supported, DOMAIN reqs) = {s}
      <4>1. stories[s].links = {s} /\ s \in DOMAIN reqs /\ s \in Nat
        BY <1>2 DEF Single, ToGenerate
      <4>2. {s} \cap DOMAIN reqs = {s} /\ First({s}) = s
        BY <4>1, FirstOfOne
      <4> QED BY <4>1, <4>2 DEF Sanitized
    <3>3. Single(reqs, stories')
      BY <1>2, <3>1, <3>2 DEF Single
    <3>4. \A i : Linking(stories', i) = Linking(stories, i)
      BY <1>2, <3>3, LinkingOne
    <3>5. \A row \in coverage : Tells(stories', row)
      BY <1>2, <3>4 DEF Covers, Tells
    <3>6. /\ Covers(reqs, stories', Rebuilt(reqs, stories', coverage), unsanitized')
          /\ Plain(Rebuilt(reqs, stories', coverage))
      BY <1>2, <3>3, <3>5, RebuiltCovers DEF Covers
    <3> QED BY <2>2, <3>3, <3>6 DEF Rewrite
  <2> QED BY <1>1, <2>1, <2>2
<1>4. ASSUME reqs = <<>> PROVE stories' = <<>>
  <2>1. stories = <<>>
    BY <1>4 DEF Sound, Shape
  <2>2. ASSUME NEW ids \in SUBSET DOMAIN stories, Rewrite(ids) PROVE stories' = <<>>
    <3>1. DOMAIN stories = {}
      BY <2>1
    <3> QED BY <2>2, <3>1 DEF Rewrite
  <2> QED BY <1>1, <2>1, <2>2
<1>5. Shape' /\ StoriesOK' /\ ResultOK'
  BY <1>1, <1>3, <1>4 DEF Sound, Shape, StoriesOK, Plain, ResultOK, Single, Nodes, Unread, Fresh, Told
<1>6. SourcesOK'
  BY <1>1 DEF Sound, SourcesOK, Fresh, SomeAre, input
<1>7. CoverageIsTrue'
  <2>1. Covers(reqs, stories, coverage, unsanitized)'
    BY <1>1, <1>3 DEF Covers, Agree, Tells, Linking
  <2> QED BY <2>1 DEF CoverageIsTrue, Covers, Agree, Tells
<1>8. IssuesOK'
  BY <1>1 DEF Sound, IssuesOK
<1> QED BY <1>5, <1>6, <1>7, <1>8 DEF Sound

LEMMA FormatStep == Sound /\ Format => Sound'
<1> SUFFICES ASSUME Sound, Format PROVE Sound'
  OBVIOUS
<1>1. /\ node = "format" /\ node' = "done" /\ result' = Status
      /\ UNCHANGED <<input, work, history>>
  BY DEF Format, Goto
<1> USE <1>1 DEF Sound, input, work, history
<1>2. Shape' /\ StoriesOK'
  BY DEF Shape, StoriesOK, Plain, Nodes, Unread, Fresh, Told
<1>3. SourcesOK'
  BY DEF SourcesOK, Failed, Fresh, SomeAre
<1>4. CoverageIsTrue' /\ IssuesOK'
  BY DEF CoverageIsTrue, IssuesOK, Unverified
<1>5. ResultOK'
  BY DEF ResultOK, Status, Fatal
<1> QED BY <1>2, <1>3, <1>4, <1>5

LEMMA SoundStep == Sound /\ [Next]_vars => Sound'
<1> SUFFICES ASSUME Sound, [Next]_vars PROVE Sound'
  OBVIOUS
<1>1. CASE UNCHANGED vars
  <2> USE <1>1 DEF Sound, vars, input, work, history
  <2>1. Shape' /\ StoriesOK' /\ SourcesOK'
    BY DEF Shape, StoriesOK, Plain, SourcesOK, Failed, SomeAre
  <2>2. CoverageIsTrue' /\ IssuesOK' /\ ResultOK'
    BY DEF CoverageIsTrue, Linking, IssuesOK, Unverified, ResultOK, Status, Fatal
  <2> QED BY <2>1, <2>2
<1> QED BY <1>1, DetectStep, PrepareStep, PassStep, ExtractStep, DedupeStep, ClassifyStep,
           GroundStep, GenerateStep, GateStep, RepairStep, FormatStep DEF Next

\* What the router, the nodes and the models do keeps the state sound.
THEOREM StateIsSound == Spec => []Sound
  BY SoundInit, SoundStep, PTL DEF Spec

\* The four properties follow from the state being sound.
LEMMA SoundSays ==
    Sound => CompletedMeansVerified /\ CoverageIsTrue /\ OnePrimaryRequirement /\ FailureIsReported
<1> SUFFICES ASSUME Sound
             PROVE  CompletedMeansVerified /\ OnePrimaryRequirement /\ FailureIsReported
  BY DEF Sound
<1>1. OnePrimaryRequirement
  BY DEF Sound, Shape, StoriesOK, Plain, OnePrimaryRequirement
<1>2. FailureIsReported
  <2> SUFFICES ASSUME node = "done" PROVE result = "failed" <=> Failed \/ chunks = "failed"
    BY DEF FailureIsReported, Failed
  <2>1. result = Status
    BY DEF Sound, ResultOK
  <2>2. CASE useful
    <3>1. ~Failed
      <4>1. SomeAre("ready", given, outcome) /\ InputOf(<<>>) = {}
        BY <2>2, EmptyList DEF Sound, SourcesOK, Fresh
      <4> QED BY <4>1 DEF Failed, SomeAre
    <3>2. Status = "failed" <=> err # "none" /\ stories = <<>> /\ reqs = <<>>
      BY <2>2 DEF Status
    <3>3. err # "none" /\ stories = <<>> /\ reqs = <<>> <=> chunks = "failed"
      BY <2>2 DEF Sound, SourcesOK, Shape, Fresh
    <3> QED BY <2>1, <3>1, <3>2, <3>3
  <2>3. CASE ~useful
    BY <2>1, <2>3 DEF Status, Sound, SourcesOK, Fresh
  <2> QED BY <2>2, <2>3
<1>3. CompletedMeansVerified
  <2> SUFFICES ASSUME result = "completed"
               PROVE  /\ ~SomeAre("failed", given, outcome) /\ reqs # <<>>
                      /\ \A i \in Actionable(reqs) :
                            /\ ~reqs[i].conflict
                            /\ reqs[i].special = {} =>
                                  reqs[i].evidence /\ Linking(stories, i) # {}
    BY DEF CompletedMeansVerified
  <2>1. node = "done" /\ Status = "completed"
    BY DEF Sound, ResultOK
  <2>2. useful /\ reqs # <<>> /\ ~lossy /\ Fatal = {}
    BY <2>1 DEF Status
  <2>3. ~SomeAre("failed", given, outcome)
    BY <2>1, <2>2 DEF Sound, SourcesOK, Fresh
  <2>4. ASSUME NEW i \in Actionable(reqs) PROVE ~reqs[i].conflict
    <3>1. [rule |-> "semantic_conflict", item |-> i] \notin issues
      BY <2>2 DEF Fatal
    <3> QED BY <3>1 DEF Sound, IssuesOK, Actionable
  <2>5. ASSUME NEW i \in Actionable(reqs), reqs[i].special = {}
        PROVE  reqs[i].evidence /\ Linking(stories, i) # {}
    <3>1. [rule |-> "missing_evidence", item |-> i] \notin issues
      BY <2>2 DEF Fatal
    <3>2. i \in DOMAIN reqs /\ reqs[i].evidence /\ Disposition(reqs[i]) = "accepted"
      BY <2>1, <2>5, <3>1 DEF Sound, IssuesOK, Unverified, Actionable
    <3>3. i \in ToGenerate(reqs)
      BY <2>5, <3>2 DEF ToGenerate, Treatment
    <3> QED BY <2>1, <3>2, <3>3 DEF Sound, StoriesOK, Told, Linking
  <2> QED BY <2>2, <2>3, <2>4, <2>5
<1> QED BY <1>1, <1>2, <1>3

\* Whatever the models answer, a completed result lost no source, and what it
\* promises is verified, without conflict and has a story.
THEOREM CompletedIsVerified == Spec => []CompletedMeansVerified
  BY StateIsSound, SoundSays, PTL

\* The coverage tells the truth about the stories whenever it is looked at: one
\* row for each requirement, or after a total fallback two that name its story.
THEOREM CoverageStaysTrue == Spec => []CoverageIsTrue
  BY StateIsSound, SoundSays, PTL

\* A story is for one requirement, whatever was proposed, merged and repaired.
THEOREM OnePrimary == Spec => []OnePrimaryRequirement
  BY StateIsSound, SoundSays, PTL

\* A result says it failed exactly when there was nothing to work with.
THEOREM FailuresAreReported == Spec => []FailureIsReported
  BY StateIsSound, SoundSays, PTL

----------------------------------------------------------------------------
(* Progress.                                                               *)

\* Attempts are left when repair begins, and there is something to repair.
Looping ==
    /\ attempts \in Nat /\ attempts <= MaxRepairs
    /\ RepairIsDue

\* What each kind of step does to the node and the attempts.
LEMMA StepGoesOn ==
    ASSUME Sound, Looping, Next
    PROVE  \/ /\ attempts' = attempts
              /\ <<node, node'>> \in
                    {<<"detect_file_type", "prepare_sources">>,
                     <<"prepare_sources", "format">>,
                     <<"prepare_sources", "build_source_index">>,
                     <<"build_source_index", "extract">>,
                     <<"extract", "dedupe_requirements">>,
                     <<"dedupe_requirements", "retrieve_evidence">>,
                     <<"retrieve_evidence", "classify">>,
                     <<"classify", "evidence_grounding">>,
                     <<"evidence_grounding", "generate">>,
                     <<"generate", "quality_gate">>,
                     <<"quality_gate", "summarize">>,
                     <<"summarize", "format">>, <<"format", "done">>}
           \/ /\ attempts' = attempts /\ attempts < MaxRepairs
              /\ node = "quality_gate" /\ node' = "repair_stories"
              /\ flagged' # {} /\ flagged' \subseteq DOMAIN stories'
           \/ /\ attempts' = attempts + 1
              /\ node = "repair_stories" /\ node' = "quality_gate"
<1> USE DEF Goto, work
<1>1. CASE Detect
  BY <1>1 DEF Detect
<1>2. CASE Prepare
  BY <1>2 DEF Prepare, Receive
<1>3. CASE Pass("build_source_index", "extract") \/ Pass("retrieve_evidence", "classify")
           \/ Pass("summarize", "format")
  BY <1>3 DEF Pass
<1>4. CASE Extract \/ Dedupe \/ Classify \/ Ground
  BY <1>4 DEF Extract, Dedupe, Classify, Ground
<1>5. CASE Generate
  BY <1>5 DEF Generate
<1>6. CASE Gate
  <2>1. /\ node = "quality_gate" /\ UNCHANGED <<attempts, stories>>
        /\ flagged' = {s \in DOMAIN stories : stories[s].defective}
        /\ node' = IF MayRepair(flagged') THEN "repair_stories" ELSE "summarize"
    BY <1>6 DEF Gate
  <2>2. flagged' \subseteq DOMAIN stories'
    BY <2>1
  <2> QED BY <2>1, <2>2 DEF MayRepair
<1>7. CASE Repair
  BY <1>7 DEF Repair
<1>8. CASE Format
  BY <1>8 DEF Format
<1> QED BY <1>1, <1>2, <1>3, <1>4, <1>5, <1>6, <1>7, <1>8 DEF Next

LEMMA LoopingStep == Sound /\ Looping /\ [Next]_vars => Looping'
<1> SUFFICES ASSUME Sound, Looping, [Next]_vars PROVE Looping'
  OBVIOUS
<1>0. attempts \in Nat /\ MaxRepairs \in Nat /\ attempts <= MaxRepairs
  BY BoundsAssumption DEF Looping
<1>1. CASE UNCHANGED vars
  BY <1>1 DEF vars, work, Looping, RepairIsDue
<1>2. ASSUME attempts' = attempts, node' # "repair_stories" PROVE Looping'
  BY <1>0, <1>2 DEF Looping, RepairIsDue
<1>3. ASSUME attempts' = attempts, attempts < MaxRepairs, flagged' # {},
             flagged' \subseteq DOMAIN stories'
      PROVE  Looping'
  BY <1>0, <1>3 DEF Looping, RepairIsDue
<1>4. ASSUME attempts' = attempts + 1, node = "repair_stories", node' = "quality_gate"
      PROVE  Looping'
  <2>1. attempts < MaxRepairs
    BY <1>4 DEF Looping, RepairIsDue
  <2> QED BY <1>0, <1>4, <2>1 DEF Looping, RepairIsDue
<1>5. CASE Next
  <2>1. \/ attempts' = attempts /\ node' # "repair_stories"
        \/ /\ attempts' = attempts /\ attempts < MaxRepairs
           /\ flagged' # {} /\ flagged' \subseteq DOMAIN stories'
        \/ /\ attempts' = attempts + 1
           /\ node = "repair_stories" /\ node' = "quality_gate"
    BY <1>5, StepGoesOn
  <2> QED BY <1>2, <1>3, <1>4, <2>1
<1> QED BY <1>1, <1>5

LEMMA LoopingInit == Init => Looping
  BY BoundsAssumption DEF Init, Looping, RepairIsDue

\* For any number of repairs: the loop is entered only with a defect and an attempt
\* left.
THEOREM RepairsAreDue == Spec => []RepairIsDue
<1>1. Looping => RepairIsDue
  BY DEF Looping
<1> QED BY <1>1, SoundInit, SoundStep, LoopingInit, LoopingStep, PTL DEF Spec

LEMMA Places ==
    /\ Place["detect_file_type"] = 0 /\ Place["prepare_sources"] = 1
    /\ Place["build_source_index"] = 2 /\ Place["extract"] = 3
    /\ Place["dedupe_requirements"] = 4 /\ Place["retrieve_evidence"] = 5
    /\ Place["classify"] = 6 /\ Place["evidence_grounding"] = 7
    /\ Place["generate"] = 8 /\ Place["quality_gate"] = 9
    /\ Place["repair_stories"] = 10 /\ Place["summarize"] = 11
    /\ Place["format"] = 12 /\ Place["done"] = 13
  BY DEF Place

LEMMA NextAdvances ==
    ASSUME Sound, Looping, Next
    PROVE  Progress < Progress' /\ Progress' <= 13 + 2 * MaxRepairs
<1>0. attempts \in Nat /\ MaxRepairs \in Nat /\ attempts <= MaxRepairs
  BY BoundsAssumption DEF Looping
<1> DEFINE late == {"summarize", "format", "done"}
<1>1. /\ Progress = Place[node] + 2 * (IF node \in late THEN MaxRepairs ELSE attempts)
      /\ Progress' = Place[node'] + 2 * (IF node' \in late THEN MaxRepairs ELSE attempts')
  BY DEF Progress, Place
<1>2. ASSUME attempts' = attempts, Place[node] \in Nat, Place[node'] \in Nat,
             Place[node] < Place[node'], Place[node'] <= 13, node \in late => node' \in late
      PROVE  Progress < Progress' /\ Progress' <= 13 + 2 * MaxRepairs
  BY <1>0, <1>1, <1>2
<1>3. ASSUME attempts' = attempts + 1, attempts < MaxRepairs,
             node = "repair_stories", node' = "quality_gate"
      PROVE  Progress < Progress' /\ Progress' <= 13 + 2 * MaxRepairs
  BY <1>0, <1>1, <1>3, Places
<1>4. CASE attempts' = attempts + 1 /\ node = "repair_stories" /\ node' = "quality_gate"
  <2>1. attempts < MaxRepairs
    BY <1>4 DEF Looping, RepairIsDue
  <2> QED BY <1>3, <1>4, <2>1
<1>5. CASE ~(attempts' = attempts + 1 /\ node = "repair_stories" /\ node' = "quality_gate")
  <2>1. /\ attempts' = attempts
        /\ <<node, node'>> \in
              {<<"detect_file_type", "prepare_sources">>,
               <<"prepare_sources", "format">>,
               <<"prepare_sources", "build_source_index">>,
               <<"build_source_index", "extract">>,
               <<"extract", "dedupe_requirements">>,
               <<"dedupe_requirements", "retrieve_evidence">>,
               <<"retrieve_evidence", "classify">>,
               <<"classify", "evidence_grounding">>,
               <<"evidence_grounding", "generate">>,
               <<"generate", "quality_gate">>,
               <<"quality_gate", "summarize">>,
               <<"quality_gate", "repair_stories">>,
               <<"summarize", "format">>, <<"format", "done">>}
    BY <1>5, StepGoesOn
  <2>2. /\ Place[node] \in Nat /\ Place[node'] \in Nat
        /\ Place[node] < Place[node'] /\ Place[node'] <= 13
        /\ node \in late => node' \in late
    BY <2>1, Places
  <2> QED BY <1>2, <2>1, <2>2
<1> QED BY <1>4, <1>5

\* For any number of repairs: no step takes the execution back, and at 13 plus two
\* for each repair it is at its end.
THEOREM StepsAdvance == Spec => EveryStepAdvances
<1>1. Sound /\ Looping /\ [Next]_vars =>
        [Progress < Progress' /\ Progress' <= 13 + 2 * MaxRepairs]_vars
  BY NextAdvances
<1> QED BY <1>1, SoundInit, SoundStep, LoopingInit, LoopingStep, PTL
        DEF Spec, EveryStepAdvances
=============================================================================
