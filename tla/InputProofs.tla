----------------------------- MODULE InputProofs -----------------------------
(***************************************************************************)
(* Proofs about the input of a job, from the request to the worker.        *)
(* About Submission, for any files, references, texts and limits: what is  *)
(* admitted has the ids it was sent with, the inspection refuses it for    *)
(* nothing but the length of its recordings, and a resubmission that is    *)
(* recognized is one of the same sources. About Artifacts, for any         *)
(* documents, callers, executions and faults: a manifest is complete or    *)
(* absent, an input that was checked is whole, and executions get into     *)
(* each other's way only if their saves overlap.                           *)
(***************************************************************************)
EXTENDS Artifacts, Submission, FiniteSetTheorems, WellFoundedInduction, TLAPS

----------------------------------------------------------------------------
(* Artifacts: completeness.                                                *)

Refs(rows) == {w.ref : w \in rows}
Complete(rows) == Refs(rows) = SubmittedRefs(kind)

\* The stages in which an execution has references to work with.
Working == {"fetch", "start", "prepare", "documents", "saveDocuments",
            "chunks", "saveChunks", "graph"}

Shape ==
    /\ kind \in Kinds
    /\ DOMAIN pc = Actors /\ DOMAIN seen = Actors
    /\ DOMAIN known = Executions /\ DOMAIN items = Executions

\* What a recovery can find is complete or absent.
SourcesOK ==
    /\ cache \in {Miss, Stashed(kind)}
    /\ manifest # {} => Complete(manifest)

\* The rows a save is about to delete were submitted, so it learns nothing
\* else from them.
SeenOK == \A e \in Executions :
    pc[e] = "saveDocuments" => Refs(seen[e]) \subseteq SubmittedRefs(kind)

KnownOK == \A e \in Executions : pc[e] \in Working => Complete(known[e])

WholeItems(set) ==
    OfBytes(kind) /\ set # {} =>
        \A d \in Hashed :
            /\ \E i \in set : i.doc = d
            /\ \A i \in set : i.doc = d => i.content = "original"

ItemsOK == \A e \in Executions : WholeItems(items[e])

Whole == Shape /\ (kind # "text" => SourcesOK /\ SeenOK /\ KnownOK /\ ItemsOK)

----------------------------------------------------------------------------
(* Artifacts: what the operators do.                                       *)

LEMMA SubmittedIsNotEmpty ==
    ASSUME kind # "text"
    PROVE  /\ SubmittedRefs(kind) = {Ref(d) : d \in Docs}
           /\ SubmittedRefs(kind) # {}
BY DocsAssumption DEF SubmittedRefs

LEMMA RefFields ==
    ASSUME NEW d
    PROVE  Ref(d).doc = d /\ (Ref(d).hashed <=> d \in Hashed)
<1>1. Ref(d).doc = d
  BY DEF Ref
<1>2. Ref(d).hashed = (d \in Hashed)
  BY Zenon DEF Ref
<1> QED BY <1>1, <1>2

\* A reference with a checksum yields what was submitted or nothing.
LEMMA ChecksumHolds ==
    ASSUME OfBytes(kind), NEW ref, ref.hashed, NEW x \in Answers(kind, ref)
    PROVE  x \in {"refused", "original"}
BY DEF Answers, FetchBytes

\* A download that is not refused brings every checked document as it was.
LEMMA DownloadIsWhole ==
    ASSUME NEW rows, Complete(rows), kind \in Kinds, OfBytes(kind),
           NEW reply, DOMAIN reply = rows,
           \A w \in rows : reply[w] \in Answers(kind, w.ref),
           ~DownloadFails(kind, reply)
    PROVE  WholeItems(FetchedItems(rows, reply))
<1>1. kind # "text"
  BY DEF OfBytes
<1>2. \A w \in rows : w.ref \in {Ref(d) : d \in Docs}
  BY <1>1, SubmittedIsNotEmpty DEF Complete, Refs
<1>3. ASSUME NEW w \in rows, w.ref.doc \in Hashed PROVE reply[w] = "original"
  <2>1. PICK d \in Docs : w.ref = Ref(d)
    BY <1>2
  <2>2. w.ref.hashed
    BY <1>3, <2>1, RefFields
  <2>3. reply[w] \in {"refused", "original"}
    BY <2>2, ChecksumHolds
  <2> QED BY <2>3 DEF DownloadFails
<1>4. ASSUME NEW d \in Hashed
      PROVE  /\ \E i \in FetchedItems(rows, reply) : i.doc = d
             /\ \A i \in FetchedItems(rows, reply) : i.doc = d => i.content = "original"
  <2>1. Ref(d) \in SubmittedRefs(kind)
    BY <1>1, SubmittedIsNotEmpty, DocsAssumption
  <2>2. PICK w \in rows : w.ref = Ref(d)
    BY <2>1 DEF Complete, Refs
  <2>3. w.ref.doc = d
    BY <2>2 DEF Ref
  <2>4. reply[w] = "original"
    BY <1>3, <2>3
  <2>5. [doc |-> w.ref.doc, copy |-> w.copy, content |-> reply[w]] \in FetchedItems(rows, reply)
    BY <2>4 DEF FetchedItems
  <2>6. \E i \in FetchedItems(rows, reply) : i.doc = d
    BY <2>3, <2>5
  <2>7. ASSUME NEW i \in FetchedItems(rows, reply), i.doc = d PROVE i.content = "original"
    <3>1. PICK v \in rows : i = [doc |-> v.ref.doc, copy |-> v.copy, content |-> reply[v]]
      BY DEF FetchedItems
    <3> QED BY <1>3, <2>7, <3>1
  <2> QED BY <2>6, <2>7
<1> QED BY <1>4 DEF WholeItems

\* The references of rows made from references.
LEMMA RefsOfRows ==
    ASSUME NEW S, NEW n
    PROVE  Refs({[ref |-> r, copy |-> n] : r \in S}) = S
<1> DEFINE rows == {[ref |-> r, copy |-> n] : r \in S}
<1>1. ASSUME NEW w \in rows PROVE w.ref \in S
  OBVIOUS
<1>2. ASSUME NEW r \in S PROVE \E w \in rows : w.ref = r
  <2>1. [ref |-> r, copy |-> n] \in rows
    OBVIOUS
  <2> QED BY <2>1
<1> QED BY <1>1, <1>2 DEF Refs

\* What an execution writes into the manifest is what was submitted.
LEMMA DocumentRowsComplete ==
    ASSUME Shape, NEW e \in Executions, NEW n, kind # "text",
           Complete(known[e]), Refs(seen[e]) \subseteq SubmittedRefs(kind)
    PROVE  Complete(DocumentRows(e, n))
<1>1. StateRefs(e) = SubmittedRefs(kind)
  <2>1. known[e] # {}
    BY SubmittedIsNotEmpty DEF Complete, Refs
  <2> QED BY <2>1 DEF StateRefs, Complete, Refs
<1>2. ASSUME NEW r \in SubmittedRefs(kind)
      PROVE  [r EXCEPT !.hashed = r.hashed \/
                 \E w \in seen[e] : w.ref.doc = r.doc /\ w.ref.hashed] = r
  <2> DEFINE kept == \E w \in seen[e] : w.ref.doc = r.doc /\ w.ref.hashed
  <2> HIDE DEF kept
  <2>1. PICK d \in Docs : r = Ref(d)
    BY SubmittedIsNotEmpty
  <2>2. r.doc = d /\ (r.hashed <=> d \in Hashed)
    BY <2>1, RefFields
  <2>3. ASSUME NEW w \in seen[e], w.ref.doc = d, w.ref.hashed PROVE d \in Hashed
    <3>1. w.ref \in SubmittedRefs(kind)
      BY DEF Refs
    <3>2. PICK c \in Docs : w.ref = Ref(c)
      BY <3>1, SubmittedIsNotEmpty
    <3> QED BY <2>3, <3>2, RefFields
  <2>4. kept => d \in Hashed
    BY <2>2, <2>3 DEF kept
  <2>5. (r.hashed \/ kept) = (d \in Hashed)
    <3>1. CASE d \in Hashed
      BY <2>2, <3>1
    <3>2. CASE d \notin Hashed
      BY <2>2, <2>4, <3>2
    <3> QED BY <3>1, <3>2
  <2>6. r = [doc |-> d, hashed |-> d \in Hashed]
    BY <2>1 DEF Ref
  <2>7. [r EXCEPT !.hashed = r.hashed \/ kept] = [doc |-> d, hashed |-> d \in Hashed]
    BY <2>5, <2>6
  <2>8. [r EXCEPT !.hashed = r.hashed \/ kept] = r
    BY <2>6, <2>7, Zenon
  <2> QED BY <2>8 DEF kept
<1>3. DocumentRows(e, n) = {[ref |-> r, copy |-> n] : r \in SubmittedRefs(kind)}
  BY <1>1, <1>2 DEF DocumentRows
<1> QED BY <1>3, RefsOfRows DEF Complete

\* A save leaves a complete manifest complete and makes an empty one complete.
LEMMA ReplacedComplete ==
    ASSUME NEW a, NEW new, Complete(new), manifest # {} => Complete(manifest)
    PROVE  Complete(Replaced(a, manifest, new))
BY DEF Complete, Refs, Replaced

----------------------------------------------------------------------------
(* Artifacts: the invariant.                                               *)

LEMMA WholeInit == Init => Whole
BY DEF Init, Whole, Shape, SourcesOK, SeenOK, KnownOK, ItemsOK, WholeItems,
       Working, Miss, Actors

LEMMA WholeStep == Whole /\ [Next]_vars => Whole'
<1> SUFFICES ASSUME Whole, [Next]_vars PROVE Whole'
  OBVIOUS
<1> USE ActorsAssumption DEF Whole, Shape, Actors
<1>1. CASE UNCHANGED vars
  BY <1>1 DEF vars, row, tables, work, counters, SourcesOK, SeenOK, KnownOK, ItemsOK,
              Complete, WholeItems
<1>2. ASSUME NEW c \in Callers, Api(c) PROVE Whole'
  <2> USE DEF Goto, work, tables, row, counters, SourcesOK, SeenOK, KnownOK, ItemsOK, Complete,
              WholeItems
  <2>0. c \notin Executions
    OBVIOUS
  <2>1. CASE Submit(c)
    BY <2>0, <2>1 DEF Submit
  <2>2. CASE Reprocess(c) \/ Retry(c)
    BY <2>0, <2>2 DEF Reprocess, Retry, Requeue
  <2>3. CASE BeginManifest(c)
    BY <2>0, <2>3 DEF BeginManifest, BeginSave
  <2>4. CASE CommitManifest(c)
    <3> DEFINE new == {[ref |-> r, copy |-> Fresh] : r \in SubmittedRefs(kind)}
    <3>1. CASE GiveUp(c)
      BY <2>0, <3>1 DEF GiveUp, Fault
    <3>2. CASE ~GiveUp(c)
      <4>1. Complete(new)
        <5>1. \A w \in new : w.ref \in SubmittedRefs(kind)
          OBVIOUS
        <5>2. ASSUME NEW r \in SubmittedRefs(kind) PROVE \E w \in new : w.ref = r
          <6>1. [ref |-> r, copy |-> Fresh] \in new
            OBVIOUS
          <6> QED BY <6>1
        <5> HIDE DEF new
        <5> QED BY <5>1, <5>2 DEF Refs
      <4> HIDE DEF new
      <4>2. manifest' = Replaced(c, manifest, new)
        BY <2>4, <3>2 DEF CommitManifest, new
      <4>3. kind # "text" => Complete(manifest')
        BY <4>1, <4>2, ReplacedComplete
      <4> QED BY <2>0, <2>4, <3>2, <4>3 DEF CommitManifest
    <3> QED BY <3>1, <3>2
  <2>5. CASE Stash(c)
    BY <2>0, <2>5 DEF Stash, GiveUp, Fault
  <2>6. CASE Enqueue(c)
    BY <2>0, <2>6 DEF Enqueue, GiveUp, Fault
  <2> QED BY <1>2, <2>1, <2>2, <2>3, <2>4, <2>5, <2>6 DEF Api
<1>3. ASSUME NEW e \in Executions, Recover(e) PROVE Whole'
  <2> USE DEF Goto, work, tables, row, counters, SourcesOK, SeenOK, KnownOK, ItemsOK
  <2>1. CASE Take(e)
    <3>1. PICK entry \in {cache, Miss} :
            /\ known' = [known EXCEPT ![e] = {[ref |-> r, copy |-> 0] : r \in entry.refs}]
            /\ IF entry.content
               THEN items' = [items EXCEPT ![e] = InlineItems(kind)] /\ Goto(e, "start")
               ELSE /\ Goto(e, IF entry.refs = {} THEN "readManifest" ELSE "fetch")
                    /\ UNCHANGED items
      BY <2>1 DEF Take
    <3>2. UNCHANGED <<kind, cache, manifest, seen>>
      BY <2>1 DEF Take
    <3>3. ASSUME kind # "text" PROVE Whole'
      <4>1. entry \in {Miss, Stashed(kind)}
        BY <3>3
      <4>2. known'[e] = {[ref |-> r, copy |-> 0] : r \in entry.refs}
        BY <3>1
      <4>3. entry = Stashed(kind) => Complete(known'[e])
        <5>1. Refs(known'[e]) = entry.refs
          <6> DEFINE given == {[ref |-> r, copy |-> 0] : r \in entry.refs}
          <6>1. \A w \in given : w.ref \in entry.refs
            OBVIOUS
          <6>2. ASSUME NEW r \in entry.refs PROVE \E w \in given : w.ref = r
            <7>1. [ref |-> r, copy |-> 0] \in given
              OBVIOUS
            <7> QED BY <7>1
          <6>3. known'[e] = given
            BY <4>2
          <6> HIDE DEF given
          <6> QED BY <6>1, <6>2, <6>3 DEF Refs
        <5> QED BY <5>1 DEF Stashed, Complete
      <4>4. entry = Miss => entry.refs = {} /\ ~entry.content
        BY DEF Miss
      <4>5. WholeItems(InlineItems(kind))
        <5> SUFFICES ASSUME OfBytes(kind), NEW d \in Hashed
                     PROVE  /\ \E i \in InlineItems(kind) : i.doc = d
                            /\ \A i \in InlineItems(kind) : i.doc = d => i.content = "original"
          BY DEF WholeItems
        <5>1. [doc |-> d, copy |-> 0, content |-> "original"] \in InlineItems(kind)
          BY DocsAssumption DEF InlineItems
        <5>2. \A i \in InlineItems(kind) : i.content = "original"
          BY DEF InlineItems
        <5> QED BY <5>1, <5>2
      <4>6. ASSUME NEW f \in Executions, pc'[f] \in Working PROVE Complete(known[f])'
        <5>1. CASE f = e
          <6>1. entry # Miss
            BY <3>1, <4>4, <4>6, <5>1 DEF Working
          <6> QED BY <3>2, <4>1, <4>3, <5>1, <6>1 DEF Complete
        <5>2. CASE f # e
          BY <3>1, <3>2, <3>3, <4>6, <5>2 DEF Complete
        <5> QED BY <5>1, <5>2
      <4>7. ASSUME NEW f \in Executions PROVE WholeItems(items[f])'
        BY <3>1, <3>2, <3>3, <4>5 DEF WholeItems
      <4>8. ASSUME NEW f \in Executions PROVE pc'[f] = "saveDocuments" => pc[f] = "saveDocuments"
        BY <3>1
      <4> QED BY <3>1, <3>2, <3>3, <4>6, <4>7, <4>8 DEF Complete
    <3> QED BY <3>1, <3>2, <3>3
  <2>2. CASE ReadManifest(e)
    BY <2>2 DEF ReadManifest, Working, Complete, WholeItems
  <2>3. CASE Fetch(e)
    <3>1. PICK reply \in [known[e] -> {"original", "changed", "empty", "refused"}] :
            /\ \A w \in known[e] : reply[w] \in Answers(kind, w.ref)
            /\ \/ Goto(e, "callback") /\ UNCHANGED items
               \/ /\ OfBytes(kind) => ~DownloadFails(kind, reply)
                  /\ items' = [items EXCEPT ![e] = FetchedItems(known[e], reply)]
                  /\ Goto(e, IF FetchedItems(known[e], reply) = {} THEN "fallback" ELSE "start")
      BY <2>3 DEF Fetch, Fail
    <3>2. UNCHANGED <<kind, cache, manifest, seen, known>> /\ pc[e] = "fetch"
      BY <2>3 DEF Fetch
    <3>3. ASSUME kind # "text" PROVE Whole'
      <4>1. Complete(known[e])
        BY <3>2, <3>3 DEF Working
      <4>2. OfBytes(kind) /\ ~DownloadFails(kind, reply)
                => WholeItems(FetchedItems(known[e], reply))
        BY <3>1, <4>1, DownloadIsWhole
      <4>3. ASSUME NEW f \in Executions PROVE WholeItems(items[f])'
        BY <3>1, <3>2, <3>3, <4>2 DEF WholeItems
      <4>4. ASSUME NEW f \in Executions, pc'[f] \in Working PROVE Complete(known[f])'
        BY <3>1, <3>2, <3>3, <4>1, <4>4 DEF Complete, Working
      <4>5. ASSUME NEW f \in Executions PROVE pc'[f] = "saveDocuments" => pc[f] = "saveDocuments"
        BY <3>1
      <4> QED BY <3>1, <3>2, <3>3, <4>3, <4>4, <4>5 DEF Complete
    <3> QED BY <3>1, <3>2, <3>3
  <2>4. CASE FallBack(e)
    BY <2>4 DEF FallBack, Fail, ItemsOfChunks, Working, Complete, WholeItems
  <2> QED BY <1>3, <2>1, <2>2, <2>3, <2>4 DEF Recover
<1>4. ASSUME NEW e \in Executions, Persist(e) PROVE Whole'
  <2> USE DEF Goto, work, tables, row, counters, SourcesOK, SeenOK, KnownOK, ItemsOK, Complete, WholeItems
  <2>1. CASE BeginDocuments(e)
    <3>1. kind # "text" => Refs(manifest) \subseteq SubmittedRefs(kind)
      BY DEF Refs
    <3> QED BY <2>1, <3>1 DEF BeginDocuments, BeginSave, Working
  <2>2. CASE CommitDocuments(e)
    <3> HIDE DEF Complete
    <3>1. kind # "text" => Complete(DocumentRows(e, Fresh))
      BY <2>2, DocumentRowsComplete DEF CommitDocuments, Working
    <3>2. kind # "text" => (manifest' # {} => Complete(manifest'))
      BY <2>2, <3>1, ReplacedComplete DEF CommitDocuments
    <3> QED BY <2>2, <3>2 DEF CommitDocuments, Working, Complete
  <2>3. CASE BeginChunks(e)
    BY <2>3 DEF BeginChunks, BeginSave, Working
  <2>4. CASE CommitChunks(e)
    BY <2>4 DEF CommitChunks, Working
  <2>5. CASE BeginResult(e)
    BY <2>5 DEF BeginResult, BeginSave, Forget, Working
  <2>6. CASE CommitResult(e)
    BY <2>6 DEF CommitResult, Fail, Working
  <2> QED BY <1>4, <2>1, <2>2, <2>3, <2>4, <2>5, <2>6 DEF Persist
<1>5. ASSUME NEW e \in Executions, Execute(e) PROVE Whole'
  <2> USE DEF Goto, work, tables, row, counters, SourcesOK, SeenOK, KnownOK, ItemsOK, Complete, WholeItems
  <2>1. CASE Start(e)
    BY <2>1 DEF Start, Forget, Working
  <2>2. CASE Prepare(e)
    BY <2>2 DEF Prepare, Working
  <2>3. CASE RunGraph(e)
    BY <2>3 DEF RunGraph, Forget, Working
  <2>4. CASE Interrupt(e)
    BY <2>4 DEF Interrupt, Fail, Forget, Working
  <2>5. CASE WriteOutcome(e)
    BY <2>5 DEF WriteOutcome, Working
  <2>6. CASE Callback(e)
    BY <2>6 DEF Callback, Working
  <2> QED BY <1>5, <2>1, <2>2, <2>3, <2>4, <2>5, <2>6 DEF Execute
<1>6. CASE Cancel \/ Expire
  BY <1>6 DEF Cancel, Expire, work, tables, row, counters, SourcesOK, SeenOK, KnownOK, ItemsOK,
              Complete, WholeItems
<1> QED BY <1>1, <1>2, <1>3, <1>4, <1>5, <1>6 DEF Next

\* The invariant holds in every reachable state; the next two theorems are read
\* off it.
THEOREM Wholeness == Spec => []Whole
<1> QED BY WholeInit, WholeStep, PTL DEF Spec

\* Once a job with source documents has a manifest it names every document of
\* the submission with its checksum, so a retry after the cache expired works
\* from all of them (save_documents, persist_source_documents_and_chunks).
THEOREM ManifestStaysComplete == Spec => []ManifestIsComplete
<1>1. Whole => ManifestIsComplete
  BY DEF Whole, SourcesOK, Complete, Refs, ManifestIsComplete
<1> QED BY <1>1, Wholeness, PTL

\* Whichever way an execution got its input, every document whose reference
\* carries a checksum is there as it was submitted (build_worker_initial_state).
THEOREM InputStaysWhole == Spec => []VerifiedInputIsWhole
<1>1. Whole => VerifiedInputIsWhole
  BY DEF Whole, ItemsOK, WholeItems, VerifiedInputIsWhole, OfBytes
<1> QED BY <1>1, Wholeness, PTL

----------------------------------------------------------------------------
(* Artifacts: conflicts.                                                   *)

\* Rows of different documents, each with a proper reference.
Own(rows) ==
    /\ \A w \in rows : w.ref \in [doc : Docs \cup {Inline}, hashed : BOOLEAN]
    /\ \A v, w \in rows : v.ref.doc = w.ref.doc => v = w

Exclusive == {"saveDocuments", "saveResult"}

\* While no two saves to one table were open at once a save deletes whatever
\* is in its table.
Calm ==
    ~overlapped =>
        /\ Own(manifest)
        /\ \A e \in Executions : Own(known[e])
        /\ \A a, b \in Actors : pc[a] \in Exclusive /\ pc[a] = pc[b] => a = b
        /\ \A a \in Actors : pc[a] = "saveDocuments" => seen[a] = manifest
        /\ \A a \in Actors : pc[a] = "saveResult" => seen[a] = result
        /\ \A e \in Executions : code[e] \notin {"TOO_MANY_RECORDINGS", "RESULT_CONFLICT"}

\* The cache holds what was submitted or nothing.
Kept == Shape /\ DOMAIN code = Executions /\ cache \in {Miss, Stashed(kind)}

\* A manifest of the submitted references has one row for each document.
LEMMA SubmittedRefsOwn ==
    ASSUME NEW n, NEW k
    PROVE  Own({[ref |-> r, copy |-> n] : r \in SubmittedRefs(k)})
<1> DEFINE new == {[ref |-> r, copy |-> n] : r \in SubmittedRefs(k)}
<1>1. ASSUME NEW w \in new
      PROVE  \E d \in Docs : w = [ref |-> Ref(d), copy |-> n]
  BY DEF SubmittedRefs
<1>2. \A d \in Docs : Ref(d) \in [doc : Docs \cup {Inline}, hashed : BOOLEAN] /\ Ref(d).doc = d
  BY DEF Ref
<1> HIDE DEF new
<1>3. ASSUME NEW w \in new PROVE w.ref \in [doc : Docs \cup {Inline}, hashed : BOOLEAN]
  BY <1>1, <1>2
<1>4. ASSUME NEW v \in new, NEW w \in new, v.ref.doc = w.ref.doc PROVE v = w
  <2>1. PICK c \in Docs : v = [ref |-> Ref(c), copy |-> n]
    BY <1>1
  <2>2. PICK d \in Docs : w = [ref |-> Ref(d), copy |-> n]
    BY <1>1
  <2>3. v.ref = Ref(c) /\ w.ref = Ref(d)
    BY <2>1, <2>2
  <2>4. c = d
    BY <1>2, <1>4, <2>3
  <2> QED BY <2>1, <2>2, <2>4
<1> QED BY <1>3, <1>4 DEF Own, new

\* An execution writes one row for each of its documents.
LEMMA DocumentRowsOwn ==
    ASSUME NEW e, Own(known[e]), NEW n
    PROVE  Own(DocumentRows(e, n))
<1> DEFINE Type == [doc : Docs \cup {Inline}, hashed : BOOLEAN]
           refs == StateRefs(e)
           hash(r) == r.hashed \/ \E w \in seen[e] : w.ref.doc = r.doc /\ w.ref.hashed
           new == {[ref |-> [r EXCEPT !.hashed = hash(r)], copy |-> n] : r \in refs}
<1>1. refs \subseteq Type /\ \A r, s \in refs : r.doc = s.doc => r = s
  <2>1. CASE known[e] = {}
    BY <2>1 DEF StateRefs, Ref
  <2>2. CASE known[e] # {}
    BY <2>2 DEF StateRefs, Own
  <2> QED BY <2>1, <2>2
<1>2. \A r : hash(r) \in BOOLEAN \/ r \notin Type
  <2> SUFFICES ASSUME NEW r \in Type PROVE hash(r) \in BOOLEAN
    OBVIOUS
  <2>1. r.hashed \in BOOLEAN
    OBVIOUS
  <2> QED BY <2>1, Zenon
<1> HIDE DEF hash, refs
<1>3. \A r \in refs : [r EXCEPT !.hashed = hash(r)] \in Type /\ [r EXCEPT !.hashed = hash(r)].doc = r.doc
  BY <1>1, <1>2
<1>4. ASSUME NEW w \in new PROVE w.ref \in Type
  BY <1>3
<1>5. ASSUME NEW v \in new, NEW w \in new, v.ref.doc = w.ref.doc PROVE v = w
  <2>1. PICK r \in refs : v = [ref |-> [r EXCEPT !.hashed = hash(r)], copy |-> n]
    OBVIOUS
  <2>2. PICK s \in refs : w = [ref |-> [s EXCEPT !.hashed = hash(s)], copy |-> n]
    OBVIOUS
  <2>3. r.doc = s.doc
    BY <1>3, <1>5, <2>1, <2>2
  <2>4. r = s
    BY <1>1, <2>3
  <2> QED BY <2>1, <2>2, <2>4
<1>6. DocumentRows(e, n) = new
  BY DEF DocumentRows, hash, refs
<1> HIDE DEF new
<1> QED BY <1>4, <1>5, <1>6 DEF Own

\* One row for each document brings no more recordings than were admitted.
LEMMA FetchedFit ==
    ASSUME NEW rows, Own(rows), NEW reply
    PROVE  ~TooManyRecordings(FetchedItems(rows, reply))
<1> DEFINE got == AudioItems(FetchedItems(rows, reply))
           f == [i \in got |-> i.doc]
<1>1. \A i \in got : \E w \in rows :
         i = [doc |-> w.ref.doc, copy |-> w.copy, content |-> reply[w]]
  BY DEF AudioItems, FetchedItems
<1>2. \A i \in got : i.doc \in Audio
  BY DEF AudioItems
<1> HIDE DEF got
<1>3. \A i, j \in got : i.doc = j.doc => i = j
  <2> SUFFICES ASSUME NEW i \in got, NEW j \in got, i.doc = j.doc PROVE i = j
    OBVIOUS
  <2>1. PICK v \in rows : i = [doc |-> v.ref.doc, copy |-> v.copy, content |-> reply[v]]
    BY <1>1
  <2>2. PICK w \in rows : j = [doc |-> w.ref.doc, copy |-> w.copy, content |-> reply[w]]
    BY <1>1
  <2>3. v = w
    BY <2>1, <2>2 DEF Own
  <2> QED BY <2>1, <2>2, <2>3
<1>4. f \in Injection(got, Audio)
  BY <1>2, <1>3 DEF Injection, IsInjective
<1>5. IsFiniteSet(Audio)
  BY DocsAssumption, FS_Subset
<1> HIDE DEF f
<1>6. IsFiniteSet(got) /\ Cardinality(got) <= Cardinality(Audio)
  BY <1>4, <1>5, FS_Injection
<1>7. Cardinality(got) \in Nat /\ Cardinality(Audio) \in Nat
  BY <1>5, <1>6, FS_CardinalityType
<1> QED BY <1>6, <1>7, MaxAudioAssumption DEF TooManyRecordings, got

LEMMA KeptInit == Init => Kept
BY DEF Init, Kept, Shape, Actors

LEMMA KeptStep == Kept /\ [Next]_vars => Kept'
<1> SUFFICES ASSUME Kept, [Next]_vars PROVE Kept'
  OBVIOUS
<1> USE DEF Kept, Shape, Actors, Goto, row, tables, work, counters
<1>1. CASE UNCHANGED vars
  BY <1>1 DEF vars
<1>2. ASSUME NEW c \in Callers, Api(c) PROVE Kept'
  BY <1>2 DEF Api, Submit, Reprocess, Retry, Requeue, BeginManifest, BeginSave, CommitManifest,
              Stash, Enqueue, GiveUp
<1>3. ASSUME NEW e \in Executions, Recover(e) PROVE Kept'
  BY <1>3 DEF Recover, Take, ReadManifest, Fetch, FallBack, Fail
<1>4. ASSUME NEW e \in Executions, Persist(e) PROVE Kept'
  BY <1>4 DEF Persist, BeginDocuments, BeginSave, CommitDocuments, BeginChunks, CommitChunks,
              BeginResult, CommitResult, Fail, Forget
<1>5. ASSUME NEW e \in Executions, Execute(e) PROVE Kept'
  BY <1>5 DEF Execute, Start, Prepare, RunGraph, Interrupt, WriteOutcome, Callback, SendCallback,
              Fail, Forget
<1>6. CASE Cancel \/ Expire
  BY <1>6 DEF Cancel, Expire
<1> QED BY <1>1, <1>2, <1>3, <1>4, <1>5, <1>6 DEF Next

\* A step that begins no save and leaves the manifest and the result alone.
LEMMA CalmByStanders ==
    ASSUME Kept, Calm, overlapped => overlapped', UNCHANGED <<manifest, result>>,
           Own(manifest) => \A e \in Executions : Own(known[e])' \/ known'[e] = known[e],
           \A a \in Actors : pc'[a] \in Exclusive => pc'[a] = pc[a] /\ seen'[a] = seen[a],
           ~overlapped => \A e \in Executions :
               code'[e] \notin {"TOO_MANY_RECORDINGS", "RESULT_CONFLICT"}
    PROVE  Calm'
<1> SUFFICES ASSUME ~overlapped PROVE Calm'
  BY DEF Calm
<1>1. Own(manifest)' /\ \A e \in Executions : Own(known[e])'
  BY DEF Calm, Own
<1>2. \A a, b \in Actors : pc'[a] \in Exclusive /\ pc'[a] = pc'[b] => a = b
  BY DEF Calm
<1>3. \A a \in Actors : /\ pc'[a] = "saveDocuments" => seen'[a] = manifest'
                        /\ pc'[a] = "saveResult" => seen'[a] = result'
  BY DEF Calm, Exclusive
<1> QED BY <1>1, <1>2, <1>3 DEF Calm

\* A save of documents or of the result begins.
LEMMA CalmBegins ==
    ASSUME Kept, Calm, NEW a \in Actors, NEW stage \in Exclusive,
           BeginSave(a, IF stage = "saveDocuments" THEN manifest ELSE result, stage),
           UNCHANGED <<manifest, result, code>>,
           \A e \in Executions : known'[e] \in {known[e], {}}
    PROVE  Calm'
<1> SUFFICES ASSUME ~overlapped' PROVE Calm'
  BY DEF Calm
<1>1. ~overlapped /\ \A b \in Actors \ {a} : pc[b] # stage
  BY DEF BeginSave
<1>2. /\ pc' = [pc EXCEPT ![a] = stage]
      /\ seen' = [seen EXCEPT ![a] = IF stage = "saveDocuments" THEN manifest ELSE result]
  BY DEF BeginSave, Goto
<1>3. DOMAIN pc = Actors /\ DOMAIN seen = Actors
  BY DEF Kept, Shape
<1>4. Own(manifest)' /\ \A e \in Executions : Own(known[e])'
  BY <1>1 DEF Calm, Own
<1>5. \A b, c \in Actors : pc'[b] \in Exclusive /\ pc'[b] = pc'[c] => b = c
  BY <1>1, <1>2, <1>3 DEF Calm
<1>6. \A b \in Actors : /\ pc'[b] = "saveDocuments" => seen'[b] = manifest'
                        /\ pc'[b] = "saveResult" => seen'[b] = result'
  BY <1>1, <1>2, <1>3 DEF Calm, Exclusive
<1> QED BY <1>1, <1>4, <1>5, <1>6 DEF Calm

\* A save of documents commits.
LEMMA CalmCommits ==
    ASSUME Kept, Calm, NEW a \in Actors, pc[a] = "saveDocuments", NEW new,
           ~overlapped => Own(new), manifest' = Replaced(a, manifest, new),
           NEW stage, stage \notin Exclusive, Goto(a, stage), seen' = [seen EXCEPT ![a] = {}],
           UNCHANGED <<result, known, code, overlapped>>
    PROVE  Calm'
<1> SUFFICES ASSUME ~overlapped PROVE Calm'
  BY DEF Calm
<1>1. manifest' = new
  BY DEF Calm, Replaced
<1>2. /\ pc' = [pc EXCEPT ![a] = stage] /\ DOMAIN pc = Actors /\ DOMAIN seen = Actors
      /\ seen' = [seen EXCEPT ![a] = {}]
  BY DEF Kept, Shape, Goto
<1>3. Own(manifest') /\ \A e \in Executions : Own(known[e])'
  BY <1>1 DEF Calm, Own
<1>4. \A b \in Actors : pc'[b] \in Exclusive => b # a /\ pc'[b] = pc[b] /\ seen'[b] = seen[b]
  BY <1>2
<1>5. \A b \in Actors : pc'[b] # "saveDocuments"
  BY <1>4 DEF Calm, Exclusive
<1>6. \A b, c \in Actors : pc'[b] \in Exclusive /\ pc'[b] = pc'[c] => b = c
  BY <1>4 DEF Calm
<1>7. \A b \in Actors : pc'[b] = "saveResult" => seen'[b] = result'
  BY <1>4 DEF Calm, Exclusive
<1> QED BY <1>3, <1>5, <1>6, <1>7 DEF Calm, Own

LEMMA CalmInit == Init => Calm
BY DEF Init, Calm, Own, Exclusive

\* No step of one actor makes two saves meet unnoticed.
LEMMA CalmStep == Kept /\ Calm /\ [Next]_vars => Calm'
<1> SUFFICES ASSUME Kept, Calm, [Next]_vars PROVE Calm'
  OBVIOUS
<1>0. DOMAIN pc = Actors /\ DOMAIN seen = Actors /\ DOMAIN known = Executions
      /\ DOMAIN code = Executions /\ Executions \subseteq Actors /\ Callers \subseteq Actors
  BY DEF Kept, Shape, Actors
<1>1. CASE UNCHANGED vars
  BY <1>1, CalmByStanders DEF vars, tables, work, counters, Calm
<1>2. ASSUME NEW c \in Callers, Api(c) PROVE Calm'
  <2> USE DEF work, tables, row, counters
  <2>1. CASE Submit(c) \/ Reprocess(c) \/ Retry(c) \/ Stash(c) \/ Enqueue(c) \/ GiveUp(c)
    <3>1. \E stage \in {"idle", "manifest", "enqueue"} : Goto(c, stage)
      BY <2>1 DEF Submit, Reprocess, Retry, Requeue, Stash, Enqueue, GiveUp
    <3>2. UNCHANGED <<manifest, result, known, code, overlapped, seen>>
      BY <2>1 DEF Submit, Reprocess, Retry, Requeue, Stash, Enqueue, GiveUp
    <3>3. \A a \in Actors : pc'[a] \in Exclusive => pc'[a] = pc[a]
      BY <1>0, <3>1 DEF Goto, Exclusive
    <3> QED BY <3>2, <3>3, CalmByStanders DEF Calm
  <2>2. CASE BeginManifest(c)
    <3>1. UNCHANGED <<manifest, result, known, code>>
      BY <2>2 DEF BeginManifest
    <3>2. CASE SubmittedRefs(kind) = {}
      <4>1. Goto(c, "stash") /\ UNCHANGED <<seen, overlapped>>
        BY <2>2, <3>2 DEF BeginManifest
      <4>2. \A a \in Actors : pc'[a] \in Exclusive => pc'[a] = pc[a]
        BY <1>0, <4>1 DEF Goto, Exclusive
      <4> QED BY <3>1, <4>1, <4>2, CalmByStanders DEF Calm
    <3>3. CASE SubmittedRefs(kind) # {}
      <4>1. BeginSave(c, manifest, "saveDocuments") /\ "saveDocuments" \in Exclusive /\ c \in Actors
        BY <1>0, <2>2, <3>3 DEF BeginManifest, Exclusive
      <4> QED BY <3>1, <4>1, CalmBegins
    <3> QED BY <3>2, <3>3
  <2>3. CASE CommitManifest(c) /\ ~GiveUp(c)
    <3> DEFINE new == {[ref |-> r, copy |-> Fresh] : r \in SubmittedRefs(kind)}
    <3>1. Own(new)
      BY SubmittedRefsOwn
    <3>2. /\ pc[c] = "saveDocuments" /\ manifest' = Replaced(c, manifest, new)
          /\ seen' = [seen EXCEPT ![c] = {}] /\ Goto(c, "stash")
          /\ UNCHANGED <<result, known, code, overlapped>>
      BY <2>3 DEF CommitManifest
    <3> HIDE DEF new
    <3>3. "stash" \notin Exclusive /\ c \in Actors
      BY <1>0 DEF Exclusive
    <3> QED BY <3>1, <3>2, <3>3, CalmCommits
  <2> QED BY <1>2, <2>1, <2>2, <2>3 DEF Api
<1>3. ASSUME NEW e \in Executions, Recover(e) PROVE Calm'
  <2> USE DEF work, tables, row, counters
  <2>1. UNCHANGED <<manifest, result, seen, overlapped>>
    BY <1>3 DEF Recover, Take, ReadManifest, Fetch, FallBack
  <2>2. \E stage \in {"start", "readManifest", "fetch", "fallback", "callback"} : Goto(e, stage)
    BY <1>3 DEF Recover, Take, ReadManifest, Fetch, FallBack, Fail
  <2>3. \A a \in Actors : pc'[a] \in Exclusive => pc'[a] = pc[a]
    BY <1>0, <2>2 DEF Goto, Exclusive
  <2>4. CASE Take(e)
    <3>1. PICK entry \in {cache, Miss} :
             known' = [known EXCEPT ![e] = {[ref |-> r, copy |-> 0] : r \in entry.refs}]
      BY <2>4 DEF Take
    <3> DEFINE got == {[ref |-> r, copy |-> 0] : r \in entry.refs}
    <3>2. entry.refs = {} \/ entry.refs = SubmittedRefs(kind)
      BY <3>1 DEF Kept, Miss, Stashed
    <3>3. Own(got)
      <4>1. CASE entry.refs = {}
        BY <4>1 DEF Own
      <4>2. CASE entry.refs = SubmittedRefs(kind)
        BY <4>2, SubmittedRefsOwn
      <4> QED BY <3>2, <4>1, <4>2
    <3>4. UNCHANGED code
      BY <2>4 DEF Take
    <3> HIDE DEF got
    <3>5. \A f \in Executions : known'[f] = known[f] \/ known'[f] = got
      BY <1>0, <3>1 DEF got
    <3>6. \A f \in Executions : Own(known[f])' \/ known'[f] = known[f]
      BY <3>3, <3>5 DEF Own
    <3> QED BY <2>1, <2>3, <3>4, <3>6, CalmByStanders DEF Calm
  <2>5. CASE ReadManifest(e)
    <3>1. \E rows \in {manifest, {}} : known' = [known EXCEPT ![e] = rows]
      BY <2>5 DEF ReadManifest
    <3>2. UNCHANGED code
      BY <2>5 DEF ReadManifest
    <3>3. \A f \in Executions : known'[f] \in {known[f], manifest, {}}
      BY <1>0, <3>1
    <3>4. Own(manifest) => \A f \in Executions : Own(known[f])' \/ known'[f] = known[f]
      BY <3>3 DEF Own
    <3> QED BY <2>1, <2>3, <3>2, <3>4, CalmByStanders DEF Calm
  <2>6. CASE Fetch(e) \/ FallBack(e)
    <3>1. UNCHANGED known
      BY <2>6 DEF Fetch, FallBack
    <3>2. ~overlapped => code'[e] \in {code[e], "none"}
      <4>1. CASE FallBack(e)
        BY <1>0, <4>1 DEF FallBack, Fail
      <4>2. CASE Fetch(e)
        <5>1. PICK reply \in [known[e] -> {"original", "changed", "empty", "refused"}] :
                LET got == FetchedItems(known[e], reply) IN
                IF DownloadFails(kind, reply)
                THEN Fail(e, "none", "callback")
                ELSE IF OfBytes(kind) /\ TooManyRecordings(got)
                THEN Fail(e, "TOO_MANY_RECORDINGS", "callback")
                ELSE UNCHANGED code
          BY <4>2 DEF Fetch
        <5>2. ~overlapped => ~TooManyRecordings(FetchedItems(known[e], reply))
          BY FetchedFit DEF Calm
        <5> QED BY <1>0, <5>1, <5>2 DEF Fail
      <4> QED BY <2>6, <4>1, <4>2
    <3>3. \A f \in Executions \ {e} : code'[f] = code[f]
      BY <1>0, <2>6 DEF Fetch, FallBack, Fail
    <3>4. ~overlapped => \A f \in Executions :
             code'[f] \notin {"TOO_MANY_RECORDINGS", "RESULT_CONFLICT"}
      BY <3>2, <3>3 DEF Calm
    <3> QED BY <2>1, <2>3, <3>1, <3>4, CalmByStanders
  <2> QED BY <1>3, <2>4, <2>5, <2>6 DEF Recover
<1>4. ASSUME NEW e \in Executions, Persist(e) PROVE Calm'
  <2> USE DEF work, tables, row, counters
  <2>0. e \in Actors
    BY <1>0
  <2>1. CASE BeginDocuments(e)
    <3>1. UNCHANGED <<manifest, result, known, code>>
      BY <2>1 DEF BeginDocuments
    <3>2. BeginSave(e, manifest, "saveDocuments") /\ "saveDocuments" \in Exclusive
      BY <2>1 DEF BeginDocuments, Exclusive
    <3> QED BY <2>0, <3>1, <3>2, CalmBegins
  <2>2. CASE CommitDocuments(e)
    <3>1. /\ pc[e] = "saveDocuments" /\ seen' = [seen EXCEPT ![e] = {}] /\ Goto(e, "chunks")
          /\ UNCHANGED <<result, known, code, overlapped>>
          /\ "chunks" \notin Exclusive
      BY <2>2 DEF CommitDocuments, Exclusive
    <3>2. CASE manifest' = Replaced(e, manifest, DocumentRows(e, Fresh))
      <4> DEFINE new == DocumentRows(e, Fresh)
      <4>1. ~overlapped => Own(new)
        BY DocumentRowsOwn DEF Calm
      <4>2. manifest' = Replaced(e, manifest, new)
        BY <3>2
      <4> HIDE DEF new
      <4> QED BY <2>0, <3>1, <4>1, <4>2, CalmCommits
    <3>3. CASE UNCHANGED manifest
      <4>1. \A a \in Actors : pc'[a] \in Exclusive => pc'[a] = pc[a] /\ seen'[a] = seen[a]
        BY <1>0, <3>1 DEF Goto
      <4> QED BY <3>1, <3>3, <4>1, CalmByStanders DEF Calm
    <3> QED BY <2>2, <3>2, <3>3 DEF CommitDocuments
  <2>3. CASE BeginChunks(e) \/ CommitChunks(e)
    <3>1. UNCHANGED <<manifest, result, known, code>>
      BY <2>3 DEF BeginChunks, CommitChunks
    <3>2. \E stage \in {"saveChunks", "result", "graph"} : \E rows :
             Goto(e, stage) /\ seen' = [seen EXCEPT ![e] = rows]
      BY <2>3 DEF BeginChunks, CommitChunks, BeginSave
    <3>3. \A a \in Actors : pc'[a] \in Exclusive => pc'[a] = pc[a] /\ seen'[a] = seen[a]
      BY <1>0, <3>2 DEF Goto, Exclusive
    <3>4. overlapped => overlapped'
      BY <2>3 DEF BeginChunks, CommitChunks, BeginSave
    <3> QED BY <3>1, <3>3, <3>4, CalmByStanders DEF Calm
  <2>4. CASE BeginResult(e)
    <3>1. UNCHANGED <<manifest, result, code>> /\ \A f \in Executions : known'[f] \in {known[f], {}}
      BY <1>0, <2>4 DEF BeginResult, Forget
    <3>2. BeginSave(e, result, "saveResult") /\ "saveResult" \in Exclusive
      BY <2>4 DEF BeginResult, Exclusive
    <3> QED BY <2>0, <3>1, <3>2, CalmBegins
  <2>5. CASE CommitResult(e)
    <3>1. /\ pc[e] = "saveResult" /\ UNCHANGED <<manifest, known, overlapped>>
          /\ seen' = [seen EXCEPT ![e] = {}]
      BY <2>5 DEF CommitResult
    <3>2. \E stage \in {"outcome", "done"} : Goto(e, stage)
      BY <2>5 DEF CommitResult, Fail
    <3>3. \A a \in Actors : pc'[a] \in Exclusive => a # e /\ pc'[a] = pc[a] /\ seen'[a] = seen[a]
      BY <1>0, <3>1, <3>2 DEF Goto, Exclusive
    <3> SUFFICES ASSUME ~overlapped PROVE Calm'
      BY <3>1 DEF Calm
    <3>4. result \subseteq seen[e]
      BY <2>0, <3>1 DEF Calm
    <3>5. \A f \in Executions : code'[f] \in {code[f], "none"}
      BY <1>0, <2>5, <3>4 DEF CommitResult, Fail
    <3>6. \A a \in Actors : pc'[a] # "saveResult"
      BY <2>0, <3>1, <3>3 DEF Calm, Exclusive
    <3>7. \A a, b \in Actors : pc'[a] \in Exclusive /\ pc'[a] = pc'[b] => a = b
      BY <3>3 DEF Calm
    <3>8. \A a \in Actors : pc'[a] = "saveDocuments" => seen'[a] = manifest'
      BY <3>1, <3>3 DEF Calm, Exclusive
    <3>9. Own(manifest') /\ \A f \in Executions : Own(known'[f])
      BY <3>1 DEF Calm
    <3>10. \A f \in Executions : code'[f] \notin {"TOO_MANY_RECORDINGS", "RESULT_CONFLICT"}
      BY <3>5 DEF Calm
    <3> QED BY <3>6, <3>7, <3>8, <3>9, <3>10 DEF Calm, Own
  <2> QED BY <1>4, <2>1, <2>2, <2>3, <2>4, <2>5 DEF Persist
<1>5. ASSUME NEW e \in Executions, Execute(e) PROVE Calm'
  <2> USE DEF work, tables, row, counters
  <2>1. UNCHANGED <<manifest, result, overlapped>>
    BY <1>5 DEF Execute, Start, Prepare, RunGraph, Interrupt, WriteOutcome, Callback, Fail, Forget
  <2>2. \E stage \in {"done", "prepare", "graph", "documents", "result", "callback"} : Goto(e, stage)
    BY <1>5 DEF Execute, Start, Prepare, RunGraph, Interrupt, WriteOutcome, Callback, Fail, Forget
  <2>3. \A a \in Actors : a # e => seen'[a] = seen[a]
    BY <1>0, <1>5 DEF Execute, Start, Prepare, RunGraph, Interrupt, WriteOutcome, Callback
  <2>4. \A a \in Actors : pc'[a] \in Exclusive => pc'[a] = pc[a] /\ seen'[a] = seen[a]
    BY <1>0, <2>2, <2>3 DEF Goto, Exclusive
  <2>5. \A f \in Executions : known'[f] \in {known[f], {}} /\ code'[f] \in {code[f], "none"}
    BY <1>0, <1>5 DEF Execute, Start, Prepare, RunGraph, Interrupt, WriteOutcome, Callback,
                      SendCallback, Fail, Forget
  <2>6. \A f \in Executions : Own(known[f])' \/ known'[f] = known[f]
    BY <2>5 DEF Own
  <2>7. ~overlapped => \A f \in Executions :
           code'[f] \notin {"TOO_MANY_RECORDINGS", "RESULT_CONFLICT"}
    BY <2>5 DEF Calm
  <2> QED BY <2>1, <2>4, <2>6, <2>7, CalmByStanders
<1>6. CASE Cancel \/ Expire
  <2>1. UNCHANGED <<manifest, result, known, code, overlapped, seen, pc>>
    BY <1>6 DEF Cancel, Expire, tables, work, counters
  <2> QED BY <2>1, CalmByStanders DEF Calm
<1> QED BY <1>1, <1>2, <1>3, <1>4, <1>5, <1>6 DEF Next

\* Duplicate manifest rows, a valid job refused for its number of recordings
\* and a result that cannot be stored because another one is there: each takes
\* two executions whose saves of one table were open at once
\* (save_documents, save_result, the count after the download).
THEOREM ConflictsNeedOverlap == Spec => []ConflictsComeFromOverlap
<1>1. Calm => ConflictsComeFromOverlap
  BY DEF Calm, Own, ConflictsComeFromOverlap
<1>2. Init => Kept /\ Calm
  BY KeptInit, CalmInit
<1>3. Kept /\ Calm /\ [Next]_vars => Kept' /\ Calm'
  BY KeptStep, CalmStep
<1> QED BY <1>1, <1>2, <1>3, PTL DEF Spec

----------------------------------------------------------------------------
(* First failures, and id fields without their blanks.                     *)

\* A set of naturals has a least element.
LEMMA Least ==
    ASSUME NEW S \in SUBSET Nat, S # {}
    PROVE  \E m \in S : \A k \in S : m <= k
<1> DEFINE R == OpToRel(<, Nat)
<1>1. IsWellFoundedOn(R, Nat)
  BY NatLessThanWellFounded, Zenon
<1>2. \A x, y \in Nat : x < y => <<x, y>> \in R
  BY DEF OpToRel
<1> HIDE DEF R
<1>3. PICK m \in S : \A y \in S : ~(<<y, m>> \in R)
  BY <1>1, WFMin
<1>4. ASSUME NEW k \in S PROVE m <= k
  <2>1. ~(<<k, m>> \in R)
    BY <1>3
  <2>2. ~(k < m)
    BY <1>2, <2>1
  <2> QED BY <2>2
<1> QED BY <1>4

\* Checks pass if each of them does; otherwise the answer is that of one
\* before which every other passes.
LEMMA FirstOfChecks ==
    ASSUME NEW checks, DOMAIN checks \in SUBSET Nat
    PROVE  \/ /\ FirstFailure(checks) = "none"
              /\ \A i \in DOMAIN checks : checks[i] = "none"
           \/ \E i \in DOMAIN checks :
                /\ FirstFailure(checks) = checks[i] /\ checks[i] # "none"
                /\ \A j \in DOMAIN checks : j < i => checks[j] = "none"
<1> DEFINE failed == {i \in DOMAIN checks : checks[i] # "none"}
           First(i) == i \in failed /\ \A j \in failed : i <= j
<1>1. CASE failed = {}
  BY <1>1 DEF FirstFailure
<1>2. CASE failed # {}
  <2>1. \E i : First(i)
    BY <1>2, Least
  <2>2. First(CHOOSE i \in failed : \A j \in failed : i <= j)
    BY <2>1
  <2>3. PICK i : First(i) /\ FirstFailure(checks) = checks[i]
    BY <1>2, <2>2 DEF FirstFailure
  <2>4. \A j \in DOMAIN checks : j < i => j \notin failed
    BY <2>3
  <2> QED BY <2>3, <2>4
<1> QED BY <1>1, <1>2

\* What the recursion of NonBlank does with one entry more.
KeptNext(kept, s, n) ==
    IF n = 0 THEN <<>>
    ELSE IF s[n] = Blank THEN kept[n - 1]
    ELSE Append(kept[n - 1], s[n])

\* The recursive function exists: it is built one entry at a time.
LEMMA KeptExists ==
    ASSUME NEW S, NEW s \in Seq(S)
    PROVE  \E kept : kept = [n \in 0 .. Len(s) |-> KeptNext(kept, s, n)]
<1> DEFINE Upto(m, g) == g = [n \in 0 .. m |-> KeptNext(g, s, n)]
           Missing == {m \in 0 .. Len(s) : ~\E g : Upto(m, g)}
<1>1. Len(s) \in Nat
  OBVIOUS
<1>2. Upto(0, [n \in 0 .. 0 |-> <<>>])
  BY DEF KeptNext
<1>3. ASSUME NEW m \in 1 .. Len(s), NEW g, Upto(m - 1, g)
      PROVE  \E h : Upto(m, h)
  <2> DEFINE h == [n \in 0 .. m |-> IF n < m THEN g[n] ELSE KeptNext(g, s, m)]
  <2>1. ASSUME NEW n \in 0 .. m PROVE h[n] = KeptNext(h, s, n)
    <3>1. CASE n = 0
      BY <1>3, <3>1 DEF KeptNext
    <3>2. CASE n # 0
      <4>1. n - 1 \in 0 .. m /\ n - 1 < m
        BY <3>2
      <4>2. h[n - 1] = g[n - 1]
        BY <4>1
      <4>3. n < m => g[n] = KeptNext(g, s, n)
        BY <1>3
      <4>4. h[n] = KeptNext(g, s, n)
        BY <4>3
      <4> QED BY <3>2, <4>2, <4>4 DEF KeptNext
    <3> QED BY <3>1, <3>2
  <2>2. h = [n \in 0 .. m |-> h[n]]
    OBVIOUS
  <2> HIDE DEF h
  <2>3. Upto(m, h)
    BY <2>1, <2>2
  <2> QED BY <2>3
<1> HIDE DEF Upto
<1>4. Missing = {}
  <2> SUFFICES ASSUME Missing # {} PROVE FALSE
    OBVIOUS
  <2>1. Missing \in SUBSET Nat
    BY <1>1
  <2>2. PICK m \in Missing : \A k \in Missing : m <= k
    BY <2>1, Least
  <2>3. m # 0
    BY <1>2
  <2>4. m - 1 \in 0 .. Len(s) /\ m - 1 \notin Missing /\ m \in 1 .. Len(s)
    BY <1>1, <2>2, <2>3
  <2>5. PICK g : Upto(m - 1, g)
    BY <2>4
  <2> QED BY <1>3, <2>4, <2>5
<1>5. Len(s) \notin Missing
  BY <1>4
<1>6. PICK g : Upto(Len(s), g)
  BY <1>1, <1>5
<1> QED BY <1>6 DEF Upto

\* kept[n] is what NonBlank keeps of the first n entries.
LEMMA NonBlankIsKept ==
    ASSUME NEW S, NEW s \in Seq(S)
    PROVE  \E kept :
              /\ NonBlank(s) = kept[Len(s)] /\ kept[0] = <<>>
              /\ \A n \in 1 .. Len(s) :
                    kept[n] = IF s[n] = Blank THEN kept[n - 1]
                              ELSE Append(kept[n - 1], s[n])
<1> DEFINE kept == CHOOSE g : g = [n \in 0 .. Len(s) |-> KeptNext(g, s, n)]
<1>1. kept = [n \in 0 .. Len(s) |-> KeptNext(kept, s, n)]
  BY KeptExists
<1>2. NonBlank(s) = kept[Len(s)]
  BY DEF NonBlank, KeptNext
<1> HIDE DEF kept
<1>3. Len(s) \in Nat
  OBVIOUS
<1>4. \A n \in 0 .. Len(s) : kept[n] = KeptNext(kept, s, n)
  BY <1>1
<1>5. kept[0] = <<>>
  BY <1>3, <1>4 DEF KeptNext
<1>6. \A n \in 1 .. Len(s) :
         kept[n] = IF s[n] = Blank THEN kept[n - 1] ELSE Append(kept[n - 1], s[n])
  BY <1>3, <1>4 DEF KeptNext
<1> QED BY <1>2, <1>5, <1>6

\* NonBlank keeps no blank, a beginning without blanks as it is, and an end
\* that is not blank as the end.
LEMMA NonBlankKeeps ==
    ASSUME NEW S, NEW s \in Seq(S)
    PROVE  /\ NonBlank(s) \in Seq(S \ {Blank}) /\ Len(NonBlank(s)) <= Len(s)
           /\ \A n \in 0 .. Len(s) :
                 (\A i \in 1 .. n : s[i] # Blank) =>
                    /\ Len(NonBlank(s)) >= n
                    /\ \A i \in 1 .. n : NonBlank(s)[i] = s[i]
           /\ (s # <<>> /\ s[Len(s)] # Blank) =>
                 /\ NonBlank(s) # <<>>
                 /\ NonBlank(s)[Len(NonBlank(s))] = s[Len(s)]
<1>1. PICK kept :
         /\ NonBlank(s) = kept[Len(s)] /\ kept[0] = <<>>
         /\ \A n \in 1 .. Len(s) :
               kept[n] = IF s[n] = Blank THEN kept[n - 1] ELSE Append(kept[n - 1], s[n])
  BY NonBlankIsKept
<1> DEFINE Clean(n) == kept[n] \in Seq(S \ {Blank}) /\ Len(kept[n]) <= n
           Prefix(n, m) ==
              /\ n <= m => Len(kept[m]) >= n /\ \A i \in 1 .. n : kept[m][i] = s[i]
              /\ m <= n => Len(kept[m]) >= m /\ \A i \in 1 .. m : kept[m][i] = s[i]
<1>2. Len(s) \in Nat
  OBVIOUS
<1>3. ASSUME NEW n \in 0 .. Len(s) PROVE Clean(n)
  <2> DEFINE wrong == {k \in 0 .. Len(s) : ~Clean(k)}
  <2>1. Clean(0)
    BY <1>1
  <2>2. ASSUME NEW k \in 1 .. Len(s), Clean(k - 1) PROVE Clean(k)
    <3>1. s[k] \in S
      OBVIOUS
    <3>2. CASE s[k] = Blank
      BY <1>1, <2>2, <3>2
    <3>3. CASE s[k] # Blank
      <4>1. kept[k] = Append(kept[k - 1], s[k]) /\ s[k] \in S \ {Blank}
        BY <1>1, <3>1, <3>3
      <4> QED BY <2>2, <4>1
    <3> QED BY <3>2, <3>3
  <2> HIDE DEF Clean
  <2>3. ASSUME wrong # {} PROVE FALSE
    <3>1. wrong \in SUBSET Nat
      BY <1>2
    <3>2. PICK k \in wrong : \A j \in wrong : k <= j
      BY <2>3, <3>1, Least
    <3>3. k # 0 /\ ~Clean(k)
      BY <2>1
    <3>4. k \in 1 .. Len(s) /\ k - 1 \in 0 .. Len(s) /\ k - 1 \notin wrong
      BY <1>2, <3>2, <3>3
    <3> QED BY <2>2, <3>3, <3>4
  <2> QED BY <2>3
<1>4. ASSUME NEW n \in 0 .. Len(s), \A i \in 1 .. n : s[i] # Blank
      PROVE  Prefix(n, Len(s))
  <2> DEFINE wrong == {k \in 0 .. Len(s) : ~Prefix(n, k)}
  <2>1. Prefix(n, 0)
    BY <1>1, <1>2
  <2>2. ASSUME NEW k \in 1 .. Len(s), Prefix(n, k - 1) PROVE Prefix(n, k)
    <3>1. s[k] \in S /\ Clean(k - 1) /\ n \in Nat
      BY <1>2, <1>3
    <3>2. CASE s[k] = Blank
      BY <1>1, <1>4, <2>2, <3>1, <3>2
    <3>3. CASE s[k] # Blank
      <4>1. kept[k] = Append(kept[k - 1], s[k]) /\ s[k] \in S \ {Blank}
        BY <1>1, <3>1, <3>3
      <4>2. /\ Len(kept[k]) = Len(kept[k - 1]) + 1
            /\ \A i \in 1 .. Len(kept[k - 1]) : kept[k][i] = kept[k - 1][i]
            /\ kept[k][Len(kept[k - 1]) + 1] = s[k]
        BY <3>1, <4>1
      <4>3. CASE n <= k - 1
        BY <2>2, <3>1, <4>2, <4>3
      <4>4. CASE k <= n
        <5>1. Len(kept[k - 1]) = k - 1
          BY <2>2, <3>1, <4>4
        <5> QED BY <2>2, <3>1, <4>2, <4>4, <5>1
      <4> QED BY <3>1, <4>3, <4>4
    <3> QED BY <3>2, <3>3
  <2> HIDE DEF Prefix
  <2>3. ASSUME wrong # {} PROVE FALSE
    <3>1. wrong \in SUBSET Nat
      BY <1>2
    <3>2. PICK k \in wrong : \A j \in wrong : k <= j
      BY <2>3, <3>1, Least
    <3>3. k # 0 /\ ~Prefix(n, k)
      BY <2>1
    <3>4. k \in 1 .. Len(s) /\ k - 1 \in 0 .. Len(s) /\ k - 1 \notin wrong
      BY <1>2, <3>2, <3>3
    <3> QED BY <2>2, <3>3, <3>4
  <2>4. Len(s) \in 0 .. Len(s)
    BY <1>2
  <2> QED BY <2>3, <2>4
<1>5. Clean(Len(s))
  BY <1>2, <1>3
<1>6. ASSUME s # <<>>, s[Len(s)] # Blank
      PROVE  /\ NonBlank(s) # <<>>
             /\ NonBlank(s)[Len(NonBlank(s))] = s[Len(s)]
  <2>1. Len(s) \in 1 .. Len(s) /\ Len(s) - 1 \in 0 .. Len(s) /\ s[Len(s)] \in S
    BY <1>2, <1>6
  <2>2. NonBlank(s) = Append(kept[Len(s) - 1], s[Len(s)])
    BY <1>1, <1>6, <2>1
  <2>3. kept[Len(s) - 1] \in Seq(S)
    BY <1>3, <2>1
  <2> QED BY <2>1, <2>2, <2>3
<1> QED BY <1>1, <1>2, <1>4, <1>5, <1>6

----------------------------------------------------------------------------
(* What the answers to an upload say.                                      *)

\* An upload with its fields in any number.
Uploaded ==
    [endpoint : {"internal", "demo"}, file : Seq(Files), files : Seq(Files),
     ids : Seq(Ids \cup {Blank}), id : Seq(Ids \cup {Blank}),
     wellFormed : BOOLEAN, transport : {1, 2}]

\* What a list of two, three or four checks answers.
LEMMA OfTwo ==
    ASSUME NEW a, NEW b, NEW first, first = FirstFailure(<<a, b>>)
    PROVE  /\ first \in {"none", a, b}
           /\ first = "none" <=> a = "none" /\ b = "none"
<1>1. DOMAIN <<a, b>> = 1 .. 2 /\ <<a, b>>[1] = a /\ <<a, b>>[2] = b
  OBVIOUS
<1>2. DOMAIN <<a, b>> \in SUBSET Nat
  BY <1>1
<1> DEFINE checks == <<a, b>>
<1> HIDE DEF checks
<1>3. DOMAIN checks = 1 .. 2 /\ checks[1] = a /\ checks[2] = b
  BY <1>1 DEF checks
<1> QED BY <1>2, <1>3, FirstOfChecks DEF checks

LEMMA OfThree ==
    ASSUME NEW a, NEW b, NEW c, NEW first, first = FirstFailure(<<a, b, c>>)
    PROVE  /\ first \in {"none", a, b, c}
           /\ first = "none" <=> a = "none" /\ b = "none" /\ c = "none"
<1> DEFINE checks == <<a, b, c>>
<1>1. DOMAIN checks = 1 .. 3 /\ checks[1] = a /\ checks[2] = b /\ checks[3] = c
  OBVIOUS
<1> HIDE DEF checks
<1>2. DOMAIN checks \in SUBSET Nat
  BY <1>1
<1> QED BY <1>1, <1>2, FirstOfChecks DEF checks

LEMMA OfFour ==
    ASSUME NEW a, NEW b, NEW c, NEW d, NEW first, first = FirstFailure(<<a, b, c, d>>)
    PROVE  /\ first \in {"none", a, b, c, d}
           /\ first = "none" <=> a = "none" /\ b = "none" /\ c = "none" /\ d = "none"
<1> DEFINE checks == <<a, b, c, d>>
<1>1. /\ DOMAIN checks = 1 .. 4 /\ checks[1] = a /\ checks[2] = b
      /\ checks[3] = c /\ checks[4] = d
  OBVIOUS
<1> HIDE DEF checks
<1>2. DOMAIN checks \in SUBSET Nat
  BY <1>1
<1> QED BY <1>1, <1>2, FirstOfChecks DEF checks

\* The files of an upload are a sequence.
LEMMA UploadsAre ==
    ASSUME NEW q \in Uploaded
    PROVE  /\ Uploads(q) \in Seq(Files) /\ DOMAIN Uploads(q) = 1 .. Len(Uploads(q))
           /\ Len(Uploads(q)) \in Nat /\ DOMAIN Uploads(q) \in SUBSET Nat
<1>1. Uploads(q) \in Seq(Files)
  BY DEF Uploads, Uploaded
<1> QED BY <1>1

\* The answers that are not given by any of the checks.
Reserved == {"accepted", "pending", "500"}

\* The checks of the form have answers of their own; ids that pass them are
\* given in one way and are as many as the files.
LEMMA FieldAnswers ==
    ASSUME NEW q
    PROVE  /\ WrongForm(q) \notin Reserved /\ WrongParts(q) \notin Reserved
           /\ WrongIds(q) \notin Reserved
           /\ WrongParts(q) = "none" => Uploads(q) # <<>>
           /\ WrongIds(q) = "none" =>
                 /\ ~(NonBlank(q.ids) # <<>> /\ NonBlank(q.id) # <<>>)
                 /\ ResolvedIds(q) # <<>> => Len(ResolvedIds(q)) = Len(Uploads(q))
<1>1. WrongForm(q) \notin Reserved
  BY DEF WrongForm, Check, Reserved
<1>2. WrongParts(q) \notin Reserved /\ (WrongParts(q) = "none" => Uploads(q) # <<>>)
  <2> DEFINE both == Check(BothFields(q), "400 fields")
             none == Check(Uploads(q) = <<>>, "400 no file")
             many == Check(Len(Uploads(q)) > MaxSources, "400 too many files")
  <2>1. WrongParts(q) = FirstFailure(<<both, none, many>>)
    BY DEF WrongParts
  <2>2. /\ {both, none, many} \cap Reserved = {}
        /\ none = "none" => Uploads(q) # <<>>
    BY DEF Check, Reserved
  <2> HIDE DEF both, none, many
  <2>3. /\ WrongParts(q) \in {"none", both, none, many}
        /\ WrongParts(q) = "none" <=> both = "none" /\ none = "none" /\ many = "none"
    BY <2>1, OfThree, SMT
  <2> QED BY <2>2, <2>3 DEF Reserved
<1>3. /\ WrongIds(q) \notin Reserved
      /\ WrongIds(q) = "none" =>
            /\ ~(NonBlank(q.ids) # <<>> /\ NonBlank(q.id) # <<>>)
            /\ ResolvedIds(q) # <<>> => Len(ResolvedIds(q)) = Len(Uploads(q))
  <2> DEFINE two == Check(NonBlank(q.ids) # <<>> /\ NonBlank(q.id) # <<>>, "400 ids")
             other == Check(ResolvedIds(q) # <<>> /\ Len(ResolvedIds(q)) # Len(Uploads(q)),
                            "400 ids")
  <2>1. WrongIds(q) = FirstFailure(<<two, other>>)
    BY DEF WrongIds
  <2>2. /\ {two, other} \cap Reserved = {}
        /\ two = "none" => ~(NonBlank(q.ids) # <<>> /\ NonBlank(q.id) # <<>>)
        /\ other = "none" =>
              (ResolvedIds(q) # <<>> => Len(ResolvedIds(q)) = Len(Uploads(q)))
    BY DEF Check, Reserved
  <2> HIDE DEF two, other
  <2>3. /\ WrongIds(q) \in {"none", two, other}
        /\ WrongIds(q) = "none" <=> two = "none" /\ other = "none"
    BY <2>1, OfTwo, SMT
  <2> QED BY <2>2, <2>3 DEF Reserved
<1> QED BY <1>1, <1>2, <1>3

\* A file that passes is not empty, has a known type and is not too large.
LEMMA FileAnswers ==
    ASSUME NEW files, NEW i
    PROVE  /\ WrongFile(files, i) \notin Reserved
           /\ WrongFile(files, i) = "none" =>
                 /\ files[i].size # 0 /\ DetectedType(files[i]) # "unknown"
                 /\ ~(files[i].size > SizeLimit(files[i]))
<1> DEFINE total == Check(SizeUpTo(files, i) > MaxTotal, "413")
           empty == Check(files[i].size = 0, "400 empty")
           unknown == Check(DetectedType(files[i]) = "unknown", "415")
           large == Check(files[i].size > SizeLimit(files[i]), "413")
<1>1. WrongFile(files, i) = FirstFailure(<<total, empty, unknown, large>>)
  BY DEF WrongFile
<1>2. /\ {total, empty, unknown, large} \cap Reserved = {}
      /\ empty = "none" => files[i].size # 0
      /\ unknown = "none" => DetectedType(files[i]) # "unknown"
      /\ large = "none" => ~(files[i].size > SizeLimit(files[i]))
  BY DEF Check, Reserved
<1> HIDE DEF total, empty, unknown, large
<1>3. /\ WrongFile(files, i) \in {"none", total, empty, unknown, large}
      /\ WrongFile(files, i) = "none" <=>
            total = "none" /\ empty = "none" /\ unknown = "none" /\ large = "none"
  BY <1>1, OfFour, SMT
<1> QED BY <1>2, <1>3 DEF Reserved

\* Files that pass together have different ids and few enough recordings.
LEMMA TogetherAnswers ==
    ASSUME NEW files, NEW docs, NEW probe
    PROVE  /\ WrongTogether(files, docs, probe) \notin Reserved
           /\ WrongTogether(files, docs, probe) = "none" =>
                 /\ Cardinality({docs[i].doc : i \in DOMAIN docs}) = Len(docs)
                 /\ ~(Cardinality(AudioOf(files)) > MaxAudioSources)
                 /\ ~(Mixed(files) /\ ~MixedEnabled)
<1> DEFINE same == Check(Cardinality({docs[i].doc : i \in DOMAIN docs}) # Len(docs),
                         "400 duplicate ids")
           many == Check(Cardinality(AudioOf(files)) > MaxAudioSources, "400 recordings")
           long == Check(TotalSeconds(files, probe) > MaxTotalSeconds, "400 duration")
           mixed == Check(Mixed(files) /\ ~MixedEnabled, "400 mixed")
<1>1. WrongTogether(files, docs, probe) = FirstFailure(<<same, many, long, mixed>>)
  BY DEF WrongTogether
<1>2. /\ {same, many, long, mixed} \cap Reserved = {}
      /\ same = "none" => Cardinality({docs[i].doc : i \in DOMAIN docs}) = Len(docs)
      /\ many = "none" => ~(Cardinality(AudioOf(files)) > MaxAudioSources)
      /\ mixed = "none" => ~(Mixed(files) /\ ~MixedEnabled)
  BY DEF Check, Reserved
<1> HIDE DEF same, many, long, mixed
<1>3. /\ WrongTogether(files, docs, probe) \in {"none", same, many, long, mixed}
      /\ WrongTogether(files, docs, probe) = "none" <=>
            same = "none" /\ many = "none" /\ long = "none" /\ mixed = "none"
  BY <1>1, OfFour, SMT
<1> QED BY <1>2, <1>3 DEF Reserved

\* As long as no id was missing the handler does not index past the field.
LEMMA InRange ==
    ASSUME NEW q \in Uploaded, WrongIds(q) = "none", NEW i \in DOMAIN Uploads(q),
           \A j \in DOMAIN Uploads(q) : j < i => WrongId(q, j) = "none"
    PROVE  ~OutOfRange(q, i)
<1> SUFFICES ASSUME q.ids # <<>>, i > Len(q.ids) PROVE FALSE
  BY DEF OutOfRange
<1>1. q.ids \in Seq(Ids \cup {Blank}) /\ Len(q.ids) \in Nat /\ Len(q.ids) >= 1
  BY DEF Uploaded
<1>2. i \in 1 .. Len(Uploads(q)) /\ Len(Uploads(q)) \in Nat
  BY UploadsAre
<1>3. 1 \in DOMAIN Uploads(q) /\ 1 < i
  BY <1>1, <1>2, UploadsAre
<1>4. q.ids[1] # Blank
  BY <1>1, <1>3 DEF WrongId, Then, Check, SuppliedId
<1>5. NonBlank(q.ids) # <<>> /\ Len(NonBlank(q.ids)) <= Len(q.ids)
  <2> DEFINE S == Ids \cup {Blank}
  <2>1. q.ids \in Seq(S) /\ 1 \in 0 .. Len(q.ids) /\ \A j \in 1 .. 1 : q.ids[j] # Blank
    BY <1>1, <1>4
  <2> HIDE DEF S
  <2>2. /\ NonBlank(q.ids) \in Seq(S \ {Blank}) /\ Len(NonBlank(q.ids)) <= Len(q.ids)
        /\ Len(NonBlank(q.ids)) >= 1
    BY <2>1, NonBlankKeeps
  <2> QED BY <2>2
<1>6. Len(NonBlank(q.ids)) = Len(Uploads(q))
  BY <1>5, FieldAnswers DEF ResolvedIds
<1> QED BY <1>1, <1>2, <1>5, <1>6

\* What the internal handler admits passed every check, and it never fails
\* to answer.
LEMMA InternalAnswers ==
    ASSUME NEW q \in Uploaded, NEW probe
    PROVE  /\ InternalFailure(q, probe) \notin Reserved
           /\ InternalFailure(q, probe) = "none" =>
                 /\ WrongParts(q) = "none" /\ WrongIds(q) = "none"
                 /\ \A i \in DOMAIN Uploads(q) :
                       WrongFile(Uploads(q), i) = "none" /\ WrongId(q, i) = "none"
                 /\ WrongTogether(Uploads(q), InputsOf(q, SuppliedId), probe) = "none"
<1> DEFINE u == Uploads(q)
           each == [i \in DOMAIN u |-> Then(WrongFile(u, i), WrongId(q, i))]
           together == WrongTogether(u, InputsOf(q, SuppliedId), probe)
<1>1. InternalFailure(q, probe) =
        Then(WrongForm(q), Then(WrongParts(q), Then(WrongIds(q),
             Then(FirstFailure(each), together))))
  BY DEF InternalFailure
<1>2. DOMAIN each \in SUBSET Nat /\ DOMAIN each = DOMAIN u
  BY UploadsAre
<1>3. ASSUME WrongIds(q) = "none" PROVE FirstFailure(each) \notin Reserved
  <2>1. CASE FirstFailure(each) = "none"
    BY <2>1 DEF Reserved
  <2>2. ASSUME NEW i \in DOMAIN each, FirstFailure(each) = each[i],
               \A j \in DOMAIN each : j < i => each[j] = "none"
        PROVE  FirstFailure(each) \notin Reserved
    <3>1. \A j \in DOMAIN u : j < i => WrongId(q, j) = "none"
      BY <1>2, <2>2 DEF Then
    <3>2. ~OutOfRange(q, i)
      BY <1>2, <1>3, <3>1, InRange
    <3>3. WrongId(q, i) \notin Reserved
      BY <3>2 DEF WrongId, Then, Check, Reserved
    <3> QED BY <1>2, <2>2, <3>3, FileAnswers DEF Then
  <2> HIDE DEF each
  <2> QED BY <1>2, <2>1, <2>2, FirstOfChecks
<1>4. ASSUME FirstFailure(each) = "none"
      PROVE  \A i \in DOMAIN u : WrongFile(u, i) = "none" /\ WrongId(q, i) = "none"
  <2>1. \A i \in DOMAIN each : each[i] = "none"
    <3> HIDE DEF each
    <3> QED BY <1>2, <1>4, FirstOfChecks
  <2>2. ASSUME NEW i \in DOMAIN u PROVE Then(WrongFile(u, i), WrongId(q, i)) = "none"
    BY <2>1
  <2> QED BY <2>2 DEF Then
<1>5. together \notin Reserved
  BY TogetherAnswers
<1> HIDE DEF u, each, together
<1> QED BY <1>1, <1>3, <1>4, <1>5, FieldAnswers DEF Then, u, together

\* What the demo's handler admits passed every check.
LEMMA DemoAnswers ==
    ASSUME NEW q \in Uploaded, NEW probe
    PROVE  /\ DemoFailure(q, probe) \notin Reserved
           /\ DemoFailure(q, probe) = "none" =>
                 /\ WrongParts(q) = "none" /\ WrongIds(q) = "none"
                 /\ \A i \in DOMAIN Uploads(q) : WrongFile(Uploads(q), i) = "none"
                 /\ WrongTogether(Uploads(q), InputsOf(q, DemoSuppliedId), probe) = "none"
<1> DEFINE u == Uploads(q)
           each == [i \in DOMAIN u |-> WrongFile(u, i)]
           together == WrongTogether(u, InputsOf(q, DemoSuppliedId), probe)
<1>1. DemoFailure(q, probe) =
        Then(WrongParts(q), Then(WrongIds(q), Then(WrongForm(q),
             Then(FirstFailure(each), together))))
  BY DEF DemoFailure
<1>2. DOMAIN each \in SUBSET Nat /\ \A i \in DOMAIN u : each[i] = WrongFile(u, i)
  BY UploadsAre
<1>3. DOMAIN each = DOMAIN u
  OBVIOUS
<1>4. together \notin Reserved
  BY TogetherAnswers
<1> HIDE DEF u, each, together
<1>5. FirstFailure(each) \notin Reserved
  <2>1. "none" \notin Reserved /\ \A i \in DOMAIN each : each[i] \notin Reserved
    BY <1>2, <1>3, FileAnswers DEF Reserved
  <2> QED BY <1>2, <2>1, FirstOfChecks
<1>6. FirstFailure(each) = "none" => \A i \in DOMAIN u : WrongFile(u, i) = "none"
  BY <1>2, <1>3, FirstOfChecks
<1> QED BY <1>1, <1>4, <1>5, <1>6, FieldAnswers DEF Then, u, together

----------------------------------------------------------------------------
(* The ids of an admitted upload.                                          *)

Distinct(docs) == \A i, j \in DOMAIN docs : docs[i].doc = docs[j].doc => i = j

\* A sequence with as many values as places repeats none.
LEMMA AsManyAreDistinct ==
    ASSUME NEW n \in Nat, NEW docs, DOMAIN docs = 1 .. n, Len(docs) = n,
           Cardinality({docs[i].doc : i \in DOMAIN docs}) = Len(docs)
    PROVE  Distinct(docs)
<1> DEFINE ids == {docs[i].doc : i \in 1 .. n}
           f == [i \in 1 .. n |-> docs[i].doc]
<1>1. IsFiniteSet(1 .. n) /\ Cardinality(1 .. n) = n
  BY FS_Interval
<1>2. f \in Surjection(1 .. n, ids)
  BY DEF Surjection
<1>3. Cardinality(ids) = Cardinality(1 .. n)
  BY <1>1
<1>4. f \in Injection(1 .. n, ids)
  <2> HIDE DEF f, ids
  <2> QED BY <1>1, <1>2, <1>3, FS_Surjection
<1>5. \A i, j \in 1 .. n : f[i] = f[j] => i = j
  BY <1>4 DEF Injection, IsInjective
<1> QED BY <1>5 DEF Distinct

\* What both handlers make of the files.
LEMMA InputsAre ==
    ASSUME NEW q \in Uploaded
    PROVE  /\ DOMAIN Inputs(q) = 1 .. Len(Uploads(q)) /\ Len(Inputs(q)) = Len(Uploads(q))
           /\ Len(Uploads(q)) \in Nat
           /\ \A i \in 1 .. Len(Uploads(q)) :
                 /\ Inputs(q)[i].file = Uploads(q)[i]
                 /\ q.endpoint = "internal" =>
                       Inputs(q)[i].doc = IF SuppliedId(q, i) = None THEN Derived(Uploads(q)[i])
                                          ELSE SuppliedId(q, i)
                 /\ q.endpoint = "demo" =>
                       Inputs(q)[i].doc = IF DemoSuppliedId(q, i) = None
                                          THEN Derived(Uploads(q)[i])
                                          ELSE DemoSuppliedId(q, i)
<1>1. DOMAIN Uploads(q) = 1 .. Len(Uploads(q)) /\ Len(Uploads(q)) \in Nat
  BY UploadsAre
<1>2. CASE q.endpoint = "internal"
  <2>1. Inputs(q) = [i \in 1 .. Len(Uploads(q)) |->
                        [file |-> Uploads(q)[i],
                         doc |-> IF SuppliedId(q, i) = None THEN Derived(Uploads(q)[i])
                                 ELSE SuppliedId(q, i)]]
    BY <1>1, <1>2 DEF Inputs, InputsOf
  <2> QED BY <1>1, <1>2, <2>1
<1>3. CASE q.endpoint = "demo"
  <2>1. Inputs(q) = [i \in 1 .. Len(Uploads(q)) |->
                        [file |-> Uploads(q)[i],
                         doc |-> IF DemoSuppliedId(q, i) = None THEN Derived(Uploads(q)[i])
                                 ELSE DemoSuppliedId(q, i)]]
    BY <1>1, <1>3 DEF Inputs, InputsOf
  <2> QED BY <1>1, <1>3, <2>1
<1>4. q.endpoint \in {"internal", "demo"}
  BY DEF Uploaded
<1> QED BY <1>2, <1>3, <1>4

\* Either handler: what an admitted upload passed.
LEMMA AdmittedPassed ==
    ASSUME NEW q \in Uploaded, NEW probe, Answer(q, probe) = "none"
    PROVE  /\ Uploads(q) # <<>> /\ WrongIds(q) = "none"
           /\ \A i \in 1 .. Len(Uploads(q)) :
                 /\ Uploads(q)[i].size # 0 /\ DetectedType(Uploads(q)[i]) # "unknown"
                 /\ ~(Uploads(q)[i].size > SizeLimit(Uploads(q)[i]))
                 /\ q.endpoint = "internal" => WrongId(q, i) = "none"
           /\ ~(Cardinality(AudioOf(Uploads(q))) > MaxAudioSources)
           /\ ~(Mixed(Uploads(q)) /\ ~MixedEnabled)
           /\ Distinct(Inputs(q))
<1>1. DOMAIN Uploads(q) = 1 .. Len(Uploads(q))
  BY UploadsAre
<1>2. /\ WrongParts(q) = "none" /\ WrongIds(q) = "none"
      /\ \A i \in DOMAIN Uploads(q) : /\ WrongFile(Uploads(q), i) = "none"
                                      /\ q.endpoint = "internal" => WrongId(q, i) = "none"
      /\ WrongTogether(Uploads(q), Inputs(q), probe) = "none"
  <2>1. CASE q.endpoint = "internal"
    <3>1. InternalFailure(q, probe) = "none" /\ Inputs(q) = InputsOf(q, SuppliedId)
      BY <2>1 DEF Answer, Inputs
    <3> QED BY <3>1, InternalAnswers
  <2>2. CASE q.endpoint = "demo"
    <3>1. DemoFailure(q, probe) = "none" /\ Inputs(q) = InputsOf(q, DemoSuppliedId)
      BY <2>2 DEF Answer, Inputs
    <3> QED BY <2>2, <3>1, DemoAnswers
  <2> QED BY <2>1, <2>2 DEF Uploaded
<1>3. Uploads(q) # <<>>
  BY <1>2, FieldAnswers
<1>4. /\ Cardinality({Inputs(q)[i].doc : i \in DOMAIN Inputs(q)}) = Len(Inputs(q))
      /\ ~(Cardinality(AudioOf(Uploads(q))) > MaxAudioSources)
      /\ ~(Mixed(Uploads(q)) /\ ~MixedEnabled)
  BY <1>2, TogetherAnswers
<1>5. Distinct(Inputs(q))
  BY <1>4, InputsAre, AsManyAreDistinct
<1> QED BY <1>1, <1>2, <1>3, <1>4, <1>5, FileAnswers

\* The documents of an admitted upload carry the ids sent for them.
LEMMA IdsAreAsSent ==
    ASSUME NEW q \in Uploaded, NEW probe, Answer(q, probe) = "none",
           Len(SentIds(q)) = Len(Inputs(q))
    PROVE  \A i \in DOMAIN Inputs(q) : Inputs(q)[i].doc = SentIds(q)[i]
<1> DEFINE S == Ids \cup {Blank}
           n == Len(Uploads(q))
<1>1. /\ n \in Nat /\ n >= 1 /\ DOMAIN Inputs(q) = 1 .. n /\ Len(Inputs(q)) = n
      /\ DOMAIN Uploads(q) = 1 .. n
  BY AdmittedPassed, InputsAre, UploadsAre
<1>2. q.ids \in Seq(S) /\ q.id \in Seq(S) /\ None \notin S /\ Blank \notin Ids
  BY SubmissionAssumption DEF Uploaded
<1>3. /\ NonBlank(q.ids) \in Seq(S \ {Blank}) /\ Len(NonBlank(q.ids)) <= Len(q.ids)
      /\ NonBlank(q.id) \in Seq(S \ {Blank}) /\ Len(NonBlank(q.id)) <= Len(q.id)
  <2> HIDE DEF S
  <2> QED BY <1>2, NonBlankKeeps
<1>4. SentIds(q) \in Seq(S \ {Blank}) /\ Len(SentIds(q)) = n
  BY <1>1, <1>3 DEF SentIds
<1>5. /\ ~(NonBlank(q.ids) # <<>> /\ NonBlank(q.id) # <<>>)
      /\ ResolvedIds(q) # <<>> => Len(ResolvedIds(q)) = n
  BY AdmittedPassed, FieldAnswers
<1>6. CASE q.endpoint = "internal" /\ q.ids # <<>>
  <2>1. ASSUME NEW i \in 1 .. n
        PROVE  /\ i <= Len(q.ids) /\ q.ids[i] # Blank /\ q.ids[i] \in S
               /\ Inputs(q)[i].doc = q.ids[i]
    <3>1. WrongId(q, i) = "none"
      BY <1>6, AdmittedPassed
    <3>2. ~(i > Len(q.ids)) /\ SuppliedId(q, i) # Blank
      BY <1>6, <3>1 DEF WrongId, Then, Check, OutOfRange
    <3>3. i \in 1 .. Len(q.ids) /\ SuppliedId(q, i) = q.ids[i]
      BY <1>1, <1>2, <1>6, <3>2 DEF SuppliedId
    <3>4. q.ids[i] \in S /\ q.ids[i] # None
      BY <1>2, <3>3
    <3> QED BY <1>6, <3>2, <3>3, <3>4, InputsAre
  <2>2. n \in 0 .. Len(q.ids) /\ \A i \in 1 .. n : q.ids[i] # Blank
    BY <1>1, <1>2, <2>1
  <2>3. \A i \in 1 .. n : NonBlank(q.ids)[i] = q.ids[i]
    <3> HIDE DEF S, n
    <3> QED BY <1>2, <2>2, NonBlankKeeps
  <2> QED BY <1>1, <1>6, <2>1, <2>3 DEF SentIds
<1>7. CASE q.endpoint = "internal" /\ q.ids = <<>>
  <2>1. SentIds(q) = NonBlank(q.id) /\ q.id # <<>>
    BY <1>1, <1>2, <1>3, <1>4, <1>7 DEF SentIds
  <2> DEFINE last == q.id[Len(q.id)]
  <2>2. Len(q.id) \in 1 .. Len(q.id) /\ last \in S /\ last # None
    BY <1>2, <2>1
  <2>3. \A i \in 1 .. n : SuppliedId(q, i) = last
    BY <1>7, <2>1 DEF SuppliedId, DocumentId
  <2>4. \A i \in 1 .. n : Inputs(q)[i].doc = last
    BY <1>7, <2>2, <2>3, InputsAre
  <2>5. n = 1
    <3>1. Distinct(Inputs(q))
      BY AdmittedPassed
    <3>2. n > 1 => 1 \in 1 .. n /\ 2 \in 1 .. n
      BY <1>1
    <3> QED BY <1>1, <2>4, <3>1, <3>2 DEF Distinct
  <2>6. WrongId(q, 1) = "none"
    BY <1>7, <2>5, AdmittedPassed
  <2>7. last # Blank
    BY <1>7, <2>3, <2>5, <2>6 DEF WrongId, Then, Check, OutOfRange
  <2>8. NonBlank(q.id)[Len(NonBlank(q.id))] = last
    <3> HIDE DEF S
    <3> QED BY <1>2, <2>1, <2>7, NonBlankKeeps
  <2> QED BY <1>1, <1>4, <2>1, <2>4, <2>5, <2>8
<1>8. CASE q.endpoint = "demo"
  <2>1. SentIds(q) # <<>>
    BY <1>1, <1>4
  <2>2. ResolvedIds(q) = SentIds(q)
    BY <1>5, <2>1 DEF ResolvedIds, SentIds
  <2>3. ASSUME NEW i \in 1 .. n PROVE Inputs(q)[i].doc = SentIds(q)[i]
    <3>1. DemoSuppliedId(q, i) = SentIds(q)[i]
      BY <1>1, <1>4, <2>2 DEF DemoSuppliedId
    <3>2. SentIds(q)[i] \in S
      BY <1>4
    <3>3. SentIds(q)[i] # None
      BY <1>2, <3>2
    <3> QED BY <1>8, <3>1, <3>3, InputsAre
  <2> QED BY <1>1, <2>3
<1> QED BY <1>6, <1>7, <1>8 DEF Uploaded

----------------------------------------------------------------------------
(* The worker's inspection.                                                *)

\* What passed the checks of the endpoint passes those of the worker, except
\* those on durations.
LEMMA InspectionAgrees ==
    ASSUME NEW q \in Uploaded, NEW probe, NEW probe2, Answer(q, probe) = "none",
           NEW files, files = [i \in DOMAIN Inputs(q) |-> Inputs(q)[i].file]
    PROVE  DetectVerdict(files, probe2) \in {"none", "recording too long", "recordings too long"}
<1>1. DOMAIN Uploads(q) = 1 .. Len(Uploads(q)) /\ Uploads(q) \in Seq(Files)
  BY UploadsAre
<1>2. files = [i \in 1 .. Len(Uploads(q)) |-> Uploads(q)[i]]
  BY InputsAre
<1>3. files = Uploads(q)
  BY <1>1, <1>2
<1> DEFINE perFile(f) == FirstFailure(<<Check(f.size = 0, "empty"),
                                       Check(DetectedType(f) = "unknown", "unknown type"),
                                       Check(f.size > SizeLimit(f), "too large")>>)
           each == [i \in DOMAIN files |-> perFile(files[i])]
           many == Check(Cardinality(AudioOf(files)) > MaxAudioSources, "too many recordings")
           long == Check(\E i \in AudioOf(files) : Seconds(files[i], probe2) > MaxSeconds,
                         "recording too long")
           total == Check(TotalSeconds(files, probe2) > MaxTotalSeconds, "recordings too long")
           mixed == Check(Mixed(files) /\ ~MixedEnabled, "mixed")
<1>4. DetectVerdict(files, probe2) =
        Then(FirstFailure(each), FirstFailure(<<many, long, total, mixed>>))
  BY DEF DetectVerdict
<1>5. ASSUME NEW i \in DOMAIN files PROVE each[i] = "none"
  <2> DEFINE f == files[i]
             empty == Check(f.size = 0, "empty")
             unknown == Check(DetectedType(f) = "unknown", "unknown type")
             large == Check(f.size > SizeLimit(f), "too large")
  <2>1. empty = "none" /\ unknown = "none" /\ large = "none"
    BY <1>1, <1>3, AdmittedPassed DEF Check
  <2>2. each[i] = FirstFailure(<<empty, unknown, large>>)
    OBVIOUS
  <2> HIDE DEF each, empty, unknown, large
  <2> QED BY <2>1, <2>2, OfThree, SMT
<1>6. FirstFailure(each) = "none"
  <2>1. DOMAIN each = DOMAIN files /\ DOMAIN each \in SUBSET Nat
    BY <1>1, <1>3
  <2> HIDE DEF each
  <2> QED BY <1>5, <2>1, FirstOfChecks
<1>7. /\ many = "none" /\ mixed = "none"
      /\ long \in {"none", "recording too long"}
      /\ total \in {"none", "recordings too long"}
  BY <1>3, AdmittedPassed DEF Check
<1> HIDE DEF each, many, long, total, mixed
<1>8. FirstFailure(<<many, long, total, mixed>>) \in {"none", many, long, total, mixed}
  BY OfFour, SMT
<1> QED BY <1>4, <1>6, <1>7, <1>8 DEF Then

----------------------------------------------------------------------------
(* The fingerprint of an upload.                                           *)

\* A finite set counts more than one exactly if two of its members differ.
LEMMA MoreThanOne ==
    ASSUME NEW S, IsFiniteSet(S)
    PROVE  Cardinality(S) > 1 <=> \E x, y \in S : x # y
<1>1. Cardinality(S) \in Nat
  BY FS_CardinalityType
<1>2. Cardinality(S) = 0 <=> S = {}
  BY FS_EmptySet
<1>3. Cardinality(S) = 1 <=> \E x : S = {x}
  BY FS_Singleton
<1>4. (\E x : S = {x}) \/ S = {} <=> ~\E x, y \in S : x # y
  <2>1. ASSUME ~\E x, y \in S : x # y, S # {} PROVE \E x : S = {x}
    <3>1. PICK x : x \in S
      BY <2>1
    <3>2. S = {x}
      BY <2>1, <3>1
    <3> QED BY <3>2
  <2> QED BY <2>1
<1> QED BY <1>1, <1>2, <1>3, <1>4

\* An admitted file is a recording if its bytes say so.
LEMMA TypeFromContent ==
    ASSUME NEW f \in Files, NEW g \in Files, f.content = g.content,
           DetectedType(f) # "unknown", DetectedType(g) # "unknown"
    PROVE  Format(f) = Format(g) /\ (IsAudio(f) <=> IsAudio(g))
<1>1. f.head = g.head /\ f.mark = g.mark /\ f.size = g.size
  BY SubmissionAssumption
<1>2. Format(f) = Format(g)
  BY <1>1 DEF Format, IsPdf
<1>3. ExtensionAgrees(f) /\ ExtensionAgrees(g)
  BY DEF DetectedType
<1> QED BY <1>2, <1>3 DEF IsAudio, DetectedType

\* What one upload has, another with the same set of inputs has in some place.
LEMMA SameInputsSameType ==
    ASSUME NEW q \in Uploaded, NEW r \in Uploaded, NEW probe, NEW probe2,
           Answer(q, probe) = "none", Answer(r, probe2) = "none",
           SetOfInputs(q) = SetOfInputs(r)
    PROVE  \A i \in DOMAIN Uploads(q) : \E j \in DOMAIN Uploads(r) :
              /\ Inputs(q)[i].doc = Inputs(r)[j].doc
              /\ Uploads(q)[i].content = Uploads(r)[j].content
              /\ Format(Uploads(q)[i]) = Format(Uploads(r)[j])
              /\ IsAudio(Uploads(q)[i]) <=> IsAudio(Uploads(r)[j])
<1> SUFFICES ASSUME NEW i \in DOMAIN Uploads(q)
             PROVE  \E j \in DOMAIN Uploads(r) :
                       /\ Inputs(q)[i].doc = Inputs(r)[j].doc
                       /\ Uploads(q)[i].content = Uploads(r)[j].content
                       /\ Format(Uploads(q)[i]) = Format(Uploads(r)[j])
                       /\ IsAudio(Uploads(q)[i]) <=> IsAudio(Uploads(r)[j])
  OBVIOUS
<1>1. /\ DOMAIN Uploads(q) = 1 .. Len(Uploads(q)) /\ DOMAIN Uploads(r) = 1 .. Len(Uploads(r))
      /\ Uploads(q) \in Seq(Files) /\ Uploads(r) \in Seq(Files)
  BY UploadsAre
<1>2. /\ DOMAIN Inputs(q) = DOMAIN Uploads(q) /\ DOMAIN Inputs(r) = DOMAIN Uploads(r)
      /\ \A k \in DOMAIN Uploads(q) : Inputs(q)[k].file = Uploads(q)[k]
      /\ \A k \in DOMAIN Uploads(r) : Inputs(r)[k].file = Uploads(r)[k]
  BY <1>1, InputsAre
<1>3. [doc |-> Inputs(q)[i].doc, content |-> Inputs(q)[i].file.content] \in SetOfInputs(r)
  BY <1>2 DEF SetOfInputs, Range
<1>4. PICK j \in DOMAIN Inputs(r) :
         [doc |-> Inputs(q)[i].doc, content |-> Inputs(q)[i].file.content] =
         [doc |-> Inputs(r)[j].doc, content |-> Inputs(r)[j].file.content]
  BY <1>3 DEF SetOfInputs, Range
<1>5. Inputs(q)[i].doc = Inputs(r)[j].doc /\ Uploads(q)[i].content = Uploads(r)[j].content
  BY <1>2, <1>4
<1>6. /\ Uploads(q)[i] \in Files /\ Uploads(r)[j] \in Files
      /\ DetectedType(Uploads(q)[i]) # "unknown" /\ DetectedType(Uploads(r)[j]) # "unknown"
  BY <1>1, <1>2, AdmittedPassed
<1> QED BY <1>2, <1>5, <1>6, TypeFromContent

\* One direction of the next lemma, of the parts that decide the type.
LEMMA SameParts ==
    ASSUME NEW q \in Uploaded, NEW r \in Uploaded, NEW probe, NEW probe2,
           Answer(q, probe) = "none", Answer(r, probe2) = "none",
           SetOfInputs(q) = SetOfInputs(r)
    PROVE  /\ AudioOf(Uploads(q)) # {} => AudioOf(Uploads(r)) # {}
           /\ HasDocument(Uploads(q)) => HasDocument(Uploads(r))
           /\ (\E i, j \in AudioOf(Uploads(q)) : i # j) =>
                 \E i, j \in AudioOf(Uploads(r)) : i # j
<1> DEFINE u == Uploads(q)
           v == Uploads(r)
           Twin(i, j) == /\ Inputs(q)[i].doc = Inputs(r)[j].doc
                         /\ IsAudio(u[i]) <=> IsAudio(v[j])
<1>1. \A i \in DOMAIN u : \E j \in DOMAIN v : Twin(i, j)
  BY SameInputsSameType
<1>2. /\ DOMAIN Inputs(q) = DOMAIN u /\ DOMAIN Inputs(r) = DOMAIN v
      /\ Distinct(Inputs(q)) /\ Distinct(Inputs(r))
  BY UploadsAre, InputsAre, AdmittedPassed
<1> HIDE DEF u, v
<1>3. ASSUME NEW i \in AudioOf(u), NEW j \in AudioOf(u), i # j
      PROVE  \E k, l \in AudioOf(v) : k # l
  <2>1. i \in DOMAIN u /\ j \in DOMAIN u /\ IsAudio(u[i]) /\ IsAudio(u[j])
    BY DEF AudioOf
  <2>2. PICK k \in DOMAIN v : Twin(i, k)
    BY <1>1, <2>1
  <2>3. PICK l \in DOMAIN v : Twin(j, l)
    BY <1>1, <2>1
  <2>4. k # l
    BY <1>2, <1>3, <2>1, <2>2, <2>3 DEF Distinct
  <2>5. k \in AudioOf(v) /\ l \in AudioOf(v)
    BY <2>1, <2>2, <2>3 DEF AudioOf
  <2> QED BY <2>4, <2>5
<1>4. AudioOf(u) # {} => AudioOf(v) # {}
  BY <1>1 DEF AudioOf
<1>5. HasDocument(u) => HasDocument(v)
  BY <1>1 DEF HasDocument
<1> QED BY <1>3, <1>4, <1>5 DEF u, v

\* Uploads of the same inputs are of the same type.
LEMMA SameSetSameType ==
    ASSUME NEW q \in Uploaded, NEW r \in Uploaded, NEW probe, NEW probe2,
           Answer(q, probe) = "none", Answer(r, probe2) = "none",
           SetOfInputs(q) = SetOfInputs(r)
    PROVE  InputType(Uploads(q)) = InputType(Uploads(r))
<1>1. /\ AudioOf(Uploads(q)) # {} <=> AudioOf(Uploads(r)) # {}
      /\ HasDocument(Uploads(q)) <=> HasDocument(Uploads(r))
      /\ (\E i, j \in AudioOf(Uploads(q)) : i # j) <=>
            \E i, j \in AudioOf(Uploads(r)) : i # j
  BY SameParts
<1>2. IsFiniteSet(AudioOf(Uploads(q))) /\ IsFiniteSet(AudioOf(Uploads(r)))
  <2>1. /\ DOMAIN Uploads(q) = 1 .. Len(Uploads(q)) /\ Len(Uploads(q)) \in Nat
        /\ DOMAIN Uploads(r) = 1 .. Len(Uploads(r)) /\ Len(Uploads(r)) \in Nat
    BY UploadsAre
  <2>2. IsFiniteSet(DOMAIN Uploads(q)) /\ IsFiniteSet(DOMAIN Uploads(r))
    BY <2>1, FS_Interval
  <2>3. AudioOf(Uploads(q)) \in SUBSET DOMAIN Uploads(q) /\ AudioOf(Uploads(r)) \in SUBSET DOMAIN Uploads(r)
    BY DEF AudioOf
  <2> QED BY <2>2, <2>3, FS_Subset
<1>3. Cardinality(AudioOf(Uploads(q))) > 1 <=> Cardinality(AudioOf(Uploads(r))) > 1
  BY <1>1, <1>2, MoreThanOne
<1> QED BY <1>1, <1>3 DEF InputType, Mixed

\* The documents an upload puts into its fingerprint.
Listed(q) == [i \in DOMAIN Inputs(q) |-> FingerprintOfInput(Inputs(q)[i])]

\* What the fingerprint of an upload is made of.
LEMMA UploadFingerprint ==
    ASSUME NEW q \in Uploaded
    PROVE  Fingerprint(q) = [input |-> InputType(Uploads(q)), content |-> None,
                             docs |-> SortedDocuments(Listed(q))]
  BY DEF Fingerprint, Listed, IsUpload, Uploaded

\* Documents with ids of their own are listed once each.
LEMMA ListedOnce ==
    ASSUME NEW q, Distinct(Inputs(q))
    PROVE  SortedDocuments(Listed(q)) = [d \in Range(Listed(q)) |-> 1]
<1> DEFINE docs == Listed(q)
<1>1. \A i, j \in DOMAIN docs : docs[i] = docs[j] => i = j
  BY DEF Listed, FingerprintOfInput, Distinct
<1>2. ASSUME NEW d \in Range(docs) PROVE Cardinality({i \in DOMAIN docs : docs[i] = d}) = 1
  <2>1. PICK i \in DOMAIN docs : docs[i] = d
    BY DEF Range
  <2>2. {j \in DOMAIN docs : docs[j] = d} = {i}
    BY <1>1, <2>1
  <2> HIDE DEF docs
  <2> QED BY <2>2, FS_Singleton
<1> HIDE DEF docs
<1>3. SortedDocuments(docs) = [d \in Range(docs) |-> 1]
  BY <1>2 DEF SortedDocuments
<1> QED BY <1>3 DEF docs

\* The fingerprint lists no more than the inputs tell apart,
LEMMA SameSetSameList ==
    ASSUME NEW q \in Uploaded, NEW r \in Uploaded, NEW probe, NEW probe2,
           Answer(q, probe) = "none", Answer(r, probe2) = "none",
           SetOfInputs(q) = SetOfInputs(r)
    PROVE  Range(Listed(q)) \subseteq Range(Listed(r))
<1> SUFFICES ASSUME NEW i \in DOMAIN Listed(q)
             PROVE  \E j \in DOMAIN Listed(r) : Listed(q)[i] = Listed(r)[j]
  BY DEF Range
<1>1. /\ DOMAIN Listed(q) = DOMAIN Uploads(q) /\ DOMAIN Listed(r) = DOMAIN Uploads(r)
      /\ DOMAIN Inputs(q) = DOMAIN Uploads(q) /\ DOMAIN Inputs(r) = DOMAIN Uploads(r)
      /\ \A k \in DOMAIN Uploads(q) : Inputs(q)[k].file = Uploads(q)[k]
      /\ \A k \in DOMAIN Uploads(r) : Inputs(r)[k].file = Uploads(r)[k]
  BY UploadsAre, InputsAre DEF Listed
<1>2. PICK j \in DOMAIN Uploads(r) :
         /\ Inputs(q)[i].doc = Inputs(r)[j].doc
         /\ Uploads(q)[i].content = Uploads(r)[j].content
         /\ Format(Uploads(q)[i]) = Format(Uploads(r)[j])
  BY <1>1, SameInputsSameType
<1>3. FingerprintOfInput(Inputs(q)[i]) = FingerprintOfInput(Inputs(r)[j])
  BY <1>1, <1>2 DEF FingerprintOfInput
<1> QED BY <1>1, <1>2, <1>3 DEF Listed

\* and no less.
LEMMA SameListSameSet ==
    ASSUME NEW q, NEW r, Range(Listed(q)) \subseteq Range(Listed(r))
    PROVE  SetOfInputs(q) \subseteq SetOfInputs(r)
<1> SUFFICES ASSUME NEW i \in DOMAIN Inputs(q)
             PROVE  \E j \in DOMAIN Inputs(r) :
                       /\ Inputs(q)[i].doc = Inputs(r)[j].doc
                       /\ Inputs(q)[i].file.content = Inputs(r)[j].file.content
  BY DEF SetOfInputs, Range
<1>1. FingerprintOfInput(Inputs(q)[i]) \in Range(Listed(r))
  BY DEF Range, Listed
<1>2. PICK j \in DOMAIN Inputs(r) :
         FingerprintOfInput(Inputs(q)[i]) = FingerprintOfInput(Inputs(r)[j])
  BY <1>1 DEF Range, Listed
<1> QED BY <1>2 DEF FingerprintOfInput

\* Two admitted uploads have one fingerprint if and only if they bring the
\* same documents under the same ids.
LEMMA FingerprintTells ==
    ASSUME NEW q \in Uploaded, NEW r \in Uploaded, NEW probe, NEW probe2,
           Answer(q, probe) = "none", Answer(r, probe2) = "none"
    PROVE  Fingerprint(q) = Fingerprint(r) <=> SetOfInputs(q) = SetOfInputs(r)
<1>1. /\ SortedDocuments(Listed(q)) = [d \in Range(Listed(q)) |-> 1]
      /\ SortedDocuments(Listed(r)) = [d \in Range(Listed(r)) |-> 1]
  BY AdmittedPassed, ListedOnce
<1>2. ASSUME Fingerprint(q) = Fingerprint(r) PROVE SetOfInputs(q) = SetOfInputs(r)
  <2>1. SortedDocuments(Listed(q)) = SortedDocuments(Listed(r))
    BY <1>2, UploadFingerprint
  <2>2. Range(Listed(q)) = Range(Listed(r))
    BY <1>1, <2>1
  <2>3. /\ Range(Listed(q)) \subseteq Range(Listed(r))
        /\ Range(Listed(r)) \subseteq Range(Listed(q))
    BY <2>2
  <2>4. SetOfInputs(q) \subseteq SetOfInputs(r) /\ SetOfInputs(r) \subseteq SetOfInputs(q)
    BY <2>3, SameListSameSet
  <2> QED BY <2>4
<1>3. ASSUME SetOfInputs(q) = SetOfInputs(r) PROVE Fingerprint(q) = Fingerprint(r)
  <2>1. Range(Listed(q)) = Range(Listed(r))
    BY <1>3, SameSetSameList
  <2>2. InputType(Uploads(q)) = InputType(Uploads(r))
    BY <1>3, SameSetSameType
  <2> QED BY <1>1, <2>1, <2>2, UploadFingerprint
<1> QED BY <1>2, <1>3

----------------------------------------------------------------------------
(* The submission.                                                         *)

Passed(q) == \E probe \in BOOLEAN : Answer(q, probe) = "none"

\* A request that brings references or a text.
Described ==
    [endpoint : {"jobs", "json", "demoJson"}, input : {"text", "backend_document"},
     refs : Seq(References), content : Texts \cup {None}, wellFormed : BOOLEAN,
     transport : {1, 2}]

Form(q) == IF IsUpload(q) THEN q \in Uploaded ELSE q \in Described

\* What is accepted passed, and was written down as it came; a second request
\* passed as well, and was compared with the first.
AdmittedOK ==
    /\ Form(request)
    /\ answer # "500"
    /\ answer = "accepted" => Passed(request) /\ inputs = Inputs(request)
    /\ verdict # "pending" => answer = "accepted"
    /\ again # None =>
        /\ answer = "accepted" /\ again.endpoint = request.endpoint
        /\ Form(again) /\ Passed(again)
        /\ recognized = IF Fingerprint(again) = Fingerprint(request) THEN "same" ELSE "conflict"
    /\ RefusedOnlyForDuration

\* The requests of the model are well formed.
LEMMA UpToAreSequences ==
    ASSUME NEW S, NEW n \in Nat PROVE UpTo(S, n) \subseteq Seq(S)
  BY DEF UpTo

LEMMA AdmittedInit == SubmissionInit => AdmittedOK
<1> SUFFICES ASSUME SubmissionInit PROVE AdmittedOK
  OBVIOUS
<1>1. UpTo(Files, 1) \subseteq Seq(Files) /\ UpTo(Files, MaxParts) \subseteq Seq(Files)
      /\ UpTo(Ids \cup {Blank}, 2) \subseteq Seq(Ids \cup {Blank})
  BY SubmissionAssumption, UpToAreSequences
<1>2. UploadRequests \subseteq Uploaded
  BY <1>1 DEF UploadRequests, Uploaded
<1>3. Form(request)
  <2>1. CASE request \in UploadRequests
    BY <1>2, <2>1 DEF Form, IsUpload, Uploaded
  <2>2. CASE request \in JobRequests
    <3>1. UpTo(References, 1) \subseteq Seq(References)
      BY UpToAreSequences
    <3> QED BY <2>2, <3>1 DEF Form, IsUpload, JobRequests, Described
  <2>3. CASE request \in JsonRequests
    <3>1. <<>> \in Seq(References)
      OBVIOUS
    <3> QED BY <2>3, <3>1 DEF Form, IsUpload, JsonRequests, Described
  <2> QED BY <2>1, <2>2, <2>3 DEF SubmissionInit
<1> QED BY <1>3 DEF SubmissionInit, AdmittedOK, RefusedOnlyForDuration

\* No check gives one of the answers that mean something else.
LEMMA AnswersAre ==
    ASSUME NEW q, Form(q), NEW probe
    PROVE  Answer(q, probe) \notin Reserved
<1>1. CASE IsUpload(q)
  BY <1>1, InternalAnswers, DemoAnswers DEF Form, Answer, Uploaded
<1>2. CASE q.endpoint = "jobs"
  <2> DEFINE a == Check(BadForm(q), "400 job id")
             b == Check(q.input = "text" /\ q.content = None, "400 no content")
             c == Check(q.input # "text" /\ q.refs = <<>>, "400 no sources")
  <2>1. Answer(q, probe) = FirstFailure(<<a, b, c>>)
    BY <1>2 DEF Answer, JobsFailure
  <2>2. {"none", a, b, c} \cap Reserved = {}
    BY DEF Check, Reserved
  <2> HIDE DEF a, b, c
  <2>3. Answer(q, probe) \in {"none", a, b, c}
    BY <2>1, OfThree, SMT
  <2> QED BY <2>2, <2>3
<1>3. CASE q.endpoint = "json"
  BY <1>3 DEF Answer, JsonFailure, Then, Check, Reserved
<1>4. CASE q.endpoint = "demoJson"
  BY <1>4 DEF Answer, DemoJsonFailure, Then, Check, Reserved
<1> QED BY <1>1, <1>2, <1>3, <1>4 DEF Form, Described

\* Whatever a client changes before it sends an upload again, it is an upload.
LEMMA VariantsAreUploads ==
    ASSUME NEW q \in Uploaded, NEW r \in Variants(q)
    PROVE  r \in Uploaded /\ r.endpoint = q.endpoint
<1>1. ASSUME NEW S, NEW s \in Seq(S) PROVE Swapped(s) \in Seq(S)
  <2>1. CASE Len(s) < 2
    BY <2>1 DEF Swapped
  <2>2. CASE Len(s) >= 2
    <3>1. Len(s) \in Nat /\ s[1] \in S /\ s[2] \in S
      BY <2>2
    <3>2. SubSeq(s, 3, Len(s)) \in Seq(S)
      BY <2>2, <3>1
    <3>3. <<s[2], s[1]>> \in Seq(S)
      BY <3>1
    <3> QED BY <2>2, <3>1, <3>2, <3>3 DEF Swapped
  <2> QED BY <2>1, <2>2
<1>2. Swapped(q.files) \in Seq(Files) /\ Swapped(q.ids) \in Seq(Ids \cup {Blank})
  BY <1>1 DEF Uploaded
<1>3. IsUpload(q)
  BY DEF IsUpload, Uploaded
<1>4. CASE r \in {q, [q EXCEPT !.transport = 2]}
  BY <1>4 DEF Uploaded
<1>5. CASE r = [q EXCEPT !.files = Swapped(q.files), !.ids = Swapped(q.ids)]
  BY <1>2, <1>5 DEF Uploaded
<1>6. CASE r = [q EXCEPT !.files = Swapped(q.files)]
  BY <1>2, <1>6 DEF Uploaded
<1>7. ASSUME NEW i \in DOMAIN q.files, NEW f \in Files, r = [q EXCEPT !.files[i] = f]
      PROVE  r \in Uploaded /\ r.endpoint = q.endpoint
  <2>1. [q.files EXCEPT ![i] = f] \in Seq(Files)
    BY DEF Uploaded
  <2>2. r = [q EXCEPT !.files = [q.files EXCEPT ![i] = f]]
    BY <1>7
  <2> QED BY <2>1, <2>2 DEF Uploaded
<1> QED BY <1>3, <1>4, <1>5, <1>6, <1>7 DEF Variants

\* What is sent again in place of references or a text is of its kind.
LEMMA VariantsAreDescribed ==
    ASSUME NEW q \in Described, NEW r \in Variants(q)
    PROVE  r \in Described /\ r.endpoint = q.endpoint
<1>1. ~IsUpload(q)
  BY DEF IsUpload, Described
<1>2. CASE r \in {q, [q EXCEPT !.transport = 2]}
  BY <1>2 DEF Described
<1>3. ASSUME NEW i \in DOMAIN q.refs, NEW x \in References, r = [q EXCEPT !.refs[i] = x]
      PROVE  r \in Described /\ r.endpoint = q.endpoint
  <2>1. [q.refs EXCEPT ![i] = x] \in Seq(References)
    BY DEF Described
  <2>2. r = [q EXCEPT !.refs = [q.refs EXCEPT ![i] = x]]
    BY <1>3
  <2> QED BY <2>1, <2>2 DEF Described
<1>4. ASSUME NEW c \in Texts, r = [q EXCEPT !.content = c]
      PROVE  r \in Described /\ r.endpoint = q.endpoint
  BY <1>4 DEF Described
<1> QED BY <1>1, <1>2, <1>3, <1>4 DEF Variants

\* The answer to a request, its verdict and its resubmission, step by step.
LEMMA ReceiveStep ==
    ASSUME AdmittedOK, NEW probe \in BOOLEAN, Receive(probe) PROVE AdmittedOK'
<1> DEFINE failure == Answer(request, probe)
<1>1. /\ answer = "pending" /\ UNCHANGED <<request, verdict, again, recognized>>
      /\ answer' = IF failure = "none" THEN "accepted" ELSE failure
      /\ inputs' = IF failure = "none" THEN Inputs(request) ELSE <<>>
  BY DEF Receive
<1>2. Form(request) /\ verdict = "pending" /\ again = None
  BY <1>1 DEF AdmittedOK
<1>3. failure \notin Reserved
  BY <1>2, AnswersAre
<1> HIDE DEF failure
<1>4. answer' # "500" /\ (answer' = "accepted" => failure = "none" /\ inputs' = Inputs(request))
  BY <1>1, <1>3 DEF Reserved
<1>5. failure = "none" => Passed(request)
  BY DEF Passed, failure
<1>6. Form(request)' /\ (Passed(request) => Passed(request)')
  BY <1>1, <1>2 DEF Form, IsUpload, Passed
<1>7. Inputs(request)' = Inputs(request)
  BY <1>1
<1> QED BY <1>1, <1>2, <1>4, <1>5, <1>6, <1>7 DEF AdmittedOK, RefusedOnlyForDuration

LEMMA DetectStep ==
    ASSUME AdmittedOK, NEW probe \in BOOLEAN, Detect(probe) PROVE AdmittedOK'
<1> DEFINE files == [i \in DOMAIN inputs |-> inputs[i].file]
<1>1. /\ answer = "accepted" /\ inputs # <<>> /\ verdict' = DetectVerdict(files, probe)
      /\ UNCHANGED <<request, answer, inputs, again, recognized>>
  BY DEF Detect
<1>2. Form(request) /\ inputs = Inputs(request)
  BY <1>1 DEF AdmittedOK
<1>3. PICK probe2 \in BOOLEAN : Answer(request, probe2) = "none"
  BY <1>1 DEF AdmittedOK, Passed
<1>4. request \in Uploaded
  BY <1>1, <1>2 DEF Inputs, Form, IsUpload
<1>5. verdict' \in {"none", "recording too long", "recordings too long"}
  BY <1>1, <1>2, <1>3, <1>4, InspectionAgrees
<1> QED BY <1>1, <1>5 DEF AdmittedOK, RefusedOnlyForDuration, Form, IsUpload, Passed

LEMMA ResubmitStep ==
    ASSUME AdmittedOK, NEW probe \in BOOLEAN, Resubmit(probe) PROVE AdmittedOK'
<1>1. PICK q \in Variants(request) :
        /\ Answer(q, probe) = "none" /\ again' = q
        /\ recognized' = IF Fingerprint(q) = Fingerprint(request) THEN "same" ELSE "conflict"
  BY DEF Resubmit
<1>2. answer = "accepted" /\ UNCHANGED <<request, answer, inputs, verdict>>
  BY DEF Resubmit
<1>3. q.endpoint = request.endpoint /\ Form(q)
  <2>1. Form(request)
    BY DEF AdmittedOK
  <2>2. CASE IsUpload(request)
    BY <2>1, <2>2, VariantsAreUploads DEF Form, IsUpload
  <2>3. CASE ~IsUpload(request)
    BY <2>1, <2>3, VariantsAreDescribed DEF Form, IsUpload
  <2> QED BY <2>2, <2>3
<1>4. Passed(q)
  BY <1>1 DEF Passed
<1> QED BY <1>1, <1>2, <1>3, <1>4 DEF AdmittedOK, RefusedOnlyForDuration, Form, IsUpload, Passed

LEMMA AdmittedStep == AdmittedOK /\ [SubmissionNext]_submissionVars => AdmittedOK'
<1>1. ASSUME AdmittedOK, UNCHANGED submissionVars PROVE AdmittedOK'
  BY <1>1 DEF AdmittedOK, submissionVars, RefusedOnlyForDuration, Form, IsUpload, Passed
<1> QED BY <1>1, ReceiveStep, DetectStep, ResubmitStep DEF SubmissionNext

\* What is accepted passed its checks, and what is sent again was compared.
LEMMA AdmittedAlways == SubmissionSpec => []AdmittedOK
  BY AdmittedInit, AdmittedStep, PTL DEF SubmissionSpec

LEMMA AdmittedSays == AdmittedOK => AdmittedIdsAreAsSent /\ ResubmissionIsRecognized
<1> SUFFICES ASSUME AdmittedOK PROVE AdmittedIdsAreAsSent /\ ResubmissionIsRecognized
  OBVIOUS
<1>1. AdmittedIdsAreAsSent
  <2>1. ASSUME answer = "accepted", IsUpload(request)
        PROVE  /\ Distinct(inputs)
               /\ Len(SentIds(request)) = Len(inputs) =>
                     \A i \in DOMAIN inputs : inputs[i].doc = SentIds(request)[i]
    <3>1. request \in Uploaded /\ inputs = Inputs(request)
      BY <2>1 DEF AdmittedOK, Form
    <3>2. PICK probe \in BOOLEAN : Answer(request, probe) = "none"
      BY <2>1 DEF AdmittedOK, Passed
    <3> QED BY <3>1, <3>2, AdmittedPassed, IdsAreAsSent
  <2> QED BY <2>1 DEF AdmittedOK, AdmittedIdsAreAsSent, Distinct
<1>2. ResubmissionIsRecognized
  <2>1. ASSUME again # None, IsUpload(request)
        PROVE  recognized = "same" <=> SetOfInputs(again) = SetOfInputs(request)
    <3>1. request \in Uploaded /\ again \in Uploaded
      BY <2>1 DEF AdmittedOK, Form, IsUpload
    <3>2. PICK probe \in BOOLEAN : Answer(request, probe) = "none"
      BY <2>1 DEF AdmittedOK, Passed
    <3>3. PICK probe2 \in BOOLEAN : Answer(again, probe2) = "none"
      BY <2>1 DEF AdmittedOK, Passed
    <3>4. Fingerprint(again) = Fingerprint(request) <=> SetOfInputs(again) = SetOfInputs(request)
      BY <3>1, <3>2, <3>3, FingerprintTells
    <3>5. recognized = IF Fingerprint(again) = Fingerprint(request) THEN "same" ELSE "conflict"
      BY <2>1 DEF AdmittedOK
    <3> QED BY <3>4, <3>5
  <2> QED BY <2>1 DEF ResubmissionIsRecognized
<1> QED BY <1>1, <1>2

\* Whatever mixture of id fields and blanks a client sends, the files it is
\* admitted with carry the ids sent for them, and the handler never fails.
THEOREM IdsStayAsSent == SubmissionSpec => []AdmittedIdsAreAsSent
  BY AdmittedAlways, AdmittedSays, PTL

\* The worker refuses what the endpoint admitted only for durations.
THEOREM InspectionFollows == SubmissionSpec => []RefusedOnlyForDuration
<1>1. AdmittedOK => RefusedOnlyForDuration
  BY DEF AdmittedOK
<1> QED BY <1>1, AdmittedAlways, PTL

\* A second upload is taken for the first one exactly when it brings the same
\* documents under the same ids.
THEOREM ResubmissionsAreRecognized == SubmissionSpec => []ResubmissionIsRecognized
  BY AdmittedAlways, AdmittedSays, PTL
==============================================================================
