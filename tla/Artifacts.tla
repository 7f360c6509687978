------------------------------ MODULE Artifacts ------------------------------
(***************************************************************************)
(* What one job leaves in the cache and in PostgreSQL besides its row, and *)
(* the executions that work from it: the API saves the manifest of source  *)
(* documents and stashes the input, a worker recovers the input, saves     *)
(* documents and chunks when prepare_sources is done and again at the end, *)
(* saves the result, writes the outcome and calls back. Executions of one  *)
(* job may overlap: a job cancelled in the queue and retried has two       *)
(* messages. A save deletes the rows of the job and inserts new ones in    *)
(* one READ COMMITTED transaction: it deletes the rows it saw when it      *)
(* began. The control of the row itself is in JobLifecycle.                *)
(***************************************************************************)
EXTENDS SourceRecovery

CONSTANTS
    Callers,        \* HTTP requests that create, reprocess or retry
    MaxExecutions,  \* executions, one per message; bounds the model
    MaxRequeues,    \* reprocesses and retries; bounds the model
    MaxFaults       \* calls to a store, the cache or the queue that fail

ASSUME BoundsAssumption ==
    MaxExecutions \in Nat /\ MaxRequeues \in Nat /\ MaxFaults \in Nat

Executions == 1 .. MaxExecutions
Actors == Callers \cup Executions

ASSUME ActorsAssumption == Callers \cap Executions = {}

VARIABLES
    kind,       \* the kind of submission
    status,     \* the status column of the job's row
    cancel,     \* its cancel flag
    messages,   \* messages in the queue
    cache,      \* the stashed input
    manifest,   \* rows of ai_source_documents: a reference and its save
    chunkRows,  \* rows of ai_source_chunks: a document and who saved it
    result,     \* rows of ai_job_results: who saved it
    pc,         \* where each caller and each execution is
    seen,       \* the rows a save in progress deletes
    known,      \* the manifest rows each execution works with
    items,      \* the input it recovered, until prepare_sources used it
    ready,      \* the documents it made chunks of
    final,      \* whether it is through the graph
    code,       \* history: why it failed, as far as a property asks
    posted,     \* history: whether it called back
    requeues, faults, \* how many there were
    overlapped  \* history: two saves to one table were open at once

row == <<status, cancel, messages>>
tables == <<manifest, chunkRows, result>>
work == <<known, items, ready, final, code, posted>>
counters == <<requeues, faults, overlapped>>
vars == <<kind, row, cache, tables, pc, seen, work, counters>>

Init ==
    /\ kind \in Kinds
    /\ status = "ABSENT" /\ cancel = FALSE /\ messages = 0
    /\ cache = Miss /\ manifest = {} /\ chunkRows = {} /\ result = {}
    /\ pc = [a \in Actors |-> "idle"]
    /\ seen = [a \in Actors |-> {}]
    /\ known = [e \in Executions |-> {}] /\ items = [e \in Executions |-> {}]
    /\ ready = [e \in Executions |-> {}] /\ final = [e \in Executions |-> FALSE]
    /\ code = [e \in Executions |-> "none"] /\ posted = [e \in Executions |-> FALSE]
    /\ requeues = 0 /\ faults = 0 /\ overlapped = FALSE

Goto(a, stage) == pc' = [pc EXCEPT ![a] = stage]

\* A call that may fail: the fault is counted.
Fault == faults < MaxFaults /\ faults' = faults + 1

\* A save begins: its DELETE sees what is committed now. A save of the same
\* table that is still open is remembered.
BeginSave(a, rows, stage) ==
    /\ seen' = [seen EXCEPT ![a] = rows]
    /\ overlapped' = (overlapped \/ \E b \in Actors \ {a} : pc[b] = stage)
    /\ Goto(a, stage)

\* Faulty variant of Replaced: the old rows stay.
ReplacedWithoutDelete(a, rows, new) == rows \cup new

\* An id no row has, neither a stored one nor one a save is about to delete.
Fresh ==
    LET used == {w.copy : w \in manifest} \cup
                {w.copy : w \in UNION {seen[a] : a \in {b \in Actors : pc[b] = "saveDocuments"}}}
    IN CHOOSE n \in 1 .. Cardinality(used) + 1 :
            n \notin used /\ \A m \in 1 .. n - 1 : m \in used

\* What a table holds when the save commits.
Replaced(a, rows, new) == (rows \ seen[a]) \cup new

----------------------------------------------------------------------------
(* The API: prepare_and_dispatch_job, retry_job and cancel_job.            *)

Submit(c) ==
    /\ pc[c] = "idle" /\ status = "ABSENT"
    /\ status' = "QUEUED"
    /\ Goto(c, "manifest")
    /\ UNCHANGED <<kind, cancel, messages, cache, tables, seen, work, counters>>

Requeue(c, stage) ==
    /\ pc[c] = "idle" /\ status \in {"FAILED", "CANCELLED"}
    /\ requeues < MaxRequeues /\ requeues' = requeues + 1
    /\ status' = "QUEUED" /\ cancel' = FALSE
    /\ Goto(c, stage)
    /\ UNCHANGED <<kind, messages, cache, tables, seen, work,
                   faults, overlapped>>

\* A reprocess saves the manifest and stashes the input again, a retry does not.
Reprocess(c) == Requeue(c, "manifest")
Retry(c) == Requeue(c, "enqueue")

BeginManifest(c) ==
    /\ pc[c] = "manifest"
    /\ IF SubmittedRefs(kind) = {}
       THEN Goto(c, "stash") /\ UNCHANGED <<seen, overlapped>>
       ELSE BeginSave(c, manifest, "saveDocuments")
    /\ UNCHANGED <<kind, row, cache, tables, work, requeues, faults>>

\* The handler gives up and marks the job failed.
GiveUp(c) ==
    /\ Fault
    /\ status' = "FAILED"
    /\ Goto(c, "idle")
    /\ UNCHANGED <<kind, cancel, messages, cache, tables, seen, work,
                   requeues, overlapped>>

CommitManifest(c) ==
    /\ pc[c] = "saveDocuments"
    /\ \/ GiveUp(c)
       \/ /\ manifest' = Replaced(c, manifest,
                            {[ref |-> r, copy |-> Fresh] : r \in SubmittedRefs(kind)})
          /\ seen' = [seen EXCEPT ![c] = {}]
          /\ Goto(c, "stash")
          /\ UNCHANGED <<kind, row, cache, chunkRows, result, work,
                         requeues, faults, overlapped>>

Stash(c) ==
    /\ pc[c] = "stash"
    /\ \/ GiveUp(c)
       \/ /\ cache' = Stashed(kind)
          /\ Goto(c, "enqueue")
          /\ UNCHANGED <<kind, row, tables, seen, work, counters>>

Enqueue(c) ==
    /\ pc[c] = "enqueue"
    /\ \/ GiveUp(c)
       \/ /\ messages' = messages + 1
          /\ Goto(c, "idle")
          /\ UNCHANGED <<kind, status, cancel, cache, tables, seen, work, counters>>

\* The race inside cancel_job is a matter of JobLifecycle.
Cancel ==
    /\ status \in {"QUEUED", "PROCESSING"}
    /\ cancel' = TRUE
    /\ status' = IF status = "QUEUED" THEN "CANCELLED" ELSE status
    /\ UNCHANGED <<kind, messages, cache, tables, pc, seen, work, counters>>

\* INPUT_CACHE_TTL_SECONDS are over, or Redis lost the key.
Expire ==
    /\ cache.hit
    /\ cache' = Miss
    /\ UNCHANGED <<kind, row, tables, pc, seen, work, counters>>

----------------------------------------------------------------------------
(* The worker: recovering the input.                                       *)

\* What a read that may fail returns; a failure is the same as nothing.
Read(found, nothing, got) ==
    \/ got = found /\ UNCHANGED faults
    \/ got = nothing /\ Fault

\* A message is taken and the cache is read.
Take(e) ==
    /\ pc[e] = "idle" /\ messages > 0
    /\ \A f \in Executions : f < e => pc[f] # "idle"
    /\ messages' = messages - 1
    /\ \E entry \in {cache, Miss} :
        /\ Read(cache, Miss, entry)
        /\ known' = [known EXCEPT ![e] = {[ref |-> r, copy |-> 0] : r \in entry.refs}]
        /\ IF entry.content
           THEN items' = [items EXCEPT ![e] = InlineItems(kind)] /\ Goto(e, "start")
           ELSE /\ Goto(e, IF entry.refs = {} THEN "readManifest" ELSE "fetch")
                /\ UNCHANGED items
    /\ UNCHANGED <<kind, status, cancel, cache, tables, seen, ready, final, code,
                   posted, requeues, overlapped>>

\* What an execution saves no more documents and chunks of does not matter.
Forget(e) ==
    /\ known' = [known EXCEPT ![e] = {}]
    /\ ready' = [ready EXCEPT ![e] = {}]
    /\ final' = [final EXCEPT ![e] = FALSE]

\* An execution that cannot go on fails its job.
Fail(e, why, next) ==
    /\ status' = "FAILED"
    /\ code' = [code EXCEPT ![e] = why]
    /\ Goto(e, next)

ReadManifest(e) ==
    /\ pc[e] = "readManifest"
    /\ \E rows \in {manifest, {}} :
        /\ Read(manifest, {}, rows)
        /\ known' = [known EXCEPT ![e] = rows]
        /\ Goto(e, IF rows = {} THEN "fallback" ELSE "fetch")
    /\ UNCHANGED <<kind, row, cache, tables, seen, items, ready, final, code,
                   posted, requeues, overlapped>>

Fetch(e) ==
    /\ pc[e] = "fetch"
    /\ \E answer \in [known[e] -> {"original", "changed", "empty", "refused"}] :
        /\ \A w \in known[e] : answer[w] \in Answers(kind, w.ref)
        /\ LET got == FetchedItems(known[e], answer) IN
            IF DownloadFails(kind, answer)
            THEN Fail(e, "none", "callback") /\ UNCHANGED items
            ELSE IF OfBytes(kind) /\ TooManyRecordings(got)
            THEN Fail(e, "TOO_MANY_RECORDINGS", "callback") /\ UNCHANGED items
            ELSE /\ items' = [items EXCEPT ![e] = got]
                 /\ Goto(e, IF got = {} THEN "fallback" ELSE "start")
                 /\ UNCHANGED <<status, code>>
    /\ UNCHANGED <<kind, cancel, messages, cache, tables, seen, known, ready,
                   final, posted, counters>>

FallBack(e) ==
    /\ pc[e] = "fallback"
    /\ \E chunks \in {chunkRows, {}} :
        /\ Read(chunkRows, {}, chunks)
        /\ LET got == ItemsOfChunks(kind, chunks) IN
            IF got = {}
            THEN Fail(e, "none", "callback") /\ UNCHANGED items
            ELSE /\ items' = [items EXCEPT ![e] = got]
                 /\ Goto(e, "start")
                 /\ UNCHANGED <<status, code>>
    /\ UNCHANGED <<kind, cancel, messages, cache, tables, seen, known, ready,
                   final, posted, requeues, overlapped>>

----------------------------------------------------------------------------
(* The worker: running the graph and saving what it makes.                 *)

Start(e) ==
    /\ pc[e] = "start"
    /\ status' = IF cancel THEN "CANCELLED" ELSE "PROCESSING"
    /\ Goto(e, IF cancel THEN "done" ELSE "prepare")
    /\ IF cancel
       THEN Forget(e) /\ items' = [items EXCEPT ![e] = {}]
       ELSE UNCHANGED <<known, ready, final, items>>
    /\ UNCHANGED <<kind, cancel, messages, cache, tables, seen, code, posted, counters>>

\* prepare_sources makes chunks of the documents it can use. Without chunks
\* nothing is saved, now or at the end.
Prepare(e) ==
    /\ pc[e] = "prepare"
    /\ \E usable \in SUBSET {i.doc : i \in items[e]} :
        /\ ready' = [ready EXCEPT ![e] = usable]
        /\ Goto(e, IF usable = {} THEN "graph" ELSE "documents")
    /\ items' = [items EXCEPT ![e] = {}]
    /\ UNCHANGED <<kind, row, cache, tables, seen, known, final, code,
                   posted, counters>>

\* The documents of the pipeline state: one entry per document id, those
\* that failed or were rejected included.
StateRefs(e) == IF known[e] = {} THEN {Ref(Inline)} ELSE {w.ref : w \in known[e]}

\* Faulty variant of DocumentRows: only what the pipeline learned is saved.
ReadyDocumentRows(e, n) ==
    {[ref |-> r, copy |-> n] : r \in {x \in StateRefs(e) : x.doc \in ready[e]}}

\* A row keeps what an earlier row of the same document knew.
DocumentRows(e, n) ==
    {[ref |-> [r EXCEPT !.hashed = r.hashed \/
                   \E w \in seen[e] : w.ref.doc = r.doc /\ w.ref.hashed],
      copy |-> n] : r \in StateRefs(e)}

BeginDocuments(e) ==
    /\ pc[e] = "documents"
    /\ BeginSave(e, manifest, "saveDocuments")
    /\ UNCHANGED <<kind, row, cache, tables, work, requeues, faults>>

\* persist_source_documents_and_chunks goes on when the save fails.
CommitDocuments(e) ==
    /\ pc[e] = "saveDocuments"
    /\ \/ /\ manifest' = Replaced(e, manifest, DocumentRows(e, Fresh))
          /\ UNCHANGED faults
       \/ Fault /\ UNCHANGED manifest
    /\ seen' = [seen EXCEPT ![e] = {}]
    /\ Goto(e, "chunks")
    /\ UNCHANGED <<kind, row, cache, chunkRows, result, work, requeues, overlapped>>

BeginChunks(e) ==
    /\ pc[e] = "chunks"
    /\ BeginSave(e, chunkRows, "saveChunks")
    /\ UNCHANGED <<kind, row, cache, tables, work, requeues, faults>>

\* Chunk ids are unique in a job: a row the delete did not see and that has
\* the id of a new one makes the insert fail.
ChunkConflict(e) == \E r \in chunkRows \ seen[e] : r.doc \in ready[e]

CommitChunks(e) ==
    /\ pc[e] = "saveChunks"
    /\ \/ /\ ~ChunkConflict(e)
          /\ chunkRows' = Replaced(e, chunkRows, {[doc |-> d, by |-> e] : d \in ready[e]})
          /\ UNCHANGED faults
       \/ ChunkConflict(e) /\ UNCHANGED <<chunkRows, faults>>
       \/ Fault /\ UNCHANGED chunkRows
    /\ seen' = [seen EXCEPT ![e] = {}]
    /\ Goto(e, IF final[e] THEN "result" ELSE "graph")
    /\ UNCHANGED <<kind, row, cache, manifest, result, work, requeues, overlapped>>

\* The rest of the graph ends, or the cancel flag is seen between two nodes.
RunGraph(e) ==
    /\ pc[e] = "graph"
    /\ \/ /\ final' = [final EXCEPT ![e] = TRUE]
          /\ Goto(e, IF ready[e] = {} THEN "result" ELSE "documents")
          /\ UNCHANGED <<status, known, ready>>
       \/ cancel /\ status' = "CANCELLED" /\ Goto(e, "done") /\ Forget(e)
    /\ UNCHANGED <<kind, cancel, messages, cache, tables, seen, items,
                   code, posted, counters>>

\* The runtime is over or a node raises: a save in progress is rolled back.
Interrupt(e) ==
    /\ pc[e] \in {"prepare", "documents", "saveDocuments", "chunks", "saveChunks", "graph"}
    /\ ~final[e]
    /\ Fail(e, "none", "done")
    /\ seen' = [seen EXCEPT ![e] = {}]
    /\ items' = [items EXCEPT ![e] = {}]
    /\ Forget(e)
    /\ UNCHANGED <<kind, cancel, messages, cache, tables, posted, counters>>

BeginResult(e) ==
    /\ pc[e] = "result"
    /\ BeginSave(e, result, "saveResult")
    /\ Forget(e)
    /\ UNCHANGED <<kind, row, cache, tables, items, code, posted, requeues, faults>>

\* A job has one result row: a second one fails, and so does the job.
CommitResult(e) ==
    /\ pc[e] = "saveResult"
    /\ \/ /\ result \subseteq seen[e]
          /\ result' = Replaced(e, result, {e})
          /\ Goto(e, "outcome")
          /\ UNCHANGED <<status, code, faults>>
       \/ /\ ~(result \subseteq seen[e])
          /\ Fail(e, "RESULT_CONFLICT", "done")
          /\ UNCHANGED <<result, faults>>
       \/ Fault /\ Fail(e, "none", "done") /\ UNCHANGED result
    /\ seen' = [seen EXCEPT ![e] = {}]
    /\ UNCHANGED <<kind, cancel, messages, cache, manifest, chunkRows, known,
                   items, ready, final, posted, requeues, overlapped>>

WriteOutcome(e) ==
    /\ pc[e] = "outcome"
    /\ status' \in {"COMPLETED", "FAILED"}
    /\ Goto(e, "callback")
    /\ UNCHANGED <<kind, cancel, messages, cache, tables, seen, work, counters>>

\* The callback is tried once, and how it goes changes nothing.
SendCallback(e) == posted' = [posted EXCEPT ![e] = TRUE]

Callback(e) ==
    /\ pc[e] = "callback"
    /\ SendCallback(e)
    /\ Goto(e, "done")
    /\ UNCHANGED <<kind, row, cache, tables, seen, known, items, ready, final,
                   code, counters>>

----------------------------------------------------------------------------

Api(c) ==
    \/ Submit(c) \/ Reprocess(c) \/ Retry(c)
    \/ BeginManifest(c) \/ CommitManifest(c) \/ Stash(c) \/ Enqueue(c)

Recover(e) == Take(e) \/ ReadManifest(e) \/ Fetch(e) \/ FallBack(e)

Persist(e) ==
    \/ BeginDocuments(e) \/ CommitDocuments(e) \/ BeginChunks(e) \/ CommitChunks(e)
    \/ BeginResult(e) \/ CommitResult(e)

Execute(e) ==
    Start(e) \/ Prepare(e) \/ RunGraph(e) \/ Interrupt(e) \/ WriteOutcome(e) \/ Callback(e)

Next ==
    \/ \E c \in Callers : Api(c)
    \/ \E e \in Executions : Recover(e) \/ Persist(e) \/ Execute(e)
    \/ Cancel \/ Expire

Spec == Init /\ [][Next]_vars

----------------------------------------------------------------------------
(* Properties.                                                             *)

\* Once a job with source documents has a manifest it names every document
\* of the submission and keeps its checksum, whatever executions were
\* interrupted, however they overlapped, and however few of the documents
\* they could use: a retry after the cache expired depends on it.
ManifestIsComplete ==
    kind # "text" /\ manifest # {} =>
        {w.ref : w \in manifest} = SubmittedRefs(kind)

\* An execution of a job of documents or recordings that gets as far as the
\* graph has every document whose reference carries a checksum, as it was
\* submitted, whether the input came from the cache, from the request's
\* references or from the manifest of an earlier attempt.
VerifiedInputIsWhole ==
    OfBytes(kind) =>
        \A e \in Executions : items[e] # {} =>
            \A d \in Hashed :
                /\ \E i \in items[e] : i.doc = d
                /\ \A i \in items[e] : i.doc = d => i.content = "original"

\* Duplicate manifest rows, a valid job refused for its number of recordings
\* and a result that cannot be stored because another one is there come from
\* saves of two executions that were open at once, and from nothing else.
ConflictsComeFromOverlap ==
    \/ overlapped
    \/ /\ \A v, w \in manifest : v.ref.doc = w.ref.doc => v = w
       /\ \A e \in Executions : code[e] \notin {"TOO_MANY_RECORDINGS", "RESULT_CONFLICT"}

\* The documentation's promise that the worker posts a terminal payload: an
\* execution that is over has called back.
TerminalIsPosted == \A e \in Executions : pc[e] = "done" => posted[e]
=============================================================================
