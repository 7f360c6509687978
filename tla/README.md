# Requra AI pipeline: TLA+ models, model checking and proofs

This directory is the formal model of the AI service (`src/ai-service/app`). It
holds TLA+ modules translated from the Python source, configurations that
model-check them with TLC on small instances, and theorems that TLAPS checks for
every instance. `PROJECT.json` maps every definition to the lines it stands for.

## 1. The system

A backend posts a *job* to the service. The API writes a durable row for it
(`ai_jobs`), stores its input in a Redis cache, and enqueues the job id on an RQ
list. A worker process takes the id, rebuilds the input, runs a LangGraph pipeline
node by node, saves the result (`ai_job_results`) and writes a terminal status.
Callers poll, fetch the result, cancel, retry or submit again.

| component | state it keeps | operations | hard behaviour | what makes it correct |
|---|---|---|---|---|
| job API and idempotency (`api/service.py`, `api/internal.py`) | none of its own | create, reprocess, retry, cancel, status, result | every handler is several store calls with other handlers and workers in between | one dispatch per attempt; no other payload is served; a failed dispatch is visible |
| request fingerprint (`services/fingerprint.py`) | none | hash of the meaningful request fields | which fields count | equal requests match, different ones do not |
| job store (`store/memory.py`, `store/db/*`) | job rows, attempts, events, results, chunks, documents | create_or_get, try_requeue_for_retry, set_status, request_cancel, mark_duplicate, add_attempt, save_result, cleanup | transactions that overlap; unlocked read-modify-writes; retention | compare-and-set is atomic; no update is lost |
| queue (`queue/*`) | RQ list, or tasks behind a semaphore in-process | enqueue, take | a message is delivered at most once | every live QUEUED job is carried |
| dispatch (`worker/dispatch.py`) | none | stash the input, enqueue, compensate | the row is committed before the message is sent | a job that was not dispatched is FAILED |
| worker (`worker/main.py`, `worker/runner.py`) | execution in progress | rebuild input, run, check cancel, persist, finalize | cancel, timeout, crash, two executions of one job | result before status; every execution reports |
| input cache and recovery (`worker/state.py`) | Redis keys with a TTL | stash, load, rebuild | expiry between dispatch and retry | a retry runs on the input of the job or fails |
| progress mirror (`progress.py`) | process-local progress records | update, cleanup | fields that survive a retry | agrees with the durable row |
| pipeline (`graph/*`, `nodes/*`) | the pipeline state | thirteen nodes, two routers, a repair loop | skip rules, fallbacks, loop bound | it ends, and an early failure is reported as failure |
| source preparation (`nodes/prepare_sources.py`, `services/source_processing/*`) | outcomes per source | download, extract, transcribe under two semaphores | concurrency, partial failure | every source has one outcome; one bad source does not sink the others |
| LLM client (`llm.py`) | cooldowns per provider, a gate | ainvoke with retry, fallback | shared cooldown state, retries | an answer if some provider can give one |
| backend client (`clients/backend.py`) | none | download, callback with retries | lost answers | bounded attempts |
| source index registry (`rag/source_index.py`) | process-local index by job id | build, get, clear, evict | two executions of one job | an execution uses its own index |
| retention (`maintenance/cleanup.py`) | none | purge of expired rows | concurrent readers | nothing live is purged |
| retrieval, scoring, extraction, generation, formatting | none | text processing | | |

What can go wrong here is mostly a matter of order. Handlers of the API run
concurrently in one or several processes and each makes several store calls;
workers are separate processes; the row, the queue, the input cache and the result
are four stores without a common transaction; and a pipeline renumbers what it
recorded earlier by number. `PROJECT.json` lists these places line by line under
`hazards`, with the property that watches each, or the reason why none does.

## 2. The modules

| module | models | composed with |
|---|---|---|
| `JobRow` | the `ai_jobs` row and what each store call does to it | used by the job modules |
| `JobLedger` | abstract: what callers may rely on about a job id | – |
| `JobLifecycle` | row, attempts, result, queue, the three handlers that write, dispatch, workers, crashes | implements `JobLedger`, a client of `JobStoreContract` |
| `JobStoreContract` | abstract: the store calls that write a row, each atomic | between `JobLifecycle` and `PgJobStore` |
| `PgJobStore` | the Postgres repository: overlapping transactions | implements `JobStoreContract` |
| `FileInspection` | signatures, sizes, durations, the verdict of `detect_file_type` | used by the next |
| `Submission` | the endpoints that take a job, the fingerprint, the worker's inspection of the same bytes | – |
| `SourceRecovery` | cache, manifest, backend downloads and chunks as sources of an input | used by the next |
| `Artifacts` | manifest, cache, input recovery, chunks, result and callback of one job, with overlapping executions | – |
| `DemoJobs` | a process without Redis: handlers, in-process queue, executions, progress mirror, index registry | – |
| `SourceVerdict` | the verdict `prepare_sources` draws from the outcomes of its sources | used by the next three |
| `Preparation` | abstract: one verdict, a function of the outcomes only | – |
| `PrepareSources` | the tasks of `prepare_sources` under two semaphores | implements `Preparation` |
| `Requirements` | requirements, merging and renumbering, what becomes a story | used by the next |
| `PipelineGraph` | the nodes of one execution, both routers, the repair loop | takes the verdict of `SourceVerdict` in one step |
| `EvidenceClaims` | how a clause of a source bears on a requirement | used by the next |
| `Evidence` | hybrid ranking, `retrieve_evidence` and `evidence_grounding` for one requirement | – |
| `ResilientLLM` | the chain of model endpoints, the gate, the cooldowns | – |
| `...Proofs` | theorems about `JobLifecycle`, `PgJobStore`, `DemoJobs`, `Evidence`, `PrepareSources`, `PipelineGraph`, `ResilientLLM`, and in `InputProofs` about `Submission` and `Artifacts` | each extends its module |
| `MC...` | instances for TLC | – |

How they meet: `JobLifecycle` writes its row with the operators of `JobRow`, one store
call in one step. `JobStoreContract` is that interface alone. `JobLifecycle` is shown to change
the row by its calls only (`StoreSpec`), and `PgJobStore` to implement it (`ContractSpec`), both apart from the count of
repeats, so the steps of `JobLifecycle` are what the database does.
`JobLifecycle` runs a pipeline as a bounded number of node updates
followed by some outcome. Its `Outcomes` are the statuses `PipelineGraph` can
produce after `_STATUS_MAP`; a node that raises is its `Abort`; a cancel between two
nodes is its `NodeCheck`. `PipelineGraph` takes `prepare_sources` as one step with
any outcome of each source, which is what `PrepareSources` is shown to implement.
`Submission` is what happens before `Create`: it decides what input and what fingerprint
reach the row. `Artifacts` opens up what `JobLifecycle` takes as the single steps `Manifest`, `Load`
and `Persist`: the tables and the cache behind them, with the control of the row reduced
to what they need. `DemoJobs` is the other deployment, in which the handlers, the queue and the
executions share one event loop and its memory. `Evidence` opens up two nodes of
`PipelineGraph`, for one requirement, where that module takes any verdict about its quotes.

### JobLifecycle

One job is modelled because everything the code keeps is keyed by `job_id` and no
handler touches two jobs; other jobs only make the queue longer, which interleaving
covers. A step is the code between two awaits on a store or on the queue. The
deployment is that of Postgres, Redis and RQ: several API handlers and several worker
processes interleave at every store call. Each call is one atomic operation, with the
meaning `store/memory.py` gives it; that the transactions of the Postgres repository
amount to this is shown in `PgJobStore`.

* `row` is the `ai_jobs` row (status, attempt number, cancel flag, fingerprint,
  duplicate count), `history` the `ai_job_attempts` table, `result` the attempt that
  wrote `ai_job_results`, `queue` the RQ list. `dispatches`, `late` and `crashes`
  record history for the properties. No guard of a handler or worker reads the first
  two; `crashes` only bounds crashes.
* `Create`, `Duplicate`, `RetryRead`, `Requeue`, `RequeueLost`, `CancelRead`,
  `CancelFlag`, `CancelQueued` are the handlers; `Manifest`, `Enqueue`,
  `DispatchFailed`, `Refail` are `prepare_and_dispatch_job` and `dispatch_job`. Status
  and result reads change nothing and are not actions.
* `Take`, `Load`, `Open`, `Start`, `PreCheck`, `NodeCheck`, `NodeWrite`, `Persist`,
  `Abort`, `Report`, `Reread`, `CloseExecution` are `run_job_entry` and `execute_job`.
  `Abort` covers the job timeout, an exception of a node and an input that cannot be
  rebuilt. `Report` and `Reread` are shared with `_mark_dispatch_failed`.
* `LoseRequest` and `CrashWorker` end a process between any two store calls. The
  message of a dead worker is gone: it is enqueued with `retry=None`.
* Left out: the event log (append only, read by no one who writes). The progress mirror and the
  in-process queue are in `DemoJobs`, the callback to the backend in `Artifacts`.

### PgJobStore

Every call of the repository is a session with a transaction at READ COMMITTED. Most of
them load the row without a lock (`Load`), change the loaded copy (`Changed`) and commit
(`Store`); the ORM then writes the columns whose value changed, and only those (`Flush`).
`try_requeue_for_retry` alone selects `FOR UPDATE` (`LockRow`) and checks and writes under
the lock (`TryRequeue`). An UPDATE waits for the row lock; the read of the others does
not. `Rollback` is a lost connection or a dead process in the middle of a call.

* `call` and `copy` are the sessions, `lock` the row lock. `won` and `repeats` are history.
* An UPDATE and its COMMIT are one step, because nobody sees the row between them and
  whoever wants to write it waits.
* The columns are those of `JobRow`. A late `set_status` can leave an error code or a
  timestamp on a row requeued meanwhile; no guard reads these columns.
* Attempts and events are inserts in transactions of their own; documents, chunks and results are
  in `Artifacts`. The purge `cleanup_expired` has no caller in the service and is left out.

### Submission

One request, the answer of the endpoint, the inspection in the worker and a second request under
the same job id. `FileInspection` holds what both hosts compute from the bytes.

* A file is a record of what the checks tell apart: what its bytes begin with, a late PDF marker,
  the extension of its name, content, size, seconds. `Format`, `ExtensionAgrees` and `DetectedType` are
  `detect_mime_and_type`; `probe` says whether a host has `ffprobe`, and API and worker choose
  independently.
* `Receive` is a whole handler. Its checks (`Check`, `Then`) are in the order of the code, and the first
  failing one answers (`FirstFailure`): those on a file are `WrongFile` and `WrongId`, those on all of them
  `WrongTogether`. `InternalFailure` and `DemoFailure` are the two upload handlers,
  which differ in that order and in how they take the id of a file (`SuppliedId`, `DemoSuppliedId`).
* `Detect` is `detect_file_type_node`, `Resubmit` a request for a job id that is in use, answered by
  comparing `Fingerprint`s. Sorting the documents leaves how often each occurs (`SortedDocuments`).
* Left out: authentication, HTTP framing, the wording of errors, and what the row does with the
  verdict of the fingerprint, which is `Create` of `JobLifecycle`.

### Artifacts

One job, for every kind of submission (text, transcript, upload, references).

* `manifest`, `chunkRows` and `result` are the tables, `cache` the stashed input. A save is two
  steps: its DELETE sees what is committed when it begins (`BeginSave`), and it commits
  its new rows beside those others committed meanwhile (`Replaced`). An id is `copy`, drawn fresh.
* `Submit`, `Reprocess`, `Retry` and the four steps after them are `prepare_and_dispatch_job` and
  `retry_job`. `Take`, `ReadManifest`, `Fetch` and `FallBack` are `build_worker_initial_state`, in the
  order it tries its sources; `FetchBytes` and `FetchText` of `SourceRecovery` are the two downloads, which
  check different things. `Start` to `Callback` are `execute_job` as far as it touches the tables.
* `Expire` is the TTL of the cache, at any time; `Interrupt` the runtime limit or a raising node, with
  the rollback of a save in progress; `Fault` one failing call to a store, the cache or the queue.
* Contents are compared with what was submitted ("original", "changed", "empty", "processed").
* Left out: the race inside `cancel_job` and the crash of a process, which are in `JobLifecycle`; the rows a
  result is decomposed into, which are saved in its transaction and are data.

### DemoJobs

The API process when no Redis is configured, with the memory store or with a database.

* `busy` is the event loop. The awaits of the memory store do not suspend, so with it a handler or
  an execution runs until it waits for something real (`Continue`, `Suspend`, `Turn`); with a database
  every call interleaves.
* `Read`, `Submit`, `Dispatch`, `Retry`, `RequestCancel`, `CancelQueued` are the handlers;
  `get_or_create_job` is called with `reprocess`, so its read and its write are apart.
* `Admit` is the semaphore of `InProcessQueue`; `Recover` to `Cancelled` are `_factory` of `dispatch_job` and
  `execute_job` with every write to `rows` and `mirror`, in their order, and with
  `BuildIndex`, `ClearIndex` and the bound of the registry (`Bounded`).
* Only a retry is dispatched as a reference: `/process` and `/process-json` hand over text or bytes that are
  not empty (`main.py`, lines 419 and 572). `Recover` may give up the event loop, because
  `build_worker_initial_state` downloads (`worker/state.py`, lines 257 and 321), or keep it, when it finds chunks in the
  memory store.
* Of the nodes the two that use the registry are kept; the others write what these write.
* `alone` and `index` are history: whether an execution has overlapped another of its job, and whose
  index it retrieved from.

### PrepareSources

`asyncio.gather` starts a task per source. A task takes a permit of `source_sem`
(`Admit`), reads a document or inspects a recording, and a recording takes a permit of
`stt_sem` for each provider it asks (`CallStt`, `PrimaryFails`, `SttAnswers`). Any
exception becomes the outcome `failed` (`Finish`). `Merge` is everything after the
gather. The number of sources and the settings are constants.

### PipelineGraph

One action per node, each followed by its router. What a model answers, which texts look
alike, which quotes are found and which stories are defective are any choice the code
accepts; what the code does with the answer is translated.

* A requirement is known by its position. Extraction and both merges
  (`dedupe_requirements` and the one at the head of `generate`) renumber; `NewId` is the
  renumbering, and issues recorded earlier are moved along by `Remapped`.
* A story has its links and one bit for "has some repairable issue", which the gate finds
  again on every pass. The rest of its text is abstracted. An issue of a requirement
  carries its rule, because the merge and the status treat rules differently.
* The id of story i is `<job>_story_i`, and the code looks ids up as substrings.
  `Occurs` is that: the numeral of one begins that of the other. The base is the
  constant `Radix`, 10 in the code; the instances use 2, so that this happens
  between 1 and 2 and not first between 1 and 10.
* The total fallback adds its rows to those the failed attempt has already made (`Drafted`), so a
  requirement may have two, which differ in type or criteria. The type `drafted` stands for either type the
  first may have: no action reads which, of a requirement that gets a story.
* The stories of the total fallback are not sanitized until a repair rewrites
  (`unsanitized`). Sanitizing twice is sanitizing once, so no other story needs the bit.
* Not modelled: ids of requirements a model makes up (the code drops them), the
  summary text, the names of the warnings the pipeline does not branch on, the 60-step
  budget of LangGraph.

### Evidence

One requirement from extraction to citation.

* `Search` and `Rank` are the two searches and `merge_hits`; scores are small integers and shares
  are tenths. A hit may be an embedding an earlier attempt left (`Stale`).
* `Extract` is any evidence extraction and the duplicates' merge can leave. `ScoreQuote` and
  `WeighHit` are one turn of the two loops of `retrieve_evidence`; `IncompleteClause`, `VerifySpan`,
  `Recover`, `Verified` and `Settle` are `evidence_grounding`, candidate by candidate, because a
  candidate may complete the text the next one is checked against.
* `EvidenceClaims` says what the checks of a clause tell apart: it states the requirement, says more, lacks
  facts, contradicts it, is close or unrelated; the transcription may be doubtful, the
  language foreign. The heuristics behind these verdicts (tokens, figures, polarity) are data.
* A list sorted by score is `InOrder`: the element at place i is the one with i - 1 before it. `before` is the key
  of the sort with the order of insertion as the tie-break, since Python's sort is stable.
* Left out: the ids of the spans, the wording of an issue, and other requirements, which share nothing but the index.

### ResilientLLM

The calls of one event loop share the gate (`free`, `line`) and, with the rest of the process,
the cooldowns (`cooling`). A call turns to the first endpoint of its chain that is neither
cooling down nor impossible to build a client for (`TurnTo`), waits in line, asks (`Enter`), and
ends with an answer, goes on to the next endpoint (`OutOfQuota`, `NextEndpoint`), or
sleeps and retries (`BackOff`, `Wake`). `TurnTo` is part of the step that precedes it: the
code looks at cooldowns and builds a client without an await in between.

* `Kept` is the chain the constructor makes: the primary whatever it is, usable
  fallbacks, each pair of provider and model once.
* Which error an endpoint raises is a choice; `_is_permanent_quota_error` and
  `_is_retryable_error` sort errors into the three actions.
* `healthy` is the set of endpoints that answer whatever they are asked. It is chosen at
  the start and never changes; the code does not know it.
* `GiveUp` is a cancellation, by `asyncio.wait_for` in a node or by the job's timeout. It
  hits a call in the line, at the endpoint or asleep; a waiter leaves the line wherever it stands (`Without`).
* The length of cooldowns and delays is not modelled: a cooldown may end at any time.
* Left out: the synchronous `invoke`, which no node calls, and the metadata of a response.

## 3. What is checked

| run | instance | shows |
|---|---|---|
| `job_safety` | 3 requests with 2 payloads, 2 workers, 3 attempts, 2 node updates, 1 crash, failing dispatches; 1.4 million states | `EachAttemptDispatchedOnce`, `DeliveredHasResult`, `CancelStopsWithinOneNode`, `OnlyTheSamePayloadIsServed`; `ActiveIsCarried` while nothing crashed; `OneExecution` and `TerminalIsFinal` while nobody cancelled and no dispatch failed; `LedgerSpec` |
| `job_live` | fair, 3 requests, 1 node update, no crash, no symmetry; 0.6 million states | `Settles`: QUEUED and PROCESSING jobs become terminal |
| `job_store` | 2 sessions, 2 fingerprints, 3 attempts, 2 repeats, rollbacks at any point; 1.1 million states | `OneWinnerPerAttempt`, `RepeatsAreNoticed`; `ContractSpec`: apart from the count of repeats, overlapping transactions have the effect of atomic calls |
| `submission` | 10 files, 8 references, 4 texts, up to 3 parts of which 2 are admitted; 1.5 million states | `AdmittedIdsAreAsSent`, `RefusedOnlyForDuration`, `ResubmissionIsRecognized` |
| `artifacts` | a document and a recording, 1 caller, 2 executions, 1 requeue, 1 failing store call; 3.6 million states, about two minutes | `ManifestIsComplete`, `VerifiedInputIsWhole`, `ConflictsComeFromOverlap` |
| `demo` | 2 jobs, 3 requests, 2 permits, 2 indexes, with either store; 0.24 million states | `RegistryServesExecutions`, `MirrorFollowsRow`, `AttemptsCountSubmissions`, `NothingIsStranded` |
| `prepare` | 3 recordings and a document, 3 slots, 1 speech-to-text permit; 14 thousand states | `PermitsConserved`, `Preparation` implemented, always a verdict (`Prepared`) |
| `pipeline` | nothing, or a document with a recording; up to 3 requirements of every treatment; 1 repair; 0.4 million states | `CompletedMeansVerified`, `CoverageIsTrue`, `OnePrimaryRequirement`, `FailureIsReported`, `Ends` |
| `evidence` | 2 chunks and a stale embedding, 12 contents of a chunk, 2 hits, 2 pieces of evidence, 2 quotes; 9.3 million states | `LexicalLeads`, `PublishedQuotesSupport`, `RecoveredFromDeclaredSource`, `ReviewIsAccountedFor` |
| `llm` | 2 calls, 1 permit, 1 retry; a chain of 5 with a repeated endpoint and one without a key; every set of healthy endpoints; 0.8 million states | `HealthyEndpointAnswers`, `AttemptsAreBounded`, `QuotaErrorIsFinal`, `PermitsConserved`, `CallsEnd` |
| `job_vio_hang`, `evidence_vio_review` | a worker that crashes; the instance of `evidence` | statements of the repository that the code does not keep (section 6) |

Every property of a passing run has a mutant in `PROJECT.json`: a plausible bug, kept
next to the definition it changes as a "Faulty variant", that breaks the property in the
same run.

**Bounds.** In `JobLifecycle` three requests are a create and two calls that race with it, or a retry with
two rivals; two workers are what it takes for two executions of one job to overlap. With
three requests `attempt_number` cannot pass 3, so `MaxAttempts` cuts nothing off. Two node
updates separate "the next node" from "one more node", which `CancelStopsWithinOneNode`
needs; `job_vio_hang` and liveness do with one. One crash is enough for every
property about crashes, because a second one only removes another process.
In `PgJobStore` two sessions are the fewest that overlap, and each makes any number of
calls in turn; the proofs cover any number of them.
In `Submission` two sources are admitted and a third part may come, so the limit on their number is
passed; sizes and seconds are units in which a document may have 2, a recording 3 and
all together 4, so that each limit can be passed alone and the total by files that pass
alone. The ten files are one of each kind a check tells apart.
In `Artifacts` two executions are the fewest that overlap, one requeue makes the second attempt
whose input has to be recovered, and one fault is one failing call anywhere; a recording may have no
checksum, and a document has one.
In `DemoJobs` a third request is a retry or a cancel that races with two submissions of one job or of
two; with two jobs and one index more jobs than indexes would wait for their turn, and
`RegistryServesExecutions` claims nothing then, so there are as many indexes as permits, as in the
default settings.
In `Evidence` two chunks are the fewest that can be ranked in two orders, and the stale embedding the hit
that displaces one; two candidates are the fewest of which one completes the text the other is checked
against.
In `ResilientLLM` two calls and one permit suffice for a call that waits while another
fails, sleeps, is cancelled, or starts a cooldown; the proofs cover any number.
In `PrepareSources` three recordings compete for one permit while all three hold a slot,
the constellation in which keeping a permit would block for ever. In `PipelineGraph` three
requirements are the fewest for which a merge renumbers one that is not merged,
and one of the three is of a kind that gets no story to keep the run small. One
repair is the default of `MAX_REPAIR_ATTEMPTS`, and passes the gate twice;
`MaxProposals` bounds the stories in one answer, and a target without one takes
the fallback, so accepted and made-up stories both occur.

**Symmetry** is used in `job_safety` over requests and over workers, since the
three groups of callers are equal there, in `job_store` over sessions and fingerprints, and in `demo` over
jobs and requests. It is not used where liveness is checked.

**Deadlock** is checked in `job_store`, where a session can always begin another call. Elsewhere
the system may stop: a job system in which every caller was answered and
every message was taken is idle, a graph that reached its end, a requirement with its citations and a
preparation with a verdict are done. That nothing stops earlier is what `Settles`, `Ends`,
`Prepared`, `CallsEnd` and `NothingIsStranded` say.

**Supporting configurations** belong to no question of their own. They check on a small instance what section 5
proves about progress: `JobProgress` (2 requests, 2 workers; `EveryStepAdvances`, `StoreSpec`), and `DemoGuards`,
`PrepareProgress` and `LLMProgress` on the instances of `demo`, `prepare` and `llm`. The last three also check
`GuardsAreThoseOfTheActions` of their `MC` module: the named guards (`CanGoOn`, `CanStep` and `NodeCanStep`, `CanProceed`) in which
the properties say "can take its next step" hold exactly when the actions are `ENABLED`.

## 4. Fairness

* `JobLifecycle`: weak fairness of every handler that has begun and of every worker. The
  event loop resumes every handler and the RQ loop polls for ever. Callers owe nothing:
  whether a request is made is not fair. No fairness is given to crashes, and `Settles`
  is stated without them; `job_vio_hang` shows what one does.
  Weak fairness of the whole worker is enough because the store calls do not wait.
* `PrepareSources`: weak fairness of each task and of the node. `asyncio.Semaphore` wakes
  its waiters in order, and every provider call has a timeout.
* `ResilientLLM`: weak fairness of every call. A request has a timeout
  (`PROVIDER_TIMEOUT_SECONDS`), a sleep a maximum, and the semaphore wakes its waiters in
  order, so strong fairness is not needed. Cancellations owe nothing.
* `PipelineGraph`: weak fairness of the next step. The graph runs one node at a time and
  every call of a model has a timeout.
* `Submission`, `Artifacts`, `DemoJobs` and `Evidence` state none: their properties are about what
  may be reached. `NothingIsStranded` of `DemoJobs` says of every state what an eventuality would rest on: while
  a request is unfinished, some handler or execution can take its next step; and every step takes a request further.

## 5. What is proved

**`JobLifecycle`** (`JobLifecycleProofs`), for any sets of requests and
workers, any bounds and any split of the callers, with the
assumptions named in `JobLifecycle` (requests and workers are disjoint; bounds are
naturals) and nothing else:

1. `TypeCorrect`: `Spec => []TypeOK`. `TypeOK` alone is not inductive: `Report` writes
   `fin` to the row, which must not be "NONE" then, and `Requeue` indexes by `at`. `Typed`
   adds `StageOK`, which ties the stage of an actor to the values it carries.
2. `DispatchedOnce`: `Spec => []EachAttemptDispatchedOnce`. That at most one message was
   sent for each attempt follows from who may still send one. `DispatchOK` adds
   `PresentOK` (a handler past its insert or its compare-and-set implies a row) and
   `OwnersOK` (for each attempt there is at most one handler on its way to the enqueue,
   none if it has been sent, and none for an attempt not opened). The
   compare-and-set opens attempt n+1 at a time when nobody owns it, and that is where the
   proof uses that its check and its write are one critical section.
3. `LedgerImplemented`: `Spec => LedgerSpec`, the refinement that `job_safety` checks. Each
   step maps to a step of `JobLedger` or leaves it unchanged; that a send is allowed
   there is `DispatchOK`.
4. `ActiveStaysCarried`: `Spec => []ActiveIsCarried`, which is inductive given the types: each step that
   takes a message or leaves a carrying stage puts the attempt where the next part of
   the disjunction finds it, or ends its being QUEUED or PROCESSING.
5. `DeliveredWithResult` (`ResultOK`: whoever is about to report a delivery has saved a result), `CancelStops`
   (`CancelOK`: a worker that recorded a node under the flag has recorded one and is not about
   to write another) and `SamePayloadServed` (`RequestOK`: what each stage of a request says of its
   endpoint and its fingerprint, and that the row never changes its own).
6. `ExecutedByOne` and `TerminalStays`: the two properties that hold until somebody cancels or a dispatch
   fails. `Single` says that the job is then one thing: one message, one handler on its way to the
   enqueue, one execution, or none of them, and none once the status is terminal. It has to be
   assumed and shown in step with `Steady`, which, unlike `Undisturbed`, never becomes true again
   (`SteadyBefore`): a handler that crashes between a failed save of the manifest and its
   write leaves no trace.
7. `CallsTheStore`: `Spec => StoreSpec`. Each step leaves the row alone or is one call of the abstract store
   (`StepCallsStore`), which needs `PresentOK` of item 2: whoever writes the row is past the read or insert that found one. The count of repeats is
   left out on both sides, as in `StoreImplements`.
8. `StepsAdvance`: `Spec => EveryStepAdvances`. A handler moves up in `HandlerRank`; a worker takes
   the head of the queue, moves up in `Worked` (at most `9 + 2 * MaxNodes`), or is done with its message. Only handlers add
   to the queue, so there is no cycle for an attempt to be kept in.

The thirty or so actions are reduced to five kinds first (`StepKind`, lemma
`StepKinds`), according to what they do to status, attempt, dispatches and ownership, for 2 and
3; `RowMoves`, `RequestLeavesWorkers` and `WorkerLeavesRequests` do the like for 5.

**`PgJobStore`**, for any sets of sessions and fingerprints and any bounds, assuming that
the mark of a free lock is not a session and the bounds are naturals:

9. `StoreTypeCorrect`: `Spec => []TypeOK`, from `Sound`: a session that loaded has a row,
   the lock belongs to whoever is in `try_requeue_for_retry`, and the holder's copy is
   the row as it is.
10. `OneWinner`: `Spec => []OneWinnerPerAttempt`. The last part of `Sound` is what makes it
   inductive: no unlocked write gets between the locked read and the write.
11. `StoreImplements`: `Spec => ContractSpec`. Lemmas `FlushedStatus`, `FlushedCancel` and
   `FlushedCount` say what a late write of each call amounts to on the row as it is now: the
   call itself, nothing, or a change of the count alone. They hold because
   only changed columns are written, and because no two calls write one column
   with different values, except for the status, which is unguarded.
12. `RepeatsNoticed`: `Spec => []RepeatsAreNoticed`, with `CountsOK`: no copy knows of more repeats than
    have returned.

**`ResilientLLM`**, for any finite set of calls, any chain and any settings (at least one
permit, a natural number of retries):

13. `HealthyAnswers`, `BoundedAttempts`, `QuotaIsFinal`: the three invariants of that name in
    `llm`, from one inductive invariant, `Sound`. It says of each call underway that
    the chain before its position has no healthy endpoint and that nothing behind it was
    asked (`OnRoute`), that its attempts are what it asked (`Counted`), and that no healthy
    endpoint cools down. That the chain has no repeats (`ChainHasNoRepeats`) is what carries
    a count of zero to the next endpoint.
14. `PermitsAreConserved`: `Spec => []PermitsConserved`, by what each step does to the set of
    asking calls.
15. `LineStaysTrue`: `Spec => []LineIsTrue`: the line holds the calls that wait, each once. `Joins`, `Leaves` and `StaysOut` say
    what appending to and leaving a line do to that, a cancelled waiter in the middle of it included.
16. `NobodyIsStuck`: `Spec => []NeverStuck`, from `LineIsTrue` and `PermitsConserved`: if nobody asks or sleeps, all permits are free and the
    head of the line is a call that waits.
17. `StepsAdvance`: `Spec => EveryStepAdvances`: down the chain, or to the next of at most `MaxRetries + 1` attempts, or from waiting to asking to
    sleeping.

**`Submission`** (`InputProofs`), for any files, ids, references, texts, limits and lengths of a request, on either
host, assuming what `LimitsAssumption` and `SubmissionAssumption` name: limits and sizes are naturals, a blank is no id,
and files with the same content are equal in what is read off the content (head, marker, size; not the name
and not the length of a recording, which is a measurement):

18. `IdsStayAsSent`, `InspectionFollows` and `ResubmissionsAreRecognized`, from `AdmittedOK`: what is accepted passed
    every check, and its inputs are those the handler's rule makes of the request as it was sent. The work is in the lemmas:
    * `NonBlankKeeps`: the recursive function that drops the blanks of an id field returns a
      sequence no longer than the field, and the field itself if it is as long. That the function
      exists and what it returns is induction over the length of a field, done by a least counterexample (`Least`, from
      the well-foundedness of `<`).
    * `IdsAreAsSent`: the handler resolves and counts one list of ids and indexes another, which
      holds the blanks as well. An index behind its end, or a shifted id, needs a blank among the
      ids; then a file meets it and is refused, or the counts differ.
    * `InspectionAgrees`: each check of the worker that can refuse, except for durations, is one the
      endpoint has made on the same bytes. The host's `probe` occurs in durations only.
    * `FingerprintTells`: the fingerprint has type and content of a file and its id; equal fingerprints give
      equal sets of inputs because the hash determines the content, and equal sets give equal fingerprints because ids do not
      repeat, so sorting loses nothing, and because the type of the job follows from the set (`SameInputsSameType`).

**`Artifacts`** (`InputProofs`), for any documents, callers and executions and any number of faults
(`DocsAssumption` and `MaxAudioAssumption` of `SourceRecovery`, `BoundsAssumption`, and
`ActorsAssumption`: callers and executions are disjoint):

19. `ManifestStaysComplete` and `InputStaysWhole`, from `Whole`: a manifest that is committed, or about to
    be, names every document with its checksum; the cache holds what was submitted; and the input an
    execution has put together so far is whole as far as it goes. A manifest is replaced in
    two steps that may overlap, and `Whole` holds of the union of what two of them leave.
20. `ConflictsNeedOverlap`: `Spec => []ConflictsComeFromOverlap`, from `Calm`. As long as no two saves of one table
    were open at once, a save that is open will delete all that is in its table, so the
    manifest has one row for each document, and so has what an execution works with. The
    recordings of a download are then no more than those submitted (`FetchedFit`, by an
    injection into `Audio`).

**`DemoJobs`**, for any jobs and requests (`DemoJobsAssumption`: finitely many requests, limits that are
naturals and not 0, and `None` is neither a job, nor a request, nor a row):

21. `RegistryIsServed`: `Spec => []RegistryServesExecutions`. An entry could be evicted under an execution
    that still needs it only if there were more entries than the registry holds. `Serves` has one entry per job, held by an execution of it
    that runs, an execution that is alone on its job, and at most `MaxConcurrent` running executions; so
    `MaxConcurrent <= MaxIndexes` leaves room, by counting entries against executions.
22. `AttemptsAreCounted`: `Spec => []AttemptsCountSubmissions`, from `Counts`. What a handler read of a row is
    never ahead of the requests that were written (`Recorded`); with the memory store only one task is
    between two of its awaits (`LoopHeld`, `LoopStep`), so what it read is what it overwrites (`Undivided`), and the
    count is exact (`Exact`).
23. `MirrorAgrees`: `Spec => []MirrorFollowsRow`, from `Follows`, which says in every state what becomes of a job that is
    `Quiet`: its mirror agrees with its row, unless the one execution that runs has the event loop and is about to write
    both (`Catching`); and while that execution has written no outcome the row says PROCESSING, so a node, which
    writes only the mirror, cannot separate them, and neither a retry nor a cancellation of a queued job can come
    between. An execution that recovers its input may wait for a download in any of these states. It is
    one of a retry (`References`), whose handler wrote row and mirror together, so they agree through the wait; a
    submission, whose mirror may be old, goes from its permit to the first write without one. `OnlyRunner` shows that a job that is quiet after a step has no other execution.
24. `NobodyIsStranded`: `Spec => []NothingIsStranded`, from `Serves`, which bounds what runs and says who has the event loop, and `Staged`: requests are in the stages the code has,
    and whoever has the event loop goes on with it. If nobody has it, a submission that waits finds a permit unless executions
    run, and one of these can go on.
25. `StepsAdvance`: `Spec => EveryStepAdvances`. Each step moves one request up in `CallRank` or `ExecRank` (a dispatch in
    both), or from one node to the next; the others stay (`HandlersGo`, `ExecutionsGo`).

**`Evidence`**, for any chunks, contents and limits:

26. `CitationsSupport`, `CitationsAreDeclared` and `ReviewsAreKept`, from `Grounded`: marks of review are accounted
    for where the code is between two candidates (`MarksOK`), what is accepted so far
    supports the text as it is now (`SupportOK`), and comes from a declared source
    (`DeclaredOK`). A candidate may complete the text after an earlier one was accepted, and
    `SupportOK` says why that does no harm to the earlier one.
27. `LexicalStaysFirst`: `Spec => []LexicalLeads`. The state needs only `Searched`, what the two searches may have
    returned; the rest is about the ranking. `InOrderIs`: sorting by a strict total order gives every element
    once and in order, because the number of elements before an element is an injection into `1 .. n`, and so
    onto it. `NormalisedIs` and `MergedScoreIs`: with equal weights the best lexical hit has at least half of the whole score, and
    a chunk that only one search found at most half. `MergedLeads`: a tie goes to the earlier insertion, where
    the best lexical hit is first; so whatever precedes it has both scores.

**`PrepareSources`**, for any finite set of sources, any submissions and at least one permit of each kind:

28. `PermitsAreConserved`: `Spec => []PermitsConserved`, by what each step of a task does to the two sets of
    holders.
29. `ContractImplemented`: `Spec => ContractSpec`, from `Sound`: tasks are those of the submission, and a source
    has an outcome exactly when its task has ended.
30. `NobodyIsStuck`: `Spec => []NeverStuck`, from `Sound`, `PermitsConserved` and `Ordered` (the tasks start together, and a verdict
    comes after all of them). A task that waits for speech to text holds a permit of `source_sem`, but one that asks a provider
    holds both and can always go on; so a task waits only for a task that does not.
31. `StepsAdvance`: `Spec => EveryStepAdvances`: no task returns to a stage, and the verdict is the last step.

**`PipelineGraph`**, for any submissions and extractions, any number of requirements, proposals and repairs
and any base of at least 2 (`BoundsAssumption`):

32. `CompletedIsVerified`, `CoverageStaysTrue`, `OnePrimary` and `FailuresAreReported`, from `Sound`. `Shape`
    says what there may be before each node. `SourcesOK` relates the error code and the marks to the outcomes
    of the sources, until format reads them. `StoriesOK` says that the stories are numbered by the
    requirements that get one, that each row names the story of its requirement or none, and that a row a
    repair keeps names none (`Plain`): so the rows a total fallback leaves twice agree on their story
    (`FallbackTells`), and the next rewrite leaves one (`RebuiltCovers`). `IssuesOK` says that every conflict, and past the gate every requirement
    without evidence, has an issue under the number the requirement has now; `ConflictsFollow` shows this
    of a merge followed by `Remapped`. A merge numbers its groups by their least
    members; that there is a least one (`Least`) comes from the well-foundedness of `<`.
33. `RepairsAreDue`: `Spec => []RepairIsDue`, from `Looping`: what the gate flagged are stories that exist, attempts are within
    the limit, and the router goes to the repair only where one is left.
34. `StepsAdvance`: `Spec => EveryStepAdvances`: each node is behind the one before, and a repair, which goes back to the
    gate, uses up an attempt. This is the part of `Ends` that fairness does not give.

Only model-checked: the four liveness properties `Settles`, `Ends`, `Prepared` and `CallsEnd`, which are beyond the proof
system, and `GuardsAreThoseOfTheActions` of the `MC` modules, where alone `ENABLED` occurs. What the theorems say of their
safety part is above: `NothingIsStranded` and `NeverStuck` that somebody can go on, `EveryStepAdvances` that a step is progress; what
TLC adds is that under the fairness of section 4 the steps are taken. Every other property of a passing run is a theorem. That the
choices an action makes are not from an empty set (which groups a merge forms, which answers a model gives) is checked by the
runs that reach the end, not proved.

## 6. Where the repository disagrees with itself

Two have a regular run that finds the behaviour and an entry under `findings` with the quoted
line.

* `job_vio_hang`: a worker that dies leaves the job PROCESSING, and nothing retries it.
* `evidence_vio_review`: a clause of doubtful transcription, recovered from the declared recording, is
  cited, and the mark that it needs a review is cleared.

Others have a configuration, with which TLC shows the behaviour:

* `JobVioTerminal`: cancelling a QUEUED job leaves its message in the queue; the worker
  that takes it moves the job out of CANCELLED again (and then usually back).
* `JobVioCancel`: a cancel that was answered with `cancelled: true` after the last look
  at the flag is overwritten by COMPLETED.
* `JobVioHistory`: an attempt stays PROCESSING in `ai_job_attempts`, because the
  finalizer closes the attempt the row shows when it looks.
* `PipelineVioGrouping`: an issue of story 10 is filed under story 1.
* `ArtifactsVioCallback`: some ends of an execution (a cancel, an input that cannot be recovered) post no
  callback (`docs/05`, line 72, has one "on terminal").
* `SubmissionVioSource`: the fingerprint takes the storage key of a reference when there is one, and the
  worker downloads from its URL, so two submissions of different files can be one (`docs/04`, line 30).
* `DemoVioStatus`: after a resubmission the status endpoint shows the outcome of the attempt before
  (`service.py`, line 102, says it resets), because the mirror is merged, not replaced.

Seen while modelling and not stated as properties: what `detect_file_type`
refuses is processed all the same, because no edge of the graph looks at the error and
`prepare_sources` replaces it (`nodes/prepare_sources.py:262`), although
`docs/04-ai-pipeline.md:182` says "Signature validation rejects non-matching payloads."; an
ITI endpoint that answers 401 is retried, because `httpx.HTTPStatusError` is an
`httpx.HTTPError` (`llm.py:383`), although the comment at `llm.py:568` says "Permanent failures
never back off"; a retry does not look at a cooldown another call started meanwhile
(`llm.py:523`); a deferred requirement that
resembles both lets an accepted and a rejected one merge, because the rule at
`nodes/dedupe_requirements.py:311` is about pairs and union-find is transitive;
`mark_duplicate` of the Postgres store loses a repeat that overlaps another
(`store/db/repositories.py:154`), which is why `RepeatsAreNoticed` does not say that all are
counted; `get_job_result` serves the
result of the previous attempt during a retry (`api/internal.py:630`); a dispatch failure writes
FAILED twice, and the second write can hit an attempt another caller dispatched meanwhile
(`api/service.py:636`); a repeat that wins a reprocess is not counted (`api/service.py:332`); a
submission with too much audio ends REJECTED although no source was judged
(`nodes/prepare_sources.py:112`); an extraction that lost some chunks and found nothing warns that the
document was empty (`nodes/extract.py:730`); a generation that fails at a later story, on a label outside
`RequirementType` for instance (`nodes/generate.py:1100`), leaves the rows of the earlier ones in the list its fallback appends
to (`nodes/generate.py:1290`), so a requirement has two rows of coverage, which name the same story and may differ in type
and criteria, until a repair rebuilds them; repair applies what the model returns to stories it was
not sent (`nodes/repair_stories.py:170`); the ids in the weak-evidence warning are not renumbered
(`nodes/generate.py:823`), and a degradation warning is lost when the next list of warnings starts
again from the state (`nodes/generate.py:1280`); retention imports `AiChunkEmbedding`, which
`store/db/models.py:181` calls `AiSourceChunkEmbedding`, so it fails before it deletes
anything (`maintenance/cleanup.py:53`); the graph has a step budget "for a
known-acyclic graph" and contains the repair cycle (`graph/pipeline.py:24`).

In the modules of submission and recovery: the internal upload handler refuses more `document_id`
fields than files where the demo handler takes the first ones, and the demo handler takes a blank id as it is;
the duration of a single file is checked by the worker only; a retry may recover its text from chunks, which
hold processed text, although `docs/05` (line 87) says that recovery "recovers raw sources"; with a
database the status endpoint of a requeued job shows the old result while it is QUEUED, and "CANCELLED" is
outside the vocabulary `progress.py:7` documents; the mirror keeps the error and the result of
an earlier attempt.

In evidence: a review without a reason is cleared along with the verified ones; the text of a
requirement may be completed from a candidate that is then rejected; embeddings left by an earlier
attempt can push a lexical hit out of the top although vector hits "only augment recall"
(`hybrid.py:10`); agreement of both searches lowers a chunk whose cosine is negative; the
document id of a span is the one the model gave; the branch of the grounding for a requirement
without evidence cannot be reached.

## 7. What is not modelled

Text: prompts, parsing of model answers, similarity, quality scores, validators, extraction of
documents, transcription, formatting; their verdicts are nondeterministic inputs. `ingest.py` and the single-file path
are what remains of an earlier pipeline. The event log, the listing and document endpoints and the regeneration of a story
change nothing the modelled parts read. Retention fails before it deletes anything, so there is no behaviour to
model beyond that. Configuration, prompts, migrations and scripts keep no state that changes.
`PROJECT.json` gives the reason per component.

## 8. What is left

1. Algorithms of pure text (the chunker, the canonical form of the fingerprint's inputs) against
   reference definitions.
2. One composition of `JobLifecycle` with the tables of `Artifacts`, with crashes between any two of their steps; as it is,
   a process may die in the one and a store call may fail in the other.

