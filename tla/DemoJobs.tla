------------------------------ MODULE DemoJobs ------------------------------
(***************************************************************************)
(* One API process without a Redis queue: it takes the demo's submissions, *)
(* retries and cancellations and also executes the jobs, at most           *)
(* MaxConcurrent at a time. What it keeps in memory is keyed by job id and *)
(* shared by all executions: the progress mirror behind /status and the    *)
(* registry of source indexes. The awaits of the memory store do not give  *)
(* up the event loop, those of the database do.                            *)
(***************************************************************************)
EXTENDS Naturals, Sequences, FiniteSets, SequencesExt

CONSTANTS
    Jobs,           \* job ids the clients use
    Requests,       \* the requests of a behaviour, bounds the model
    None,           \* no row, no entry, no result
    MaxConcurrent,  \* MAX_CONCURRENT_JOBS
    MaxIndexes      \* _MAX_INDEXES of rag/source_index.py

Terminal == {"FAILED", "CANCELLED", "COMPLETED", "PARTIAL", "REJECTED"}

\* The columns of a row that matter here.
Row == [status : {"QUEUED", "PROCESSING"} \cup Terminal, attempt : Nat,
        cancel : BOOLEAN, error : BOOLEAN]

ASSUME DemoJobsAssumption ==
    /\ MaxConcurrent \in Nat \ {0} /\ MaxIndexes \in Nat \ {0}
    /\ IsFiniteSet(Requests)
    /\ None \notin Jobs \cup Requests \cup Row

VARIABLES
    store,      \* "memory" or "database"
    busy,       \* the request that holds the event loop between two awaits
    rows,       \* the ai_jobs rows
    results,    \* job_results: the execution that saved the result of a job
    mirror,     \* progress_store
    indexes,    \* _REGISTRY, oldest first
    call,       \* the request a client sent
    exec        \* the execution a request dispatched

vars == <<store, busy, rows, results, mirror, indexes, call, exec>>

----------------------------------------------------------------------------
(* Rows, the mirror and the views of both.                                 *)

NewRow == [status |-> "QUEUED", attempt |-> 1, cancel |-> FALSE, error |-> FALSE]

\* Faulty variant of Resubmitted: the attempt is not counted.
ResubmittedSameAttempt(row, seen) ==
    [row EXCEPT !.status = "QUEUED", !.cancel = FALSE, !.error = FALSE]

\* update_job of get_or_create_job; the attempt comes from the row it read.
Resubmitted(row, seen) ==
    [status |-> "QUEUED", attempt |-> seen.attempt + 1, cancel |-> FALSE, error |-> FALSE]

Requeued(row) ==
    [status |-> "QUEUED", attempt |-> row.attempt + 1, cancel |-> FALSE, error |-> FALSE]

\* A missing error leaves the error of the row, and of the mirror, alone.
WithStatus(row, status, error) ==
    [row EXCEPT !.status = status, !.error = row.error \/ error]

NewEntry == [status |-> "QUEUED", result |-> None, error |-> FALSE]
EntryOf(j) == IF mirror[j] = None THEN NewEntry ELSE mirror[j]

UpdateProgress(j, status, result, error) ==
    mirror' = [mirror EXCEPT ![j] =
        [status |-> status,
         result |-> IF result # None THEN result ELSE EntryOf(j).result,
         error |-> error \/ EntryOf(j).error]]

PublicStatus(status) ==
    IF status \in {"PARTIAL", "REJECTED"} THEN "COMPLETED" ELSE status

RowView(j) ==
    IF rows[j] = None THEN None
    ELSE [status |-> PublicStatus(rows[j].status), result |-> results[j], error |-> rows[j].error]

StatusView(j) ==
    IF store = "database"
    THEN IF rows[j] # None THEN RowView(j) ELSE mirror[j]
    ELSE IF mirror[j] # None THEN mirror[j] ELSE RowView(j)

----------------------------------------------------------------------------
(* The event loop: with the memory store only the request that is between  *)
(* two of its awaits runs, until it really waits for something.            *)

Turn(r) == store = "memory" => busy \in {None, r}
Continue(r) == busy' = IF store = "memory" THEN r ELSE None
Suspend == busy' = None

----------------------------------------------------------------------------
(* The registry of source indexes.                                         *)

Registered(j) == \E i \in DOMAIN indexes : indexes[i].job = j
IndexOf(j) == CHOOSE x \in ToSet(indexes) : x.job = j
\* A job has one entry at most.
Unregistered(s, j) ==
    IF \E i \in DOMAIN s : s[i].job = j
    THEN RemoveAt(s, CHOOSE i \in DOMAIN s : s[i].job = j)
    ELSE s

Bounded(s) == IF Len(s) > MaxIndexes THEN Tail(s) ELSE s

BuildIndex(r, j) ==
    indexes' = Bounded(Append(Unregistered(indexes, j), [job |-> j, by |-> r]))

\* Faulty variant of ClearIndex: the runner leaves its index behind.
KeepIndex(j) == UNCHANGED indexes

ClearIndex(j) == indexes' = Unregistered(indexes, j)

----------------------------------------------------------------------------
\* The nodes that use the registry; the others write the mirror as these do.
Nodes == <<"build_source_index", "retrieve_evidence">>

NoExec == [pc |-> "none", reference |-> FALSE, node |-> 1, index |-> "none", alone |-> TRUE]

Init ==
    /\ store \in {"memory", "database"}
    /\ busy = None
    /\ rows = [j \in Jobs |-> None]
    /\ results = [j \in Jobs |-> None]
    /\ mirror = [j \in Jobs |-> None]
    /\ indexes = <<>>
    /\ call = [r \in Requests |-> [pc |-> "idle", kind |-> None, job |-> None, seen |-> None]]
    /\ exec = [r \in Requests |-> NoExec]

CallGoes(r, pc) ==
    call' = [call EXCEPT ![r].pc = pc,
                         ![r].seen = IF pc \in {"accepted", "refused", "error"} THEN None ELSE @]
ExecGoes(r, pc) == exec' = [exec EXCEPT ![r].pc = pc]
JobOf(r) == call[r].job
WriteStatus(j, status, error) ==
    rows' = [rows EXCEPT ![j] = WithStatus(@, status, error)]

----------------------------------------------------------------------------
(* Submissions: get_or_create_job with reprocess set, then dispatch_job.   *)

\* The handlers of all three requests first read the row; a retry or a
\* cancellation stops when the row does not allow it.
Refused(kind, row) ==
    \/ kind = "retry" /\ (row = None \/ row.status \notin {"FAILED", "CANCELLED"})
    \/ kind = "cancel" /\ (row = None \/ row.status \in Terminal)

Read(r) ==
    /\ Turn(r) /\ call[r].pc = "idle"
    /\ \E j \in Jobs, kind \in {"submit", "retry", "cancel"} :
        LET refused == Refused(kind, rows[j]) IN
        /\ call' = [call EXCEPT ![r] = [pc |-> IF refused THEN "refused" ELSE "read",
                                        kind |-> kind, job |-> j,
                                        seen |-> IF refused THEN None ELSE rows[j]]]
        /\ IF refused THEN Suspend ELSE Continue(r)
    /\ UNCHANGED <<store, rows, results, mirror, indexes, exec>>

\* The INSERT of PgJobStore.create_job fails when the row has come to exist.
Submit(r) ==
    LET j == JobOf(r)
        new == call[r].seen = None
        conflict == new /\ rows[j] # None /\ store = "database" IN
    /\ Turn(r) /\ call[r].pc = "read" /\ call[r].kind = "submit"
    /\ CallGoes(r, IF conflict THEN "error" ELSE "written")
    /\ rows' = IF conflict THEN rows
               ELSE [rows EXCEPT ![j] = IF new THEN NewRow ELSE Resubmitted(@, call[r].seen)]
    /\ IF conflict THEN Suspend ELSE Continue(r)
    /\ UNCHANGED <<store, results, mirror, indexes, exec>>

\* Only a new job gets its entry here (setdefault), a resubmission does not.
\* A submission hands its text or bytes over, a retry nothing: its execution
\* has to recover the input.
Dispatch(r) ==
    /\ Turn(r) /\ call[r].pc = "written"
    /\ CallGoes(r, "accepted")
    /\ IF call[r].kind = "submit" /\ call[r].seen = None
       THEN mirror' = [mirror EXCEPT ![JobOf(r)] = EntryOf(JobOf(r))]
       ELSE UNCHANGED mirror
    /\ exec' = [exec EXCEPT ![r].pc = "waiting", ![r].reference = call[r].kind = "retry"]
    /\ Suspend
    /\ UNCHANGED <<store, rows, results, indexes>>

\* Faulty variant of MirrorRetry: the mirror is left as it was.
NoMirror(j) == UNCHANGED mirror

MirrorRetry(j) == UpdateProgress(j, "QUEUED", None, FALSE)

\* A retry requeues the row in one critical section and mirrors it.
Retry(r) ==
    LET j == JobOf(r)
        lost == rows[j].status \notin {"FAILED", "CANCELLED"} IN
    /\ Turn(r) /\ call[r].pc = "read" /\ call[r].kind = "retry"
    /\ IF lost
       THEN CallGoes(r, "refused") /\ Suspend /\ UNCHANGED <<rows, mirror>>
       ELSE /\ CallGoes(r, "written") /\ Continue(r)
            /\ rows' = [rows EXCEPT ![j] = Requeued(@)]
            /\ MirrorRetry(j)
    /\ UNCHANGED <<store, results, indexes, exec>>

\* A cancellation sets the flag, then the status of a job it saw queued.
RequestCancel(r) ==
    /\ Turn(r) /\ call[r].pc = "read" /\ call[r].kind = "cancel"
    /\ rows' = [rows EXCEPT ![JobOf(r)].cancel = TRUE]
    /\ LET queued == call[r].seen.status = "QUEUED" IN
        /\ CallGoes(r, IF queued THEN "flagged" ELSE "accepted")
        /\ IF queued THEN Continue(r) ELSE Suspend
    /\ UNCHANGED <<store, results, mirror, indexes, exec>>

CancelQueued(r) ==
    /\ Turn(r) /\ call[r].pc = "flagged"
    /\ WriteStatus(JobOf(r), "CANCELLED", FALSE)
    /\ UpdateProgress(JobOf(r), "FAILED", None, TRUE)
    /\ CallGoes(r, "accepted") /\ Suspend
    /\ UNCHANGED <<store, results, indexes, exec>>

----------------------------------------------------------------------------
(* Executions: InProcessQueue, then _factory of dispatch_job, execute_job. *)

Outside == {"none", "waiting", "done"}
Running == {r \in Requests : exec[r].pc \notin Outside}
RunningOn(j) == {r \in Running : JobOf(r) = j}

\* Faulty variant of Release: a job that fails keeps its permit.
ReleaseUnlessFailed(r) ==
    exec' = [exec EXCEPT ![r] =
        [NoExec EXCEPT !.pc = IF exec[r].pc = "failing" THEN "stuck" ELSE "done"]]

\* async with leaves the semaphore on every way out of the job.
Release(r) == exec' = [exec EXCEPT ![r] = [NoExec EXCEPT !.pc = "done"]]

Admit(r) ==
    /\ Turn(r) /\ exec[r].pc = "waiting"
    /\ Cardinality(Running) < MaxConcurrent
    /\ LET others == RunningOn(JobOf(r)) IN
        exec' = [q \in Requests |->
            IF q = r THEN [exec[r] EXCEPT !.pc = IF exec[r].reference THEN "recover" ELSE "start",
                                          !.alone = others = {}]
            ELSE [exec[q] EXCEPT !.alone = @ /\ q \notin others]]
    /\ Continue(r)
    /\ UNCHANGED <<store, rows, results, mirror, indexes, call>>

\* build_worker_initial_state finds what an earlier attempt left, or not. It
\* waits for what it downloads, not for chunks of the memory store.
Recover(r) ==
    /\ Turn(r) /\ exec[r].pc = "recover"
    /\ \E found \in BOOLEAN : ExecGoes(r, IF found THEN "start" ELSE "failing")
    /\ Continue(r) \/ Suspend
    /\ UNCHANGED <<store, rows, results, mirror, indexes, call>>

Start(r) ==
    /\ Turn(r) /\ exec[r].pc = "start"
    /\ WriteStatus(JobOf(r), "PROCESSING", FALSE)
    /\ UpdateProgress(JobOf(r), "PROCESSING", None, FALSE)
    /\ ExecGoes(r, "started")
    /\ Continue(r)
    /\ UNCHANGED <<store, results, indexes, call>>

\* is_cancel_requested before the first node, which leaves the index alone.
CheckBeforeStart(r) ==
    /\ Turn(r) /\ exec[r].pc = "started"
    /\ IF rows[JobOf(r)].cancel
       THEN ExecGoes(r, "cancelling") /\ Continue(r)
       ELSE ExecGoes(r, "node") /\ Suspend
    /\ UNCHANGED <<store, rows, results, mirror, indexes, call>>

\* What retrieve_evidence finds under the job id.
Found(r) ==
    IF ~Registered(JobOf(r)) THEN "missing"
    ELSE IF IndexOf(JobOf(r)).by = r THEN "own" ELSE "other"

\* A node writes the mirror when it begins; build_source_index registers an
\* index when there are chunks, retrieve_evidence looks it up.
RunNode(r) ==
    LET j == JobOf(r)
        node == Nodes[exec[r].node] IN
    /\ Turn(r) /\ exec[r].pc = "node"
    /\ UpdateProgress(j, "PROCESSING", None, FALSE)
    /\ \/ /\ node = "build_source_index"
          /\ BuildIndex(r, j)
          /\ exec' = [exec EXCEPT ![r].pc = "yielded", ![r].index = "built"]
       \/ /\ node = "build_source_index"
          /\ UNCHANGED indexes
          /\ ExecGoes(r, "yielded")
       \/ /\ node = "retrieve_evidence"
          /\ exec' = [exec EXCEPT ![r].pc = "yielded",
                                  ![r].index = IF @ = "built" THEN Found(r) ELSE @]
          /\ UNCHANGED indexes
    /\ Suspend
    /\ UNCHANGED <<store, rows, results, call>>

\* _run_stream takes the update of a node: it looks at the flag first.
CheckCancel(r) ==
    /\ Turn(r) /\ exec[r].pc = "yielded"
    /\ IF rows[JobOf(r)].cancel
       THEN ClearIndex(JobOf(r)) /\ ExecGoes(r, "cancelling")
       ELSE UNCHANGED indexes /\ ExecGoes(r, "record")
    /\ Continue(r)
    /\ UNCHANGED <<store, rows, results, mirror, call>>

RecordNode(r) ==
    LET last == exec[r].node = Len(Nodes) IN
    /\ Turn(r) /\ exec[r].pc = "record"
    /\ WriteStatus(JobOf(r), "PROCESSING", FALSE)
    /\ UpdateProgress(JobOf(r), "PROCESSING", None, FALSE)
    /\ exec' = [exec EXCEPT ![r].pc = IF last THEN "streamed" ELSE "node",
                            ![r].node = IF last THEN @ ELSE @ + 1]
    /\ Suspend
    /\ UNCHANGED <<store, results, indexes, call>>

\* The runtime limit, or an exception of the pipeline, between two updates.
Break(r) ==
    /\ Turn(r) /\ exec[r].pc \in {"node", "yielded"}
    /\ ExecGoes(r, "broken")
    /\ Continue(r)
    /\ UNCHANGED <<store, rows, results, mirror, indexes, call>>

\* The stream has ended: the index goes, then the result is saved, unless
\* the pipeline left none.
Save(r) ==
    /\ Turn(r) /\ exec[r].pc = "streamed"
    /\ ClearIndex(JobOf(r))
    /\ \/ /\ results' = [results EXCEPT ![JobOf(r)] = r]
          /\ ExecGoes(r, "finishing")
       \/ ExecGoes(r, "failing") /\ UNCHANGED results
    /\ Continue(r)
    /\ UNCHANGED <<store, rows, mirror, call>>

Finish(r) ==
    LET j == JobOf(r) IN
    /\ Turn(r) /\ exec[r].pc = "finishing"
    /\ \E status \in {"COMPLETED", "PARTIAL", "FAILED"} :
        LET failed == status = "FAILED" IN
        /\ WriteStatus(j, status, failed)
        /\ UpdateProgress(j, PublicStatus(status), IF failed THEN None ELSE r, failed)
    /\ Release(r) /\ Suspend
    /\ UNCHANGED <<store, results, indexes, call>>

\* A run that broke still has to clear its index, after the others may have
\* seen the status.
Fail(r) ==
    /\ Turn(r) /\ exec[r].pc \in {"failing", "broken"}
    /\ WriteStatus(JobOf(r), "FAILED", TRUE)
    /\ UpdateProgress(JobOf(r), "FAILED", None, TRUE)
    /\ IF exec[r].pc = "broken"
       THEN ExecGoes(r, "clearing") /\ Continue(r)
       ELSE Release(r) /\ Suspend
    /\ UNCHANGED <<store, results, indexes, call>>

ClearBroken(r) ==
    /\ Turn(r) /\ exec[r].pc = "clearing"
    /\ ClearIndex(JobOf(r))
    /\ Release(r) /\ Suspend
    /\ UNCHANGED <<store, rows, results, mirror, call>>

Cancelled(r) ==
    /\ Turn(r) /\ exec[r].pc = "cancelling"
    /\ WriteStatus(JobOf(r), "CANCELLED", FALSE)
    /\ UpdateProgress(JobOf(r), "FAILED", None, TRUE)
    /\ Release(r) /\ Suspend
    /\ UNCHANGED <<store, results, indexes, call>>

----------------------------------------------------------------------------
Handle(r) ==
    \/ Submit(r) \/ Dispatch(r) \/ Retry(r) \/ RequestCancel(r) \/ CancelQueued(r)

Execute(r) ==
    \/ Admit(r) \/ Recover(r) \/ Start(r) \/ CheckBeforeStart(r) \/ RunNode(r)
    \/ CheckCancel(r) \/ RecordNode(r) \/ Save(r) \/ Finish(r) \/ Fail(r)
    \/ ClearBroken(r) \/ Cancelled(r)

Next == \E r \in Requests : Read(r) \/ Handle(r) \/ Execute(r) \/ Break(r)

Spec == Init /\ [][Next]_vars

----------------------------------------------------------------------------
(* Properties.                                                             *)

\* The registry holds an index only while an execution of its job runs, so
\* the limit on its size is never what keeps the process from growing
\* (rag/source_index.py, the finally of execute_job).
IndexesAreOfRunningJobs ==
    \A i \in DOMAIN indexes : RunningOn(indexes[i].job) # {}

\* An execution that was the only one of its job retrieves from the index it
\* built: neither the limit of the registry nor another job takes it away.
RetrievalUsesOwnIndex ==
    MaxConcurrent <= MaxIndexes =>
        \A r \in Requests : exec[r].alone => exec[r].index \in {"none", "built", "own"}

\* The registry has what a running execution needs, and nothing else.
RegistryServesExecutions == IndexesAreOfRunningJobs /\ RetrievalUsesOwnIndex

Settled(j) ==
    /\ busy = None
    /\ \A r \in RunningOn(j) : exec[r].alone
    /\ \A r \in Requests : JobOf(r) = j => exec[r].pc # "waiting" \/ call[r].kind = "retry"

\* With the memory store /status answers from the mirror. It agrees with the
\* row whenever no task is between two awaits, except while a submission waits
\* for its turn or an execution has overlapped another (public_status_view).
MirrorFollowsRow ==
    store = "memory" =>
        \A j \in Jobs : Settled(j) /\ rows[j] # None =>
            mirror[j].status = IF rows[j].status = "CANCELLED" THEN "FAILED"
                               ELSE PublicStatus(rows[j].status)

Written(j) ==
    {r \in Requests : JobOf(r) = j /\ call[r].kind # "cancel" /\ call[r].pc \in {"written", "accepted"}}

\* The attempt number counts the submissions and retries of a job. Two of
\* them may share a number only where the row can change between the read and
\* the write (get_or_create_job).
AttemptsCountSubmissions ==
    \A j \in Jobs : rows[j] # None =>
        /\ rows[j].attempt <= Cardinality(Written(j))
        /\ store = "memory" => rows[j].attempt = Cardinality(Written(j))

\* The stages from which a handler, and an execution with a permit, goes on.
HandlerStages == {"read", "written", "flagged"}
ExecutionStages ==
    {"recover", "start", "started", "node", "yielded", "record", "streamed",
     "finishing", "failing", "broken", "clearing", "cancelling"}

\* The next step of a request does not have to wait for another one: it has
\* the event loop or can get it, and a permit if it needs one.
CanGoOn(r) ==
    /\ Turn(r)
    /\ \/ call[r].pc \in HandlerStages
       \/ exec[r].pc \in ExecutionStages
       \/ exec[r].pc = "waiting" /\ Cardinality(Running) < MaxConcurrent

Unfinished(r) == call[r].pc \in HandlerStages \/ exec[r].pc \notin {"none", "done"}

\* While a request is in a handler, waits for a permit or executes, some request
\* can go on: neither the event loop nor the permits end up with somebody who
\* will not give them back, whatever the executions end with (InProcessQueue).
NothingIsStranded ==
    (\E r \in Requests : Unfinished(r)) => \E r \in Requests : CanGoOn(r)

\* How far a request has come, its execution included.
CallRank == [idle |-> 0, read |-> 1, written |-> 2, flagged |-> 2,
             accepted |-> 3, refused |-> 3, error |-> 3]
ExecRank == [none |-> 0, waiting |-> 1, recover |-> 2, start |-> 3, started |-> 4,
             node |-> 5, yielded |-> 6, record |-> 7, streamed |-> 11, broken |-> 11,
             finishing |-> 12, failing |-> 12, cancelling |-> 12, clearing |-> 12,
             done |-> 13]

NodesBehind(r) ==
    IF exec[r].pc \in {"node", "yielded", "record"} THEN exec[r].node - 1 ELSE 0

Progress(r) == CallRank[call[r].pc] + ExecRank[exec[r].pc] + 3 * NodesBehind(r)

\* Every step takes one request further and none back, and no request goes
\* further than 16: with NothingIsStranded, the process cannot be kept from
\* finishing what it accepted by any order of steps.
EveryStepAdvances ==
    [][\E r \in Requests :
          /\ Progress(r) < Progress(r)' /\ Progress(r)' <= 16
          /\ \A q \in Requests \ {r} : Progress(q)' = Progress(q)]_vars

\* What /status shows of a submission that was answered QUEUED and waits for
\* its turn, while nothing else runs the job: "the public /status endpoint
\* reflects the job immediately even before the worker starts"
\* (api/service.py).
StatusShowsSubmission ==
    \A r \in Requests :
        (/\ busy = None /\ exec[r].pc = "waiting" /\ call[r].kind = "submit"
         /\ RunningOn(JobOf(r)) = {} /\ rows[JobOf(r)].status = "QUEUED")
        => StatusView(JobOf(r)).status = "QUEUED"
=============================================================================
