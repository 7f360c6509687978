---------------------------- MODULE JobLifecycle ----------------------------
(***************************************************************************)
(* The life of one AI job: the durable row, the RQ queue, the API handlers *)
(* that create, retry and cancel the job, and the workers that execute it. *)
(* Everything the code keeps is keyed by job_id and no handler touches two *)
(* jobs, so one job is modelled and the others only delay it.              *)
(*                                                                         *)
(* A step is the code between two awaits on a store or on the queue: each  *)
(* store call is one transaction, and whatever another process does may    *)
(* happen between two of them. The store calls themselves are the JobStore *)
(* contract as store/memory.py implements it, one call under one lock; what *)
(* the Postgres repository makes of it is PgJobStore.                      *)
(***************************************************************************)
EXTENDS Naturals, Sequences, FiniteSets, JobRow

CONSTANTS
    Requests,        \* calls of the API, each made at most once
    Workers,         \* RQ worker processes; each executes one message at a time
    Prints,          \* request fingerprints; they cover tenant and project, so
                     \* a request of another tenant has another one
    Creators, Retriers, Cancellers,  \* the requests that may call each endpoint
    MaxAttempts,     \* bound on attempt_number (a retry past it is not made)
    MaxNodes,        \* bound on the node updates of one pipeline run
    MaxCrashes,      \* bound on crashes of API handlers and workers
    DispatchFails    \* TRUE: the document store, Redis or the queue may refuse

Attempts == 1 .. MaxAttempts

ASSUME ActorsAssumption == Requests \cap Workers = {}
ASSUME CallsAssumption ==
    /\ Creators \subseteq Requests
    /\ Retriers \subseteq Requests
    /\ Cancellers \subseteq Requests
ASSUME BoundsAssumption ==
    /\ MaxAttempts \in Nat \ {0}
    /\ MaxNodes \in Nat \ {0}
    /\ MaxCrashes \in Nat
    /\ DispatchFails \in BOOLEAN

----------------------------------------------------------------------------
\* Faulty variant of Outcomes: the contract's vocabulary is written to the row.
ContractOutcomes == {"completed", "partial", "rejected", "failed"}

\* What a finished pipeline can report: _STATUS_MAP of the runner.
Outcomes == Delivered \cup {"FAILED"}

Actors == Requests \cup Workers

VARIABLES
    row,         \* the ai_jobs row
    queue,       \* the RQ list; a message carries the job id only, and the
                 \* attempt written here is history no worker reads
    history,     \* ai_job_attempts: attempt number -> recorded status
    result,      \* attempt of the execution that saved ai_job_results, 0: none
    pc,          \* where each actor is
    at,          \* attempt the actor acts for
    fin,         \* terminal status the actor is about to report
    closes,      \* attempt_number that _finalize_attempt read
    call,        \* endpoint a request called
    print,       \* fingerprint a creating or retrying request presents
    sawQueued,   \* cancel_job read the row while it was QUEUED
    reply,       \* what the caller was told
    node,        \* node updates a worker has recorded in this execution
    late,        \* history: those recorded after the cancel flag was set
    dispatches,  \* history: messages enqueued for each attempt
    crashes      \* history: crashes so far

requestVars == <<call, print, sawQueued, reply>>
workerVars == <<node, late>>
vars == <<row, queue, history, result, pc, at, fin, closes, requestVars,
          workerVars, dispatches, crashes>>

----------------------------------------------------------------------------

Init ==
    /\ row = NoJob
    /\ queue = <<>>
    /\ history = [k \in Attempts |-> "NONE"]
    /\ result = 0
    /\ pc = [a \in Actors |-> IF a \in Requests THEN "new" ELSE "idle"]
    /\ at = [a \in Actors |-> 0]
    /\ fin = [a \in Actors |-> "NONE"]
    /\ closes = [a \in Actors |-> 0]
    /\ call = [r \in Requests |-> "none"]
    /\ print = [r \in Requests |-> NoPrint]
    /\ sawQueued = [r \in Requests |-> FALSE]
    /\ reply = [r \in Requests |-> "none"]
    /\ node = [w \in Workers |-> 0]
    /\ late = [w \in Workers |-> 0]
    /\ dispatches = [k \in Attempts |-> 0]
    /\ crashes = 0

Goto(a, stage) == pc' = [pc EXCEPT ![a] = stage]
Answer(r, text) == reply' = [reply EXCEPT ![r] = text]
Called(r, c) == call' = [call EXCEPT ![r] = c]

----------------------------------------------------------------------------
(* POST /internal/jobs: handle_job_creation.                               *)

\* The row existed before this call: what the copy read under the lock says.
Existing(r, p, reprocess) ==
    \/ /\ reprocess /\ CanRequeue(row, p)
       /\ Goto(r, "requeue") /\ UNCHANGED reply
    \/ /\ reprocess /\ ~CanRequeue(row, p)
       /\ Goto(r, "duplicate") /\ Answer(r, "conflict")
    \/ /\ ~reprocess
       /\ Goto(r, "duplicate")
       /\ Answer(r, IF Matches(row, p) THEN "idempotent" ELSE "conflict")

\* create_or_get, and the decision taken on the copy it returns.
Create(r, p, reprocess) ==
    /\ pc[r] = "new" /\ r \in Creators
    /\ Called(r, "create") /\ print' = [print EXCEPT ![r] = p]
    /\ \/ /\ row.status = "ABSENT"
          /\ row' = NewJob(p)
          /\ at' = [at EXCEPT ![r] = 1]
          /\ Goto(r, "manifest")
          /\ UNCHANGED reply
       \/ /\ row.status # "ABSENT"
          /\ Existing(r, p, reprocess)
          /\ UNCHANGED <<row, at>>
    /\ UNCHANGED <<queue, history, result, fin, sawQueued, workerVars,
                   dispatches, crashes, closes>>

\* mark_duplicate, then the answer decided earlier is sent.
Duplicate(r) ==
    /\ pc[r] = "duplicate"
    /\ row' = MarkDuplicate(row)
    /\ Goto(r, "answered")
    /\ UNCHANGED <<queue, history, result, at, fin, requestVars, workerVars,
                   dispatches, crashes, closes>>

----------------------------------------------------------------------------
(* POST /internal/jobs/{job_id}/retry, and the requeue it shares with      *)
(* reprocess=true.                                                         *)

RetryRead(r) ==
    /\ pc[r] = "new" /\ r \in Retriers
    /\ Called(r, "retry")
    /\ \/ /\ row.status \notin Retryable
          /\ Goto(r, "answered")
          /\ Answer(r, IF row.status = "ABSENT" THEN "notFound" ELSE "conflict")
          /\ UNCHANGED print
       \/ /\ row.status \in Retryable
          /\ Goto(r, "requeue")
          /\ print' = [print EXCEPT ![r] = row.print]
          /\ UNCHANGED reply
    /\ UNCHANGED <<row, queue, history, result, at, fin, sawQueued, workerVars,
                   dispatches, crashes, closes>>

\* The winner of the compare-and-set owns the dispatch of the new attempt.
Requeue(r) ==
    /\ pc[r] = "requeue" /\ CanRequeue(row, print[r])
    /\ row.attempt < MaxAttempts
    /\ row' = Requeued(row)
    /\ at' = [at EXCEPT ![r] = row'.attempt]
    /\ Goto(r, IF call[r] = "create" THEN "manifest" ELSE "enqueue")
    /\ late' = [w \in Workers |-> 0]
    /\ UNCHANGED <<queue, history, result, fin, requestVars, node,
                   dispatches, crashes, closes>>

\* Faulty variant of RequeueLost: the loser dispatches too.
RequeueLostDispatches(r) ==
    /\ pc[r] = "requeue" /\ ~CanRequeue(row, print[r])
    /\ at' = [at EXCEPT ![r] = row.attempt]
    /\ Goto(r, "enqueue")
    /\ UNCHANGED <<row, queue, history, result, fin, requestVars, workerVars,
                   dispatches, crashes, closes>>

\* The loser answers without a dispatch: a create as a duplicate, a retry 409.
RequeueLost(r) ==
    /\ pc[r] = "requeue" /\ ~CanRequeue(row, print[r])
    /\ Goto(r, IF call[r] = "create" THEN "duplicate" ELSE "answered")
    /\ Answer(r, IF call[r] = "create" THEN "idempotent" ELSE "conflict")
    /\ UNCHANGED <<row, queue, history, result, at, fin, call, print, sawQueued,
                   workerVars, dispatches, crashes, closes>>

----------------------------------------------------------------------------
(* prepare_and_dispatch_job and dispatch_job.                              *)

\* save_documents: a failure marks the job FAILED by the handler's own write.
Manifest(r) ==
    /\ pc[r] = "manifest"
    /\ \/ Goto(r, "enqueue")
       \/ DispatchFails /\ Goto(r, "refail")
    /\ UNCHANGED <<row, queue, history, result, at, fin, requestVars, workerVars,
                   dispatches, crashes, closes>>

\* queue.enqueue succeeded: the message is in Redis and the caller is told 202.
Enqueue(r) ==
    /\ pc[r] = "enqueue"
    /\ queue' = Append(queue, at[r])
    /\ dispatches' = [dispatches EXCEPT ![at[r]] = @ + 1]
    /\ Goto(r, "answered") /\ Answer(r, "accepted")
    /\ UNCHANGED <<row, history, result, at, fin, call, print, sawQueued,
                   workerVars, crashes, closes>>

\* Faulty variant of DispatchFailed: the job row is left as it is.
DispatchFailedSilently(r) ==
    /\ pc[r] = "enqueue" /\ DispatchFails
    /\ Goto(r, "answered") /\ Answer(r, "unavailable")
    /\ UNCHANGED <<row, queue, history, result, at, fin, call, print, sawQueued,
                   workerVars, dispatches, crashes, closes>>

\* No queue, no input cache or no enqueue: _mark_dispatch_failed begins.
DispatchFailed(r) ==
    /\ pc[r] = "enqueue" /\ DispatchFails
    /\ fin' = [fin EXCEPT ![r] = "FAILED"]
    /\ Goto(r, "report")
    /\ UNCHANGED <<row, queue, history, result, at, requestVars, workerVars,
                   dispatches, crashes, closes>>

\* prepare_and_dispatch_job marks the job FAILED once more before it answers.
Refail(r) ==
    /\ pc[r] = "refail"
    /\ row' = SetStatus(row, "FAILED")
    /\ Goto(r, "answered") /\ Answer(r, "unavailable")
    /\ UNCHANGED <<queue, history, result, at, fin, call, print, sawQueued,
                   workerVars, dispatches, crashes, closes>>

----------------------------------------------------------------------------
(* POST /internal/jobs/{job_id}/cancel.                                    *)

CancelRead(r) ==
    /\ pc[r] = "new" /\ r \in Cancellers
    /\ Called(r, "cancel")
    /\ \/ /\ row.status \notin Active
          /\ Goto(r, "answered")
          /\ Answer(r, IF row.status = "ABSENT" THEN "notFound" ELSE "finished")
          /\ UNCHANGED sawQueued
       \/ /\ row.status \in Active
          /\ Goto(r, "flag")
          /\ sawQueued' = [sawQueued EXCEPT ![r] = row.status = "QUEUED"]
          /\ UNCHANGED reply
    /\ UNCHANGED <<row, queue, history, result, at, fin, print, workerVars,
                   dispatches, crashes, closes>>

\* request_cancel; the status read before it decides whether to write too.
CancelFlag(r) ==
    /\ pc[r] = "flag"
    /\ row' = RequestCancel(row)
    /\ at' = [at EXCEPT ![r] = row.attempt]
    /\ Goto(r, IF sawQueued[r] THEN "withdraw" ELSE "answered")
    /\ Answer(r, "cancelling")
    /\ UNCHANGED <<queue, history, result, fin, call, print, sawQueued,
                   workerVars, dispatches, crashes, closes>>

\* The message stays in the queue.
CancelQueued(r) ==
    /\ pc[r] = "withdraw"
    /\ row' = SetStatus(row, "CANCELLED")
    /\ Goto(r, "answered")
    /\ UNCHANGED <<queue, history, result, at, fin, requestVars, workerVars,
                   dispatches, crashes, closes>>

----------------------------------------------------------------------------
(* The worker: run_job_entry and execute_job.                              *)

Take(w) ==
    /\ pc[w] = "idle" /\ queue # <<>>
    /\ queue' = Tail(queue)
    /\ at' = [at EXCEPT ![w] = Head(queue)]
    /\ Goto(w, "load")
    /\ UNCHANGED <<row, history, result, fin, closes, requestVars, workerVars,
                   dispatches, crashes>>

\* The input is rebuilt and execute_job reads the row: the attempt it acts for
\* is the one the row shows now, whichever attempt the message was sent for.
Load(w) ==
    /\ pc[w] = "load"
    /\ at' = [at EXCEPT ![w] = row.attempt]
    /\ Goto(w, "open")
    /\ UNCHANGED <<row, queue, history, result, fin, requestVars, workerVars,
                   dispatches, crashes, closes>>

Open(w) ==
    /\ pc[w] = "open"
    /\ history' = [history EXCEPT ![at[w]] = "PROCESSING"]
    /\ Goto(w, "start")
    /\ UNCHANGED <<row, queue, result, at, fin, requestVars, workerVars,
                   dispatches, crashes, closes>>

Start(w) ==
    /\ pc[w] = "start"
    /\ row' = SetStatus(row, "PROCESSING")
    /\ Goto(w, "precheck")
    /\ UNCHANGED <<queue, history, result, at, fin, requestVars, workerVars,
                   dispatches, crashes, closes>>

\* is_cancel_requested, before the first node and at every node update.
CheckCancel(w, stage) ==
    /\ IF row.cancel
       THEN Goto(w, "report") /\ fin' = [fin EXCEPT ![w] = "CANCELLED"]
       ELSE Goto(w, stage) /\ UNCHANGED fin
    /\ UNCHANGED <<row, queue, history, result, at, requestVars, workerVars,
                   dispatches, crashes, closes>>

PreCheck(w) == pc[w] = "precheck" /\ CheckCancel(w, "run")

\* Faulty variant of NodeCheck: the flag is only looked at before the start.
NodeUnchecked(w) ==
    /\ pc[w] = "run" /\ node[w] < MaxNodes
    /\ Goto(w, "write")
    /\ UNCHANGED <<row, queue, history, result, at, fin, requestVars, workerVars,
                   dispatches, crashes, closes>>

NodeCheck(w) == pc[w] = "run" /\ node[w] < MaxNodes /\ CheckCancel(w, "write")

NodeWrite(w) ==
    /\ pc[w] = "write"
    /\ row' = SetStatus(row, "PROCESSING")
    /\ node' = [node EXCEPT ![w] = @ + 1]
    /\ late' = [late EXCEPT ![w] = IF row.cancel THEN @ + 1 ELSE @]
    /\ Goto(w, "run")
    /\ UNCHANGED <<queue, history, result, at, fin, requestVars,
                   dispatches, crashes, closes>>

\* Faulty variant of Persist: the status goes first and the result is lost.
PersistNothing(w) ==
    /\ pc[w] = "run" /\ node[w] > 0
    /\ \E s \in Outcomes : fin' = [fin EXCEPT ![w] = s]
    /\ Goto(w, "report")
    /\ UNCHANGED <<row, queue, history, result, at, requestVars, workerVars,
                   dispatches, crashes, closes>>

\* The stream ended: the result is saved before any terminal status is written.
Persist(w) ==
    /\ pc[w] = "run" /\ node[w] > 0
    /\ result' = at[w]
    /\ \E s \in Outcomes : fin' = [fin EXCEPT ![w] = s]
    /\ Goto(w, "report")
    /\ UNCHANGED <<row, queue, history, at, requestVars, workerVars,
                   dispatches, crashes, closes>>

\* Faulty variant of Abort: the execution ends without reporting.
AbortSilently(w) ==
    /\ pc[w] \in {"load", "run", "write"}
    /\ Goto(w, "idle")
    /\ UNCHANGED <<row, queue, history, result, at, fin, requestVars, workerVars,
                   dispatches, crashes, closes>>

\* Input not recoverable, timeout, pipeline crash, no result, result not saved.
Abort(w) ==
    /\ pc[w] \in {"load", "run", "write"}
    /\ fin' = [fin EXCEPT ![w] = "FAILED"]
    /\ Goto(w, "report")
    /\ UNCHANGED <<row, queue, history, result, at, requestVars, workerVars,
                   dispatches, crashes, closes>>

----------------------------------------------------------------------------
(* Reporting a terminal status: the set_status of _fail and execute_job,   *)
(* then _finalize_attempt, which reads the row again before it writes.     *)

Report(a) ==
    /\ pc[a] = "report"
    /\ row' = SetStatus(row, fin[a])
    /\ Goto(a, "reread")
    /\ UNCHANGED <<queue, history, result, at, fin, requestVars, workerVars,
                   dispatches, crashes, closes>>

Reread(a) ==
    /\ pc[a] = "reread"
    /\ closes' = [closes EXCEPT ![a] = row.attempt]
    /\ Goto(a, "close")
    /\ UNCHANGED <<row, queue, history, result, at, fin, requestVars, workerVars,
                   dispatches, crashes>>

\* _finalize_attempt upserts the attempt the row showed, not the actor's own.
Close(a) ==
    /\ pc[a] = "close"
    /\ history' = [history EXCEPT ![closes[a]] = fin[a]]

\* The worker forgets the execution and polls the queue again.
CloseExecution(w) ==
    /\ Close(w)
    /\ Goto(w, "idle")
    /\ at' = [at EXCEPT ![w] = 0]
    /\ fin' = [fin EXCEPT ![w] = "NONE"]
    /\ closes' = [closes EXCEPT ![w] = 0]
    /\ node' = [node EXCEPT ![w] = 0]
    /\ late' = [late EXCEPT ![w] = 0]
    /\ UNCHANGED <<row, queue, result, requestVars, dispatches, crashes>>

\* A create has a second FAILED to write, a retry is answered 503.
CloseDispatch(r) ==
    /\ Close(r)
    /\ IF call[r] = "create"
       THEN Goto(r, "refail") /\ UNCHANGED reply
       ELSE Goto(r, "answered") /\ Answer(r, "unavailable")
    /\ UNCHANGED <<row, queue, result, at, fin, closes, call, print, sawQueued,
                   workerVars, dispatches, crashes>>

----------------------------------------------------------------------------
(* Crashes: an API process dies inside a handler; a worker process dies    *)
(* (or RQ's own job timeout unwinds it) and is started again, and RQ does  *)
(* not run the message a second time because it was enqueued retry=None.   *)

CanCrash(a) ==
    /\ crashes < MaxCrashes
    /\ pc[a] \notin {"new", "answered", "lost", "idle"}
    /\ crashes' = crashes + 1

LoseRequest(r) ==
    /\ CanCrash(r)
    /\ Goto(r, "lost")
    /\ UNCHANGED <<row, queue, history, result, at, fin, closes, requestVars,
                   workerVars, dispatches>>

CrashWorker(w) ==
    /\ CanCrash(w)
    /\ Goto(w, "idle")
    /\ at' = [at EXCEPT ![w] = 0]
    /\ fin' = [fin EXCEPT ![w] = "NONE"]
    /\ closes' = [closes EXCEPT ![w] = 0]
    /\ node' = [node EXCEPT ![w] = 0]
    /\ late' = [late EXCEPT ![w] = 0]
    /\ UNCHANGED <<row, queue, history, result, requestVars, dispatches>>

----------------------------------------------------------------------------

\* A caller may call or not; a handler that has begun goes on.
Submit(r) ==
    \/ \E p \in Prints, b \in BOOLEAN : Create(r, p, b)
    \/ RetryRead(r)
    \/ CancelRead(r)

Handle(r) ==
    \/ Duplicate(r) \/ Requeue(r) \/ RequeueLost(r)
    \/ Manifest(r) \/ Enqueue(r) \/ DispatchFailed(r) \/ Refail(r)
    \/ CancelFlag(r) \/ CancelQueued(r)
    \/ Report(r) \/ Reread(r) \/ CloseDispatch(r)

Work(w) ==
    \/ Take(w) \/ Load(w) \/ Open(w) \/ Start(w)
    \/ PreCheck(w) \/ NodeCheck(w) \/ NodeWrite(w) \/ Persist(w) \/ Abort(w)
    \/ Report(w) \/ Reread(w) \/ CloseExecution(w)

Next ==
    \/ \E r \in Requests : Submit(r) \/ Handle(r) \/ LoseRequest(r)
    \/ \E w \in Workers : Work(w) \/ CrashWorker(w)

Spec == Init /\ [][Next]_vars

\* The event loop resumes every handler, and every live worker keeps polling.
Fairness ==
    /\ \A r \in Requests : WF_vars(Handle(r))
    /\ \A w \in Workers : WF_vars(Work(w))

FairSpec == Spec /\ Fairness

----------------------------------------------------------------------------
(* Type invariant.                                                         *)

Stages ==
    {"new", "manifest", "requeue", "duplicate", "enqueue", "refail", "flag",
     "withdraw", "answered", "lost", "idle", "load", "open", "start",
     "precheck", "run", "write", "report", "reread", "close"}

Replies == {"none", "accepted", "idempotent", "conflict", "unavailable",
            "cancelling", "finished", "notFound"}

Rows == [status : Statuses \cup {"ABSENT"}, attempt : 0 .. MaxAttempts,
         cancel : BOOLEAN, print : Prints \cup {NoPrint}, dups : Nat]

\* Every variable has its type.
TypeOK ==
    /\ row \in Rows
    /\ queue \in Seq(Attempts)
    /\ history \in [Attempts -> {"NONE", "PROCESSING"} \cup Terminal]
    /\ result \in 0 .. MaxAttempts
    /\ pc \in [Actors -> Stages]
    /\ at \in [Actors -> 0 .. MaxAttempts]
    /\ fin \in [Actors -> {"NONE"} \cup Terminal]
    /\ closes \in [Actors -> 0 .. MaxAttempts]
    /\ call \in [Requests -> {"none", "create", "retry", "cancel"}]
    /\ print \in [Requests -> Prints \cup {NoPrint}]
    /\ sawQueued \in [Requests -> BOOLEAN]
    /\ reply \in [Requests -> Replies]
    /\ node \in [Workers -> 0 .. MaxNodes]
    /\ late \in [Workers -> Nat]
    /\ dispatches \in [Attempts -> Nat]
    /\ crashes \in 0 .. MaxCrashes

----------------------------------------------------------------------------
(* Safety.                                                                 *)

\* However creates, reprocesses and retries interleave, one message at most is
\* ever enqueued for an attempt, and none for an attempt that does not exist:
\* the insert and the compare-and-set elect one dispatcher each.
EachAttemptDispatchedOnce ==
    \A k \in Attempts : dispatches[k] <= (IF k <= row.attempt THEN 1 ELSE 0)

CarrierStages == {"manifest", "enqueue", "refail", "report", "load", "open", "start"}

\* A QUEUED job is never orphaned while no process crashes: its current attempt
\* is with a handler that will enqueue it or fail it, in the queue, or with a
\* worker that will start it or fail it.
QueuedIsCarried ==
    row.status = "QUEUED" /\ crashes = 0 =>
        \/ \E i \in DOMAIN queue : queue[i] = row.attempt
        \/ \E a \in Actors : pc[a] \in CarrierStages /\ at[a] = row.attempt

ExecutingStages == {"precheck", "run", "write", "report"}

\* A PROCESSING job has, while no process crashes, a worker that has yet to
\* report: no interleaving of executions leaves PROCESSING behind.
ProcessingIsExecuted ==
    row.status = "PROCESSING" /\ crashes = 0 =>
        \E w \in Workers : pc[w] \in ExecutingStages

\* While no process crashes an active job is always somebody's: what handlers
\* and workers do in any order leaves none behind for which nothing will act.
ActiveIsCarried == QueuedIsCarried /\ ProcessingIsExecuted

\* A job shown COMPLETED, PARTIAL or REJECTED has a persisted result, whichever
\* of several executions wrote the status.
DeliveredHasResult == row.status \in Delivered => result # 0

\* Once the cancel flag of an attempt is set, an execution records at most one
\* more node before it stops.
CancelStopsWithinOneNode == \A w \in Workers : late[w] <= 1

\* Only a request with the payload of the job is accepted as the job or gets to
\* dispatch an attempt of it.
OnlyTheSamePayloadIsServed ==
    \A r \in Requests :
        (reply[r] \in {"accepted", "idempotent"} \/ (call[r] # "cancel" /\ at[r] # 0))
            => print[r] = row.print

\* A worker between reading the row and reporting.
Executing(w) == pc[w] \in {"open", "start", "precheck", "run", "write", "report"}

\* No cancel has been called and no dispatch has failed.
Undisturbed ==
    \A r \in Requests :
        call[r] # "cancel" /\ fin[r] = "NONE" /\ pc[r] # "refail" /\ reply[r] # "unavailable"

\* Without a cancel or a failing dispatch two workers never execute the job at
\* the same time, although creates, retries, reprocesses and a crash
\* interleave (execute_job looks at no other execution).
OneExecution ==
    Undisturbed => \A v, w \in Workers : Executing(v) /\ Executing(w) => v = w

\* Without a cancel or a failing dispatch nothing happens in an attempt after
\* its terminal status (TERMINAL_JOB_STATUSES).
TerminalIsFinal ==
    [][Undisturbed /\ row.status \in Terminal /\ row'.attempt = row.attempt
           => row'.status = row.status]_vars

----------------------------------------------------------------------------
(* Statements of the repository that the full system does not keep.        *)

\* store/models.py: a terminal status ends the attempt, whoever called.
TerminalEndsTheAttempt ==
    [][row.status \in Terminal /\ row'.attempt = row.attempt
           => row'.status = row.status]_vars

\* docs/05: the worker observes an accepted cancel and ends CANCELLED.
CancelledJobIsNotDelivered ==
    \A r \in Requests :
        reply[r] = "cancelling" /\ at[r] = row.attempt => row.status \notin Delivered

\* docs/06: the attempt table is the history and terminal status of attempts.
HistoryIsClosed ==
    (queue = <<>> /\ \A a \in Actors : pc[a] \in {"new", "answered", "idle"})
        => \A k \in Attempts : history[k] # "PROCESSING"

----------------------------------------------------------------------------
(* Liveness.                                                               *)

\* While no process crashes, a job that is QUEUED or PROCESSING settles.
Settles == row.status \in Active ~> row.status \in Terminal

\* docs/04: a worker crash ends FAILED or retryable, never a silent hang.
NoSilentHang == row.status = "PROCESSING" ~> row.status \in Terminal

----------------------------------------------------------------------------
(* The part of Settles that is not about fairness: with ActiveIsCarried,   *)
(* which names who will act for the job, nobody acts for ever.             *)

\* How far a handler has come, and how far a worker with its execution.
HandlerRank ==
    [new |-> 0, requeue |-> 1, flag |-> 1, duplicate |-> 2, manifest |-> 2,
     withdraw |-> 2, enqueue |-> 3, report |-> 4, reread |-> 5, close |-> 6,
     refail |-> 7, answered |-> 8, lost |-> 8]
WorkerRank ==
    [idle |-> 0, load |-> 1, open |-> 2, start |-> 3, precheck |-> 4, run |-> 5,
     write |-> 6, report |-> 7, reread |-> 8, close |-> 9]

Worked(w) ==
    WorkerRank[pc[w]] + 2 * CASE pc[w] \in {"run", "write"} -> node[w]
                              [] pc[w] \in {"report", "reread", "close"} -> MaxNodes
                              [] OTHER -> 0

\* One actor moves: a handler towards its answer, or a worker, which takes a message
\* out of the queue, gets on with its execution or is done with it. Only handlers
\* enqueue, so any order of steps comes to an end (execute_job, dispatch_job).
EveryStepAdvances ==
    [][\E a \in Actors :
          /\ \A b \in Actors \ {a} : pc'[b] = pc[b]
          /\ \/ a \in Requests /\ HandlerRank[pc[a]] < HandlerRank[pc'[a]]
             \/ a \in Workers /\ pc[a] = "idle" /\ queue = <<at'[a]>> \o queue'
             \/ a \in Workers /\ pc'[a] = "idle" /\ pc[a] # "idle" /\ queue' = queue
             \/ /\ a \in Workers /\ queue' = queue
                /\ Worked(a) < Worked(a)' /\ Worked(a)' <= 9 + 2 * MaxNodes]_vars

----------------------------------------------------------------------------
(* What callers may rely on, as a specification of its own.                *)

Ledger == INSTANCE JobLedger WITH status <- row.status, attempt <- row.attempt,
                                  sent <- dispatches

\* The whole system, crashes included, implements the job ledger.
LedgerSpec == Ledger!Spec

\* The calls of the job store as one atomic interface, their count left out.
Store == INSTANCE JobStoreContract WITH row <- [row EXCEPT !.dups = 0]

\* Handlers and workers touch the row through calls of the job store alone.
StoreSpec == Store!Spec
=============================================================================
