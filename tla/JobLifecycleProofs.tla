------------------------- MODULE JobLifecycleProofs -------------------------
(***************************************************************************)
(* Proofs about JobLifecycle for every set of requests, workers and        *)
(* fingerprints, every bound and any number of crashes.                    *)
(***************************************************************************)
EXTENDS JobLifecycle, TLAPS

----------------------------------------------------------------------------
(* The row operations.                                                     *)

\* set_status keeps the row a row and changes the status alone.
LEMMA SetStatusRow ==
    ASSUME NEW r \in Rows, NEW s \in Statuses
    PROVE  /\ SetStatus(r, s) \in Rows
           /\ SetStatus(r, s).status = s
           /\ SetStatus(r, s).attempt = r.attempt
           /\ SetStatus(r, s).cancel = r.cancel
           /\ SetStatus(r, s).print = r.print
  BY DEF Rows, SetStatus

\* request_cancel sets the flag alone.
LEMMA RequestCancelRow ==
    ASSUME NEW r \in Rows
    PROVE  /\ RequestCancel(r) \in Rows
           /\ RequestCancel(r).status = r.status
           /\ RequestCancel(r).attempt = r.attempt
           /\ RequestCancel(r).cancel
           /\ RequestCancel(r).print = r.print
  BY DEF Rows, RequestCancel

\* mark_duplicate counts and leaves the rest.
LEMMA MarkDuplicateRow ==
    ASSUME NEW r \in Rows
    PROVE  /\ MarkDuplicate(r) \in Rows
           /\ MarkDuplicate(r).status = r.status
           /\ MarkDuplicate(r).attempt = r.attempt
           /\ MarkDuplicate(r).cancel = r.cancel
           /\ MarkDuplicate(r).print = r.print
  BY DEF Rows, MarkDuplicate

\* try_requeue_for_retry opens the next attempt with the flag cleared.
LEMMA RequeuedRow ==
    ASSUME NEW r \in Rows, r.attempt < MaxAttempts
    PROVE  /\ Requeued(r) \in Rows
           /\ Requeued(r).status = "QUEUED"
           /\ Requeued(r).attempt = r.attempt + 1
           /\ Requeued(r).cancel = FALSE
           /\ Requeued(r).print = r.print
<1>1. PICK n \in 0 .. MaxAttempts : n = r.attempt + 1
  BY BoundsAssumption DEF Rows
<1> QED BY <1>1 DEF Rows, Requeued, Statuses, Active

\* A created row is a row of attempt 1.
LEMMA CreatedRow ==
    ASSUME NEW p \in Prints
    PROVE  /\ NewJob(p) \in Rows
           /\ NewJob(p).status = "QUEUED"
           /\ NewJob(p).attempt = 1
           /\ NewJob(p).print = p
  BY BoundsAssumption DEF Rows, NewJob, Statuses, Active

----------------------------------------------------------------------------
(* Types.                                                                  *)

\* What a stage says of its actor: who may dispatch acts for an attempt, who
\* reports has a terminal status to report, who writes a node has room for it.
StageOK ==
    /\ \A r \in Requests : pc[r] \in {"manifest", "enqueue"} => at[r] \in Attempts
    /\ \A a \in Actors : pc[a] = "report" => fin[a] \in Terminal
    /\ \A w \in Workers : pc[w] = "write" => node[w] < MaxNodes

Typed == TypeOK /\ StageOK

LEMMA TypedInit == Init => Typed
  BY BoundsAssumption, ActorsAssumption
     DEF Init, Typed, TypeOK, StageOK, NoJob, Rows, Attempts, Actors, Stages,
         Replies, Statuses, NoPrint

LEMMA TypedStep == Typed /\ [Next]_vars => Typed'
<1> SUFFICES ASSUME Typed, [Next]_vars PROVE Typed'
    OBVIOUS
<1> USE BoundsAssumption, ActorsAssumption, CallsAssumption
    DEF Typed, Goto, Answer, Called, requestVars, workerVars
<1>1. ASSUME NEW r \in Requests, Submit(r) PROVE Typed'
  <2>1. ASSUME NEW p \in Prints, NEW b \in BOOLEAN, Create(r, p, b) PROVE Typed'
    <3>1. row' \in Rows
      BY <2>1, CreatedRow DEF Create, TypeOK
    <3>2. at' \in [Actors -> 0 .. MaxAttempts]
      BY <2>1 DEF Create, TypeOK, Actors
    <3>3. pc' \in [Actors -> Stages] /\ reply' \in [Requests -> Replies]
      BY <2>1 DEF Create, Existing, TypeOK, Actors, Stages, Replies
    <3>4. TypeOK'
      BY <2>1, <3>1, <3>2, <3>3 DEF Create, TypeOK
    <3>5. StageOK'
      BY <2>1, <3>3 DEF Create, Existing, TypeOK, StageOK, Actors, Attempts
    <3> QED BY <3>4, <3>5
  <2>2. CASE RetryRead(r)
    <3>1. row.print \in Prints \cup {NoPrint}
      BY DEF TypeOK, Rows
    <3>2. TypeOK'
      BY <2>2, <3>1 DEF RetryRead, TypeOK, Actors, Stages, Replies
    <3>3. StageOK'
      BY <2>2 DEF RetryRead, TypeOK, StageOK, Actors
    <3> QED BY <3>2, <3>3
  <2>3. CASE CancelRead(r)
    BY <2>3 DEF CancelRead, TypeOK, StageOK, Actors, Stages, Replies
  <2> QED BY <1>1, <2>1, <2>2, <2>3 DEF Submit
<1>2. ASSUME NEW a \in Actors, Report(a) PROVE Typed'
  BY <1>2, SetStatusRow DEF Report, TypeOK, StageOK, Stages, Terminal, Statuses, Actors
<1>3. ASSUME NEW a \in Actors, Reread(a) PROVE Typed'
  BY <1>3 DEF Reread, TypeOK, StageOK, Stages, Rows, Actors
<1>4. ASSUME NEW r \in Requests, Handle(r) PROVE Typed'
  <2>1. CASE Duplicate(r)
    BY <2>1, MarkDuplicateRow DEF Duplicate, TypeOK, StageOK, Actors, Stages
  <2>2. CASE Requeue(r)
    <3>0. row \in Rows /\ row.attempt < MaxAttempts /\ row' = Requeued(row)
      BY <2>2 DEF Requeue, TypeOK
    <3>1. /\ row' \in Rows
          /\ row'.attempt \in Attempts
          /\ row'.attempt \in 0 .. MaxAttempts
      <4>1. row' \in Rows /\ row'.attempt = row.attempt + 1
        BY <3>0, RequeuedRow
      <4>2. row.attempt \in 0 .. MaxAttempts
        BY <3>0 DEF Rows
      <4> QED BY <3>0, <4>1, <4>2 DEF Attempts
    <3>2. TypeOK'
      BY <2>2, <3>1 DEF Requeue, TypeOK, Actors, Stages
    <3>3. StageOK'
      BY <2>2, <3>1 DEF Requeue, TypeOK, StageOK, Actors
    <3> QED BY <3>2, <3>3
  <2>3. CASE RequeueLost(r)
    BY <2>3 DEF RequeueLost, TypeOK, StageOK, Actors, Stages, Replies
  <2>4. CASE Manifest(r)
    BY <2>4 DEF Manifest, TypeOK, StageOK, Actors, Stages
  <2>5. CASE Enqueue(r)
    BY <2>5 DEF Enqueue, TypeOK, StageOK, Actors, Stages, Replies
  <2>6. CASE DispatchFailed(r)
    BY <2>6 DEF DispatchFailed, TypeOK, StageOK, Actors, Stages, Terminal, Retryable
  <2>7. CASE Refail(r)
    BY <2>7, SetStatusRow
       DEF Refail, TypeOK, StageOK, Actors, Stages, Replies, Statuses, Terminal, Retryable
  <2>8. CASE CancelFlag(r)
    BY <2>8, RequestCancelRow DEF CancelFlag, TypeOK, StageOK, Actors, Stages, Replies, Rows
  <2>9. CASE CancelQueued(r)
    BY <2>9, SetStatusRow
       DEF CancelQueued, TypeOK, StageOK, Actors, Stages, Statuses, Terminal, Retryable
  <2>10. CASE CloseDispatch(r)
    BY <2>10 DEF CloseDispatch, Close, TypeOK, StageOK, Actors, Stages, Replies
  <2> QED BY <1>2, <1>3, <1>4, <2>1, <2>2, <2>3, <2>4, <2>5, <2>6, <2>7, <2>8, <2>9,
             <2>10 DEF Handle, Actors
<1>5. ASSUME NEW w \in Workers, Work(w) PROVE Typed'
  <2>1. CASE Take(w)
    <3>1. Head(queue) \in Attempts /\ Tail(queue) \in Seq(Attempts)
      BY <2>1 DEF Take, TypeOK
    <3>2. at' \in [Actors -> 0 .. MaxAttempts]
      BY <2>1, <3>1 DEF Take, TypeOK, Actors, Attempts
    <3>3. pc' \in [Actors -> Stages]
      BY <2>1 DEF Take, TypeOK, Actors, Stages
    <3>4. TypeOK'
      BY <2>1, <3>1, <3>2, <3>3 DEF Take, TypeOK
    <3>5. StageOK'
      BY <2>1 DEF Take, TypeOK, StageOK, Actors
    <3> QED BY <3>4, <3>5
  <2>2. CASE Load(w)
    BY <2>2 DEF Load, TypeOK, StageOK, Actors, Stages, Rows
  <2>3. CASE Open(w)
    BY <2>3 DEF Open, TypeOK, StageOK, Actors, Stages
  <2>4. CASE Start(w)
    BY <2>4, SetStatusRow DEF Start, TypeOK, StageOK, Actors, Stages, Statuses, Active
  <2>5. CASE PreCheck(w)
    <3>1. TypeOK'
      BY <2>5 DEF PreCheck, CheckCancel, TypeOK, Actors, Stages, Terminal, Retryable
    <3>2. \/ pc' = [pc EXCEPT ![w] = "report"] /\ fin' = [fin EXCEPT ![w] = "CANCELLED"]
          \/ pc' = [pc EXCEPT ![w] = "run"] /\ fin' = fin
      BY <2>5 DEF PreCheck, CheckCancel
    <3>3. at' = at /\ node' = node
      BY <2>5 DEF PreCheck, CheckCancel
    <3>4. StageOK'
      BY <3>2, <3>3 DEF TypeOK, StageOK, Actors, Terminal, Retryable
    <3> QED BY <3>1, <3>4
  <2>6. CASE NodeCheck(w)
    <3>1. TypeOK'
      BY <2>6 DEF NodeCheck, CheckCancel, TypeOK, Actors, Stages, Terminal, Retryable
    <3>2. \/ pc' = [pc EXCEPT ![w] = "report"] /\ fin' = [fin EXCEPT ![w] = "CANCELLED"]
          \/ pc' = [pc EXCEPT ![w] = "write"] /\ fin' = fin
      BY <2>6 DEF NodeCheck, CheckCancel
    <3>3. at' = at /\ node' = node /\ node[w] < MaxNodes
      BY <2>6 DEF NodeCheck, CheckCancel
    <3>4. StageOK'
      BY <3>2, <3>3 DEF TypeOK, StageOK, Actors, Terminal, Retryable
    <3> QED BY <3>1, <3>4
  <2>7. CASE NodeWrite(w)
    BY <2>7, SetStatusRow DEF NodeWrite, TypeOK, StageOK, Actors, Stages, Statuses, Active
  <2>8. CASE Persist(w)
    BY <2>8 DEF Persist, TypeOK, StageOK, Actors, Stages, Outcomes, Terminal, Retryable
  <2>9. CASE Abort(w)
    BY <2>9 DEF Abort, TypeOK, StageOK, Actors, Stages, Terminal, Retryable
  <2>10. CASE CloseExecution(w)
    <3>1. history' \in [Attempts -> {"NONE", "PROCESSING"} \cup Terminal]
      BY <2>10 DEF CloseExecution, Close, TypeOK, Actors
    <3>2. TypeOK'
      BY <2>10, <3>1 DEF CloseExecution, Close, TypeOK, Actors, Stages
    <3>3. StageOK'
      BY <2>10 DEF CloseExecution, Close, TypeOK, StageOK, Actors
    <3> QED BY <3>2, <3>3
  <2> QED BY <1>2, <1>3, <1>5, <2>1, <2>2, <2>3, <2>4, <2>5, <2>6, <2>7, <2>8, <2>9,
             <2>10 DEF Work, Actors
<1>6. ASSUME NEW r \in Requests, LoseRequest(r) PROVE Typed'
  BY <1>6 DEF LoseRequest, CanCrash, TypeOK, StageOK, Actors, Stages
<1>7. ASSUME NEW w \in Workers, CrashWorker(w) PROVE Typed'
  BY <1>7 DEF CrashWorker, CanCrash, TypeOK, StageOK, Actors, Stages
<1>8. CASE UNCHANGED vars
  BY <1>8 DEF vars, TypeOK, StageOK
<1> QED BY <1>1, <1>4, <1>5, <1>6, <1>7, <1>8 DEF Next

\* Every reachable state of every instance is well typed.
THEOREM TypeCorrect == Spec => []TypeOK
<1>1. Init => Typed
  BY TypedInit
<1>2. Typed /\ [Next]_vars => Typed'
  BY TypedStep
<1>3. Typed => TypeOK
  BY DEF Typed
<1> QED BY <1>1, <1>2, <1>3, PTL DEF Spec

----------------------------------------------------------------------------
(* One dispatcher for each attempt.                                        *)

Quiet == {"new", "answered", "lost", "idle"}

\* A handler in one of these stages is the one that will enqueue its attempt.
Owns(r) == pc[r] \in {"manifest", "enqueue"}

\* Before the row exists nobody has anything to do.
PresentOK ==
    /\ row.status = "ABSENT" <=> row.attempt = 0
    /\ row.status = "ABSENT" => queue = <<>> /\ \A a \in Actors : pc[a] \in Quiet

\* The owner of an attempt is unique and has not enqueued it yet.
OwnersOK ==
    /\ \A r \in Requests : Owns(r) => at[r] <= row.attempt /\ dispatches[at[r]] = 0
    /\ \A r, q \in Requests : Owns(r) /\ Owns(q) /\ at[r] = at[q] => r = q

DispatchOK == PresentOK /\ OwnersOK /\ EachAttemptDispatchedOnce

\* Nobody becomes the owner of an attempt, except those in S.
KeepsOwners(S) ==
    \A r \in Requests \ S : Owns(r)' => Owns(r) /\ at'[r] = at[r]

SameAttempt == row'.attempt = row.attempt /\ dispatches' = dispatches

\* The kinds of step of the system, seen from the ledger.
LocalStep == row'.status = row.status /\ SameAttempt /\ KeepsOwners({})

ReportStep ==
    /\ row.status # "ABSENT" /\ row'.status \in {"PROCESSING"} \cup Terminal
    /\ SameAttempt /\ KeepsOwners({})

CreateStep(r) ==
    /\ row.status = "ABSENT" /\ row'.status = "QUEUED" /\ row'.attempt = 1
    /\ dispatches' = dispatches
    /\ at'[r] = 1 /\ KeepsOwners({r})

RequeueStep(r) ==
    /\ row.status \in Retryable /\ row.attempt < MaxAttempts
    /\ row'.status = "QUEUED" /\ row'.attempt = row.attempt + 1
    /\ dispatches' = dispatches
    /\ at'[r] = row'.attempt /\ KeepsOwners({r})

EnqueueStep(r) ==
    /\ Owns(r) /\ ~Owns(r)'
    /\ row' = row /\ dispatches' = [dispatches EXCEPT ![at[r]] = @ + 1]
    /\ KeepsOwners({})

StepKind ==
    \/ LocalStep
    \/ ReportStep
    \/ \E r \in Requests : CreateStep(r) \/ RequeueStep(r) \/ EnqueueStep(r)

\* A step of the system is of one of these kinds.
LEMMA StepKinds == Typed /\ PresentOK /\ [Next]_vars => StepKind
<1> SUFFICES ASSUME Typed, PresentOK, [Next]_vars PROVE StepKind
    OBVIOUS
<1> USE DEF Typed, TypeOK, Goto, Quiet, Owns, KeepsOwners, SameAttempt, Actors
<1>0. row \in Rows /\ (\A a \in Actors : pc[a] \notin Quiet => row.status # "ABSENT")
  BY DEF PresentOK
<1>1. ASSUME NEW r \in Requests, Submit(r) PROVE StepKind
  <2>1. ASSUME NEW p \in Prints, NEW b \in BOOLEAN, Create(r, p, b) PROVE StepKind
    <3>1. CASE row.status = "ABSENT"
      <4>1. row' = NewJob(p) /\ at'[r] = 1 /\ dispatches' = dispatches
        BY <2>1, <3>1 DEF Create
      <4>2. KeepsOwners({r})
        BY <2>1 DEF Create, Existing
      <4>3. CreateStep(r)
        BY <3>1, <4>1, <4>2, CreatedRow DEF CreateStep
      <4> QED BY <4>3 DEF StepKind
    <3>2. CASE row.status # "ABSENT"
      <4>1. LocalStep
        BY <2>1, <3>2 DEF Create, Existing, LocalStep
      <4> QED BY <4>1 DEF StepKind
    <3> QED BY <3>1, <3>2
  <2>2. CASE RetryRead(r)
    BY <2>2 DEF RetryRead, StepKind, LocalStep
  <2>3. CASE CancelRead(r)
    BY <2>3 DEF CancelRead, StepKind, LocalStep
  <2> QED BY <1>1, <2>1, <2>2, <2>3 DEF Submit
<1>2. ASSUME NEW a \in Actors, Report(a) PROVE StepKind
  <2>1. fin[a] \in Terminal
    BY <1>2 DEF Report, StageOK
  <2>2. row'.status = fin[a] /\ row'.attempt = row.attempt
    BY <1>2, <2>1, SetStatusRow DEF Report, Statuses
  <2>3. ReportStep
    BY <1>0, <1>2, <2>1, <2>2 DEF Report, ReportStep
  <2> QED BY <2>3 DEF StepKind
<1>3. ASSUME NEW a \in Actors, Reread(a) PROVE StepKind
  BY <1>3 DEF Reread, StepKind, LocalStep
<1>4. ASSUME NEW r \in Requests, Handle(r) PROVE StepKind
  <2>1. CASE Duplicate(r)
    BY <2>1, MarkDuplicateRow DEF Duplicate, StepKind, LocalStep
  <2>2. CASE Requeue(r)
    <3>1. /\ row.status \in Retryable /\ row.attempt < MaxAttempts
          /\ row' = Requeued(row) /\ at'[r] = row'.attempt /\ dispatches' = dispatches
      BY <2>2 DEF Requeue, CanRequeue
    <3>2. KeepsOwners({r})
      BY <2>2 DEF Requeue
    <3>3. row'.status = "QUEUED" /\ row'.attempt = row.attempt + 1
      BY <1>0, <3>1, RequeuedRow
    <3> QED BY <3>1, <3>2, <3>3 DEF StepKind, RequeueStep
  <2>3. CASE RequeueLost(r)
    BY <2>3 DEF RequeueLost, StepKind, LocalStep
  <2>4. CASE Manifest(r)
    BY <2>4 DEF Manifest, StepKind, LocalStep
  <2>5. CASE Enqueue(r)
    <3>1. EnqueueStep(r)
      BY <2>5 DEF Enqueue, EnqueueStep
    <3> QED BY <3>1 DEF StepKind
  <2>6. CASE DispatchFailed(r)
    BY <2>6 DEF DispatchFailed, StepKind, LocalStep
  <2>7. CASE Refail(r)
    <3>1. row'.status = "FAILED" /\ row'.attempt = row.attempt
      BY <2>7, SetStatusRow DEF Refail, Statuses, Terminal, Retryable
    <3>2. ReportStep
      BY <1>0, <2>7, <3>1 DEF Refail, ReportStep, Terminal, Retryable
    <3> QED BY <3>2 DEF StepKind
  <2>8. CASE CancelFlag(r)
    BY <2>8, RequestCancelRow DEF CancelFlag, StepKind, LocalStep
  <2>9. CASE CancelQueued(r)
    <3>1. row'.status = "CANCELLED" /\ row'.attempt = row.attempt
      BY <2>9, SetStatusRow DEF CancelQueued, Statuses, Terminal, Retryable
    <3>2. ReportStep
      BY <1>0, <2>9, <3>1 DEF CancelQueued, ReportStep, Terminal, Retryable
    <3> QED BY <3>2 DEF StepKind
  <2>10. CASE CloseDispatch(r)
    BY <2>10 DEF CloseDispatch, Close, StepKind, LocalStep
  <2> QED BY <1>2, <1>3, <1>4, <2>1, <2>2, <2>3, <2>4, <2>5, <2>6, <2>7, <2>8, <2>9,
             <2>10 DEF Handle
<1>5. ASSUME NEW w \in Workers, Work(w) PROVE StepKind
  <2> USE ActorsAssumption
  <2>1. CASE Start(w) \/ NodeWrite(w)
    <3>1. row' = SetStatus(row, "PROCESSING") /\ dispatches' = dispatches
      BY <2>1 DEF Start, NodeWrite
    <3>2. row'.status = "PROCESSING" /\ row'.attempt = row.attempt
      BY <3>1, SetStatusRow DEF Statuses, Active
    <3>3. KeepsOwners({}) /\ row.status # "ABSENT"
      BY <1>0, <2>1 DEF Start, NodeWrite
    <3> QED BY <3>1, <3>2, <3>3 DEF StepKind, ReportStep
  <2>2. CASE Take(w)
    BY <2>2 DEF Take, StepKind, LocalStep
  <2>3. CASE Load(w) \/ Open(w)
    BY <2>3 DEF Load, Open, StepKind, LocalStep
  <2>4. CASE PreCheck(w) \/ NodeCheck(w)
    BY <2>4 DEF PreCheck, NodeCheck, CheckCancel, StepKind, LocalStep
  <2>5. CASE Persist(w) \/ Abort(w)
    BY <2>5 DEF Persist, Abort, StepKind, LocalStep
  <2>6. CASE CloseExecution(w)
    BY <2>6 DEF CloseExecution, Close, StepKind, LocalStep
  <2> QED BY <1>2, <1>3, <1>5, <2>1, <2>2, <2>3, <2>4, <2>5, <2>6 DEF Work
<1>6. ASSUME NEW r \in Requests, LoseRequest(r) PROVE StepKind
  BY <1>6 DEF LoseRequest, CanCrash, StepKind, LocalStep
<1>7. ASSUME NEW w \in Workers, CrashWorker(w) PROVE StepKind
  BY <1>7, ActorsAssumption DEF CrashWorker, CanCrash, StepKind, LocalStep
<1>8. CASE UNCHANGED vars
  BY <1>8 DEF vars, StepKind, LocalStep
<1> QED BY <1>1, <1>4, <1>5, <1>6, <1>7, <1>8 DEF Next

\* From a missing row only calls that find nothing and the creation happen.
LEMMA PresentStep == Typed /\ PresentOK /\ [Next]_vars => PresentOK'
<1> SUFFICES ASSUME Typed, PresentOK, [Next]_vars PROVE PresentOK'
    OBVIOUS
<1>1. StepKind
  BY StepKinds
<1>2. row \in Rows /\ row.attempt \in 0 .. MaxAttempts
  BY DEF Typed, TypeOK, Rows
<1>3. CASE row.status # "ABSENT"
  <2>1. row.attempt \in 1 .. MaxAttempts
    BY <1>2, <1>3 DEF PresentOK
  <2>2. ASSUME row'.status # "ABSENT", row'.attempt >= 1 PROVE PresentOK'
    BY <2>2 DEF PresentOK
  <2>3. CASE LocalStep
    BY <1>3, <2>1, <2>2, <2>3 DEF LocalStep, SameAttempt
  <2>4. CASE ReportStep
    BY <1>3, <2>1, <2>2, <2>4 DEF ReportStep, SameAttempt, Terminal, Retryable, Delivered
  <2>5. CASE \E r \in Requests : RequeueStep(r)
    BY <1>3, <2>1, <2>2, <2>5, BoundsAssumption DEF RequeueStep
  <2>6. CASE \E r \in Requests : EnqueueStep(r)
    BY <1>3, <2>1, <2>2, <2>6 DEF EnqueueStep
  <2> QED BY <1>1, <1>3, <2>3, <2>4, <2>5, <2>6 DEF StepKind, CreateStep
<1>4. CASE row.status = "ABSENT"
  <2> USE DEF Typed, TypeOK, Goto, Quiet, Actors
  <2>1. row.attempt = 0 /\ queue = <<>> /\ \A a \in Actors : pc[a] \in Quiet
    BY <1>4 DEF PresentOK
  <2>2. ASSUME NEW r \in Requests, Submit(r) PROVE PresentOK'
    <3>1. ASSUME NEW p \in Prints, NEW b \in BOOLEAN, Create(r, p, b) PROVE PresentOK'
      <4>1. row' = NewJob(p)
        BY <1>4, <3>1 DEF Create
      <4> QED BY <4>1, CreatedRow DEF PresentOK
    <3>2. CASE RetryRead(r)
      BY <1>4, <2>1, <3>2 DEF RetryRead, PresentOK, Retryable
    <3>3. CASE CancelRead(r)
      BY <1>4, <2>1, <3>3 DEF CancelRead, PresentOK, Active
    <3> QED BY <2>2, <3>1, <3>2, <3>3 DEF Submit
  <2>3. \A a \in Actors : ~Report(a) /\ ~Reread(a) /\ ~Close(a) /\ ~CanCrash(a)
    BY <2>1 DEF Report, Reread, Close, CanCrash
  <2>4. \A r \in Requests : ~Handle(r) /\ ~LoseRequest(r)
    BY <2>1, <2>3 DEF Handle, Duplicate, Requeue, RequeueLost, Manifest, Enqueue,
       DispatchFailed, Refail, CancelFlag, CancelQueued, CloseDispatch, LoseRequest
  <2>5. \A w \in Workers : ~Work(w) /\ ~CrashWorker(w)
    BY <2>1, <2>3 DEF Work, Take, Load, Open, Start, PreCheck, NodeCheck, NodeWrite,
       Persist, Abort, CloseExecution, CrashWorker
  <2>6. CASE UNCHANGED vars
    BY <2>1, <2>6 DEF vars, PresentOK
  <2> QED BY <2>2, <2>4, <2>5, <2>6 DEF Next
<1> QED BY <1>3, <1>4

\* The insert and the compare-and-set name one owner for each attempt, and the
\* owner gives up the right with the message.
LEMMA DispatchStep == Typed /\ Typed' /\ DispatchOK /\ [Next]_vars => DispatchOK'
<1> SUFFICES ASSUME Typed, Typed', DispatchOK, [Next]_vars PROVE DispatchOK'
    OBVIOUS
<1>1. PresentOK /\ OwnersOK /\ EachAttemptDispatchedOnce /\ PresentOK' /\ StepKind
  BY PresentStep, StepKinds DEF DispatchOK
<1>2. /\ row.attempt \in 0 .. MaxAttempts /\ row'.attempt \in 0 .. MaxAttempts
      /\ dispatches \in [Attempts -> Nat]
      /\ \A r \in Requests : Owns(r) => at[r] \in Attempts
      /\ \A r \in Requests : Owns(r)' => at'[r] \in Attempts
  BY DEF Typed, TypeOK, StageOK, Rows, Owns, Actors
<1> USE BoundsAssumption DEF Attempts
<1>3. CASE LocalStep \/ ReportStep
  <2>1. OwnersOK'
    BY <1>1, <1>3 DEF LocalStep, ReportStep, SameAttempt, KeepsOwners, OwnersOK
  <2>2. EachAttemptDispatchedOnce'
    BY <1>1, <1>3 DEF LocalStep, ReportStep, SameAttempt, EachAttemptDispatchedOnce
  <2> QED BY <1>1, <2>1, <2>2 DEF DispatchOK
<1>4. ASSUME NEW r \in Requests, CreateStep(r) \/ RequeueStep(r) PROVE DispatchOK'
  <2>1. /\ row'.attempt = row.attempt + 1 /\ at'[r] = row'.attempt
        /\ dispatches' = dispatches /\ KeepsOwners({r})
    BY <1>1, <1>2, <1>4 DEF CreateStep, RequeueStep, PresentOK
  <2>2. dispatches[row'.attempt] = 0
    BY <1>1, <1>2, <2>1 DEF EachAttemptDispatchedOnce
  <2>3. ASSUME NEW q \in Requests, Owns(q)'
        PROVE  IF q = r THEN at'[q] = row'.attempt
                        ELSE Owns(q) /\ at'[q] = at[q] /\ at'[q] < row'.attempt
    BY <1>1, <1>2, <2>1, <2>3 DEF KeepsOwners, OwnersOK
  <2>4. OwnersOK'
    BY <1>1, <1>2, <2>1, <2>2, <2>3 DEF OwnersOK
  <2>5. EachAttemptDispatchedOnce'
    BY <1>1, <1>2, <2>1 DEF EachAttemptDispatchedOnce
  <2> QED BY <1>1, <2>4, <2>5 DEF DispatchOK
<1>5. ASSUME NEW r \in Requests, EnqueueStep(r) PROVE DispatchOK'
  <2>a. Owns(r) /\ row' = row /\ dispatches' = [dispatches EXCEPT ![at[r]] = @ + 1]
    BY <1>5 DEF EnqueueStep
  <2>b. at[r] \in Attempts /\ at[r] <= row.attempt /\ dispatches[at[r]] = 0
    BY <1>1, <1>2, <2>a DEF OwnersOK
  <2>1. /\ at[r] \in Attempts /\ at[r] <= row.attempt /\ dispatches[at[r]] = 0
        /\ row' = row /\ dispatches' = [dispatches EXCEPT ![at[r]] = 1]
    BY <1>2, <2>a, <2>b
  <2>2. ASSUME NEW q \in Requests, Owns(q)'
        PROVE  Owns(q) /\ at'[q] = at[q] /\ at[q] # at[r]
    BY <1>1, <1>5, <2>2 DEF EnqueueStep, KeepsOwners, OwnersOK
  <2>3. OwnersOK'
    BY <1>1, <1>2, <2>1, <2>2 DEF OwnersOK
  <2>4. EachAttemptDispatchedOnce'
    BY <1>1, <1>2, <2>1 DEF EachAttemptDispatchedOnce
  <2> QED BY <1>1, <2>3, <2>4 DEF DispatchOK
<1> QED BY <1>1, <1>3, <1>4, <1>5 DEF StepKind

LEMMA DispatchInit == Init => DispatchOK
  BY ActorsAssumption DEF Init, DispatchOK, PresentOK, OwnersOK, Owns, NoJob, Quiet,
     Actors, EachAttemptDispatchedOnce, Attempts

\* However the calls of the API interleave with each other and with crashes, no
\* attempt of a job is ever enqueued twice.
THEOREM DispatchedOnce == Spec => []EachAttemptDispatchedOnce
<1>1. Init => Typed /\ DispatchOK
  BY TypedInit, DispatchInit
<1>2. Typed /\ DispatchOK /\ [Next]_vars => (Typed /\ DispatchOK)'
  BY TypedStep, DispatchStep
<1>3. DispatchOK => EachAttemptDispatchedOnce
  BY DEF DispatchOK
<1> QED BY <1>1, <1>2, <1>3, PTL DEF Spec

----------------------------------------------------------------------------
(* The system implements the ledger.                                       *)

LEMMA LedgerStep ==
    Typed /\ DispatchOK /\ [Next]_vars => [Ledger!Next]_(Ledger!ledgerVars)
<1> SUFFICES ASSUME Typed, DispatchOK, [Next]_vars
             PROVE  [Ledger!Next]_(Ledger!ledgerVars)
    OBVIOUS
<1>1. StepKind /\ PresentOK /\ OwnersOK
  BY StepKinds DEF DispatchOK
<1>2. CASE LocalStep
  BY <1>2 DEF LocalStep, SameAttempt, Ledger!ledgerVars
<1>3. CASE ReportStep
  <2>1. row'.status \in Ledger!Reportable
    BY <1>3 DEF ReportStep, Terminal, Retryable, Delivered, Ledger!Reportable,
       Ledger!LedgerRetryable
  <2>2. Ledger!ReportStatus(row'.status)
    BY <1>3 DEF ReportStep, SameAttempt, Ledger!ReportStatus
  <2> QED BY <2>1, <2>2 DEF Ledger!Next
<1>4. ASSUME NEW r \in Requests, CreateStep(r) PROVE Ledger!Next
  <2>1. Ledger!CreateJob
    BY <1>4 DEF CreateStep, Ledger!CreateJob
  <2> QED BY <2>1 DEF Ledger!Next
<1>5. ASSUME NEW r \in Requests, RequeueStep(r) PROVE Ledger!Next
  <2>1. Ledger!OpenAttempt
    BY <1>5 DEF RequeueStep, Ledger!OpenAttempt, Retryable, Ledger!LedgerRetryable
  <2> QED BY <2>1 DEF Ledger!Next
<1>6. ASSUME NEW r \in Requests, EnqueueStep(r) PROVE Ledger!Next
  <2>1. at[r] \in 1 .. MaxAttempts /\ at[r] <= row.attempt /\ dispatches[at[r]] = 0
    BY <1>1, <1>6 DEF EnqueueStep, OwnersOK, Typed, StageOK, Owns, Attempts
  <2>2. Ledger!SendMessage(at[r])
    BY <1>6, <2>1 DEF EnqueueStep, Ledger!SendMessage
  <2> QED BY <2>1, <2>2 DEF Ledger!Next
<1> QED BY <1>1, <1>2, <1>3, <1>4, <1>5, <1>6 DEF StepKind

\* Every behaviour of the system, crashes included, is one the ledger allows.
THEOREM LedgerImplemented == Spec => LedgerSpec
<1>1. Init => Ledger!Init
  BY DEF Init, NoJob, Attempts, Ledger!Init
<1>2. Init => Typed /\ DispatchOK
  BY TypedInit, DispatchInit
<1>3. Typed /\ DispatchOK /\ [Next]_vars => (Typed /\ DispatchOK)'
  BY TypedStep, DispatchStep
<1>4. Typed /\ DispatchOK /\ [Next]_vars => [Ledger!Next]_(Ledger!ledgerVars)
  BY LedgerStep
<1> QED BY <1>1, <1>2, <1>3, <1>4, PTL DEF Spec, LedgerSpec, Ledger!Spec

----------------------------------------------------------------------------
(* An active job is carried.                                               *)

LEMMA QueuedStep == Typed /\ QueuedIsCarried /\ [Next]_vars => QueuedIsCarried'
<1> SUFFICES ASSUME Typed, QueuedIsCarried, [Next]_vars, row'.status = "QUEUED", crashes' = 0
             PROVE  QueuedIsCarried'
  BY DEF QueuedIsCarried
<1> USE DEF Goto, Answer, Called, requestVars, workerVars, Actors
<1>0. /\ row \in Rows /\ pc \in [Actors -> Stages] /\ at \in [Actors -> 0 .. MaxAttempts]
      /\ queue \in Seq(Attempts) /\ crashes \in Nat
      /\ \A a \in Actors : pc[a] = "report" => fin[a] \in Terminal
  BY DEF Typed, TypeOK, StageOK
<1>1. ASSUME NEW r \in Requests, Submit(r) PROVE QueuedIsCarried'
  <2>1. ASSUME NEW p \in Prints, NEW b \in BOOLEAN, Create(r, p, b) PROVE QueuedIsCarried'
    <3>1. CASE row.status = "ABSENT"
      <4>1. row'.attempt = 1 /\ at'[r] = 1 /\ pc'[r] = "manifest"
        BY <1>0, <2>1, <3>1, CreatedRow DEF Create
      <4> QED BY <4>1 DEF QueuedIsCarried, CarrierStages
    <3>2. CASE row.status # "ABSENT"
      <4>1. row' = row /\ at' = at /\ queue' = queue /\ crashes' = crashes
            /\ \A a \in Actors : pc[a] \in CarrierStages => pc'[a] = pc[a]
        BY <1>0, <2>1, <3>2 DEF Create, Existing, CarrierStages
      <4> QED BY <4>1 DEF QueuedIsCarried
    <3> QED BY <3>1, <3>2
  <2>2. CASE RetryRead(r) \/ CancelRead(r)
    <3>1. row' = row /\ at' = at /\ queue' = queue /\ crashes' = crashes
          /\ \A a \in Actors : pc[a] \in CarrierStages => pc'[a] = pc[a]
      BY <1>0, <2>2 DEF RetryRead, CancelRead, CarrierStages
    <3> QED BY <3>1 DEF QueuedIsCarried
  <2> QED BY <1>1, <2>1, <2>2 DEF Submit
<1>2. ASSUME NEW a \in Actors, Report(a) PROVE FALSE
  BY <1>0, <1>2, SetStatusRow DEF Report, Terminal, Retryable, Delivered, Statuses
<1>3. ASSUME NEW a \in Actors, Reread(a) PROVE QueuedIsCarried'
  BY <1>0, <1>3 DEF Reread, QueuedIsCarried, CarrierStages
<1>4. ASSUME NEW r \in Requests, Handle(r) PROVE QueuedIsCarried'
  <2>1. CASE Duplicate(r) \/ RequeueLost(r)
    <3>1. row'.attempt = row.attempt /\ row'.status = row.status
          /\ at' = at /\ queue' = queue /\ crashes' = crashes
          /\ \A a \in Actors : pc[a] \in CarrierStages => pc'[a] = pc[a]
      BY <1>0, <2>1, MarkDuplicateRow DEF Duplicate, RequeueLost, CarrierStages
    <3> QED BY <3>1 DEF QueuedIsCarried
  <2>2. CASE Requeue(r)
    BY <1>0, <2>2 DEF Requeue, QueuedIsCarried, CarrierStages
  <2>3. CASE Manifest(r) \/ DispatchFailed(r)
    <3>1. row' = row /\ at' = at /\ queue' = queue /\ crashes' = crashes
          /\ \A a \in Actors : pc[a] \in CarrierStages => pc'[a] \in CarrierStages
      BY <1>0, <2>3 DEF Manifest, DispatchFailed, CarrierStages
    <3> QED BY <3>1 DEF QueuedIsCarried
  <2>4. CASE Enqueue(r)
    <3>1. /\ row' = row /\ at' = at /\ crashes' = crashes
          /\ queue' = Append(queue, at[r])
          /\ \A a \in Actors \ {r} : pc'[a] = pc[a]
      BY <1>0, <2>4 DEF Enqueue
    <3>2. at[r] \in Attempts
      BY <2>4 DEF Enqueue, Typed, StageOK
    <3>3. /\ \A i \in DOMAIN queue : i \in DOMAIN queue' /\ queue'[i] = queue[i]
          /\ \E i \in DOMAIN queue' : queue'[i] = at[r]
      <4>1. Len(queue') = Len(queue) + 1 /\ queue'[Len(queue) + 1] = at[r]
        BY <1>0, <3>1, <3>2
      <4>2. Len(queue) + 1 \in DOMAIN queue'
        BY <1>0, <3>1, <3>2
      <4> QED BY <1>0, <3>1, <3>2, <4>1, <4>2
    <3> QED BY <3>1, <3>3 DEF QueuedIsCarried
  <2>5. CASE Refail(r) \/ CancelQueued(r)
    BY <1>0, <2>5, SetStatusRow
       DEF Refail, CancelQueued, Statuses, Terminal, Retryable
  <2>6. CASE CancelFlag(r)
    <3>1. row'.attempt = row.attempt /\ row'.status = row.status
          /\ queue' = queue /\ crashes' = crashes
          /\ \A a \in Actors : pc[a] \in CarrierStages => pc'[a] = pc[a] /\ at'[a] = at[a]
      BY <1>0, <2>6, RequestCancelRow DEF CancelFlag, CarrierStages
    <3> QED BY <3>1 DEF QueuedIsCarried
  <2>7. CASE CloseDispatch(r)
    <3>1. row' = row /\ at' = at /\ queue' = queue /\ crashes' = crashes
          /\ \A a \in Actors : pc[a] \in CarrierStages => pc'[a] = pc[a]
      BY <1>0, <2>7 DEF CloseDispatch, Close, CarrierStages
    <3> QED BY <3>1 DEF QueuedIsCarried
  <2> QED BY <1>2, <1>3, <1>4, <2>1, <2>2, <2>3, <2>4, <2>5, <2>6, <2>7 DEF Handle
<1>5. ASSUME NEW w \in Workers, Work(w) PROVE QueuedIsCarried'
  <2>1. CASE Take(w)
    <3>1. /\ row' = row /\ crashes' = crashes /\ pc[w] = "idle"
          /\ queue # <<>> /\ queue' = Tail(queue)
          /\ pc'[w] = "load" /\ at'[w] = Head(queue)
          /\ \A a \in Actors \ {w} : pc'[a] = pc[a] /\ at'[a] = at[a]
      BY <1>0, <2>1 DEF Take
    <3>2. ASSUME NEW i \in DOMAIN queue, queue[i] = row.attempt
          PROVE  \/ \E k \in DOMAIN queue' : queue'[k] = row.attempt
                 \/ at'[w] = row.attempt
      <4>1. CASE i = 1
        BY <1>0, <3>1, <3>2, <4>1
      <4>2. CASE i # 1
        <5>1. i - 1 \in DOMAIN queue' /\ queue'[i - 1] = queue[i]
          BY <1>0, <3>1, <4>2
        <5> QED BY <3>2, <5>1
      <4> QED BY <4>1, <4>2
    <3> QED BY <3>1, <3>2 DEF QueuedIsCarried, CarrierStages
  <2>2. CASE Load(w)
    <3>1. row' = row /\ pc'[w] = "open" /\ at'[w] = row.attempt
      BY <1>0, <2>2 DEF Load
    <3> QED BY <3>1 DEF QueuedIsCarried, CarrierStages
  <2>3. CASE Open(w) \/ PreCheck(w) \/ NodeCheck(w) \/ Persist(w) \/ Abort(w)
    <3>1. row' = row /\ at' = at /\ queue' = queue /\ crashes' = crashes
          /\ \A a \in Actors : pc[a] \in CarrierStages => pc'[a] \in CarrierStages
      BY <1>0, <2>3 DEF Open, PreCheck, NodeCheck, CheckCancel, Persist, Abort, CarrierStages
    <3> QED BY <3>1 DEF QueuedIsCarried
  <2>4. CASE Start(w) \/ NodeWrite(w)
    BY <1>0, <2>4, SetStatusRow DEF Start, NodeWrite, Statuses, Active
  <2>5. CASE CloseExecution(w)
    <3>1. row' = row /\ queue' = queue /\ crashes' = crashes
          /\ \A a \in Actors : pc[a] \in CarrierStages => pc'[a] = pc[a] /\ at'[a] = at[a]
      BY <1>0, <2>5 DEF CloseExecution, Close, CarrierStages
    <3> QED BY <3>1 DEF QueuedIsCarried
  <2> QED BY <1>2, <1>3, <1>5, <2>1, <2>2, <2>3, <2>4, <2>5 DEF Work
<1>6. ASSUME NEW a \in Actors, CanCrash(a) PROVE FALSE
  BY <1>6, <1>0 DEF CanCrash
<1>7. CASE UNCHANGED vars
  BY <1>7 DEF vars, QueuedIsCarried
<1> QED BY <1>1, <1>4, <1>5, <1>6, <1>7 DEF Next, LoseRequest, CrashWorker

LEMMA ProcessingStep == Typed /\ ProcessingIsExecuted /\ [Next]_vars => ProcessingIsExecuted'
<1> SUFFICES ASSUME Typed, ProcessingIsExecuted, [Next]_vars,
                    row'.status = "PROCESSING", crashes' = 0
             PROVE  \E w \in Workers : pc'[w] \in ExecutingStages
  BY DEF ProcessingIsExecuted
<1> USE DEF Goto, Answer, Called, requestVars, workerVars, Actors
<1>0. /\ row \in Rows /\ pc \in [Actors -> Stages] /\ crashes \in Nat
      /\ \A a \in Actors : pc[a] = "report" => fin[a] \in Terminal
  BY DEF Typed, TypeOK, StageOK
<1>a. \A a \in Actors : ~ CanCrash(a)
  BY <1>0 DEF CanCrash
<1>b. \A a \in Actors : ~ Report(a)
  BY <1>0, SetStatusRow DEF Report, Terminal, Retryable, Delivered, Statuses
<1>1. CASE \E r \in Requests : Submit(r) \/ Handle(r)
  <2>1. PICK r \in Requests : Submit(r) \/ Handle(r)
    BY <1>1
  <2>2. \A w \in Workers : pc'[w] = pc[w]
    BY <1>0, <1>b, <2>1, ActorsAssumption
       DEF Submit, Create, Existing, RetryRead, CancelRead, Handle, Duplicate, Requeue,
           RequeueLost, Manifest, Enqueue, DispatchFailed, Refail, CancelFlag,
           CancelQueued, Reread, Close, CloseDispatch
  <2>3. crashes = 0
    BY <1>b, <2>1
       DEF Submit, Create, RetryRead, CancelRead, Handle, Duplicate, Requeue,
           RequeueLost, Manifest, Enqueue, DispatchFailed, Refail, CancelFlag,
           CancelQueued, Reread, CloseDispatch
  <2>4. row.status = "PROCESSING"
    <3>1. ASSUME NEW p \in Prints, NEW b \in BOOLEAN, Create(r, p, b)
          PROVE  row.status = "PROCESSING"
      BY <3>1, CreatedRow DEF Create
    <3>2. CASE Requeue(r)
      <4>1. row' = Requeued(row) /\ row.attempt < MaxAttempts
        BY <3>2 DEF Requeue
      <4>2. row'.status = "QUEUED"
        BY <1>0, <4>1, RequeuedRow
      <4> QED BY <4>2
    <3>5. CASE Refail(r) \/ CancelQueued(r)
      <4>1. row' = SetStatus(row, "FAILED") \/ row' = SetStatus(row, "CANCELLED")
        BY <3>5 DEF Refail, CancelQueued
      <4>2. row'.status \in {"FAILED", "CANCELLED"}
        BY <1>0, <4>1, SetStatusRow DEF Statuses, Terminal, Retryable
      <4> QED BY <4>2
    <3>3. CASE Duplicate(r) \/ CancelFlag(r)
      BY <1>0, <3>3, MarkDuplicateRow, RequestCancelRow DEF Duplicate, CancelFlag
    <3>4. CASE \/ RetryRead(r) \/ CancelRead(r) \/ RequeueLost(r) \/ Manifest(r)
               \/ Enqueue(r) \/ DispatchFailed(r) \/ Reread(r) \/ CloseDispatch(r)
      BY <3>4 DEF RetryRead, CancelRead, RequeueLost, Manifest, Enqueue, DispatchFailed,
         Reread, CloseDispatch
    <3> QED BY <1>b, <2>1, <3>1, <3>2, <3>3, <3>4, <3>5 DEF Submit, Handle
  <2> QED BY <2>2, <2>3, <2>4 DEF ProcessingIsExecuted
<1>2. ASSUME NEW w \in Workers, Work(w) PROVE \E v \in Workers : pc'[v] \in ExecutingStages
  <2>1. CASE Start(w) \/ NodeWrite(w) \/ PreCheck(w) \/ NodeCheck(w) \/ Persist(w)
    <3>1. pc'[w] \in ExecutingStages
      BY <1>0, <2>1 DEF Start, NodeWrite, PreCheck, NodeCheck, CheckCancel, Persist, ExecutingStages
    <3> QED BY <3>1
  <2>2. CASE Take(w) \/ Load(w) \/ Open(w) \/ Abort(w) \/ Reread(w) \/ CloseExecution(w)
    <3>1. row' = row /\ crashes' = crashes
          /\ \A v \in Workers : pc[v] \in ExecutingStages => pc'[v] \in ExecutingStages
      BY <1>0, <2>2 DEF Take, Load, Open, Abort, Reread, CloseExecution, Close, ExecutingStages
    <3> QED BY <3>1 DEF ProcessingIsExecuted
  <2> QED BY <1>2, <1>b, <2>1, <2>2 DEF Work
<1>3. CASE UNCHANGED vars
  BY <1>3 DEF vars, ProcessingIsExecuted
<1> QED BY <1>1, <1>2, <1>3, <1>a DEF Next, LoseRequest, CrashWorker

\* A QUEUED job is with somebody who will enqueue, start or fail it, and a
\* PROCESSING job has a worker that has yet to report, for any number of
\* handlers and workers, as long as no process crashes (api/service.py,
\* worker/dispatch.py, worker/runner.py).
THEOREM ActiveStaysCarried == Spec => []ActiveIsCarried
<1>1. Init => Typed /\ ActiveIsCarried
  <2>1. Init => ActiveIsCarried
    BY DEF Init, ActiveIsCarried, QueuedIsCarried, ProcessingIsExecuted, NoJob
  <2> QED BY <2>1, TypedInit
<1>2. Typed /\ ActiveIsCarried /\ [Next]_vars => (Typed /\ ActiveIsCarried)'
  BY TypedStep, QueuedStep, ProcessingStep DEF ActiveIsCarried
<1> QED BY <1>1, <1>2, PTL DEF Spec

----------------------------------------------------------------------------
(* The steps of a request and of a worker, seen from the other side.       *)

\* A request touches no worker and no result.
LEMMA RequestLeavesWorkers ==
    ASSUME Typed, NEW r \in Requests, Submit(r) \/ Handle(r) \/ LoseRequest(r)
    PROVE  /\ \A w \in Workers : pc'[w] = pc[w] /\ at'[w] = at[w] /\ fin'[w] = fin[w]
           /\ result' = result
<1> USE ActorsAssumption DEF Goto, Typed, TypeOK, Actors
<1>1. CASE Submit(r)
  BY <1>1 DEF Submit, Create, Existing, RetryRead, CancelRead
<1>2. CASE Handle(r)
  BY <1>2 DEF Handle, Duplicate, Requeue, RequeueLost, Manifest, Enqueue, DispatchFailed,
     Refail, CancelFlag, CancelQueued, Report, Reread, CloseDispatch, Close
<1>3. CASE LoseRequest(r)
  BY <1>3 DEF LoseRequest
<1> QED BY <1>1, <1>2, <1>3

\* A worker leaves every request where it is, with what it was told.
LEMMA WorkerLeavesRequests ==
    ASSUME Typed, NEW w \in Workers, Work(w) \/ CrashWorker(w)
    PROVE  /\ \A r \in Requests : pc'[r] = pc[r] /\ at'[r] = at[r] /\ fin'[r] = fin[r]
           /\ call' = call /\ print' = print /\ reply' = reply
<1> USE ActorsAssumption DEF Goto, Typed, TypeOK, Actors, requestVars
<1>1. CASE Work(w)
  BY <1>1 DEF Work, Take, Load, Open, Start, PreCheck, NodeCheck, CheckCancel, NodeWrite,
     Persist, Abort, Report, Reread, CloseExecution, Close
<1>2. CASE CrashWorker(w)
  BY <1>2 DEF CrashWorker
<1> QED BY <1>1, <1>2

\* The row is created, opens another attempt, or keeps its payload; only a
\* report makes it delivered.
RowKept == row'.print = row.print /\ (row'.cancel = row.cancel \/ row'.cancel)

LEMMA RowMoves ==
    ASSUME Typed, [Next]_vars
    PROVE  \/ row' = row
           \/ row.status = "ABSENT" /\ \E p \in Prints : row' = NewJob(p)
           \/ \E r \in Requests : Requeue(r) /\ row'.print = row.print
                                  /\ row'.status = "QUEUED" /\ ~row'.cancel
           \/ /\ RowKept /\ row'.attempt = row.attempt
              /\ \/ row'.status \in {row.status, "PROCESSING", "FAILED", "CANCELLED"}
                 \/ \E a \in Actors : Report(a) /\ row'.status = fin[a]
<1> USE DEF Typed, TypeOK, Actors
<1>0. row \in Rows /\ \A a \in Actors : pc[a] = "report" => fin[a] \in Terminal
  BY DEF StageOK
<1>1. ASSUME NEW s \in Statuses, row' = SetStatus(row, s)
      PROVE  RowKept /\ row'.attempt = row.attempt /\ row'.status = s
  <2>1. row'.print = row.print /\ row'.attempt = row.attempt /\ row'.status = s
    BY <1>0, <1>1, SetStatusRow
  <2>2. row'.cancel = row.cancel
    BY <1>0, <1>1, SetStatusRow, Zenon
  <2> QED BY <2>1, <2>2 DEF RowKept
<1>2. ASSUME NEW r \in Requests, NEW p \in Prints, NEW b \in BOOLEAN, Create(r, p, b)
      PROVE  row' = row \/ (row.status = "ABSENT" /\ row' = NewJob(p))
  BY <1>2 DEF Create
<1>3. ASSUME NEW r \in Requests, Requeue(r)
      PROVE  row'.print = row.print /\ row'.status = "QUEUED" /\ ~row'.cancel
  <2>1. row' = Requeued(row) /\ row.attempt < MaxAttempts
    BY <1>3 DEF Requeue
  <2> QED BY <1>0, <2>1, RequeuedRow
<1>4. ASSUME NEW r \in Requests, Duplicate(r)
      PROVE  RowKept /\ row'.attempt = row.attempt /\ row'.status = row.status
  <2>1. row' = MarkDuplicate(row)
    BY <1>4 DEF Duplicate
  <2>2. row'.cancel = row.cancel
    BY <1>0, <2>1, MarkDuplicateRow, Zenon
  <2> QED BY <1>0, <2>1, <2>2, MarkDuplicateRow DEF RowKept
<1>5. ASSUME NEW r \in Requests, CancelFlag(r)
      PROVE  RowKept /\ row'.attempt = row.attempt /\ row'.status = row.status
  <2>1. row' = RequestCancel(row)
    BY <1>5 DEF CancelFlag
  <2> QED BY <1>0, <2>1, RequestCancelRow DEF RowKept
<1>6. ASSUME NEW r \in Requests, Refail(r) \/ CancelQueued(r)
      PROVE  RowKept /\ row'.attempt = row.attempt /\ row'.status \in {"FAILED", "CANCELLED"}
  <2>1. row' = SetStatus(row, "FAILED") \/ row' = SetStatus(row, "CANCELLED")
    BY <1>6 DEF Refail, CancelQueued
  <2> QED BY <1>1, <2>1 DEF Statuses, Terminal, Retryable
<1>7. ASSUME NEW a \in Actors, Report(a)
      PROVE  RowKept /\ row'.attempt = row.attempt /\ row'.status = fin[a]
  <2>1. row' = SetStatus(row, fin[a]) /\ fin[a] \in Statuses
    BY <1>0, <1>7 DEF Report, Statuses
  <2> QED BY <1>1, <2>1
<1>8. ASSUME NEW w \in Workers, Start(w) \/ NodeWrite(w)
      PROVE  RowKept /\ row'.attempt = row.attempt /\ row'.status = "PROCESSING"
  <2>1. row' = SetStatus(row, "PROCESSING")
    BY <1>8 DEF Start, NodeWrite
  <2> QED BY <1>1, <2>1 DEF Statuses, Active
<1>9. ASSUME NEW r \in Requests, Submit(r)
      PROVE  row' = row \/ (row.status = "ABSENT" /\ \E p \in Prints : row' = NewJob(p))
  BY <1>2, <1>9 DEF Submit, RetryRead, CancelRead
<1>10. ASSUME NEW r \in Requests, Handle(r)
       PROVE  \/ row' = row \/ Requeue(r) \/ Duplicate(r) \/ CancelFlag(r)
              \/ Refail(r) \/ CancelQueued(r) \/ Report(r)
  BY <1>10 DEF Handle, RequeueLost, Manifest, Enqueue, DispatchFailed, Reread, CloseDispatch
<1>11. ASSUME NEW w \in Workers, Work(w)
       PROVE  row' = row \/ Start(w) \/ NodeWrite(w) \/ Report(w)
  BY <1>11 DEF Work, Take, Load, Open, PreCheck, NodeCheck, CheckCancel, Persist, Abort,
     Reread, CloseExecution
<1>12. ASSUME NEW r \in Requests, LoseRequest(r) PROVE row' = row
  BY <1>12 DEF LoseRequest
<1>13. ASSUME NEW w \in Workers, CrashWorker(w) PROVE row' = row
  BY <1>13 DEF CrashWorker
<1>14. CASE UNCHANGED vars
  BY <1>14 DEF vars
<1>15. CASE \E r \in Requests : Submit(r) \/ Handle(r) \/ LoseRequest(r)
  BY <1>15, <1>3, <1>4, <1>5, <1>6, <1>7, <1>9, <1>10, <1>12
<1>16. CASE \E w \in Workers : Work(w) \/ CrashWorker(w)
  BY <1>16, <1>7, <1>8, <1>11, <1>13
<1> QED BY <1>14, <1>15, <1>16 DEF Next

----------------------------------------------------------------------------
(* A delivered job has a result.                                           *)

\* Who is about to report a delivery has saved a result, and a worker past
\* load acts for an attempt that exists.
ResultOK ==
    /\ \A a \in Actors : fin[a] \in Delivered => result # 0
    /\ \A w \in Workers : pc[w] \in {"open", "start", "precheck", "run", "write"} => at[w] # 0
    /\ DeliveredHasResult

LEMMA ResultStep == Typed /\ PresentOK /\ ResultOK /\ [Next]_vars => ResultOK'
<1> SUFFICES ASSUME Typed, PresentOK, ResultOK, [Next]_vars PROVE ResultOK'
    OBVIOUS
<1> USE DEF Goto, Actors
<1>0. /\ pc \in [Actors -> Stages] /\ at \in [Actors -> 0 .. MaxAttempts]
      /\ fin \in [Actors -> {"NONE"} \cup Terminal]
  BY DEF Typed, TypeOK
<1>1. /\ result # 0 => result' # 0
      /\ \A a \in Actors : fin'[a] \in Delivered => result' # 0
      /\ \A w \in Workers : pc'[w] \in {"open", "start", "precheck", "run", "write"}
                               => at'[w] # 0
  <2>1. ASSUME NEW r \in Requests, Submit(r) \/ Handle(r) \/ LoseRequest(r)
        PROVE  /\ result' = result
               /\ \A a \in Actors : fin'[a] \in Delivered => fin[a] \in Delivered
               /\ \A w \in Workers : pc'[w] = pc[w] /\ at'[w] = at[w]
    <3>1. fin' = fin \/ fin' = [fin EXCEPT ![r] = "FAILED"]
      BY <2>1 DEF Submit, Create, RetryRead, CancelRead, Handle, Duplicate, Requeue,
         RequeueLost, Manifest, Enqueue, DispatchFailed, Refail, CancelFlag, CancelQueued,
         Report, Reread, CloseDispatch, LoseRequest
    <3> QED BY <1>0, <2>1, <3>1, RequestLeavesWorkers DEF Delivered
  <2>2. ASSUME NEW w \in Workers, Work(w) \/ CrashWorker(w)
        PROVE  /\ result # 0 => result' # 0
               /\ \A a \in Actors : fin'[a] \in Delivered => result' # 0
               /\ \A v \in Workers : pc'[v] \in {"open", "start", "precheck", "run", "write"}
                                        => at'[v] # 0
    <3>1. CASE Load(w)
      <4>1. row.attempt # 0
        BY <1>0, <3>1 DEF Load, PresentOK, Quiet
      <4> QED BY <1>0, <3>1, <4>1 DEF Load, ResultOK
    <3>2. CASE Persist(w)
      <4>1. at[w] # 0 /\ result' = at[w] /\ at' = at
        BY <3>2 DEF Persist, ResultOK
      <4>2. \A v \in Workers : pc'[v] \in {"open", "start", "precheck", "run", "write"}
                                  => at[v] # 0
        BY <1>0, <3>2 DEF Persist, ResultOK
      <4> QED BY <4>1, <4>2
    <3>3. CASE Open(w) \/ Start(w) \/ PreCheck(w) \/ NodeCheck(w) \/ NodeWrite(w)
      <4>1. /\ result' = result /\ at' = at
            /\ fin' = fin \/ fin' = [fin EXCEPT ![w] = "CANCELLED"]
            /\ pc[w] \in {"open", "start", "precheck", "run", "write"}
            /\ \A v \in Workers \ {w} : pc'[v] = pc[v]
        BY <1>0, <3>3 DEF Open, Start, PreCheck, NodeCheck, CheckCancel, NodeWrite
      <4> QED BY <1>0, <4>1 DEF ResultOK, Delivered
    <3>4. CASE Take(w) \/ Abort(w) \/ Report(w) \/ Reread(w) \/ CloseExecution(w) \/ CrashWorker(w)
      <4>1. /\ result' = result
            /\ \A a \in Actors : fin'[a] \in Delivered => fin[a] \in Delivered
            /\ pc'[w] \in {"load", "report", "reread", "close", "idle"}
            /\ \A v \in Workers \ {w} : pc'[v] = pc[v] /\ at'[v] = at[v]
        BY <1>0, <3>4 DEF Take, Abort, Report, Reread, CloseExecution, Close, CrashWorker, Delivered
      <4> QED BY <4>1 DEF ResultOK
    <3> QED BY <2>2, <3>1, <3>2, <3>3, <3>4 DEF Work
  <2>3. CASE UNCHANGED vars
    BY <2>3 DEF vars, ResultOK
  <2> QED BY <2>1, <2>2, <2>3 DEF Next, ResultOK
<1>2. DeliveredHasResult'
  <2>1. row'.status \in Delivered => row.status \in Delivered \/ \E a \in Actors : fin[a] \in Delivered
    <3>1. ASSUME NEW p \in Prints, row' = NewJob(p) PROVE row'.status \notin Delivered
      BY <3>1, CreatedRow DEF Delivered
    <3> QED BY <3>1, RowMoves DEF Delivered
  <2> QED BY <1>1, <2>1 DEF ResultOK, DeliveredHasResult
<1> QED BY <1>1, <1>2 DEF ResultOK

\* A job whose row says COMPLETED, PARTIAL or REJECTED has a saved result,
\* whichever executions and crashes came before (execute_job persists first).
THEOREM DeliveredWithResult == Spec => []DeliveredHasResult
<1>1. Init => Typed /\ DispatchOK /\ ResultOK
  <2>1. Init => ResultOK
    BY ActorsAssumption DEF Init, ResultOK, DeliveredHasResult, Delivered, NoJob, Actors
  <2> QED BY <2>1, TypedInit, DispatchInit
<1>2. Typed /\ DispatchOK /\ ResultOK /\ [Next]_vars => (Typed /\ DispatchOK /\ ResultOK)'
  BY TypedStep, DispatchStep, ResultStep DEF DispatchOK
<1>3. ResultOK => DeliveredHasResult
  BY DEF ResultOK
<1> QED BY <1>1, <1>2, <1>3, PTL DEF Spec

----------------------------------------------------------------------------
(* An execution stops within one node of the cancel flag.                  *)

\* A worker that recorded a node after the flag was set has recorded one, the
\* flag still is set, and it is not about to record another. Before the row
\* exists there is no flag.
CancelOK ==
    /\ \A w \in Workers : late[w] # 0 => late[w] = 1 /\ row.cancel /\ pc[w] # "write"
    /\ row.status = "ABSENT" => \A w \in Workers : late[w] = 0

LEMMA CancelStep == Typed /\ PresentOK /\ CancelOK /\ [Next]_vars => CancelOK'
<1> SUFFICES ASSUME Typed, PresentOK, CancelOK, [Next]_vars PROVE CancelOK'
    OBVIOUS
<1> USE DEF Goto, workerVars
<1>0. /\ pc \in [Actors -> Stages] /\ late \in [Workers -> Nat]
      /\ Workers \subseteq Actors /\ Requests \subseteq Actors
  BY DEF Typed, TypeOK, Actors
<1>1. row'.status = "ABSENT" => row.status = "ABSENT"
  <2>1. ASSUME NEW p \in Prints, row' = NewJob(p) PROVE row'.status # "ABSENT"
    BY <2>1, CreatedRow
  <2>2. \A a \in Actors : Report(a) => fin[a] # "ABSENT"
    BY DEF Report, Typed, StageOK, Terminal, Retryable, Delivered
  <2> QED BY <2>1, <2>2, RowMoves
<1>2. \/ \E r \in Requests : Requeue(r)
      \/ row.cancel => row'.cancel
      \/ \A w \in Workers : late[w] = 0
  <2>1. CASE row' = row
    BY <2>1
  <2>2. CASE row.status = "ABSENT"
    BY <2>2 DEF CancelOK
  <2>3. CASE \E r \in Requests : Requeue(r)
    BY <2>3
  <2>4. CASE RowKept
    BY <2>4, Zenon DEF RowKept
  <2> QED BY <2>1, <2>2, <2>3, <2>4, RowMoves
<1>3. ASSUME NEW r \in Requests, Submit(r) \/ Handle(r) \/ LoseRequest(r) PROVE CancelOK'
  <2>1. CASE Requeue(r)
    BY <2>1 DEF Requeue, CancelOK
  <2>2. CASE ~ Requeue(r)
    <3>1. late' = late
      BY <1>3, <2>2 DEF Submit, Create, RetryRead, CancelRead, Handle, Duplicate, RequeueLost,
         Manifest, Enqueue, DispatchFailed, Refail, CancelFlag, CancelQueued, Report, Reread,
         CloseDispatch, LoseRequest
    <3>2. \A w \in Workers : pc'[w] = pc[w]
      BY <1>3, RequestLeavesWorkers
    <3>3. ~ \E q \in Requests : Requeue(q)
      <4>1. ASSUME NEW q \in Requests, Requeue(q) PROVE q = r
        <5>1. pc[q] = "requeue" /\ pc'[q] # pc[q]
          BY <1>0, <4>1 DEF Requeue
        <5>2. q # r => pc'[q] = pc[q]
          BY <1>3, <1>0
             DEF Submit, Create, Existing, RetryRead, CancelRead, Handle, Duplicate, Requeue,
                 RequeueLost, Manifest, Enqueue, DispatchFailed, Refail, CancelFlag,
                 CancelQueued, Report, Reread, Close, CloseDispatch, LoseRequest
        <5> QED BY <5>1, <5>2
      <4> QED BY <2>2, <4>1
    <3>4. ASSUME NEW w \in Workers, late'[w] # 0 PROVE late'[w] = 1 /\ row'.cancel /\ pc'[w] # "write"
      <4>1. late[w] = 1 /\ row.cancel /\ pc[w] # "write" /\ late[w] # 0
        BY <3>1, <3>4 DEF CancelOK
      <4>2. row'.cancel
        BY <1>2, <3>3, <4>1
      <4> QED BY <3>1, <3>2, <4>1, <4>2
    <3> QED BY <1>1, <3>1, <3>4 DEF CancelOK
  <2> QED BY <2>1, <2>2
<1>4. ASSUME NEW w \in Workers, Work(w) \/ CrashWorker(w) PROVE CancelOK'
  <2>1. pc' = [pc EXCEPT ![w] = pc'[w]] /\ \A r \in Requests : ~ Requeue(r)
    <3>1. pc' = [pc EXCEPT ![w] = pc'[w]]
      BY <1>0, <1>4 DEF Work, Take, Load, Open, Start, PreCheck, NodeCheck, CheckCancel,
         NodeWrite, Persist, Abort, Report, Reread, CloseExecution, Close, CrashWorker
    <3>2. \A r \in Requests : pc'[r] = pc[r]
      BY <1>4, WorkerLeavesRequests
    <3>3. \A r \in Requests : Requeue(r) => pc'[r] # pc[r]
      BY <1>0 DEF Requeue
    <3> QED BY <3>1, <3>2, <3>3
  <2>2. CASE NodeWrite(w)
    <3>1. late[w] = 0 /\ row.status # "ABSENT"
      BY <1>0, <2>2 DEF NodeWrite, CancelOK, PresentOK, Quiet
    <3>2. late' = [late EXCEPT ![w] = IF row.cancel THEN 1 ELSE 0] /\ pc'[w] = "run"
      BY <1>0, <2>2, <3>1 DEF NodeWrite
    <3>3. ASSUME NEW v \in Workers, late'[v] # 0 PROVE late'[v] = 1 /\ row'.cancel /\ pc'[v] # "write"
      <4>1. late'[v] = 1 /\ row.cancel /\ pc'[v] # "write"
        BY <1>0, <2>1, <3>2, <3>3 DEF CancelOK
      <4>2. row.cancel => row'.cancel
        <5>1. row' = SetStatus(row, "PROCESSING") /\ row \in Rows
          BY <2>2 DEF NodeWrite, Typed, TypeOK
        <5>2. row'.cancel = row.cancel
          BY <5>1, SetStatusRow, Zenon DEF Statuses, Active
        <5> QED BY <5>2
      <4> QED BY <4>1, <4>2
    <3> QED BY <1>1, <3>1, <3>3 DEF CancelOK
  <2>3. CASE ~ NodeWrite(w)
    <3>1. /\ \A v \in Workers : late'[v] = late[v] \/ late'[v] = 0
          /\ pc'[w] = "write" => NodeCheck(w) /\ ~ row.cancel
      BY <1>0, <1>4, <2>3
         DEF Work, Take, Load, Open, Start, PreCheck, NodeCheck, CheckCancel,
             Persist, Abort, Report, Reread, CloseExecution, CrashWorker
    <3>2. ASSUME NEW v \in Workers, late'[v] # 0 PROVE late'[v] = 1 /\ row'.cancel /\ pc'[v] # "write"
      <4>1. late'[v] = late[v] /\ late[v] # 0
        BY <3>1, <3>2
      <4>2. late[v] = 1 /\ row.cancel /\ pc[v] # "write"
        BY <4>1 DEF CancelOK
      <4>3. row'.cancel
        BY <1>2, <2>1, <4>1, <4>2
      <4>4. pc'[v] # "write"
        BY <1>0, <2>1, <3>1, <4>2
      <4> QED BY <4>1, <4>2, <4>3, <4>4
    <3>3. row'.status = "ABSENT" => \A v \in Workers : late'[v] = 0
      BY <1>1, <3>1 DEF CancelOK
    <3> QED BY <3>2, <3>3 DEF CancelOK
  <2> QED BY <2>2, <2>3
<1>5. CASE UNCHANGED vars
  BY <1>5 DEF vars, CancelOK
<1> QED BY <1>3, <1>4, <1>5 DEF Next

\* After the cancel flag is set a worker records at most one more node in the
\* attempt (the poll of is_cancel_requested at every node update of the runner).
THEOREM CancelStops == Spec => []CancelStopsWithinOneNode
<1>1. Init => Typed /\ DispatchOK /\ CancelOK
  <2>1. Init => CancelOK
    BY DEF Init, CancelOK
  <2> QED BY <2>1, TypedInit, DispatchInit
<1>2. Typed /\ DispatchOK /\ CancelOK /\ [Next]_vars => (Typed /\ DispatchOK /\ CancelOK)'
  BY TypedStep, DispatchStep, CancelStep DEF DispatchOK
<1>3. Typed /\ CancelOK => CancelStopsWithinOneNode
  <2>1. CancelOK => \A w \in Workers : late[w] = 0 \/ late[w] = 1
    BY Zenon DEF CancelOK
  <2> QED BY <2>1 DEF CancelStopsWithinOneNode
<1> QED BY <1>1, <1>2, <1>3, PTL DEF Spec

----------------------------------------------------------------------------
(* Only the payload of the job is served.                                  *)

\* What the property asks of one request.
Served(r) == reply[r] \in {"accepted", "idempotent"} \/ (call[r] # "cancel" /\ at[r] # 0)

\* A request that has not begun is blank; who requeues or dispatches came with
\* a create or a retry, and who requeues has the payload of the row; nobody is
\* served before the row exists.
RequestOK(r) ==
    /\ pc[r] = "new" => at[r] = 0 /\ reply[r] = "none" /\ call[r] = "none"
    /\ pc[r] \in {"requeue", "manifest", "enqueue"} => call[r] \in {"create", "retry"}
    /\ pc[r] \in {"flag", "withdraw"} => call[r] = "cancel"
    /\ pc[r] = "requeue" => print[r] = row.print
    /\ row.status = "ABSENT" => ~ Served(r)
    /\ Served(r) => print[r] = row.print

PayloadOK == \A r \in Requests : RequestOK(r)

LEMMA PayloadStep == Typed /\ PresentOK /\ PayloadOK /\ [Next]_vars => PayloadOK'
<1> SUFFICES ASSUME Typed, PresentOK, PayloadOK, [Next]_vars PROVE PayloadOK'
    OBVIOUS
<1> USE DEF Goto, Answer, Called, requestVars
<1>0. /\ pc \in [Actors -> Stages] /\ at \in [Actors -> 0 .. MaxAttempts]
      /\ call \in [Requests -> {"none", "create", "retry", "cancel"}]
      /\ print \in [Requests -> Prints \cup {NoPrint}] /\ reply \in [Requests -> Replies]
      /\ Workers \subseteq Actors /\ Requests \subseteq Actors
      /\ \A r \in Requests : pc[r] \in {"manifest", "enqueue"} => at[r] # 0
  BY DEF Typed, TypeOK, StageOK, Actors, Attempts
<1>1. row.status # "ABSENT" => row'.print = row.print /\ row'.status # "ABSENT"
  <2>1. \A a \in Actors : Report(a) => fin[a] # "ABSENT"
    BY DEF Report, Typed, StageOK, Terminal, Retryable, Delivered
  <2> QED BY <2>1, RowMoves DEF RowKept
<1>2. ASSUME NEW r \in Requests, Submit(r) \/ Handle(r) \/ LoseRequest(r), RequestOK(r)'
      PROVE  PayloadOK'
  <2>1. ASSUME NEW q \in Requests, q # r
        PROVE  pc'[q] = pc[q] /\ at'[q] = at[q] /\ call'[q] = call[q]
               /\ print'[q] = print[q] /\ reply'[q] = reply[q]
    BY <1>0, <1>2, <2>1
       DEF Submit, Create, Existing, RetryRead, CancelRead, Handle, Duplicate, Requeue,
           RequeueLost, Manifest, Enqueue, DispatchFailed, Refail, CancelFlag, CancelQueued,
           Report, Reread, Close, CloseDispatch, LoseRequest
  <2>2. row.status = "ABSENT" => \A q \in Requests : ~ Served(q) /\ pc[q] # "requeue"
    BY <1>0 DEF PayloadOK, RequestOK, PresentOK, Quiet
  <2>3. ASSUME NEW q \in Requests, q # r PROVE RequestOK(q)'
    <3>1. Served(q)' <=> Served(q)
      BY <2>1, <2>3 DEF Served
    <3>2. pc'[q] = pc[q] /\ at'[q] = at[q] /\ call'[q] = call[q] /\ print'[q] = print[q]
          /\ reply'[q] = reply[q]
      BY <2>1, <2>3
    <3>3. RequestOK(q)
      BY DEF PayloadOK
    <3>4. Served(q) \/ pc[q] = "requeue" => row'.print = row.print
      BY <1>1, <2>2
    <3>5. row'.status = "ABSENT" => row.status = "ABSENT"
      BY <1>1
    <3> QED BY <3>1, <3>2, <3>3, <3>4, <3>5 DEF RequestOK
  <2> QED BY <1>2, <2>3 DEF PayloadOK
<1>3. ASSUME NEW r \in Requests, NEW p \in Prints, NEW b \in BOOLEAN, Create(r, p, b)
      PROVE  RequestOK(r)'
  <2>0. /\ call'[r] = "create" /\ print'[r] = p
        /\ at[r] = 0 /\ reply[r] = "none"
    BY <1>0, <1>3 DEF Create, PayloadOK, RequestOK
  <2>1. CASE row.status = "ABSENT"
    <3>1. /\ row'.status # "ABSENT" /\ row'.print = p
          /\ pc'[r] = "manifest"
      BY <1>0, <1>3, <2>1, CreatedRow DEF Create
    <3> QED BY <2>0, <2>1, <3>1 DEF RequestOK
  <2>2. CASE row.status # "ABSENT"
    <3>1. row' = row /\ at' = at /\ pc'[r] \in {"requeue", "duplicate"}
      BY <1>0, <1>3, <2>2 DEF Create, Existing
    <3>2. /\ pc'[r] = "requeue" => p = row.print
          /\ reply'[r] = "idempotent" => p = row.print
          /\ reply'[r] \in {"none", "conflict", "idempotent"}
      BY <1>0, <1>3, <2>0, <2>2 DEF Create, Existing, CanRequeue, Matches
    <3> QED BY <2>0, <2>2, <3>1, <3>2 DEF Served, RequestOK
  <2> QED BY <2>1, <2>2
<1>4. ASSUME NEW r \in Requests, RetryRead(r) \/ CancelRead(r) PROVE RequestOK(r)'
  <2>1. at[r] = 0 /\ reply[r] = "none" /\ at' = at /\ row' = row
    BY <1>4 DEF RetryRead, CancelRead, PayloadOK, RequestOK
  <2>2. CASE RetryRead(r)
    <3>1. /\ call'[r] = "retry" /\ pc'[r] \in {"answered", "requeue"}
          /\ reply'[r] \in {"none", "notFound", "conflict"}
          /\ pc'[r] = "requeue" => print'[r] = row.print
      BY <1>0, <2>1, <2>2 DEF RetryRead
    <3> QED BY <1>0, <2>1, <3>1 DEF Served, RequestOK
  <2>3. CASE CancelRead(r)
    <3>1. /\ call'[r] = "cancel" /\ pc'[r] \in {"answered", "flag"}
          /\ reply'[r] \in {"none", "notFound", "finished"}
      BY <1>0, <2>1, <2>3 DEF CancelRead
    <3> QED BY <1>0, <2>1, <3>1 DEF Served, RequestOK
  <2> QED BY <1>4, <2>2, <2>3
<1>5. ASSUME NEW r \in Requests, Handle(r) PROVE RequestOK(r)'
  <2>0. /\ RequestOK(r) /\ call'[r] = call[r] /\ print'[r] = print[r]
        /\ pc[r] \notin Quiet /\ row.status # "ABSENT"
        /\ row'.status # "ABSENT" /\ row'.print = row.print
    <3>1. call' = call /\ print' = print /\ pc[r] \notin Quiet
      BY <1>5 DEF Handle, Duplicate, Requeue, RequeueLost, Manifest, Enqueue, DispatchFailed,
         Refail, CancelFlag, CancelQueued, Report, Reread, Close, CloseDispatch, Quiet
    <3>2. row.status # "ABSENT"
      BY <1>0, <3>1 DEF PresentOK
    <3> QED BY <1>1, <3>1, <3>2 DEF PayloadOK
  <2>1. CASE Requeue(r)
    <3>1. pc[r] = "requeue" /\ pc'[r] \in {"manifest", "enqueue"} /\ reply' = reply
      BY <1>0, <2>1 DEF Requeue
    <3> QED BY <2>0, <3>1 DEF Served, RequestOK
  <2>2. CASE RequeueLost(r)
    <3>1. pc[r] = "requeue" /\ pc'[r] \in {"duplicate", "answered"} /\ at' = at
      BY <1>0, <2>2 DEF RequeueLost
    <3> QED BY <2>0, <3>1 DEF Served, RequestOK
  <2>3. CASE Enqueue(r)
    <3>1. pc[r] = "enqueue" /\ pc'[r] = "answered" /\ at' = at /\ at[r] # 0
      BY <1>0, <2>3 DEF Enqueue
    <3> QED BY <2>0, <3>1 DEF Served, RequestOK
  <2>4. CASE CancelFlag(r)
    <3>1. /\ pc[r] = "flag" /\ pc'[r] \in {"withdraw", "answered"}
          /\ reply'[r] = "cancelling"
      BY <1>0, <2>4 DEF CancelFlag
    <3> QED BY <2>0, <3>1 DEF Served, RequestOK
  <2>5. CASE \/ Duplicate(r) \/ Manifest(r) \/ DispatchFailed(r) \/ Refail(r)
             \/ CancelQueued(r) \/ Report(r) \/ Reread(r) \/ CloseDispatch(r)
    <3>1. /\ pc'[r] \in {"answered", "enqueue", "refail", "report", "reread", "close"}
          /\ pc'[r] = "enqueue" => pc[r] = "manifest"
          /\ reply'[r] \in {reply[r], "unavailable"} /\ at' = at
      BY <1>0, <2>5 DEF Duplicate, Manifest, DispatchFailed, Refail, CancelQueued, Report,
         Reread, Close, CloseDispatch
    <3>2. Served(r)' => Served(r)
      BY <2>0, <3>1 DEF Served
    <3>3. (Served(r) => print[r] = row.print)
          /\ (pc[r] = "manifest" => call[r] \in {"create", "retry"})
      BY <2>0 DEF RequestOK
    <3> QED BY <2>0, <3>1, <3>2, <3>3 DEF RequestOK
  <2> QED BY <1>5, <2>1, <2>2, <2>3, <2>4, <2>5 DEF Handle
<1>6. ASSUME NEW r \in Requests, LoseRequest(r) PROVE RequestOK(r)'
  <2>1. pc'[r] = "lost" /\ row' = row /\ (Served(r)' <=> Served(r)) /\ print' = print
    BY <1>0, <1>6 DEF LoseRequest, Served
  <2> QED BY <2>1 DEF PayloadOK, RequestOK
<1>7. ASSUME NEW w \in Workers, Work(w) \/ CrashWorker(w) PROVE PayloadOK'
  <2>1. /\ \A r \in Requests : pc'[r] = pc[r] /\ at'[r] = at[r]
        /\ call' = call /\ print' = print /\ reply' = reply
    BY <1>7, WorkerLeavesRequests
  <2>2. row.status # "ABSENT" \/ row' = row
    <3>1. CASE row.status = "ABSENT"
      <4>1. \A a \in Actors : pc[a] \in Quiet
        BY <3>1 DEF PresentOK
      <4> QED BY <1>0, <1>7, <4>1
         DEF Quiet, Work, Take, Load, Open, Start, PreCheck, NodeCheck, CheckCancel, NodeWrite,
             Persist, Abort, Report, Reread, Close, CloseExecution, CrashWorker
    <3> QED BY <3>1
  <2>3. row'.print = row.print /\ (row'.status = "ABSENT" => row.status = "ABSENT")
    BY <1>1, <2>2
  <2>4. ASSUME NEW r \in Requests PROVE RequestOK(r)'
    <3>1. RequestOK(r) /\ (Served(r)' <=> Served(r))
      BY <2>1 DEF PayloadOK, Served
    <3> QED BY <2>1, <2>3, <3>1 DEF RequestOK
  <2> QED BY <2>4 DEF PayloadOK
<1>8. CASE UNCHANGED vars
  BY <1>8 DEF vars, PayloadOK, RequestOK, Served
<1>9. ASSUME NEW r \in Requests, Submit(r) PROVE RequestOK(r)'
  BY <1>3, <1>4, <1>9 DEF Submit
<1> QED BY <1>2, <1>5, <1>6, <1>7, <1>8, <1>9 DEF Next

\* Whatever interleaves, a caller is told "accepted" or "duplicate" or gets to
\* dispatch an attempt only with the fingerprint the job was created with
\* (create_or_get, try_requeue_for_retry and the conflict answers of service.py).
THEOREM SamePayloadServed == Spec => []OnlyTheSamePayloadIsServed
<1>1. Init => Typed /\ DispatchOK /\ PayloadOK
  <2>1. Init => PayloadOK
    BY ActorsAssumption DEF Init, PayloadOK, RequestOK, Served, Actors
  <2> QED BY <2>1, TypedInit, DispatchInit
<1>2. Typed /\ DispatchOK /\ PayloadOK /\ [Next]_vars => (Typed /\ DispatchOK /\ PayloadOK)'
  BY TypedStep, DispatchStep, PayloadStep DEF DispatchOK
<1>3. PayloadOK => OnlyTheSamePayloadIsServed
  BY DEF PayloadOK, RequestOK, Served, OnlyTheSamePayloadIsServed
<1> QED BY <1>1, <1>2, <1>3, PTL DEF Spec

----------------------------------------------------------------------------
(* One execution, and nothing after its end.                               *)

\* Undisturbed without the handler whose dispatch has just failed: once false
\* it stays false.
Steady ==
    \A r \in Requests : call[r] # "cancel" /\ fin[r] = "NONE" /\ reply[r] # "unavailable"

\* A refused caller is done.
RefusedOK == \A r \in Requests : reply[r] = "unavailable" => pc[r] \in {"answered", "lost"}

\* An actor that will enqueue the job, or that executes it.
Busy(a) ==
    pc[a] \in {"manifest", "enqueue", "load", "open", "start", "precheck", "run",
               "write", "report"}

Free == queue = <<>> /\ \A a \in Actors : ~ Busy(a)

\* The job is one thing: a message, a busy actor, or neither; neither once it
\* has ended.
Single ==
    /\ queue = <<>> \/ (Len(queue) = 1 /\ \A a \in Actors : ~ Busy(a))
    /\ \A a, b \in Actors : Busy(a) /\ Busy(b) => a = b
    /\ row.status \in Terminal => Free

SingleOK == Steady => Single

LEMMA RefusedStep == Typed /\ PayloadOK /\ RefusedOK /\ [Next]_vars => RefusedOK'
<1> SUFFICES ASSUME Typed, PayloadOK, RefusedOK, [Next]_vars PROVE RefusedOK'
    OBVIOUS
<1> USE DEF Goto, Answer, Called, requestVars
<1>0. pc \in [Actors -> Stages] /\ reply \in [Requests -> Replies] /\ Requests \subseteq Actors
  BY DEF Typed, TypeOK, Actors
<1>1. ASSUME NEW r \in Requests, Submit(r) \/ Handle(r) \/ LoseRequest(r) PROVE RefusedOK'
  <2>1. \A q \in Requests \ {r} : pc'[q] = pc[q] /\ reply'[q] = reply[q]
    BY <1>0, <1>1
       DEF Submit, Create, Existing, RetryRead, CancelRead, Handle, Duplicate, Requeue,
           RequeueLost, Manifest, Enqueue, DispatchFailed, Refail, CancelFlag, CancelQueued,
           Report, Reread, Close, CloseDispatch, LoseRequest
  <2>2. reply'[r] = "unavailable" => pc'[r] \in {"answered", "lost"}
    <3>1. CASE Submit(r)
      BY <1>0, <3>1 DEF Submit, Create, Existing, RetryRead, CancelRead, PayloadOK, RequestOK
    <3>2. CASE Handle(r) \/ LoseRequest(r)
      BY <1>0, <3>2
         DEF RefusedOK, Handle, Duplicate, Requeue, RequeueLost, Manifest, Enqueue,
             DispatchFailed, Refail, CancelFlag, CancelQueued, Report, Reread, Close,
             CloseDispatch, LoseRequest
    <3> QED BY <1>1, <3>1, <3>2
  <2> QED BY <2>1, <2>2 DEF RefusedOK
<1>2. ASSUME NEW w \in Workers, Work(w) \/ CrashWorker(w) PROVE RefusedOK'
  BY <1>2, WorkerLeavesRequests DEF RefusedOK
<1>3. CASE UNCHANGED vars
  BY <1>3 DEF vars, RefusedOK
<1> QED BY <1>1, <1>2, <1>3 DEF Next

\* A job that is steady after a step was steady before it.
LEMMA SteadyBefore ==
    Typed /\ PayloadOK /\ RefusedOK /\ [Next]_vars /\ Steady' => Steady
<1> SUFFICES ASSUME Typed, PayloadOK, RefusedOK, [Next]_vars, Steady',
                    NEW q \in Requests
             PROVE  call[q] # "cancel" /\ fin[q] = "NONE" /\ reply[q] # "unavailable"
  BY DEF Steady
<1> USE DEF Goto, Answer, Called, requestVars
<1>0. /\ pc \in [Actors -> Stages] /\ reply \in [Requests -> Replies]
      /\ call \in [Requests -> {"none", "create", "retry", "cancel"}]
      /\ fin \in [Actors -> {"NONE"} \cup Terminal] /\ Requests \subseteq Actors
  BY DEF Typed, TypeOK, Actors
<1>a. call'[q] # "cancel" /\ fin'[q] = "NONE" /\ reply'[q] # "unavailable"
  BY DEF Steady
<1>1. ASSUME NEW r \in Requests, Submit(r) \/ Handle(r) \/ LoseRequest(r)
      PROVE  call[q] # "cancel" /\ fin[q] = "NONE" /\ reply[q] # "unavailable"
  <2>1. call[q] # "cancel"
    <3>1. call' = call \/ (pc[r] = "new" /\ \E c \in {"create", "retry", "cancel"} :
                                                call' = [call EXCEPT ![r] = c])
      BY <1>0, <1>1
         DEF Submit, Create, RetryRead, CancelRead, Handle, Duplicate, Requeue, RequeueLost,
             Manifest, Enqueue, DispatchFailed, Refail, CancelFlag, CancelQueued, Report,
             Reread, CloseDispatch, LoseRequest
    <3> QED BY <1>0, <1>a, <3>1 DEF PayloadOK, RequestOK
  <2>2. fin[q] = "NONE"
    <3>1. fin' = fin \/ fin' = [fin EXCEPT ![r] = "FAILED"]
      BY <1>1 DEF Submit, Create, RetryRead, CancelRead, Handle, Duplicate, Requeue,
         RequeueLost, Manifest, Enqueue, DispatchFailed, Refail, CancelFlag, CancelQueued,
         Report, Reread, CloseDispatch, LoseRequest
    <3> QED BY <1>0, <1>a, <3>1
  <2>3. reply[q] # "unavailable"
    <3>1. pc[r] \notin {"answered", "lost"}
      BY <1>1
         DEF Submit, Create, RetryRead, CancelRead, Handle, Duplicate, Requeue, RequeueLost,
             Manifest, Enqueue, DispatchFailed, Refail, CancelFlag, CancelQueued, Report,
             Reread, Close, CloseDispatch, LoseRequest, CanCrash
    <3>2. q # r => reply'[q] = reply[q]
      BY <1>0, <1>1
         DEF Submit, Create, Existing, RetryRead, CancelRead, Handle, Duplicate, Requeue,
             RequeueLost, Manifest, Enqueue, DispatchFailed, Refail, CancelFlag, CancelQueued,
             Report, Reread, CloseDispatch, LoseRequest
    <3> QED BY <1>a, <3>1, <3>2 DEF RefusedOK
  <2> QED BY <2>1, <2>2, <2>3
<1>2. ASSUME NEW w \in Workers, Work(w) \/ CrashWorker(w)
      PROVE  call[q] # "cancel" /\ fin[q] = "NONE" /\ reply[q] # "unavailable"
  BY <1>2, <1>a, WorkerLeavesRequests
<1>3. CASE UNCHANGED vars
  BY <1>a, <1>3 DEF vars
<1> QED BY <1>1, <1>2, <1>3 DEF Next

\* The actions a steady job does not see.
LEMMA SteadyExcludes ==
    ASSUME Typed, PayloadOK, Steady, Steady', NEW r \in Requests
    PROVE  /\ ~ CancelRead(r) /\ ~ CancelFlag(r) /\ ~ CancelQueued(r)
           /\ ~ DispatchFailed(r) /\ ~ Refail(r) /\ ~ Report(r)
<1> USE DEF Goto, Answer, Called
<1>0. /\ reply \in [Requests -> Replies] /\ fin \in [Actors -> {"NONE"} \cup Terminal]
      /\ call \in [Requests -> {"none", "create", "retry", "cancel"}]
      /\ r \in Actors /\ (pc[r] = "report" => fin[r] \in Terminal)
      /\ (pc[r] \in {"flag", "withdraw"} => call[r] = "cancel")
      /\ call[r] # "cancel" /\ fin[r] = "NONE"
      /\ call'[r] # "cancel" /\ fin'[r] = "NONE" /\ reply'[r] # "unavailable"
  BY DEF Typed, TypeOK, StageOK, Actors, PayloadOK, RequestOK, Steady
<1>1. ~ CancelRead(r)
  BY <1>0 DEF CancelRead
<1>2. ~ CancelFlag(r) /\ ~ CancelQueued(r)
  BY <1>0 DEF CancelFlag, CancelQueued
<1>3. ~ DispatchFailed(r) /\ ~ Refail(r)
  BY <1>0 DEF DispatchFailed, Refail
<1>4. ~ Report(r)
  BY <1>0 DEF Report, Terminal, Retryable, Delivered
<1> QED BY <1>1, <1>2, <1>3, <1>4

\* Nobody becomes busy and the job does not end.
LEMMA SingleKept ==
    ASSUME Single, queue' = queue, \A a \in Actors : Busy(a)' => Busy(a),
           row'.status \in Terminal => row.status \in Terminal
    PROVE  Single'
  BY DEF Single, Free

\* One actor takes up a job nobody is busy with.
LEMMA SingleTaken ==
    ASSUME NEW b \in Actors, queue' = <<>>, \A a \in Actors : Busy(a)' => a = b,
           row'.status \notin Terminal
    PROVE  Single'
  BY DEF Single, Free

LEMMA SingleStep ==
    ASSUME Typed, PresentOK, PayloadOK, Steady, Steady', Single, [Next]_vars
    PROVE  Single'
<1> USE DEF Goto, Answer, Called, requestVars, workerVars
<1>0. /\ row \in Rows /\ pc \in [Actors -> Stages] /\ queue \in Seq(Attempts)
      /\ Workers \subseteq Actors /\ Requests \subseteq Actors
      /\ \A r \in Requests : at[r] \in 0 .. MaxAttempts
  BY DEF Typed, TypeOK, Actors
<1>1. ASSUME NEW r \in Requests, Submit(r) PROVE Single'
  <2>1. ASSUME NEW p \in Prints, NEW b \in BOOLEAN, Create(r, p, b) PROVE Single'
    <3>1. CASE row.status = "ABSENT"
      <4>1. queue' = <<>> /\ \A a \in Actors : Busy(a)' => a = r
        BY <1>0, <2>1, <3>1 DEF Create, PresentOK, Quiet, Busy
      <4>2. row'.status \notin Terminal
        BY <2>1, <3>1, CreatedRow DEF Create, Terminal, Retryable, Delivered
      <4> QED BY <1>0, <4>1, <4>2, SingleTaken
    <3>2. CASE row.status # "ABSENT"
      <4>1. row' = row /\ queue' = queue /\ \A a \in Actors : Busy(a)' => Busy(a)
        BY <1>0, <2>1, <3>2 DEF Create, Existing, Busy
      <4> QED BY <4>1, SingleKept
    <3> QED BY <3>1, <3>2
  <2>2. CASE RetryRead(r)
    <3>1. row' = row /\ queue' = queue /\ \A a \in Actors : Busy(a)' => Busy(a)
      BY <1>0, <2>2 DEF RetryRead, Busy
    <3> QED BY <3>1, SingleKept
  <2> QED BY <1>1, <2>1, <2>2, SteadyExcludes DEF Submit
<1>2. ASSUME NEW r \in Requests, Handle(r) PROVE Single'
  <2>1. CASE Requeue(r)
    <3>1. Free /\ queue' = queue
      BY <2>1 DEF Requeue, CanRequeue, Single, Terminal
    <3>2. \A a \in Actors : Busy(a)' => a = r
      BY <1>0, <2>1, <3>1 DEF Requeue, Free, Busy
    <3>3. row'.status \notin Terminal
      <4>1. row' = Requeued(row) /\ row.attempt < MaxAttempts
        BY <2>1 DEF Requeue
      <4> QED BY <1>0, <4>1, RequeuedRow DEF Terminal, Retryable, Delivered
    <3> QED BY <1>0, <3>1, <3>2, <3>3, SingleTaken DEF Free
  <2>2. CASE Enqueue(r)
    <3>1. Busy(r) /\ pc'[r] = "answered" /\ row' = row /\ queue' = Append(queue, at[r])
          /\ \A a \in Actors \ {r} : pc'[a] = pc[a]
      BY <1>0, <2>2 DEF Enqueue, Busy
    <3>2. queue = <<>> /\ row.status \notin Terminal /\ \A a \in Actors : Busy(a) => a = r
      BY <1>0, <3>1 DEF Single, Free
    <3>3. Len(queue') = 1
      BY <1>0, <3>1, <3>2
    <3>4. \A a \in Actors : ~ Busy(a)'
      BY <3>1, <3>2 DEF Busy
    <3> QED BY <3>1, <3>2, <3>3, <3>4 DEF Single
  <2>3. CASE Duplicate(r)
    <3>1. row' = MarkDuplicate(row) /\ queue' = queue /\ \A a \in Actors : Busy(a)' => Busy(a)
      BY <1>0, <2>3 DEF Duplicate, Busy
    <3>2. row'.status = row.status
      BY <1>0, <3>1, MarkDuplicateRow
    <3> QED BY <3>1, <3>2, SingleKept
  <2>4. CASE RequeueLost(r) \/ Manifest(r) \/ Reread(r) \/ CloseDispatch(r)
    <3>1. row' = row /\ queue' = queue /\ \A a \in Actors : Busy(a)' => Busy(a)
      BY <1>0, <2>4 DEF RequeueLost, Manifest, Reread, Close, CloseDispatch, Busy
    <3> QED BY <3>1, SingleKept
  <2> QED BY <1>2, <2>1, <2>2, <2>3, <2>4, SteadyExcludes DEF Handle
<1>3. ASSUME NEW w \in Workers, Work(w) PROVE Single'
  <2>1. CASE Take(w)
    <3>1. queue # <<>> /\ queue' = Tail(queue) /\ row' = row
          /\ \A a \in Actors \ {w} : pc'[a] = pc[a]
      BY <1>0, <2>1 DEF Take
    <3>2. Len(queue) = 1 /\ (\A a \in Actors : ~ Busy(a)) /\ row.status \notin Terminal
      BY <3>1 DEF Single, Free
    <3>3. queue' = <<>>
      BY <1>0, <3>1, <3>2
    <3>4. \A a \in Actors : Busy(a)' => a = w
      BY <3>1, <3>2 DEF Busy
    <3> QED BY <1>0, <3>1, <3>2, <3>3, <3>4, SingleTaken
  <2>2. CASE Report(w)
    <3>1. Busy(w) /\ pc'[w] = "reread" /\ queue' = queue
          /\ \A a \in Actors \ {w} : pc'[a] = pc[a]
      BY <1>0, <2>2 DEF Report, Busy
    <3>2. queue = <<>> /\ \A a \in Actors : Busy(a) => a = w
      BY <1>0, <3>1 DEF Single
    <3>3. \A a \in Actors : ~ Busy(a)'
      BY <3>1, <3>2 DEF Busy
    <3> QED BY <3>1, <3>2, <3>3 DEF Single, Free
  <2>3. CASE Start(w) \/ NodeWrite(w)
    <3>1. row' = SetStatus(row, "PROCESSING") /\ queue' = queue
          /\ \A a \in Actors : Busy(a)' => Busy(a)
      BY <1>0, <2>3 DEF Start, NodeWrite, Busy
    <3>2. row'.status = "PROCESSING"
      BY <1>0, <3>1, SetStatusRow DEF Statuses, Active
    <3> QED BY <3>1, <3>2, SingleKept DEF Terminal, Retryable, Delivered
  <2>4. CASE \/ Load(w) \/ Open(w) \/ PreCheck(w) \/ NodeCheck(w) \/ Persist(w) \/ Abort(w)
             \/ Reread(w) \/ CloseExecution(w)
    <3>1. row' = row /\ queue' = queue /\ \A a \in Actors : Busy(a)' => Busy(a)
      BY <1>0, <2>4 DEF Load, Open, PreCheck, NodeCheck, CheckCancel, Persist, Abort, Reread,
         Close, CloseExecution, Busy
    <3> QED BY <3>1, SingleKept
  <2> QED BY <1>3, <2>1, <2>2, <2>3, <2>4 DEF Work
<1>4. ASSUME NEW a \in Actors, CanCrash(a), row' = row, queue' = queue,
             pc' = [pc EXCEPT ![a] = pc'[a]], pc'[a] \in {"lost", "idle"}
      PROVE  Single'
  <2>1. \A b \in Actors : Busy(b)' => Busy(b)
    BY <1>0, <1>4 DEF Busy
  <2> QED BY <1>4, <2>1, SingleKept
<1>5. ASSUME NEW r \in Requests, LoseRequest(r) PROVE Single'
  BY <1>0, <1>4, <1>5 DEF LoseRequest
<1>6. ASSUME NEW w \in Workers, CrashWorker(w) PROVE Single'
  BY <1>0, <1>4, <1>6 DEF CrashWorker
<1>7. CASE UNCHANGED vars
  <2>1. row' = row /\ queue' = queue /\ \A a \in Actors : Busy(a)' => Busy(a)
    BY <1>7 DEF vars, Busy
  <2> QED BY <2>1, SingleKept
<1> QED BY <1>1, <1>2, <1>3, <1>5, <1>6, <1>7 DEF Next

ExecutionOK == DispatchOK /\ PayloadOK /\ RefusedOK /\ SingleOK

LEMMA ExecutionInit == Init => Typed /\ ExecutionOK
<1> SUFFICES ASSUME Init PROVE Typed /\ ExecutionOK
    OBVIOUS
<1>1. PayloadOK /\ RefusedOK
  BY ActorsAssumption DEF Init, PayloadOK, RequestOK, Served, Actors, RefusedOK
<1>2. Single
  BY DEF Init, Single, Free, Busy, NoJob, Terminal, Retryable, Delivered, Actors
<1> QED BY <1>1, <1>2, TypedInit, DispatchInit DEF ExecutionOK, SingleOK

LEMMA ExecutionStep == Typed /\ ExecutionOK /\ [Next]_vars => (Typed /\ ExecutionOK)'
<1> SUFFICES ASSUME Typed, ExecutionOK, [Next]_vars PROVE (Typed /\ ExecutionOK)'
    OBVIOUS
<1>1. Typed' /\ DispatchOK'
  BY TypedStep, DispatchStep DEF ExecutionOK
<1>2. PresentOK /\ PayloadOK /\ RefusedOK /\ (Steady => Single)
  BY DEF ExecutionOK, SingleOK, DispatchOK
<1>3. PayloadOK' /\ RefusedOK'
  BY <1>2, PayloadStep, RefusedStep
<1>4. Steady' => Single'
  BY <1>2, SteadyBefore, SingleStep
<1> QED BY <1>1, <1>3, <1>4 DEF ExecutionOK, SingleOK

\* While nobody cancels and no dispatch fails two workers never execute the job
\* at once: execute_job looks at no other execution, and the dispatch of one
\* message per attempt after the end of the one before is all that prevents it.
THEOREM ExecutedByOne == Spec => []OneExecution
<1>1. Typed /\ ExecutionOK => OneExecution
  <2> SUFFICES ASSUME Typed, ExecutionOK, Undisturbed,
                      NEW v \in Workers, NEW w \in Workers, Executing(v), Executing(w)
               PROVE  v = w
    BY DEF OneExecution
  <2>1. Single
    BY DEF ExecutionOK, SingleOK, Undisturbed, Steady
  <2>2. Busy(v) /\ Busy(w)
    BY DEF Executing, Busy
  <2> QED BY <2>1, <2>2 DEF Single, Actors
<1> QED BY <1>1, ExecutionInit, ExecutionStep, PTL DEF Spec

\* While nobody cancels and no dispatch fails the terminal status of an attempt
\* is its last (TERMINAL_JOB_STATUSES of store/models.py).
THEOREM TerminalStays == Spec => TerminalIsFinal
<1>1. Typed /\ ExecutionOK /\ [Next]_vars =>
        [Undisturbed /\ row.status \in Terminal /\ row'.attempt = row.attempt
           => row'.status = row.status]_vars
  <2> SUFFICES ASSUME Typed, ExecutionOK, [Next]_vars, Undisturbed,
                      row.status \in Terminal, row'.attempt = row.attempt
               PROVE  row'.status = row.status
    OBVIOUS
  <2>0. /\ Free /\ row \in Rows /\ PayloadOK
        /\ \A r \in Requests : pc[r] # "refail" /\ call[r] # "cancel"
    BY DEF ExecutionOK, SingleOK, Undisturbed, Steady, Single, Typed, TypeOK
  <2>1. ASSUME NEW r \in Requests, Submit(r) \/ Handle(r) PROVE row'.status = row.status
    <3>1. ASSUME NEW p \in Prints, NEW b \in BOOLEAN, Create(r, p, b) PROVE row' = row
      BY <3>1 DEF Create, Terminal, Retryable, Delivered
    <3>2. ~ Refail(r) /\ ~ CancelQueued(r) /\ ~ CancelFlag(r) /\ ~ Report(r)
      BY <2>0 DEF Refail, CancelQueued, CancelFlag, Report, PayloadOK, RequestOK, Free, Busy,
         Actors
    <3>3. ~ Requeue(r)
      <4>1. ASSUME Requeue(r) PROVE row'.attempt = row.attempt + 1
        BY <2>0, <4>1, RequeuedRow DEF Requeue
      <4> QED BY <2>0, <4>1 DEF Rows
    <3>4. CASE Duplicate(r)
      BY <2>0, <3>4, MarkDuplicateRow DEF Duplicate
    <3>5. CASE \/ RetryRead(r) \/ CancelRead(r) \/ RequeueLost(r) \/ Manifest(r) \/ Enqueue(r)
               \/ DispatchFailed(r) \/ Reread(r) \/ CloseDispatch(r)
      BY <3>5 DEF RetryRead, CancelRead, RequeueLost, Manifest, Enqueue, DispatchFailed,
         Reread, CloseDispatch
    <3> QED BY <2>1, <3>1, <3>2, <3>3, <3>4, <3>5 DEF Submit, Handle
  <2>2. ASSUME NEW w \in Workers, Work(w) PROVE row' = row
    BY <2>0, <2>2
       DEF Work, Take, Load, Open, Start, PreCheck, NodeCheck, CheckCancel, NodeWrite, Persist,
           Abort, Report, Reread, CloseExecution, Free, Busy, Actors
  <2>3. CASE \/ \E r \in Requests : LoseRequest(r)
             \/ \E w \in Workers : CrashWorker(w)
             \/ UNCHANGED vars
    BY <2>3 DEF LoseRequest, CrashWorker, vars
  <2> QED BY <2>1, <2>2, <2>3 DEF Next
<1> QED BY <1>1, ExecutionInit, ExecutionStep, PTL DEF Spec, TerminalIsFinal

----------------------------------------------------------------------------
(* The system is a client of the job store.                                *)

\* The contract speaks of rows in the same words.
LEMMA SameWords ==
    /\ Store!NoJob = NoJob
    /\ Store!Writable = {"PROCESSING"} \cup Terminal
    /\ \A p : Store!NewJob(p) = NewJob(p)
    /\ \A r, s : Store!SetStatus(r, s) = SetStatus(r, s)
    /\ \A r : Store!RequestCancel(r) = RequestCancel(r)
    /\ \A r : Store!Requeued(r) = Requeued(r)
    /\ \A r, p : Store!CanRequeue(r, p) <=> CanRequeue(r, p)
<1>1. Store!NoJob = NoJob /\ \A p : Store!NewJob(p) = NewJob(p)
  BY DEF Store!NoJob, NoJob, Store!NoPrint, NoPrint, Store!NewJob, NewJob
<1>2. Store!Terminal = Terminal /\ Store!Retryable = Retryable
  BY DEF Store!Terminal, Store!Retryable, Store!Delivered, Terminal, Retryable, Delivered
<1>3. Store!Writable = {"PROCESSING"} \cup Terminal
  BY <1>2 DEF Store!Writable
<1>4. \A r, s : Store!SetStatus(r, s) = SetStatus(r, s)
  BY DEF Store!SetStatus, SetStatus
<1>5. \A r : /\ Store!RequestCancel(r) = RequestCancel(r)
             /\ Store!Requeued(r) = Requeued(r)
  BY DEF Store!RequestCancel, RequestCancel, Store!Requeued, Requeued
<1>6. \A r, p : Store!CanRequeue(r, p) <=> CanRequeue(r, p)
  BY <1>2 DEF Store!CanRequeue, CanRequeue, Store!Matches, Matches
<1> QED BY <1>1, <1>3, <1>4, <1>5, <1>6

\* Leaving the count out commutes with the calls and hides mark_duplicate.
LEMMA CountLeftOut ==
    ASSUME NEW r \in Rows
    PROVE  /\ [r EXCEPT !.dups = 0].status = r.status
           /\ [r EXCEPT !.dups = 0].attempt = r.attempt
           /\ [MarkDuplicate(r) EXCEPT !.dups = 0] = [r EXCEPT !.dups = 0]
           /\ \A s : [SetStatus(r, s) EXCEPT !.dups = 0]
                     = SetStatus([r EXCEPT !.dups = 0], s)
           /\ [RequestCancel(r) EXCEPT !.dups = 0]
                     = RequestCancel([r EXCEPT !.dups = 0])
           /\ [Requeued(r) EXCEPT !.dups = 0] = Requeued([r EXCEPT !.dups = 0])
           /\ \A p : CanRequeue(r, p) <=> CanRequeue([r EXCEPT !.dups = 0], p)
<1>1. [MarkDuplicate(r) EXCEPT !.dups = 0] = [r EXCEPT !.dups = 0]
  <2>1. PICK n \in Nat : MarkDuplicate(r) = [r EXCEPT !.dups = n]
    BY DEF MarkDuplicate, Rows
  <2> QED BY <2>1 DEF Rows
<1>2. /\ [r EXCEPT !.dups = 0].status = r.status
      /\ [r EXCEPT !.dups = 0].attempt = r.attempt
      /\ \A p : CanRequeue(r, p) <=> CanRequeue([r EXCEPT !.dups = 0], p)
  BY DEF Rows, CanRequeue, Matches
<1>3. \A s : [SetStatus(r, s) EXCEPT !.dups = 0] = SetStatus([r EXCEPT !.dups = 0], s)
  BY DEF Rows, SetStatus
<1>4. [RequestCancel(r) EXCEPT !.dups = 0] = RequestCancel([r EXCEPT !.dups = 0])
  BY DEF Rows, RequestCancel
<1>5. [Requeued(r) EXCEPT !.dups = 0] = Requeued([r EXCEPT !.dups = 0])
  <2>1. ASSUME NEW n
        PROVE  [[r EXCEPT !.status = "QUEUED", !.attempt = n, !.cancel = FALSE] EXCEPT !.dups = 0]
             = [[r EXCEPT !.dups = 0] EXCEPT !.status = "QUEUED", !.attempt = n, !.cancel = FALSE]
    BY DEF Rows
  <2>2. PICK n : n = r.attempt + 1
    OBVIOUS
  <2>3. Requeued(r) = [r EXCEPT !.status = "QUEUED", !.attempt = n, !.cancel = FALSE]
    BY <2>2, Zenon DEF Requeued
  <2>4. Requeued([r EXCEPT !.dups = 0])
        = [[r EXCEPT !.dups = 0] EXCEPT !.status = "QUEUED", !.attempt = n, !.cancel = FALSE]
    BY <1>2, <2>2, Zenon DEF Requeued
  <2> QED BY <2>1, <2>3, <2>4, Zenon
<1> QED BY <1>1, <1>2, <1>3, <1>4, <1>5

\* Where nothing was counted yet, nothing is left out.
LEMMA NothingCounted ==
    /\ [NoJob EXCEPT !.dups = 0] = NoJob
    /\ \A p : [NewJob(p) EXCEPT !.dups = 0] = NewJob(p)
<1>1. ASSUME NEW st, NEW n, NEW cancel, NEW p
      PROVE  LET r == [status |-> st, attempt |-> n, cancel |-> cancel,
                       print |-> p, dups |-> 0]
             IN  [r EXCEPT !.dups = 0] = r
    OBVIOUS
<1> QED BY <1>1 DEF NoJob, NewJob

\* A missing row is the empty one, a present row carries a real fingerprint.
StoredOK == IF row.status = "ABSENT" THEN row = NoJob ELSE row.print \in Prints

\* What a step of the system does to the row: nothing, or one call of the store.
StoreCall ==
    \/ row' = row
    \/ \E p \in Prints : row.status = "ABSENT" /\ row' = NewJob(p)
    \/ CanRequeue(row, row.print) /\ row.attempt < MaxAttempts /\ row' = Requeued(row)
    \/ /\ row.status # "ABSENT"
       /\ \/ row' = MarkDuplicate(row)
          \/ row' = RequestCancel(row)
          \/ \E s \in {"PROCESSING"} \cup Terminal : row' = SetStatus(row, s)

LEMMA StepCallsStore == Typed /\ PresentOK /\ [Next]_vars => StoreCall
<1> SUFFICES ASSUME Typed, PresentOK, [Next]_vars PROVE StoreCall
    OBVIOUS
<1>0. \A a \in Actors : pc[a] \notin Quiet => row.status # "ABSENT"
  BY DEF PresentOK
<1>1. "FAILED" \in Terminal /\ "CANCELLED" \in Terminal
  BY DEF Terminal, Retryable
<1>2. ASSUME NEW a \in Actors, Report(a) PROVE StoreCall
  <2>1. fin[a] \in Terminal
    BY <1>2 DEF Report, Typed, StageOK
  <2> QED BY <1>0, <1>2, <2>1 DEF Report, StoreCall, Quiet
<1>3. ASSUME NEW r \in Requests, Submit(r) \/ Handle(r) PROVE StoreCall
  <2>0. r \in Actors
    BY DEF Actors
  <2>1. ASSUME NEW p \in Prints, NEW b \in BOOLEAN, Create(r, p, b) PROVE StoreCall
    BY <2>1 DEF Create, StoreCall
  <2>2. CASE Requeue(r)
    BY <2>2 DEF Requeue, StoreCall, CanRequeue, Matches
  <2>3. CASE Duplicate(r) \/ Refail(r) \/ CancelFlag(r) \/ CancelQueued(r)
    BY <1>0, <1>1, <2>0, <2>3
       DEF Duplicate, Refail, CancelFlag, CancelQueued, StoreCall, Quiet
  <2>4. CASE \/ RetryRead(r) \/ CancelRead(r) \/ RequeueLost(r) \/ Manifest(r) \/ Enqueue(r)
             \/ DispatchFailed(r) \/ Reread(r) \/ CloseDispatch(r)
    BY <2>4 DEF RetryRead, CancelRead, RequeueLost, Manifest, Enqueue, DispatchFailed, Reread,
       CloseDispatch, StoreCall
  <2> QED BY <1>2, <1>3, <2>0, <2>1, <2>2, <2>3, <2>4 DEF Submit, Handle
<1>4. ASSUME NEW w \in Workers, Work(w) PROVE StoreCall
  <2>0. w \in Actors
    BY DEF Actors
  <2>1. CASE Start(w) \/ NodeWrite(w)
    BY <1>0, <2>0, <2>1 DEF Start, NodeWrite, StoreCall, Quiet
  <2>2. CASE \/ Take(w) \/ Load(w) \/ Open(w) \/ PreCheck(w) \/ NodeCheck(w) \/ Persist(w)
             \/ Abort(w) \/ Reread(w) \/ CloseExecution(w)
    BY <2>2 DEF Take, Load, Open, PreCheck, NodeCheck, CheckCancel, Persist, Abort, Reread,
       CloseExecution, StoreCall
  <2> QED BY <1>2, <1>4, <2>0, <2>1, <2>2 DEF Work
<1>5. CASE \/ \E r \in Requests : LoseRequest(r)
           \/ \E w \in Workers : CrashWorker(w)
           \/ UNCHANGED vars
  BY <1>5 DEF LoseRequest, CrashWorker, vars, StoreCall
<1> QED BY <1>3, <1>4, <1>5 DEF Next

LEMMA StoredStep == row \in Rows /\ StoredOK /\ StoreCall => StoredOK'
<1> SUFFICES ASSUME row \in Rows, StoredOK, StoreCall PROVE StoredOK'
    OBVIOUS
<1>1. CASE row' = row
  BY <1>1 DEF StoredOK
<1>2. ASSUME NEW p \in Prints, row' = NewJob(p) PROVE StoredOK'
  BY <1>2, CreatedRow DEF StoredOK
<1>3. CASE CanRequeue(row, row.print) /\ row.attempt < MaxAttempts /\ row' = Requeued(row)
  <2>1. row.status # "ABSENT"
    BY <1>3 DEF CanRequeue, Retryable
  <2> QED BY <1>3, <2>1, RequeuedRow DEF StoredOK
<1>4. CASE row.status # "ABSENT" /\ (row' = MarkDuplicate(row) \/ row' = RequestCancel(row))
  BY <1>4, MarkDuplicateRow, RequestCancelRow DEF StoredOK
<1>5. ASSUME row.status # "ABSENT", NEW s \in {"PROCESSING"} \cup Terminal,
             row' = SetStatus(row, s)
      PROVE  StoredOK'
  <2>1. s \in Statuses
    BY DEF Statuses, Active
  <2> QED BY <1>5, <2>1, SetStatusRow DEF StoredOK, Terminal, Retryable, Delivered
<1> QED BY <1>1, <1>2, <1>3, <1>4, <1>5 DEF StoreCall

\* With the count left out a call of the store is a step of the contract.
LEMMA StoreStep ==
    row \in Rows /\ StoredOK /\ StoreCall => [Store!Next]_([row EXCEPT !.dups = 0])
<1> SUFFICES ASSUME row \in Rows, StoredOK, StoreCall
             PROVE  [Store!Next]_([row EXCEPT !.dups = 0])
    OBVIOUS
<1> DEFINE seen == [row EXCEPT !.dups = 0]
<1>0. row.status # "ABSENT" => Store!Present
  BY CountLeftOut, SameWords DEF Store!Present, NoJob
<1>1. CASE row' = row
  BY <1>1
<1>2. ASSUME NEW p \in Prints, row.status = "ABSENT", row' = NewJob(p)
      PROVE  Store!Insert(p)
  <2>1. seen = NoJob /\ seen' = NewJob(p)
    BY <1>2, NothingCounted DEF StoredOK
  <2> QED BY <2>1, SameWords DEF Store!Insert, Store!Present
<1>3. ASSUME CanRequeue(row, row.print), row.attempt < MaxAttempts, row' = Requeued(row)
      PROVE  \E p \in Prints : Store!Reopen(p)
  <2>1. row.print \in Prints
    BY <1>3 DEF StoredOK, CanRequeue, Retryable
  <2>2. CanRequeue(seen, row.print) /\ seen.attempt < MaxAttempts /\ seen' = Requeued(seen)
    BY <1>3, CountLeftOut
  <2> QED BY <2>1, <2>2, SameWords DEF Store!Reopen
<1>4. CASE row' = MarkDuplicate(row)
  BY <1>4, CountLeftOut
<1>5. ASSUME row.status # "ABSENT", row' = RequestCancel(row)
      PROVE  Store!Present /\ seen' = Store!RequestCancel(seen)
  BY <1>0, <1>5, CountLeftOut, SameWords
<1>6. ASSUME row.status # "ABSENT", NEW s \in {"PROCESSING"} \cup Terminal,
             row' = SetStatus(row, s)
      PROVE  s \in Store!Writable /\ Store!Present /\ seen' = Store!SetStatus(seen, s)
  BY <1>0, <1>6, CountLeftOut, SameWords
<1> QED BY <1>1, <1>2, <1>3, <1>4, <1>5, <1>6 DEF StoreCall, Store!Next

\* Whatever handlers, workers and crashes do, the row changes by one call of the
\* job store at a time: the interface PgJobStore implements is all that is used.
THEOREM CallsTheStore == Spec => StoreSpec
<1>1. Init => Store!Init /\ StoredOK
  BY SameWords, NothingCounted DEF Init, Store!Init, StoredOK, NoJob
<1>2. Typed /\ DispatchOK /\ StoredOK /\ [Next]_vars =>
        /\ (Typed /\ DispatchOK /\ StoredOK)'
        /\ [Store!Next]_([row EXCEPT !.dups = 0])
  <2> SUFFICES ASSUME Typed, DispatchOK, StoredOK, [Next]_vars
               PROVE  /\ (Typed /\ DispatchOK /\ StoredOK)'
                      /\ [Store!Next]_([row EXCEPT !.dups = 0])
    OBVIOUS
  <2>1. Typed' /\ DispatchOK'
    BY TypedStep, DispatchStep
  <2>2. row \in Rows /\ StoreCall
    BY StepCallsStore DEF DispatchOK, Typed, TypeOK
  <2> QED BY <2>1, <2>2, StoredStep, StoreStep
<1> QED BY <1>1, <1>2, TypedInit, DispatchInit, PTL DEF Spec, StoreSpec, Store!Spec

----------------------------------------------------------------------------
(* Progress.                                                               *)

\* A request is never in a stage of a worker.
Handling ==
    \A r \in Requests :
        pc[r] \in {"new", "requeue", "flag", "duplicate", "manifest", "withdraw", "enqueue",
                  "report", "reread", "close", "refail", "answered", "lost"}

LEMMA HandlerRanks ==
    /\ HandlerRank["new"] = 0 /\ HandlerRank["requeue"] = 1 /\ HandlerRank["flag"] = 1
    /\ HandlerRank["duplicate"] = 2 /\ HandlerRank["manifest"] = 2
    /\ HandlerRank["withdraw"] = 2 /\ HandlerRank["enqueue"] = 3
    /\ HandlerRank["report"] = 4 /\ HandlerRank["reread"] = 5 /\ HandlerRank["close"] = 6
    /\ HandlerRank["refail"] = 7 /\ HandlerRank["answered"] = 8 /\ HandlerRank["lost"] = 8
  BY DEF HandlerRank

LEMMA WorkerRanks ==
    /\ WorkerRank["idle"] = 0 /\ WorkerRank["load"] = 1 /\ WorkerRank["open"] = 2
    /\ WorkerRank["start"] = 3 /\ WorkerRank["precheck"] = 4 /\ WorkerRank["run"] = 5
    /\ WorkerRank["write"] = 6 /\ WorkerRank["report"] = 7 /\ WorkerRank["reread"] = 8
    /\ WorkerRank["close"] = 9
  BY DEF WorkerRank

\* A handler that has begun comes closer to its answer.
LEMMA HandlerAdvances ==
    ASSUME TypeOK, Handling, NEW r \in Requests,
           Submit(r) \/ Handle(r) \/ LoseRequest(r)
    PROVE  /\ \A b \in Actors \ {r} : pc'[b] = pc[b]
           /\ HandlerRank[pc[r]] < HandlerRank[pc'[r]]
           /\ Handling'
<1> DEFINE Goes(from, to) == pc[r] \in from /\ \E v \in to : pc' = [pc EXCEPT ![r] = v]
<1>0. r \in Actors /\ pc \in [Actors -> Stages]
  BY DEF Actors, TypeOK
<1>a. ASSUME NEW v \in {"requeue", "flag", "duplicate", "manifest", "withdraw", "enqueue",
                        "report", "reread", "close", "refail", "answered", "lost"},
             pc' = [pc EXCEPT ![r] = v], HandlerRank[pc[r]] < HandlerRank[v]
      PROVE  /\ \A b \in Actors \ {r} : pc'[b] = pc[b]
             /\ HandlerRank[pc[r]] < HandlerRank[pc'[r]]
             /\ Handling'
  <2>1. pc'[r] = v /\ \A b \in Actors \ {r} : pc'[b] = pc[b]
    BY <1>0, <1>a
  <2>2. \A q \in Requests : q = r \/ q \in Actors \ {r}
    BY DEF Actors
  <2> QED BY <1>a, <2>1, <2>2 DEF Handling
<1>1. CASE Submit(r)
  <2>1. Goes({"new"}, {"requeue", "duplicate", "manifest", "answered", "flag"})
    BY <1>1, Zenon DEF Submit, Create, Existing, RetryRead, CancelRead, Goto
  <2>2. PICK v \in {"requeue", "duplicate", "manifest", "answered", "flag"} :
            pc[r] = "new" /\ pc' = [pc EXCEPT ![r] = v]
    BY <2>1
  <2>3. HandlerRank[pc[r]] < HandlerRank[v]
    BY <2>2, HandlerRanks
  <2> QED BY <1>a, <2>2, <2>3
<1>2. CASE Duplicate(r) \/ Requeue(r) \/ RequeueLost(r)
  <2>1. \/ Goes({"duplicate"}, {"answered"})
        \/ Goes({"requeue"}, {"manifest", "enqueue", "duplicate", "answered"})
    BY <1>2 DEF Duplicate, Requeue, RequeueLost, Goto
  <2> QED BY <1>a, <2>1, HandlerRanks DEF Handling
<1>3. CASE Manifest(r) \/ Enqueue(r) \/ DispatchFailed(r) \/ Refail(r)
  <2>1. \/ Goes({"manifest"}, {"enqueue", "refail"})
        \/ Goes({"enqueue"}, {"answered", "report"})
        \/ Goes({"refail"}, {"answered"})
    BY <1>3 DEF Manifest, Enqueue, DispatchFailed, Refail, Goto
  <2> QED BY <1>a, <2>1, HandlerRanks DEF Handling
<1>4. CASE CancelFlag(r) \/ CancelQueued(r)
  <2>1. Goes({"flag"}, {"withdraw", "answered"}) \/ Goes({"withdraw"}, {"answered"})
    BY <1>4 DEF CancelFlag, CancelQueued, Goto
  <2> QED BY <1>a, <2>1, HandlerRanks DEF Handling
<1>5. CASE Report(r) \/ Reread(r) \/ CloseDispatch(r)
  <2>1. \/ Goes({"report"}, {"reread"}) \/ Goes({"reread"}, {"close"})
        \/ Goes({"close"}, {"refail", "answered"})
    BY <1>5 DEF Report, Reread, CloseDispatch, Close, Goto
  <2> QED BY <1>a, <2>1, HandlerRanks DEF Handling
<1>6. CASE LoseRequest(r)
  <2>1. pc[r] \notin {"new", "answered", "lost", "idle"} /\ pc' = [pc EXCEPT ![r] = "lost"]
    BY <1>6 DEF LoseRequest, CanCrash, Goto
  <2> QED BY <1>a, <2>1, HandlerRanks DEF Handling
<1> QED BY <1>1, <1>2, <1>3, <1>4, <1>5, <1>6 DEF Handle

\* A worker takes a message, gets on with its execution or ends it.
LEMMA WorkerAdvances ==
    ASSUME Typed, NEW w \in Workers, Work(w) \/ CrashWorker(w)
    PROVE  /\ \A b \in Actors \ {w} : pc'[b] = pc[b]
           /\ \/ pc[w] = "idle" /\ queue = <<at'[w]>> \o queue'
              \/ pc'[w] = "idle" /\ pc[w] # "idle" /\ queue' = queue
              \/ /\ queue' = queue
                 /\ Worked(w) < Worked(w)' /\ Worked(w)' <= 9 + 2 * MaxNodes
<1>0. /\ w \in Actors /\ pc \in [Actors -> Stages] /\ MaxNodes \in Nat
      /\ node \in [Workers -> 0 .. MaxNodes] /\ node[w] \in Nat /\ node[w] <= MaxNodes
  BY BoundsAssumption DEF Actors, Typed, TypeOK
<1>1. CASE Take(w)
  <2>1. /\ pc[w] = "idle" /\ pc' = [pc EXCEPT ![w] = "load"]
        /\ queue # <<>> /\ queue' = Tail(queue) /\ at' = [at EXCEPT ![w] = Head(queue)]
    BY <1>1 DEF Take, Goto
  <2>2. at'[w] = Head(queue) /\ queue \in Seq(Attempts)
    BY <1>0, <2>1 DEF Typed, TypeOK
  <2>3. queue = <<Head(queue)>> \o Tail(queue)
    BY <2>1, <2>2
  <2> QED BY <1>0, <2>1, <2>2, <2>3
<1>2. ASSUME pc[w] # "idle", pc' = [pc EXCEPT ![w] = "idle"], queue' = queue
      PROVE  /\ \A b \in Actors \ {w} : pc'[b] = pc[b]
             /\ pc'[w] = "idle" /\ pc[w] # "idle" /\ queue' = queue
  BY <1>0, <1>2
<1>3. CASE CloseExecution(w) \/ CrashWorker(w)
  BY <1>2, <1>3 DEF CloseExecution, Close, CrashWorker, CanCrash, Goto
<1>4. CASE Load(w) \/ Open(w) \/ Start(w)
  <2>1. /\ queue' = queue /\ node' = node
        /\ \/ pc[w] = "load" /\ pc' = [pc EXCEPT ![w] = "open"]
           \/ pc[w] = "open" /\ pc' = [pc EXCEPT ![w] = "start"]
           \/ pc[w] = "start" /\ pc' = [pc EXCEPT ![w] = "precheck"]
    BY <1>4 DEF Load, Open, Start, Goto, workerVars
  <2>2. CASE pc[w] = "load" /\ pc' = [pc EXCEPT ![w] = "open"]
    <3>1. pc'[w] = "open" /\ \A b \in Actors \ {w} : pc'[b] = pc[b]
      BY <1>0, <2>2
    <3>2. Worked(w) = 1 /\ Worked(w)' = 2
      BY <2>2, <3>1, WorkerRanks DEF Worked
    <3> QED BY <1>0, <2>1, <3>1, <3>2
  <2>3. CASE pc[w] = "open" /\ pc' = [pc EXCEPT ![w] = "start"]
    <3>1. pc'[w] = "start" /\ \A b \in Actors \ {w} : pc'[b] = pc[b]
      BY <1>0, <2>3
    <3>2. Worked(w) = 2 /\ Worked(w)' = 3
      BY <2>3, <3>1, WorkerRanks DEF Worked
    <3> QED BY <1>0, <2>1, <3>1, <3>2
  <2>4. CASE pc[w] = "start" /\ pc' = [pc EXCEPT ![w] = "precheck"]
    <3>1. pc'[w] = "precheck" /\ \A b \in Actors \ {w} : pc'[b] = pc[b]
      BY <1>0, <2>4
    <3>2. Worked(w) = 3 /\ Worked(w)' = 4
      BY <2>4, <3>1, WorkerRanks DEF Worked
    <3> QED BY <1>0, <2>1, <3>1, <3>2
  <2> QED BY <2>1, <2>2, <2>3, <2>4
<1>5. CASE PreCheck(w) \/ NodeCheck(w)
  <2>1. /\ queue' = queue /\ node' = node
        /\ \/ pc[w] = "precheck" /\ pc' = [pc EXCEPT ![w] = "run"]
           \/ pc[w] = "precheck" /\ pc' = [pc EXCEPT ![w] = "report"]
           \/ pc[w] = "run" /\ pc' = [pc EXCEPT ![w] = "write"] /\ node[w] < MaxNodes
           \/ pc[w] = "run" /\ pc' = [pc EXCEPT ![w] = "report"]
    BY <1>5 DEF PreCheck, NodeCheck, CheckCancel, Goto, workerVars
  <2> QED BY <1>0, <2>1 DEF Worked, WorkerRank
<1>6. CASE NodeWrite(w)
  <2>1. /\ queue' = queue /\ node' = [node EXCEPT ![w] = node[w] + 1]
        /\ pc[w] = "write" /\ pc' = [pc EXCEPT ![w] = "run"] /\ node[w] < MaxNodes
    BY <1>6 DEF NodeWrite, Goto, Typed, StageOK
  <2>2. node'[w] = node[w] + 1 /\ pc'[w] = "run"
    BY <1>0, <2>1
  <2>3. Worked(w) = 6 + 2 * node[w] /\ Worked(w)' = 5 + 2 * node'[w]
    BY <1>0, <2>1, <2>2 DEF Worked, WorkerRank
  <2> QED BY <1>0, <2>1, <2>2, <2>3
<1>7. CASE Persist(w) \/ Abort(w)
  <2>1. /\ queue' = queue /\ node' = node
        /\ pc[w] \in {"load", "run", "write"} /\ pc' = [pc EXCEPT ![w] = "report"]
    BY <1>7 DEF Persist, Abort, Goto, workerVars
  <2> QED BY <1>0, <2>1 DEF Worked, WorkerRank
<1>8. CASE Report(w) \/ Reread(w)
  <2>1. /\ queue' = queue /\ node' = node
        /\ \/ pc[w] = "report" /\ pc' = [pc EXCEPT ![w] = "reread"]
           \/ pc[w] = "reread" /\ pc' = [pc EXCEPT ![w] = "close"]
    BY <1>8 DEF Report, Reread, Goto, workerVars
  <2> QED BY <1>0, <2>1 DEF Worked, WorkerRank
<1> QED BY <1>1, <1>3, <1>4, <1>5, <1>6, <1>7, <1>8 DEF Work

\* For any number of handlers and workers: a step brings one handler closer to its
\* answer, or one worker closer to the end of what is in the queue.
THEOREM StepsAdvance == Spec => EveryStepAdvances
<1>1. Init => Handling
  BY ActorsAssumption DEF Init, Handling, Actors
<1>2. Typed /\ Handling /\ [Next]_vars =>
        /\ Handling'
        /\ [\E a \in Actors :
              /\ \A b \in Actors \ {a} : pc'[b] = pc[b]
              /\ \/ a \in Requests /\ HandlerRank[pc[a]] < HandlerRank[pc'[a]]
                 \/ a \in Workers /\ pc[a] = "idle" /\ queue = <<at'[a]>> \o queue'
                 \/ a \in Workers /\ pc'[a] = "idle" /\ pc[a] # "idle" /\ queue' = queue
                 \/ /\ a \in Workers /\ queue' = queue
                    /\ Worked(a) < Worked(a)' /\ Worked(a)' <= 9 + 2 * MaxNodes]_vars
  <2>1. ASSUME Typed, Handling, NEW r \in Requests, Submit(r) \/ Handle(r) \/ LoseRequest(r)
        PROVE  /\ Handling'
               /\ \A b \in Actors \ {r} : pc'[b] = pc[b]
               /\ r \in Actors /\ HandlerRank[pc[r]] < HandlerRank[pc'[r]]
    BY <2>1, HandlerAdvances DEF Typed, Actors
  <2>2. ASSUME Typed, Handling, NEW w \in Workers, Work(w) \/ CrashWorker(w)
        PROVE  /\ Handling' /\ w \in Actors
               /\ \A b \in Actors \ {w} : pc'[b] = pc[b]
               /\ \/ pc[w] = "idle" /\ queue = <<at'[w]>> \o queue'
                  \/ pc'[w] = "idle" /\ pc[w] # "idle" /\ queue' = queue
                  \/ /\ queue' = queue
                     /\ Worked(w) < Worked(w)' /\ Worked(w)' <= 9 + 2 * MaxNodes
    <3>1. \A r \in Requests : r \in Actors \ {w}
      BY ActorsAssumption DEF Actors
    <3>2. \A b \in Actors \ {w} : pc'[b] = pc[b]
      BY <2>2, WorkerAdvances
    <3>3. Handling'
      BY <2>2, <3>1, <3>2 DEF Handling
    <3> QED BY <2>2, <3>3, WorkerAdvances DEF Actors
  <2>3. Handling /\ UNCHANGED vars => Handling'
    BY DEF Handling, vars
  <2> QED BY <2>1, <2>2, <2>3 DEF Next
<1> QED BY <1>1, <1>2, TypedInit, TypedStep, PTL DEF Spec, EveryStepAdvances
=============================================================================
