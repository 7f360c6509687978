------------------------------- MODULE JobRow -------------------------------
(***************************************************************************)
(* The ai_jobs row of one job and what the calls of the job store do to    *)
(* it, each as store/memory.py does it under its lock.                     *)
(***************************************************************************)
EXTENDS Naturals

(* Statuses of store/models.py; ABSENT stands for a job id without a row.  *)

Active == {"QUEUED", "PROCESSING"}
Retryable == {"FAILED", "CANCELLED"}
Delivered == {"COMPLETED", "PARTIAL", "REJECTED"}
Terminal == Retryable \cup Delivered
Statuses == Active \cup Terminal

----------------------------------------------------------------------------
(* The row operations of the job store.                                    *)

NoPrint == "none"

NoJob == [status |-> "ABSENT", attempt |-> 0, cancel |-> FALSE,
          print |-> NoPrint, dups |-> 0]

NewJob(p) == [status |-> "QUEUED", attempt |-> 1, cancel |-> FALSE,
              print |-> p, dups |-> 0]

\* Faulty variant of Matches: the fingerprint is not compared.
MatchesAnything(r, p) == TRUE

Matches(r, p) == r.print = p

\* set_status writes whatever it is given: no status is guarded.
SetStatus(r, s) == [r EXCEPT !.status = s]

\* Faulty variants: the status is not checked again under the lock; a retry
\* requeues the job without opening a new attempt.
CanRequeueAnyStatus(r, p) == Matches(r, p)
RequeuedSameAttempt(r) == [r EXCEPT !.status = "QUEUED", !.cancel = FALSE]

\* try_requeue_for_retry: the check and the write are one critical section.
CanRequeue(r, p) == r.status \in Retryable /\ Matches(r, p)

Requeued(r) ==
    [r EXCEPT !.status = "QUEUED", !.attempt = r.attempt + 1, !.cancel = FALSE]

RequestCancel(r) == [r EXCEPT !.cancel = TRUE]

MarkDuplicate(r) == [r EXCEPT !.dups = @ + 1]
=============================================================================
