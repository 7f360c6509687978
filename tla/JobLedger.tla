------------------------------ MODULE JobLedger ------------------------------
(***************************************************************************)
(* What the job service promises about one job id, whoever calls and       *)
(* whatever fails: a job is created once, an attempt is opened only from a *)
(* retryable status and has the next number, QUEUED is entered in no other *)
(* way, a job never disappears, and a message is sent at most once for     *)
(* each attempt that was opened. Which status is reported after that, and  *)
(* how often, it does not promise.                                         *)
(***************************************************************************)
EXTENDS Naturals

CONSTANT MaxAttempts

LedgerRetryable == {"FAILED", "CANCELLED"}
Reportable == {"PROCESSING", "COMPLETED", "PARTIAL", "REJECTED"} \cup LedgerRetryable

VARIABLES status, attempt, sent

ledgerVars == <<status, attempt, sent>>

Init ==
    /\ status = "ABSENT"
    /\ attempt = 0
    /\ sent = [k \in 1 .. MaxAttempts |-> 0]

CreateJob ==
    /\ status = "ABSENT"
    /\ status' = "QUEUED" /\ attempt' = 1
    /\ UNCHANGED sent

OpenAttempt ==
    /\ status \in LedgerRetryable /\ attempt < MaxAttempts
    /\ status' = "QUEUED" /\ attempt' = attempt + 1
    /\ UNCHANGED sent

SendMessage(k) ==
    /\ k <= attempt /\ sent[k] = 0
    /\ sent' = [sent EXCEPT ![k] = 1]
    /\ UNCHANGED <<status, attempt>>

ReportStatus(s) ==
    /\ status # "ABSENT"
    /\ status' = s
    /\ UNCHANGED <<attempt, sent>>

Next ==
    \/ CreateJob
    \/ OpenAttempt
    \/ \E k \in 1 .. MaxAttempts : SendMessage(k)
    \/ \E s \in Reportable : ReportStatus(s)

Spec == Init /\ [][Next]_ledgerVars
=============================================================================
