--------------------------- MODULE JobStoreContract ---------------------------
(***************************************************************************)
(* The calls of the job store that write a job's row, each of them atomic: *)
(* what JobLifecycle is built from and every backend has to offer, whatever *)
(* its transactions look like. The count of duplicates is not promised.    *)
(***************************************************************************)
EXTENDS JobRow

CONSTANTS Prints, MaxAttempts

VARIABLE row

Present == row # NoJob

Writable == {"PROCESSING"} \cup Terminal

Init == row = NoJob

Insert(p) == ~Present /\ row' = NewJob(p)

Reopen(p) ==
    /\ CanRequeue(row, p) /\ row.attempt < MaxAttempts
    /\ row' = Requeued(row)

Next ==
    \/ \E p \in Prints : Insert(p) \/ Reopen(p)
    \/ \E s \in Writable : Present /\ row' = SetStatus(row, s)
    \/ Present /\ row' = RequestCancel(row)

Spec == Init /\ [][Next]_row
=============================================================================
