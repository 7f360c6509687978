------------------------------ MODULE PgJobStore ------------------------------
(***************************************************************************)
(* The Postgres repository of jobs: every call is a transaction at READ    *)
(* COMMITTED, and most calls load the row, change the copy and let the     *)
(* session write what changed, without a lock in between. A step is a      *)
(* statement; statements of several handlers and workers interleave. An    *)
(* UPDATE and its COMMIT are one step: until the commit nobody sees it.    *)
(***************************************************************************)
EXTENDS JobRow

CONSTANTS
    Clients,        \* sessions of handlers and workers
    Prints,         \* request fingerprints
    MaxAttempts,    \* bound on attempt_number
    MaxDuplicates   \* bound on repeated submissions

ASSUME BoundsAssumption == MaxAttempts \in Nat \ {0} /\ MaxDuplicates \in Nat

NoClient == "nobody"
ASSUME ClientsAssumption == NoClient \notin Clients

VARIABLES
    row,      \* the committed row
    lock,     \* who holds the row lock of a SELECT ... FOR UPDATE
    call,     \* the call a session is in, and its argument
    copy,     \* the row as the session loaded it
    won,      \* history: calls that were told to dispatch an attempt
    repeats   \* history: calls of mark_duplicate that returned

vars == <<row, lock, call, copy, won, repeats>>

Present == row # NoJob

\* Calls that load the row and write it later; set_status is given the status.
NoCall == [op |-> "none", arg |-> "none"]

Writable == {"PROCESSING"} \cup Terminal
Unlocked == [op : {"set_status"}, arg : Writable]
            \cup [op : {"request_cancel", "mark_duplicate"}, arg : {"none"}]
Locked == [op : {"try_requeue"}, arg : Prints]

Init ==
    /\ row = NoJob /\ lock = NoClient
    /\ call = [c \in Clients |-> NoCall]
    /\ copy = [c \in Clients |-> NoJob]
    /\ won = 0 /\ repeats = 0

Begin(c, what) ==
    /\ call[c] = NoCall
    /\ call' = [call EXCEPT ![c] = what]
    /\ copy' = [copy EXCEPT ![c] = row]

Return(c) ==
    /\ call' = [call EXCEPT ![c] = NoCall]
    /\ copy' = [copy EXCEPT ![c] = NoJob]

\* What the body of the call makes of the copy.
Changed(what, r) ==
    CASE what.op = "set_status" -> SetStatus(r, what.arg)
      [] what.op = "request_cancel" -> RequestCancel(r)
      [] what.op = "mark_duplicate" -> MarkDuplicate(r)
      [] what.op = "try_requeue" -> Requeued(r)

\* Faulty variant of Flush: the whole row is written back.
FlushAll(loaded, wanted) == wanted

\* The session writes the columns whose value is not the loaded one.
Flush(loaded, wanted) ==
    [column \in DOMAIN row |->
        IF wanted[column] # loaded[column] THEN wanted[column] ELSE row[column]]

----------------------------------------------------------------------------

\* create_or_get: INSERT ... ON CONFLICT DO NOTHING elects one caller. The
\* others read the row once it is not locked, and nothing changes.
CreateOrGet(c, p) ==
    /\ call[c] = NoCall /\ ~Present
    /\ row' = NewJob(p)
    /\ won' = won + 1
    /\ UNCHANGED <<lock, call, copy, repeats>>

\* get without a lock: the committed row, whoever has it locked.
Load(c, what) ==
    /\ Present /\ Begin(c, what)
    /\ what.op = "mark_duplicate" => row.dups < MaxDuplicates
    /\ UNCHANGED <<row, lock, won, repeats>>

\* The UPDATE waits for the row lock and then applies to the row as it is.
Store(c) ==
    /\ call[c] \in Unlocked /\ lock = NoClient
    /\ row' = Flush(copy[c], Changed(call[c], copy[c]))
    /\ repeats' = IF call[c].op = "mark_duplicate" THEN repeats + 1 ELSE repeats
    /\ Return(c)
    /\ UNCHANGED <<lock, won>>

\* Faulty variant of LockRow: the row is read without FOR UPDATE.
ReadRow(c, p) ==
    /\ Present /\ Begin(c, [op |-> "try_requeue", arg |-> p])
    /\ UNCHANGED <<row, lock, won, repeats>>

LockRow(c, p) ==
    /\ Present /\ lock = NoClient /\ lock' = c
    /\ Begin(c, [op |-> "try_requeue", arg |-> p])
    /\ UNCHANGED <<row, won, repeats>>

\* The check and the write happen under the lock; a failed check ends the
\* transaction without a write.
TryRequeue(c) ==
    /\ call[c] \in Locked
    /\ \/ /\ CanRequeue(copy[c], call[c].arg) /\ copy[c].attempt < MaxAttempts
          /\ row' = Flush(copy[c], Changed(call[c], copy[c]))
          /\ won' = won + 1
       \/ /\ ~CanRequeue(copy[c], call[c].arg)
          /\ UNCHANGED <<row, won>>
    /\ lock' = NoClient /\ Return(c)
    /\ UNCHANGED repeats

\* A connection is lost or a process dies: the transaction is rolled back.
Rollback(c) ==
    /\ call[c] # NoCall
    /\ lock' = IF lock = c THEN NoClient ELSE lock
    /\ Return(c)
    /\ UNCHANGED <<row, won, repeats>>

----------------------------------------------------------------------------

Step(c) ==
    \/ \E p \in Prints : CreateOrGet(c, p) \/ LockRow(c, p)
    \/ \E what \in Unlocked : Load(c, what)
    \/ Store(c) \/ TryRequeue(c) \/ Rollback(c)

Next == \E c \in Clients : Step(c)

Spec == Init /\ [][Next]_vars

----------------------------------------------------------------------------

Rows == [status : Statuses, attempt : 1 .. MaxAttempts, cancel : BOOLEAN,
         print : Prints, dups : Nat]

\* Every variable has its type.
TypeOK ==
    /\ row \in Rows \cup {NoJob}
    /\ lock \in Clients \cup {NoClient}
    /\ call \in [Clients -> {NoCall} \cup Unlocked \cup Locked]
    /\ copy \in [Clients -> Rows \cup {NoJob}]
    /\ won \in Nat /\ repeats \in Nat

\* However creates and requeues overlap, each attempt was given to exactly one
\* caller to dispatch (create_or_get, try_requeue_for_retry).
OneWinnerPerAttempt == won = row.attempt

\* Repeats counted at the same time may be lost, but never all of them, and none
\* is made up, whatever else is written meanwhile (mark_duplicate).
RepeatsAreNoticed == row.dups <= repeats /\ (repeats > 0 => row.dups > 0)

\* Apart from the count the transactions have the effect of atomic calls: no
\* unlocked write undoes a cancel, a status or a requeue it has not seen.
Contract == INSTANCE JobStoreContract WITH row <- [row EXCEPT !.dups = 0]
ContractSpec == Contract!Spec
=============================================================================
