--------------------------- MODULE PgJobStoreProofs ---------------------------
(***************************************************************************)
(* Proofs about PgJobStore for any number of sessions and fingerprints and *)
(* every bound.                                                            *)
(***************************************************************************)
EXTENDS PgJobStore, TLAPS

----------------------------------------------------------------------------
(* What the session writes.                                                *)

\* The columns of a row.
LEMMA Columns ==
    ASSUME NEW r \in Rows
    PROVE  /\ DOMAIN r = {"status", "attempt", "cancel", "print", "dups"}
           /\ r = [status |-> r.status, attempt |-> r.attempt, cancel |-> r.cancel,
                   print |-> r.print, dups |-> r.dups]
  BY DEF Rows

\* A row that exists is not the absence of one.
LEMMA RowIsPresent == ASSUME NEW r \in Rows PROVE r # NoJob
<1>1. r.status \in Statuses
  BY DEF Rows
<1>2. NoJob.status = "ABSENT" /\ "ABSENT" \notin Statuses
  BY DEF NoJob, Statuses, Active, Terminal, Retryable, Delivered
<1> QED BY <1>1, <1>2

\* The rows the calls want, column by column.
LEMMA SetStatusColumns ==
    ASSUME NEW r \in Rows, NEW s
    PROVE  SetStatus(r, s) =
             [status |-> s, attempt |-> r.attempt, cancel |-> r.cancel,
              print |-> r.print, dups |-> r.dups]
  BY DEF Rows, SetStatus

LEMMA CancelColumns ==
    ASSUME NEW r \in Rows
    PROVE  /\ RequestCancel(r) \in Rows
           /\ RequestCancel(r).status = r.status
           /\ RequestCancel(r).attempt = r.attempt
           /\ RequestCancel(r).cancel = TRUE
           /\ RequestCancel(r).print = r.print
           /\ RequestCancel(r).dups = r.dups
  BY DEF Rows, RequestCancel

LEMMA CountColumns ==
    ASSUME NEW r \in Rows, NEW n
    PROVE  [r EXCEPT !.dups = n] =
             [status |-> r.status, attempt |-> r.attempt, cancel |-> r.cancel,
              print |-> r.print, dups |-> n]
  BY DEF Rows

LEMMA RequeueColumns ==
    ASSUME NEW r \in Rows, r.attempt < MaxAttempts
    PROVE  /\ Requeued(r) \in Rows
           /\ Requeued(r).status = "QUEUED"
           /\ Requeued(r).attempt = r.attempt + 1
           /\ Requeued(r).cancel = FALSE
           /\ Requeued(r).print = r.print
           /\ Requeued(r).dups = r.dups
<1>1. PICK n \in 1 .. MaxAttempts : n = r.attempt + 1
  BY BoundsAssumption DEF Rows
<1> QED BY <1>1 DEF Rows, Requeued, Statuses, Active

\* Rows with the same columns are the same.
LEMMA SameColumns ==
    ASSUME NEW r \in Rows, NEW q \in Rows,
           r.status = q.status, r.attempt = q.attempt, r.cancel = q.cancel,
           r.print = q.print, r.dups = q.dups
    PROVE  r = q
  BY Columns

\* A flush takes each column from the copy if the call changed it there, and
\* from the committed row otherwise.
LEMMA FlushColumns ==
    ASSUME row \in Rows, NEW loaded \in Rows, NEW wanted \in Rows
    PROVE  LET r == Flush(loaded, wanted)
           IN  /\ r \in Rows
               /\ r.status  = IF wanted.status # loaded.status
                              THEN wanted.status ELSE row.status
               /\ r.attempt = IF wanted.attempt # loaded.attempt
                              THEN wanted.attempt ELSE row.attempt
               /\ r.cancel  = IF wanted.cancel # loaded.cancel
                              THEN wanted.cancel ELSE row.cancel
               /\ r.print   = IF wanted.print # loaded.print
                              THEN wanted.print ELSE row.print
               /\ r.dups    = IF wanted.dups # loaded.dups
                              THEN wanted.dups ELSE row.dups
<1> DEFINE r == Flush(loaded, wanted)
<1>1. DOMAIN r = {"status", "attempt", "cancel", "print", "dups"}
  BY Columns DEF Flush
<1>2. /\ r.status  = IF wanted.status # loaded.status THEN wanted.status ELSE row.status
      /\ r.attempt = IF wanted.attempt # loaded.attempt THEN wanted.attempt ELSE row.attempt
      /\ r.cancel  = IF wanted.cancel # loaded.cancel THEN wanted.cancel ELSE row.cancel
      /\ r.print   = IF wanted.print # loaded.print THEN wanted.print ELSE row.print
      /\ r.dups    = IF wanted.dups # loaded.dups THEN wanted.dups ELSE row.dups
  BY Columns DEF Flush
<1>3. r = [status |-> r.status, attempt |-> r.attempt, cancel |-> r.cancel,
           print |-> r.print, dups |-> r.dups]
  BY <1>1 DEF Flush
<1>4. /\ r.status \in Statuses /\ r.attempt \in 1 .. MaxAttempts
      /\ r.cancel \in BOOLEAN /\ r.print \in Prints /\ r.dups \in Nat
  BY <1>2 DEF Rows
<1> HIDE DEF r
<1>5. r \in Rows
  BY <1>3, <1>4 DEF Rows
<1> QED BY <1>2, <1>5 DEF r

\* A status written late is either written or was there when the row was loaded.
LEMMA FlushedStatus ==
    ASSUME row \in Rows, NEW loaded \in Rows, NEW s \in Writable
    PROVE  LET r == Flush(loaded, SetStatus(loaded, s))
           IN  r \in Rows /\ (r = row \/ r = SetStatus(row, s))
<1>1. SetStatus(loaded, s) \in Rows
  BY DEF SetStatus, Rows, Writable, Terminal, Statuses, Active
<1>2. CASE s = loaded.status
  <2>1. Flush(loaded, SetStatus(loaded, s)) = row
    BY <1>1, <1>2, FlushColumns, SetStatusColumns, Columns
  <2> QED BY <2>1
<1>3. CASE s # loaded.status
  <2>1. Flush(loaded, SetStatus(loaded, s)) = SetStatus(row, s)
    BY <1>1, <1>3, FlushColumns, SetStatusColumns, Columns
  <2>2. SetStatus(row, s) \in Rows
    BY DEF SetStatus, Rows, Writable, Terminal, Statuses, Active
  <2> QED BY <2>1, <2>2
<1> QED BY <1>2, <1>3

\* So with the cancel flag.
LEMMA FlushedCancel ==
    ASSUME row \in Rows, NEW loaded \in Rows
    PROVE  LET r == Flush(loaded, RequestCancel(loaded))
           IN  r \in Rows /\ (r = row \/ r = RequestCancel(row))
<1> DEFINE wanted == RequestCancel(loaded)
           r == Flush(loaded, wanted)
<1>1. /\ wanted \in Rows /\ wanted.cancel = TRUE
      /\ wanted.status = loaded.status /\ wanted.attempt = loaded.attempt
      /\ wanted.print = loaded.print /\ wanted.dups = loaded.dups
  BY CancelColumns
<1> HIDE DEF wanted
<1>2. /\ r \in Rows
      /\ r.status = row.status /\ r.attempt = row.attempt
      /\ r.print = row.print /\ r.dups = row.dups
  BY <1>1, FlushColumns
<1>3. r.cancel = row.cancel \/ r.cancel = TRUE
  BY <1>1, FlushColumns
<1> HIDE DEF r
<1>4. CASE r.cancel = row.cancel
  BY <1>2, <1>4, SameColumns DEF r, wanted
<1>5. CASE r.cancel = TRUE
  <2>1. r.cancel = RequestCancel(row).cancel
    BY <1>5, CancelColumns, Zenon
  <2>2. /\ r \in Rows /\ RequestCancel(row) \in Rows
        /\ r.status = RequestCancel(row).status
        /\ r.attempt = RequestCancel(row).attempt
        /\ r.print = RequestCancel(row).print
        /\ r.dups = RequestCancel(row).dups
    BY <1>2, CancelColumns
  <2>3. r = RequestCancel(row)
    BY <2>1, <2>2, SameColumns, Zenon
  <2> QED BY <1>2, <2>3 DEF r, wanted
<1> QED BY <1>3, <1>4, <1>5

\* A late count of duplicates touches nothing else.
LEMMA FlushedCount ==
    ASSUME row \in Rows, NEW loaded \in Rows
    PROVE  LET r == Flush(loaded, MarkDuplicate(loaded))
           IN  r \in Rows /\ [r EXCEPT !.dups = 0] = [row EXCEPT !.dups = 0]
                          /\ r.attempt = row.attempt
<1>1. MarkDuplicate(loaded) \in Rows /\ MarkDuplicate(loaded).dups # loaded.dups
  BY DEF MarkDuplicate, Rows
<1>2. Flush(loaded, MarkDuplicate(loaded)) = [row EXCEPT !.dups = loaded.dups + 1]
  BY <1>1, FlushColumns, CountColumns, Columns DEF MarkDuplicate
<1>3. [row EXCEPT !.dups = loaded.dups + 1] \in Rows
  BY DEF Rows
<1>4. [[row EXCEPT !.dups = loaded.dups + 1] EXCEPT !.dups = 0] = [row EXCEPT !.dups = 0]
  BY DEF Rows
<1>5. [row EXCEPT !.dups = loaded.dups + 1].attempt = row.attempt
  BY DEF Rows
<1> QED BY <1>2, <1>3, <1>4, <1>5

\* What is loaded under the lock is still there when it is written.
LEMMA FlushedRequeue ==
    ASSUME row \in Rows, row.attempt < MaxAttempts
    PROVE  /\ Flush(row, Requeued(row)) = Requeued(row)
           /\ Requeued(row) \in Rows
           /\ Requeued(row).attempt = row.attempt + 1
<1>1. PICK n \in 1 .. MaxAttempts : n = row.attempt + 1
  BY BoundsAssumption DEF Rows
<1>2. Requeued(row) \in Rows /\ Requeued(row).attempt = row.attempt + 1
  BY <1>1 DEF Rows, Requeued, Statuses, Active
<1>3. Flush(row, Requeued(row)) = Requeued(row)
  BY <1>2, FlushColumns, RequeueColumns, Columns
<1> QED BY <1>2, <1>3

----------------------------------------------------------------------------
(* The invariant.                                                          *)

\* A session between its load and its write has a row; the one that holds the
\* lock has the row as it is.
SessionsOK ==
    \A c \in Clients :
        /\ call[c] # NoCall => Present /\ copy[c] \in Rows
        /\ lock = c <=> call[c] \in Locked
        /\ call[c] \in Locked => copy[c] = row

Sound == TypeOK /\ SessionsOK

LEMMA SoundInit == Init => Sound
  BY ClientsAssumption DEF Init, Sound, TypeOK, SessionsOK, NoCall, Locked

\* Operation names tell the calls apart.
LEMMA CallsDiffer ==
    /\ NoCall \notin Unlocked /\ NoCall \notin Locked
    /\ Unlocked \cap Locked = {}
  BY DEF NoCall, Unlocked, Locked

\* What Store makes of the row: a contract step, or a change of the count alone.
LEMMA StoredRow ==
    ASSUME row \in Rows, NEW loaded \in Rows, NEW what \in Unlocked
    PROVE  LET r == Flush(loaded, Changed(what, loaded))
           IN  /\ r \in Rows /\ r.attempt = row.attempt
               /\ \/ r = row
                  \/ \E s \in Writable : r = SetStatus(row, s)
                  \/ r = RequestCancel(row)
                  \/ [r EXCEPT !.dups = 0] = [row EXCEPT !.dups = 0]
<1>1. CASE what.op = "set_status"
  <2>1. what.arg \in Writable /\ Changed(what, loaded) = SetStatus(loaded, what.arg)
    BY <1>1 DEF Unlocked, Changed
  <2>2. SetStatus(row, what.arg).attempt = row.attempt
    BY SetStatusColumns
  <2> QED BY <2>1, <2>2, FlushedStatus
<1>2. CASE what.op = "request_cancel"
  <2>1. Changed(what, loaded) = RequestCancel(loaded)
    BY <1>2 DEF Changed
  <2> QED BY <2>1, FlushedCancel, CancelColumns
<1>3. CASE what.op = "mark_duplicate"
  <2>1. Changed(what, loaded) = MarkDuplicate(loaded)
    BY <1>3 DEF Changed
  <2> QED BY <2>1, FlushedCount
<1> QED BY <1>1, <1>2, <1>3 DEF Unlocked

\* What TryRequeue makes of the row if it writes.
LEMMA RequeuedRow ==
    ASSUME row \in Rows, NEW what \in Locked, row.attempt < MaxAttempts
    PROVE  LET r == Flush(row, Changed(what, row))
           IN  r \in Rows /\ r = Requeued(row) /\ r.attempt = row.attempt + 1
<1>1. Changed(what, row) = Requeued(row)
  BY DEF Locked, Changed
<1> QED BY <1>1, FlushedRequeue

\* A created row is a row of attempt 1.
LEMMA CreatedRow == ASSUME NEW p \in Prints PROVE NewJob(p) \in Rows /\ NewJob(p).attempt = 1
  BY BoundsAssumption DEF NewJob, Rows, Statuses, Active

LEMMA SoundStep == Sound /\ [Next]_vars => Sound'
<1> SUFFICES ASSUME Sound, [Next]_vars PROVE Sound'
    OBVIOUS
<1> USE DEF Sound, TypeOK, SessionsOK
<1>1. ASSUME NEW c \in Clients, NEW p \in Prints, CreateOrGet(c, p) PROVE Sound'
  <2>1. \A d \in Clients : call[d] = NoCall
    BY <1>1 DEF CreateOrGet
  <2>2. row' \in Rows
    BY <1>1, CreatedRow DEF CreateOrGet
  <2> QED BY <1>1, <2>1, <2>2, CallsDiffer DEF CreateOrGet
<1>2. ASSUME NEW c \in Clients, NEW what \in Unlocked, Load(c, what) PROVE Sound'
  <2>1. row \in Rows /\ lock # c
    BY <1>2, CallsDiffer DEF Load, Begin, Present
  <2> QED BY <1>2, <2>1, CallsDiffer DEF Load, Begin, Present
<1>3. ASSUME NEW c \in Clients, NEW p \in Prints, LockRow(c, p) PROVE Sound'
  <2>1. row \in Rows /\ [op |-> "try_requeue", arg |-> p] \in Locked
    BY <1>3 DEF LockRow, Present, Locked
  <2> QED BY <1>3, <2>1, CallsDiffer, ClientsAssumption DEF LockRow, Begin, Present
<1>4. ASSUME NEW c \in Clients, Store(c) PROVE Sound'
  <2>1. row \in Rows /\ copy[c] \in Rows
    BY <1>4, CallsDiffer DEF Store, Present
  <2>2. row' \in Rows
    BY <1>4, <2>1, StoredRow DEF Store
  <2>3. row' # NoJob
    BY <2>2, RowIsPresent
  <2>4. \A d \in Clients : call[d] \notin Locked
    BY <1>4, ClientsAssumption DEF Store
  <2> QED BY <1>4, <2>2, <2>3, <2>4, CallsDiffer, ClientsAssumption
          DEF Store, Return, Present
<1>5. ASSUME NEW c \in Clients, TryRequeue(c) PROVE Sound'
  <2>1. row \in Rows /\ copy[c] = row /\ lock = c
    BY <1>5, CallsDiffer DEF TryRequeue, Present
  <2>2. row' \in Rows /\ won' \in Nat
    BY <1>5, <2>1, RequeuedRow DEF TryRequeue
  <2>3. row' # NoJob
    BY <2>2, RowIsPresent
  <2>4. \A d \in Clients \ {c} : call[d] \notin Locked
    BY <2>1
  <2> QED BY <1>5, <2>1, <2>2, <2>3, <2>4, CallsDiffer, ClientsAssumption
          DEF TryRequeue, Return, Present
<1>6. ASSUME NEW c \in Clients, Rollback(c) PROVE Sound'
  BY <1>6, CallsDiffer, ClientsAssumption DEF Rollback, Return, Present
<1>7. CASE UNCHANGED vars
  BY <1>7 DEF vars, Present
<1> QED BY <1>1, <1>2, <1>3, <1>4, <1>5, <1>6, <1>7 DEF Next, Step

\* Whatever the sessions do, every variable keeps its type.
THEOREM StoreTypeCorrect == Spec => []TypeOK
<1>1. Sound => TypeOK
  BY DEF Sound
<1> QED BY <1>1, SoundInit, SoundStep, PTL DEF Spec

----------------------------------------------------------------------------
(* One winner for each attempt.                                            *)

LEMMA WinnerStep ==
    Sound /\ OneWinnerPerAttempt /\ [Next]_vars => OneWinnerPerAttempt'
<1> SUFFICES ASSUME Sound, OneWinnerPerAttempt, [Next]_vars
             PROVE  OneWinnerPerAttempt'
    OBVIOUS
<1> USE DEF Sound, TypeOK, SessionsOK, OneWinnerPerAttempt
<1>1. ASSUME NEW c \in Clients, NEW p \in Prints, CreateOrGet(c, p)
      PROVE  OneWinnerPerAttempt'
  <2>1. won = 0
    BY <1>1 DEF CreateOrGet, Present, NoJob
  <2> QED BY <1>1, <2>1, CreatedRow DEF CreateOrGet
<1>2. ASSUME NEW c \in Clients, Store(c) PROVE OneWinnerPerAttempt'
  <2>1. row \in Rows /\ copy[c] \in Rows
    BY <1>2, CallsDiffer DEF Store, Present
  <2> QED BY <1>2, <2>1, StoredRow DEF Store
<1>3. ASSUME NEW c \in Clients, TryRequeue(c) PROVE OneWinnerPerAttempt'
  <2>1. row \in Rows /\ copy[c] = row
    BY <1>3, CallsDiffer DEF TryRequeue, Present
  <2> QED BY <1>3, <2>1, RequeuedRow DEF TryRequeue
<1>4. CASE UNCHANGED <<row, won>>
  BY <1>4
<1> QED BY <1>1, <1>2, <1>3, <1>4
        DEF Next, Step, Load, LockRow, Rollback, vars

\* For any number of sessions, each attempt of a job is given to exactly one
\* caller to dispatch: the row lock is what try_requeue_for_retry rests on.
THEOREM OneWinner == Spec => []OneWinnerPerAttempt
<1>1. Init => OneWinnerPerAttempt
  BY DEF Init, OneWinnerPerAttempt, NoJob
<1> QED BY <1>1, SoundInit, SoundStep, WinnerStep, PTL DEF Spec

----------------------------------------------------------------------------
(* Repeats are noticed.                                                    *)

\* No copy knows of more repeats than have returned, so a count written late is
\* one of those that returned, the writer's own included.
CountsOK ==
    /\ RepeatsAreNoticed
    /\ \A c \in Clients : copy[c].dups <= repeats

LEMMA StoredCount ==
    ASSUME row \in Rows, NEW loaded \in Rows, NEW what \in Unlocked
    PROVE  Flush(loaded, Changed(what, loaded)).dups =
             IF what.op = "mark_duplicate" THEN loaded.dups + 1 ELSE row.dups
<1>1. CASE what.op = "set_status"
  <2>1. what.arg \in Writable /\ Changed(what, loaded) = SetStatus(loaded, what.arg)
    BY <1>1 DEF Unlocked, Changed
  <2>2. SetStatus(loaded, what.arg) \in Rows /\ SetStatus(loaded, what.arg).dups = loaded.dups
    BY <2>1 DEF SetStatus, Rows, Writable, Terminal, Statuses, Active
  <2> QED BY <1>1, <2>1, <2>2, FlushColumns
<1>2. CASE what.op = "request_cancel"
  <2>1. Changed(what, loaded) = RequestCancel(loaded)
    BY <1>2 DEF Changed
  <2>2. RequestCancel(loaded) \in Rows /\ RequestCancel(loaded).dups = loaded.dups
    BY CancelColumns
  <2>3. Flush(loaded, RequestCancel(loaded)).dups = row.dups
    BY <2>2, FlushColumns
  <2> QED BY <1>2, <2>1, <2>3
<1>3. CASE what.op = "mark_duplicate"
  <2>1. Changed(what, loaded) = MarkDuplicate(loaded)
    BY <1>3 DEF Changed
  <2>2. /\ MarkDuplicate(loaded) \in Rows
        /\ MarkDuplicate(loaded).dups = loaded.dups + 1 /\ loaded.dups \in Nat
    BY DEF MarkDuplicate, Rows
  <2> QED BY <1>3, <2>1, <2>2, FlushColumns
<1> QED BY <1>1, <1>2, <1>3 DEF Unlocked

LEMMA CountsStep == Sound /\ CountsOK /\ [Next]_vars => CountsOK'
<1> SUFFICES ASSUME Sound, CountsOK, [Next]_vars PROVE CountsOK'
    OBVIOUS
<1>0. /\ repeats \in Nat /\ copy \in [Clients -> Rows \cup {NoJob}]
      /\ row.dups <= repeats /\ (repeats > 0 => row.dups > 0)
      /\ \A c \in Clients : copy[c].dups <= repeats
      /\ NoJob.dups = 0
      /\ \A r \in Rows : r.dups \in Nat
      /\ row \in Rows \cup {NoJob}
  BY DEF Sound, TypeOK, CountsOK, RepeatsAreNoticed, NoJob, Rows
<1>1. ASSUME NEW c \in Clients, row'.dups <= repeats', repeats' \in Nat, repeats' >= repeats,
             repeats' > 0 => row'.dups > 0,
             \A d \in Clients : d # c => copy'[d] = copy[d],
             copy'[c].dups <= repeats'
      PROVE  CountsOK'
  <2>1. \A d \in Clients : copy'[d].dups <= repeats'
    <3> TAKE d \in Clients
    <3>1. copy[d].dups \in Nat /\ copy[d].dups <= repeats
      BY <1>0
    <3>2. CASE d = c
      BY <1>1, <3>2
    <3>3. CASE d # c
      BY <1>0, <1>1, <3>1, <3>3
    <3> QED BY <3>2, <3>3
  <2> QED BY <1>1, <2>1 DEF CountsOK, RepeatsAreNoticed
<1>2. ASSUME NEW c \in Clients, NEW p \in Prints, CreateOrGet(c, p) PROVE CountsOK'
  <2>1. row = NoJob /\ row' = NewJob(p) /\ repeats' = repeats /\ copy' = copy
    BY <1>2 DEF CreateOrGet, Present
  <2>2. row'.dups = 0 /\ repeats = 0
    BY <1>0, <2>1 DEF NewJob
  <2> QED BY <1>0, <1>1, <2>1, <2>2
<1>3. ASSUME NEW c \in Clients, NEW what, Begin(c, what), row' = row, repeats' = repeats
      PROVE  CountsOK'
  <2>1. copy' = [copy EXCEPT ![c] = row]
    BY <1>3 DEF Begin
  <2> QED BY <1>0, <1>1, <1>3, <2>1
<1>4. ASSUME NEW c \in Clients, Store(c) PROVE CountsOK'
  <2>1. row \in Rows /\ copy[c] \in Rows /\ call[c] \in Unlocked
    BY <1>4, CallsDiffer DEF Store, Present, Sound, TypeOK, SessionsOK
  <2>2. row'.dups = IF call[c].op = "mark_duplicate" THEN copy[c].dups + 1 ELSE row.dups
    BY <1>4, <2>1, StoredCount DEF Store
  <2>3. /\ repeats' = IF call[c].op = "mark_duplicate" THEN repeats + 1 ELSE repeats
        /\ copy' = [copy EXCEPT ![c] = NoJob]
    BY <1>4 DEF Store, Return
  <2>4. row.dups \in Nat /\ copy[c].dups \in Nat /\ copy[c].dups <= repeats
    BY <1>0, <2>1
  <2>5. row'.dups <= repeats' /\ repeats' \in Nat /\ repeats' >= repeats
        /\ (repeats' > 0 => row'.dups > 0)
    BY <1>0, <2>2, <2>3, <2>4
  <2> QED BY <1>0, <1>1, <2>3, <2>5
<1>5. ASSUME NEW c \in Clients, TryRequeue(c) \/ Rollback(c) PROVE CountsOK'
  <2>1. copy' = [copy EXCEPT ![c] = NoJob] /\ repeats' = repeats
    BY <1>5 DEF TryRequeue, Rollback, Return
  <2>2. row'.dups = row.dups
    <3>1. CASE TryRequeue(c)
      <4>1. row \in Rows /\ copy[c] = row
        BY <3>1, CallsDiffer DEF TryRequeue, Present, Sound, TypeOK, SessionsOK
      <4>2. CASE row' = row
        BY <4>2
      <4>3. CASE row' # row
        <5>1. /\ call[c] \in Locked /\ row.attempt < MaxAttempts
              /\ row' = Flush(row, Changed(call[c], row))
          BY <3>1, <4>1, <4>3 DEF TryRequeue
        <5>2. row' = Requeued(row)
          BY <4>1, <5>1, RequeuedRow
        <5>3. Requeued(row).dups = row.dups
          BY <4>1, <5>1, RequeueColumns
        <5> QED BY <5>2, <5>3
      <4> QED BY <4>2, <4>3
    <3>2. CASE Rollback(c)
      BY <3>2 DEF Rollback
    <3> QED BY <1>5, <3>1, <3>2
  <2> QED BY <1>0, <1>1, <2>1, <2>2
<1>6. CASE UNCHANGED vars
  BY <1>6 DEF vars, CountsOK, RepeatsAreNoticed
<1>7. ASSUME NEW c \in Clients, Step(c) PROVE CountsOK'
  BY <1>2, <1>3, <1>4, <1>5, <1>7 DEF Step, Load, LockRow
<1> QED BY <1>6, <1>7 DEF Next

\* However many sessions count at the same time, the row shows a repeat if there
\* was one and never more than there were, although mark_duplicate writes back a
\* number it read without a lock.
THEOREM RepeatsNoticed == Spec => []RepeatsAreNoticed
<1>1. Init => CountsOK
  BY DEF Init, CountsOK, RepeatsAreNoticed, NoJob
<1>2. CountsOK => RepeatsAreNoticed
  BY DEF CountsOK
<1> QED BY <1>1, <1>2, SoundInit, SoundStep, CountsStep, PTL DEF Spec

----------------------------------------------------------------------------
(* The transactions implement the contract.                                *)

\* The contract speaks of rows in the same words.
LEMMA SameWords ==
    /\ Contract!NoJob = NoJob
    /\ Contract!Writable = Writable
    /\ \A p : Contract!NewJob(p) = NewJob(p)
    /\ \A r, s : Contract!SetStatus(r, s) = SetStatus(r, s)
    /\ \A r : Contract!RequestCancel(r) = RequestCancel(r)
    /\ \A r : Contract!Requeued(r) = Requeued(r)
    /\ \A r, p : Contract!CanRequeue(r, p) <=> CanRequeue(r, p)
<1>1. Contract!NoJob = NoJob /\ \A p : Contract!NewJob(p) = NewJob(p)
  BY DEF Contract!NoJob, NoJob, Contract!NoPrint, NoPrint, Contract!NewJob, NewJob
<1>2. Contract!Terminal = Terminal /\ Contract!Retryable = Retryable
  BY DEF Contract!Terminal, Contract!Retryable, Contract!Delivered,
         Terminal, Retryable, Delivered
<1>3. Contract!Writable = Writable
  BY <1>2 DEF Contract!Writable, Writable
<1>4. \A r, s : Contract!SetStatus(r, s) = SetStatus(r, s)
  BY DEF Contract!SetStatus, SetStatus
<1>5. \A r : /\ Contract!RequestCancel(r) = RequestCancel(r)
             /\ Contract!Requeued(r) = Requeued(r)
  BY DEF Contract!RequestCancel, RequestCancel, Contract!Requeued, Requeued
<1>6. \A r, p : Contract!CanRequeue(r, p) <=> CanRequeue(r, p)
  BY <1>2 DEF Contract!CanRequeue, CanRequeue, Contract!Matches, Matches
<1> QED BY <1>1, <1>3, <1>4, <1>5, <1>6

\* Leaving the count out commutes with what the calls do to the rest.
LEMMA CountLeftOut ==
    ASSUME NEW r \in Rows
    PROVE  /\ [r EXCEPT !.dups = 0] \in Rows
           /\ \A s : [SetStatus(r, s) EXCEPT !.dups = 0]
                     = SetStatus([r EXCEPT !.dups = 0], s)
           /\ [RequestCancel(r) EXCEPT !.dups = 0]
                     = RequestCancel([r EXCEPT !.dups = 0])
           /\ [Requeued(r) EXCEPT !.dups = 0] = Requeued([r EXCEPT !.dups = 0])
           /\ \A p : CanRequeue(r, p) <=> CanRequeue([r EXCEPT !.dups = 0], p)
           /\ [r EXCEPT !.dups = 0].attempt = r.attempt
  BY DEF Rows, SetStatus, RequestCancel, Requeued, CanRequeue, Matches

\* Where nothing was counted yet, nothing is left out.
LEMMA NothingCounted ==
    /\ [NoJob EXCEPT !.dups = 0] = NoJob
    /\ \A p : [NewJob(p) EXCEPT !.dups = 0] = NewJob(p)
<1>1. ASSUME NEW st, NEW n, NEW cancel, NEW p
      PROVE  LET r == [status |-> st, attempt |-> n, cancel |-> cancel,
                       print |-> p, dups |-> 0]
             IN  [r EXCEPT !.dups = 0] = r
    OBVIOUS
<1> QED BY <1>1 DEF NoJob, NewJob

LEMMA ContractStep ==
    Sound /\ [Next]_vars => [Contract!Next]_([row EXCEPT !.dups = 0])
<1> SUFFICES ASSUME Sound, [Next]_vars
             PROVE  [Contract!Next]_([row EXCEPT !.dups = 0])
    OBVIOUS
<1> USE DEF Sound, TypeOK, SessionsOK
<1> DEFINE seen == [row EXCEPT !.dups = 0]
<1>1. ASSUME NEW c \in Clients, NEW p \in Prints, CreateOrGet(c, p)
      PROVE  Contract!Insert(p)
  <2>1. seen = NoJob
    BY <1>1, NothingCounted DEF CreateOrGet, Present
  <2>2. seen' = NewJob(p)
    BY <1>1, NothingCounted DEF CreateOrGet
  <2> QED BY <2>1, <2>2, SameWords DEF Contract!Insert, Contract!Present
<1>2. ASSUME NEW c \in Clients, Store(c)
      PROVE  Contract!Next \/ seen' = seen
  <2>1. row \in Rows /\ copy[c] \in Rows /\ call[c] \in Unlocked
    BY <1>2, CallsDiffer DEF Store, Present
  <2>2. Contract!Present
    BY <2>1, CountLeftOut, RowIsPresent, SameWords DEF Contract!Present
  <2>3. \/ row' = row
        \/ \E s \in Writable : row' = SetStatus(row, s)
        \/ row' = RequestCancel(row)
        \/ seen' = seen
    BY <1>2, <2>1, StoredRow DEF Store
  <2>4. ASSUME NEW s \in Writable, row' = SetStatus(row, s)
        PROVE  s \in Contract!Writable /\ seen' = SetStatus(seen, s)
    BY <2>1, <2>4, CountLeftOut, SameWords
  <2>5. row' = RequestCancel(row) => seen' = RequestCancel(seen)
    BY <2>1, CountLeftOut
  <2> HIDE DEF seen
  <2> QED BY <2>2, <2>3, <2>4, <2>5, SameWords DEF Contract!Next, seen
<1>3. ASSUME NEW c \in Clients, TryRequeue(c)
      PROVE  Contract!Next \/ seen' = seen
  <2>1. row \in Rows /\ copy[c] = row /\ call[c].arg \in Prints
    BY <1>3, CallsDiffer DEF TryRequeue, Present, Locked
  <2>2. CASE row' = row
    BY <2>2
  <2>3. CASE row' # row
    <3>1. /\ CanRequeue(row, call[c].arg) /\ row.attempt < MaxAttempts
          /\ row' = Requeued(row)
      BY <1>3, <2>1, <2>3, RequeuedRow DEF TryRequeue
    <3>2. /\ CanRequeue(seen, call[c].arg) /\ seen.attempt < MaxAttempts
          /\ seen' = Requeued(seen)
      BY <2>1, <3>1, CountLeftOut
    <3> QED BY <2>1, <3>2, SameWords DEF Contract!Next, Contract!Reopen
  <2> QED BY <2>2, <2>3
<1>4. CASE UNCHANGED row
  BY <1>4
<1> QED BY <1>1, <1>2, <1>3, <1>4
        DEF Next, Step, Load, LockRow, Rollback, vars, Contract!Next

\* Apart from the count of duplicates the Postgres repository implements the
\* job store: what its overlapping transactions do is done by atomic calls.
THEOREM StoreImplements == Spec => ContractSpec
<1>1. Init => Contract!Init
  BY SameWords, NothingCounted DEF Init, Contract!Init
<1> QED BY <1>1, SoundInit, SoundStep, ContractStep, PTL
        DEF Spec, ContractSpec, Contract!Spec
=============================================================================
