--------------------------- MODULE DemoJobsProofs ---------------------------
(***************************************************************************)
(* Proofs about one process with a queue of its own, for any jobs, any     *)
(* requests and any limits: the registry of source indexes serves the      *)
(* executions, the attempt number counts the submissions and retries, with *)
(* the memory store the progress mirror agrees with the row, no unfinished *)
(* request is stranded, and every step takes a request further.            *)
(***************************************************************************)
EXTENDS DemoJobs, FiniteSetTheorems, SequenceTheorems, TLAPS

Entry == [job : Jobs \cup {None}, by : Requests]

Typed ==
    /\ DOMAIN call = Requests /\ DOMAIN exec = Requests
    /\ \A r \in Requests : DOMAIN call[r] = {"pc", "kind", "job", "seen"}
    /\ \A r \in Requests : DOMAIN exec[r] = {"pc", "reference", "node", "index", "alone"}
    /\ \A r \in Requests : call[r].job \in Jobs \cup {None}
    /\ indexes \in Seq(Entry)

\* A job id is fixed once its execution has been dispatched.
Dispatched ==
    \A r \in Requests : exec[r].pc # "none" => call[r].pc = "accepted"

\* No index is remembered before the first node and after the last step.
Fresh ==
    \A r \in Requests :
        exec[r].pc \in {"none", "waiting", "done", "recover", "start", "started"}
        => exec[r].index = "none"

\* The states of an execution whose index may be in the registry.
Holding == {"node", "yielded", "record", "streamed", "broken", "clearing"}

OneEntry(s) == \A i, k \in DOMAIN s : s[i].job = s[k].job => i = k

Held(s) ==
    \A i \in DOMAIN s :
        /\ s[i].job = JobOf(s[i].by)
        /\ exec[s[i].by].pc \in Holding

Exclusive ==
    \A r, q \in Requests :
        /\ exec[r].pc \notin Outside /\ exec[r].alone
        /\ exec[q].pc \notin Outside /\ JobOf(q) = JobOf(r)
        => q = r

Admitted == Cardinality(Running) <= MaxConcurrent

Fits == MaxConcurrent <= MaxIndexes

\* From the node that builds it to the node that retrieves from it.
Waits(r) == exec[r].index = "built" /\ exec[r].pc \in {"node", "yielded", "record"}

Finds ==
    Fits => \A r \in Requests : exec[r].alone =>
        /\ exec[r].index \in {"none", "built", "own"}
        /\ Waits(r) => \E i \in DOMAIN indexes : indexes[i].by = r

Serves ==
    /\ Typed /\ Dispatched /\ Fresh
    /\ OneEntry(indexes) /\ Held(indexes)
    /\ Exclusive /\ Admitted /\ Finds

----------------------------------------------------------------------------
(* The registry.                                                           *)

\* A part of the registry, in its own indexes.
LEMMA Slice ==
    ASSUME NEW s \in Seq(Entry), NEW m \in 1..(Len(s) + 1), NEW n \in (m - 1)..Len(s)
    PROVE  /\ SubSeq(s, m, n) \in Seq(Entry)
           /\ Len(SubSeq(s, m, n)) = n - m + 1
           /\ \A i \in 1..(n - m + 1) : SubSeq(s, m, n)[i] = s[m + i - 1]
<1>1. m \in Int /\ n \in Int /\ \A i \in m..n : s[i] \in Entry
  OBVIOUS
<1>2. /\ SubSeq(s, m, n) \in Seq(Entry)
      /\ Len(SubSeq(s, m, n)) = IF m <= n THEN n - m + 1 ELSE 0
      /\ \A i \in 1..(n - m + 1) : SubSeq(s, m, n)[i] = s[m + i - 1]
  BY ONLY <1>1, SubSeqProperties
<1> QED BY <1>1, <1>2

\* Unregistered takes out the entry of the job, and no other.
LEMMA UnregisteredIs ==
    ASSUME NEW s \in Seq(Entry), OneEntry(s), NEW j \in Jobs \cup {None}
    PROVE  /\ Unregistered(s, j) \in Seq(Entry)
           /\ OneEntry(Unregistered(s, j))
           /\ \A i \in DOMAIN Unregistered(s, j) :
                /\ Unregistered(s, j)[i].job # j
                /\ \E k \in DOMAIN s : Unregistered(s, j)[i] = s[k]
           /\ \A k \in DOMAIN s : s[k].job # j =>
                \E i \in DOMAIN Unregistered(s, j) : Unregistered(s, j)[i] = s[k]
<1>1. CASE \A i \in DOMAIN s : s[i].job # j
  <2>1. Unregistered(s, j) = s
    BY <1>1 DEF Unregistered
  <2> QED BY <1>1, <2>1
<1>2. CASE \E i \in DOMAIN s : s[i].job = j
  <2> DEFINE e == CHOOSE i \in DOMAIN s : s[i].job = j
             t == RemoveAt(s, e)
  <2>1. e \in DOMAIN s /\ s[e].job = j
    BY <1>2
  <2>2. Unregistered(s, j) = t
    BY <1>2 DEF Unregistered
  <2> HIDE DEF e, t
  <2>3. e \in 1..Len(s) /\ Len(s) \in Nat /\ DOMAIN s = 1..Len(s)
    BY <2>1
  <2>4. t = SubSeq(s, 1, e - 1) \o SubSeq(s, e + 1, Len(s))
    BY DEF RemoveAt, t
  <2> DEFINE u == SubSeq(s, 1, e - 1)
             v == SubSeq(s, e + 1, Len(s))
  <2> HIDE DEF u, v
  <2>5. /\ u \in Seq(Entry) /\ v \in Seq(Entry)
        /\ Len(u) = e - 1 /\ Len(v) = Len(s) - e
        /\ \A i \in 1..(e - 1) : u[i] = s[i]
        /\ \A i \in 1..(Len(s) - e) : v[i] = s[e + i]
    <3>1. /\ u \in Seq(Entry) /\ Len(u) = (e - 1) - 1 + 1
          /\ \A i \in 1..((e - 1) - 1 + 1) : u[i] = s[1 + i - 1]
      BY <2>3, Slice DEF u
    <3>2. /\ v \in Seq(Entry) /\ Len(v) = Len(s) - (e + 1) + 1
          /\ \A i \in 1..(Len(s) - (e + 1) + 1) : v[i] = s[(e + 1) + i - 1]
      <4>1. e + 1 \in 1..(Len(s) + 1) /\ Len(s) \in ((e + 1) - 1)..Len(s)
        BY <2>3
      <4> QED BY <4>1, Slice DEF v
    <3>3. /\ (e - 1) - 1 + 1 = e - 1 /\ Len(s) - (e + 1) + 1 = Len(s) - e
      BY <2>3
    <3>4. \A i \in 1..(e - 1) : u[i] = s[i]
      <4>1. \A i \in Int : 1 + i - 1 = i
        OBVIOUS
      <4> QED BY <4>1, <3>1, <3>3
    <3>5. ASSUME NEW i \in 1..(Len(s) - e)
          PROVE  v[i] = s[e + i]
      <4>1. i \in 1..(Len(s) - (e + 1) + 1) /\ (e + 1) + i - 1 = e + i
        BY <2>3
      <4>2. v[i] = s[(e + 1) + i - 1]
        BY <4>1, <3>2
      <4> QED BY ONLY <4>1, <4>2, Zenon
    <3> QED BY <3>1, <3>2, <3>3, <3>4, <3>5
  <2>6. /\ t \in Seq(Entry) /\ Len(t) = Len(s) - 1 /\ DOMAIN t = 1..(Len(s) - 1)
        /\ \A i \in DOMAIN t : t[i] = IF i < e THEN s[i] ELSE s[i + 1]
    <3>1. /\ t \in Seq(Entry) /\ Len(t) = Len(u) + Len(v)
          /\ \A i \in 1..(Len(u) + Len(v)) : t[i] = IF i <= Len(u) THEN u[i] ELSE v[i - Len(u)]
      <4>1. t = u \o v
        BY <2>4 DEF u, v
      <4> QED BY <4>1, <2>5, ConcatProperties
    <3>2. DOMAIN t = 1..(Len(s) - 1) /\ Len(t) = Len(s) - 1
      BY <3>1, <2>5, <2>3
    <3>3. ASSUME NEW i \in DOMAIN t
          PROVE  t[i] = IF i < e THEN s[i] ELSE s[i + 1]
      <4>1. CASE i < e
        <5>1. i \in 1..(Len(u) + Len(v)) /\ i <= Len(u) /\ i \in 1..(e - 1)
          BY <4>1, <3>2, <2>5, <2>3
        <5> QED BY <5>1, <4>1, <3>1, <2>5
      <4>2. CASE ~ (i < e)
        <5>1. i - (e - 1) \in 1..(Len(s) - e) /\ e + (i - (e - 1)) = i + 1
          BY <4>2, <3>2, <2>3
        <5>2. i \in 1..(Len(u) + Len(v)) /\ ~ (i <= Len(u)) /\ i - Len(u) = i - (e - 1)
          BY <4>2, <3>2, <2>5, <2>3
        <5>3. t[i] = v[i - (e - 1)]
          BY <5>2, <3>1
        <5> QED BY <5>1, <5>3, <4>2, <2>5
      <4> QED BY <4>1, <4>2
    <3> QED BY <3>1, <3>2, <3>3
  <2>8. OneEntry(t)
    BY <2>1, <2>3, <2>6 DEF OneEntry
  <2>9. \A i \in DOMAIN t : t[i].job # j /\ \E k \in DOMAIN s : t[i] = s[k]
    BY <2>1, <2>3, <2>6 DEF OneEntry
  <2>10. ASSUME NEW k \in DOMAIN s, s[k].job # j
         PROVE  \E i \in DOMAIN t : t[i] = s[k]
    <3>1. CASE k < e
      <4>1. k \in DOMAIN t /\ t[k] = s[k]
        BY <3>1, <2>3, <2>6
      <4> QED BY <4>1
    <3>2. CASE k > e
      <4>1. k - 1 \in DOMAIN t /\ t[k - 1] = s[k]
        BY <3>2, <2>3, <2>6
      <4> QED BY <4>1
    <3> QED BY <3>1, <3>2, <2>1, <2>3, <2>10
  <2> QED BY <2>2, <2>6, <2>8, <2>9, <2>10
<1> QED BY <1>1, <1>2

LEMMA RunningIsFinite == IsFiniteSet(Running) /\ Cardinality(Running) \in Nat
<1>1. IsFiniteSet(Requests)
  BY DemoJobsAssumption
<1>2. Running \in SUBSET Requests
  BY DEF Running
<1> QED BY <1>1, <1>2, FS_Subset, FS_CardinalityType

\* Each entry is of another running execution.
LEMMA OneEntryEach ==
    ASSUME NEW s \in Seq(Entry), OneEntry(s), Held(s)
    PROVE  Len(s) <= Cardinality(Running)
<1> DEFINE f == [i \in 1..Len(s) |-> s[i].by]
<1>1. Len(s) \in Nat /\ DOMAIN s = 1..Len(s)
  OBVIOUS
<1>2. \A i \in 1..Len(s) : s[i].by \in Running
  <2>1. \A i \in 1..Len(s) : s[i].by \in Requests
    <3>1. \A i \in 1..Len(s) : s[i] \in Entry
      OBVIOUS
    <3> QED BY <3>1 DEF Entry
  <2>2. \A i \in 1..Len(s) : exec[s[i].by].pc \in Holding
    BY <1>1 DEF Held
  <2> QED BY <2>1, <2>2 DEF Running, Holding, Outside
<1>3. \A i, k \in 1..Len(s) : s[i].by = s[k].by => i = k
  BY <1>1 DEF Held, OneEntry
<1>4. f \in Injection(1..Len(s), Running)
  <2> DEFINE S == 1..Len(s)
  <2>1. f \in [S -> Running]
    BY <1>2
  <2>2. \A i, k \in S : f[i] = f[k] => i = k
    BY <1>3
  <2> QED BY <2>1, <2>2 DEF Injection, IsInjective
<1>5. Cardinality(1..Len(s)) = Len(s)
  <2>1. Cardinality(1..Len(s)) = IF 1 > Len(s) THEN 0 ELSE Len(s) - 1 + 1
    BY <1>1, FS_Interval
  <2> QED BY <2>1, <1>1
<1>6. Cardinality(1..Len(s)) <= Cardinality(Running)
  BY <1>4, RunningIsFinite, FS_Injection
<1> QED BY <1>5, <1>6

\* The registry after an execution has registered its index.
LEMMA BuiltIs ==
    ASSUME Serves, NEW r \in Requests, exec[r].pc = "node",
           NEW b, b = Bounded(Append(Unregistered(indexes, JobOf(r)),
                                     [job |-> JobOf(r), by |-> r]))
    PROVE  /\ b \in Seq(Entry) /\ OneEntry(b) /\ Held(b)
           /\ Fits => /\ \E i \in DOMAIN b : b[i].by = r
                      /\ \A k \in DOMAIN indexes : indexes[k].job # JobOf(r) =>
                            \E i \in DOMAIN b : b[i] = indexes[k]
<1> DEFINE u == Unregistered(indexes, JobOf(r))
           new == [job |-> JobOf(r), by |-> r]
           a == Append(u, new)
<1>1. JobOf(r) \in Jobs \cup {None} /\ new \in Entry /\ new.job = JobOf(r) /\ new.by = r
  BY DEF Serves, Typed, JobOf, Entry
<1>2. indexes \in Seq(Entry) /\ OneEntry(indexes) /\ Held(indexes)
  BY DEF Serves, Typed
<1>3. /\ u \in Seq(Entry) /\ OneEntry(u)
      /\ \A i \in DOMAIN u : u[i].job # JobOf(r) /\ \E k \in DOMAIN indexes : u[i] = indexes[k]
      /\ \A k \in DOMAIN indexes : indexes[k].job # JobOf(r) => \E i \in DOMAIN u : u[i] = indexes[k]
  BY <1>1, <1>2, UnregisteredIs
<1> HIDE DEF u, new
<1>4. /\ a \in Seq(Entry) /\ Len(u) \in Nat /\ Len(a) = Len(u) + 1
      /\ DOMAIN u = 1..Len(u) /\ DOMAIN a = 1..(Len(u) + 1)
      /\ \A i \in DOMAIN u : a[i] = u[i]
      /\ a[Len(u) + 1] = new
  BY <1>1, <1>3
<1> HIDE DEF a
<1>5. OneEntry(a)
  BY <1>1, <1>3, <1>4 DEF OneEntry
<1>6. Held(a)
  <2>1. \A i \in DOMAIN u : u[i].job = JobOf(u[i].by) /\ exec[u[i].by].pc \in Holding
    BY <1>2, <1>3 DEF Held
  <2>2. new.job = JobOf(new.by) /\ exec[new.by].pc \in Holding
    BY <1>1 DEF Holding
  <2> QED BY <2>1, <2>2, <1>4 DEF Held
<1>7. b = IF Len(a) > MaxIndexes THEN Tail(a) ELSE a
  BY DEF a, u, new, Bounded
<1>8. CASE Len(a) > MaxIndexes
  <2>1. /\ b \in Seq(Entry) /\ DOMAIN b = 1..Len(u)
        /\ \A i \in DOMAIN b : i + 1 \in DOMAIN a /\ b[i] = a[i + 1]
    <3>1. b = Tail(a) /\ a # <<>>
      BY <1>4, <1>7, <1>8
    <3>2. /\ b \in Seq(Entry) /\ Len(b) = Len(a) - 1
          /\ \A i \in 1..Len(b) : b[i] = a[i + 1]
      BY <3>1, <1>4, HeadTailProperties, SMTT(40)
    <3>3. Len(b) = Len(u) /\ DOMAIN b = 1..Len(u)
      BY <3>2, <1>4
    <3>4. \A i \in 1..Len(u) : i + 1 \in 1..(Len(u) + 1)
      BY <1>4
    <3> QED BY <3>2, <3>3, <3>4, <1>4
  <2>2. OneEntry(b) /\ Held(b)
    BY <2>1, <1>5, <1>6, <1>4 DEF OneEntry, Held
  <2>3. ~ Fits
    <3>1. Len(a) <= Cardinality(Running)
      BY <1>4, <1>5, <1>6, OneEntryEach
    <3>2. Cardinality(Running) <= MaxConcurrent
      BY DEF Serves, Admitted
    <3> QED BY <3>1, <3>2, <1>8, <1>4, RunningIsFinite, DemoJobsAssumption DEF Fits
  <2> QED BY <2>1, <2>2, <2>3
<1>9. CASE ~ (Len(a) > MaxIndexes)
  <2>1. b = a
    BY <1>7, <1>9
  <2>2. \E i \in DOMAIN a : a[i].by = r
    BY <1>1, <1>4
  <2>3. \A k \in DOMAIN indexes : indexes[k].job # JobOf(r) => \E i \in DOMAIN a : a[i] = indexes[k]
    BY <1>3, <1>4
  <2> QED BY <2>1, <2>2, <2>3, <1>4, <1>5, <1>6
<1> QED BY <1>8, <1>9

----------------------------------------------------------------------------
(* Steps of one execution.                                                 *)

ExecShape == {"pc", "reference", "node", "index", "alone"}

\* Only the execution of r changes.
Moves(r) ==
    /\ call' = call
    /\ DOMAIN exec' = Requests
    /\ DOMAIN exec'[r] = ExecShape
    /\ \A q \in Requests \ {r} : exec'[q] = exec[q]

\* What has to be shown of a step of a running execution.
LEMMA Advance ==
    ASSUME Serves, NEW r \in Requests, Moves(r),
           exec[r].pc \notin Outside, exec'[r].pc \notin {"none", "waiting"},
           exec'[r].pc \notin Outside => exec'[r].alone = exec[r].alone,
           exec'[r].pc \in {"done", "recover", "start", "started"} => exec'[r].index = "none",
           indexes' \in Seq(Entry), OneEntry(indexes'),
           \A i \in DOMAIN indexes' :
                /\ indexes'[i].job = JobOf(indexes'[i].by)
                /\ exec'[indexes'[i].by].pc \in Holding,
           Fits =>
             /\ \A k \in DOMAIN indexes : indexes[k].job # JobOf(r) =>
                    \E i \in DOMAIN indexes' : indexes'[i] = indexes[k]
             /\ exec'[r].alone =>
                  /\ exec'[r].index \in {"none", "built", "own"}
                  /\ exec'[r].index = "built" /\ exec'[r].pc \in {"node", "yielded", "record"} =>
                        \E i \in DOMAIN indexes' : indexes'[i].by = r
    PROVE  Serves'
<1> USE DEF Moves
<1>1. Typed'
  BY DEF Serves, Typed, ExecShape
<1>2. Dispatched'
  BY DEF Serves, Dispatched, Outside
<1>3. Fresh'
  BY DEF Serves, Fresh, Outside
<1>4. OneEntry(indexes)'
  BY DEF OneEntry
<1>5. Held(indexes)'
  BY DEF Held, JobOf
<1>6. Exclusive'
  <2>1. \A q \in Requests : exec'[q].pc \notin Outside =>
          exec[q].pc \notin Outside /\ exec'[q].alone = exec[q].alone
    OBVIOUS
  <2> QED BY <2>1 DEF Serves, Exclusive, JobOf, Outside
<1>7. Admitted'
  <2>1. Running' \in SUBSET Running
    BY DEF Running, Outside
  <2>2. Cardinality(Running') <= Cardinality(Running)
    BY <2>1, RunningIsFinite, FS_Subset
  <2>3. Cardinality(Running') \in Nat
    BY RunningIsFinite, <2>1, FS_Subset, FS_CardinalityType
  <2> QED BY <2>2, <2>3, RunningIsFinite, DemoJobsAssumption DEF Serves, Admitted
<1>8. Finds'
  <2> SUFFICES ASSUME Fits, NEW q \in Requests, exec'[q].alone
               PROVE  /\ exec'[q].index \in {"none", "built", "own"}
                      /\ exec'[q].index = "built" /\ exec'[q].pc \in {"node", "yielded", "record"} =>
                            \E i \in DOMAIN indexes' : indexes'[i].by = q
    BY DEF Finds, Fits, Waits
  <2>1. CASE q = r
    BY <2>1
  <2>2. CASE q # r
    <3>1. exec'[q] = exec[q]
      BY <2>2
    <3>2. exec[q].index \in {"none", "built", "own"}
      BY <3>1 DEF Serves, Finds
    <3>3. ASSUME exec[q].index = "built", exec[q].pc \in {"node", "yielded", "record"}
          PROVE  \E i \in DOMAIN indexes' : indexes'[i].by = q
      <4>1. PICK k \in DOMAIN indexes : indexes[k].by = q
        BY <3>1, <3>3 DEF Serves, Finds, Waits
      <4>2. indexes[k].job = JobOf(q)
        BY <4>1 DEF Serves, Held
      <4>3. JobOf(q) # JobOf(r)
        BY <2>2, <3>1, <3>3 DEF Serves, Exclusive, Outside
      <4> QED BY <4>1, <4>2, <4>3
    <3> QED BY <3>1, <3>2, <3>3
  <2> QED BY <2>1, <2>2
<1> QED BY <1>1, <1>2, <1>3, <1>4, <1>5, <1>6, <1>7, <1>8 DEF Serves

\* A step that leaves the registry alone.
LEMMA Stays ==
    ASSUME Serves, NEW r \in Requests, Moves(r), indexes' = indexes,
           exec[r].pc \notin Outside, exec'[r].pc \notin {"none", "waiting"},
           exec[r].pc \in Holding => exec'[r].pc \in Holding,
           exec'[r].pc \notin Outside => exec'[r].alone = exec[r].alone,
           exec'[r].pc \in {"done", "recover", "start", "started"} => exec'[r].index = "none",
           \/ exec'[r].index = "none"
           \/ /\ exec'[r].index = exec[r].index /\ exec'[r].alone = exec[r].alone
              /\ exec'[r].pc \in {"node", "yielded", "record"} =>
                    exec[r].pc \in {"started", "node", "yielded", "record"}
    PROVE  Serves'
<1>1. /\ indexes' \in Seq(Entry) /\ OneEntry(indexes')
      /\ \A i \in DOMAIN indexes' : indexes'[i].by \in Requests
  <2>1. indexes \in Seq(Entry) /\ OneEntry(indexes)
    BY DEF Serves, Typed
  <2>2. \A i \in DOMAIN indexes : indexes[i] \in Entry
    BY <2>1
  <2> QED BY <2>1, <2>2 DEF Entry
<1>2. \A i \in DOMAIN indexes' :
        /\ indexes'[i].job = JobOf(indexes'[i].by)
        /\ exec'[indexes'[i].by].pc \in Holding
  BY <1>1 DEF Serves, Held, Moves
<1>3. Fits =>
        /\ \A k \in DOMAIN indexes : indexes[k].job # JobOf(r) =>
             \E i \in DOMAIN indexes' : indexes'[i] = indexes[k]
        /\ exec'[r].alone =>
             /\ exec'[r].index \in {"none", "built", "own"}
             /\ exec'[r].index = "built" /\ exec'[r].pc \in {"node", "yielded", "record"} =>
                   \E i \in DOMAIN indexes' : indexes'[i].by = r
  BY DEF Serves, Finds, Waits, Fresh
<1> QED BY <1>1, <1>2, <1>3, Advance

\* A step that takes the index of its job out of the registry.
LEMMA Clears ==
    ASSUME Serves, NEW r \in Requests, Moves(r), ClearIndex(JobOf(r)),
           exec[r].pc \notin Outside,
           exec'[r].pc \notin Holding \cup {"none", "waiting", "recover", "start", "started"},
           exec'[r].pc \notin Outside => exec'[r].alone = exec[r].alone,
           \/ exec'[r].index = "none"
           \/ /\ exec'[r].index = exec[r].index /\ exec'[r].alone = exec[r].alone
              /\ exec'[r].pc # "done"
    PROVE  Serves'
<1>1. indexes \in Seq(Entry) /\ OneEntry(indexes) /\ Held(indexes)
  BY DEF Serves, Typed
<1>2. JobOf(r) \in Jobs \cup {None}
  BY DEF Serves, Typed, JobOf
<1>3. /\ indexes' \in Seq(Entry) /\ OneEntry(indexes')
      /\ \A i \in DOMAIN indexes' : indexes'[i].job # JobOf(r) /\ \E k \in DOMAIN indexes : indexes'[i] = indexes[k]
      /\ \A k \in DOMAIN indexes : indexes[k].job # JobOf(r) => \E i \in DOMAIN indexes' : indexes'[i] = indexes[k]
  <2> DEFINE u == Unregistered(indexes, JobOf(r))
  <2>1. /\ u \in Seq(Entry) /\ OneEntry(u)
        /\ \A i \in DOMAIN u : u[i].job # JobOf(r) /\ \E k \in DOMAIN indexes : u[i] = indexes[k]
        /\ \A k \in DOMAIN indexes : indexes[k].job # JobOf(r) => \E i \in DOMAIN u : u[i] = indexes[k]
    BY <1>1, <1>2, UnregisteredIs
  <2>2. indexes' = u
    BY DEF ClearIndex
  <2> QED BY <2>1, <2>2
<1>4. \A i \in DOMAIN indexes' :
        /\ indexes'[i].job = JobOf(indexes'[i].by)
        /\ exec'[indexes'[i].by].pc \in Holding
  <2> SUFFICES ASSUME NEW i \in DOMAIN indexes'
               PROVE  /\ indexes'[i].job = JobOf(indexes'[i].by)
                      /\ exec'[indexes'[i].by].pc \in Holding
    OBVIOUS
  <2>1. PICK k \in DOMAIN indexes : indexes'[i] = indexes[k]
    BY <1>3
  <2>2. indexes[k] \in Entry
    BY <1>1
  <2>3. indexes[k].by \in Requests
    BY <2>2 DEF Entry
  <2>4. indexes[k].job = JobOf(indexes[k].by) /\ exec[indexes[k].by].pc \in Holding
    BY <1>1 DEF Held
  <2>5. indexes[k].by # r
    BY <2>1, <2>4, <1>3
  <2> QED BY <2>1, <2>3, <2>4, <2>5 DEF Moves
<1>5. exec'[r].alone => exec'[r].index = "none" \/ exec[r].alone
  OBVIOUS
<1>6. Fits =>
        /\ \A k \in DOMAIN indexes : indexes[k].job # JobOf(r) =>
             \E i \in DOMAIN indexes' : indexes'[i] = indexes[k]
        /\ exec'[r].alone =>
             /\ exec'[r].index \in {"none", "built", "own"}
             /\ exec'[r].index = "built" /\ exec'[r].pc \in {"node", "yielded", "record"} =>
                   \E i \in DOMAIN indexes' : indexes'[i].by = r
  BY <1>3, <1>5 DEF Serves, Finds, Holding
<1>7. exec'[r].pc \in {"done", "recover", "start", "started"} => exec'[r].index = "none"
  OBVIOUS
<1> QED BY <1>3, <1>4, <1>6, <1>7, Advance

\* A step of a request that has no execution yet.
LEMMA Asks ==
    ASSUME Serves, NEW r \in Requests, indexes' = indexes,
           call[r].pc # "accepted",
           DOMAIN call' = Requests, DOMAIN call'[r] = {"pc", "kind", "job", "seen"},
           call'[r].job \in Jobs \cup {None},
           \A q \in Requests \ {r} : call'[q] = call[q],
           DOMAIN exec' = Requests, DOMAIN exec'[r] = ExecShape,
           \A q \in Requests \ {r} : exec'[q] = exec[q],
           exec'[r].pc \in {"none", "waiting"},
           exec'[r].pc # "none" => call'[r].pc = "accepted",
           exec'[r].index = exec[r].index
    PROVE  Serves'
<1>1. exec[r].pc = "none" /\ exec[r].index = "none"
  BY DEF Serves, Dispatched, Fresh
<1>2. Typed'
  BY DEF Serves, Typed, ExecShape
<1>3. Dispatched'
  BY DEF Serves, Dispatched
<1>4. Fresh'
  BY <1>1 DEF Serves, Fresh
<1>5. OneEntry(indexes)'
  BY DEF Serves, OneEntry
<1>6. Held(indexes)'
  <2>1. \A i \in DOMAIN indexes : indexes[i].by \in Requests
    <3>1. \A i \in DOMAIN indexes : indexes[i] \in Entry
      BY DEF Serves, Typed
    <3> QED BY <3>1 DEF Entry
  <2> QED BY <1>1, <2>1 DEF Serves, Held, JobOf, Holding
<1>7. Running' = Running
  BY <1>1 DEF Running, Outside
<1>8. Exclusive'
  BY <1>1 DEF Serves, Exclusive, Outside, JobOf
<1>9. Admitted'
  BY <1>7 DEF Serves, Admitted
<1>10. Finds'
  BY <1>1 DEF Serves, Finds, Fits, Waits
<1> QED BY <1>2, <1>3, <1>4, <1>5, <1>6, <1>8, <1>9, <1>10 DEF Serves

\* A permit is free, and the new execution counts for the others of its job.
LEMMA Admits ==
    ASSUME Serves, NEW r \in Requests, Admit(r)
    PROVE  Serves'
<1> DEFINE others == RunningOn(JobOf(r))
<1>1. /\ exec[r].pc = "waiting" /\ Cardinality(Running) < MaxConcurrent
      /\ indexes' = indexes /\ call' = call
  BY Zenon DEF Admit
<1>0. exec' = [q \in Requests |->
        IF q = r THEN [exec[r] EXCEPT !.pc = IF exec[r].reference THEN "recover" ELSE "start",
                                      !.alone = others = {}]
        ELSE [exec[q] EXCEPT !.alone = @ /\ q \notin others]]
  BY Zenon DEF Admit
<1> HIDE DEF others
<1>2. /\ DOMAIN exec' = Requests
      /\ \A q \in Requests : DOMAIN exec'[q] = ExecShape
      /\ exec'[r].pc \in {"recover", "start"} /\ exec'[r].index = exec[r].index
      /\ \A q \in Requests \ {r} : exec'[q].pc = exec[q].pc /\ exec'[q].index = exec[q].index
  BY <1>0 DEF Serves, Typed, ExecShape
<1>3. /\ exec'[r].alone = (others = {})
      /\ \A q \in Requests \ {r} : exec'[q].alone = (exec[q].alone /\ q \notin others)
  <2>1. "alone" \in DOMAIN exec[r] /\ \A q \in Requests \ {r} : "alone" \in DOMAIN exec[q]
    BY DEF Serves, Typed
  <2> QED BY <1>0, <2>1, Zenon
<1>4. Typed'
  BY <1>1, <1>2 DEF Serves, Typed, ExecShape
<1>5. Dispatched'
  BY <1>1, <1>2 DEF Serves, Dispatched
<1>6. Fresh'
  BY <1>1, <1>2 DEF Serves, Fresh
<1>7. OneEntry(indexes)'
  BY <1>1 DEF Serves, OneEntry
<1>8. Held(indexes)'
  <2>1. \A i \in DOMAIN indexes : indexes[i].by \in Requests
    <3>1. \A i \in DOMAIN indexes : indexes[i] \in Entry
      BY DEF Serves, Typed
    <3> QED BY <3>1 DEF Entry
  <2>2. exec[r].pc \notin Holding
    BY <1>1 DEF Holding
  <2> QED BY <1>1, <1>2, <2>1, <2>2 DEF Serves, Held, JobOf
<1>9. Exclusive'
  <2>1. others = {q \in Requests : exec[q].pc \notin Outside /\ JobOf(q) = JobOf(r)}
    BY DEF others, RunningOn, Running
  <2> SUFFICES ASSUME NEW p \in Requests, NEW q \in Requests,
                      exec'[p].pc \notin Outside, exec'[p].alone,
                      exec'[q].pc \notin Outside, JobOf(q) = JobOf(p)
               PROVE  q = p
    BY <1>1 DEF Exclusive, JobOf
  <2>2. CASE p = r /\ q # r
    <3>1. q \in others
      BY <2>1, <2>2, <1>2
    <3> QED BY <3>1, <2>2, <1>3
  <2>3. CASE p # r /\ q = r
    <3>1. p \in others
      BY <2>1, <2>3, <1>2
    <3> QED BY <3>1, <2>3, <1>3
  <2>4. CASE p # r /\ q # r
    BY <2>4, <1>2, <1>3 DEF Serves, Exclusive
  <2> QED BY <2>2, <2>3, <2>4
<1>10. Admitted'
  <2>1. Running' = Running \cup {r}
    BY <1>1, <1>2 DEF Running, Outside
  <2>2. r \notin Running
    BY <1>1 DEF Running, Outside
  <2>3. Cardinality(Running \cup {r}) = Cardinality(Running) + 1
    BY <2>2, RunningIsFinite, FS_AddElement
  <2> QED BY <2>1, <2>3, <1>1, RunningIsFinite, DemoJobsAssumption DEF Admitted
<1>11. Finds'
  <2>1. exec'[r].index = "none"
    BY <1>1, <1>2 DEF Serves, Fresh
  <2>2. \A q \in Requests \ {r} : exec'[q].alone => exec[q].alone
    BY <1>3
  <2>3. \A q \in Requests \ {r} : exec'[q].pc = exec[q].pc /\ exec'[q].index = exec[q].index
    BY <1>2
  <2> QED BY <1>1, <2>1, <2>2, <2>3 DEF Serves, Finds, Fits, Waits
<1> QED BY <1>4, <1>5, <1>6, <1>7, <1>8, <1>9, <1>10, <1>11 DEF Serves

\* An execution that was alone on its job finds the index it built.
LEMMA FindsItsOwn ==
    ASSUME Serves, NEW r \in Requests, Fits, exec[r].alone, Waits(r)
    PROVE  Found(r) = "own"
<1>1. PICK i \in DOMAIN indexes : indexes[i].by = r
  BY DEF Serves, Finds
<1>2. indexes[i].job = JobOf(r)
  BY <1>1 DEF Serves, Held
<1>3. Registered(JobOf(r))
  BY <1>2 DEF Registered
<1>4. \A x \in ToSet(indexes) : x.job = JobOf(r) => x = indexes[i]
  <2>1. \A k \in DOMAIN indexes : indexes[k].job = JobOf(r) => k = i
    BY <1>2 DEF Serves, OneEntry
  <2> QED BY <2>1 DEF ToSet
<1>5. indexes[i] \in ToSet(indexes)
  BY DEF ToSet
<1>6. IndexOf(JobOf(r)) = indexes[i]
  BY <1>2, <1>4, <1>5 DEF IndexOf
<1> QED BY <1>1, <1>3, <1>6 DEF Found

LEMMA RunsNode ==
    ASSUME Serves, NEW r \in Requests, RunNode(r)
    PROVE  Serves'
<1>1. exec[r].pc = "node" /\ call' = call
  BY DEF RunNode
<1>2. CASE /\ BuildIndex(r, JobOf(r))
           /\ exec' = [exec EXCEPT ![r].pc = "yielded", ![r].index = "built"]
  <2>1. Moves(r) /\ exec'[r].pc = "yielded" /\ exec'[r].index = "built"
        /\ exec'[r].alone = exec[r].alone
    BY <1>1, <1>2 DEF Serves, Typed, Moves, ExecShape
  <2> DEFINE b == Bounded(Append(Unregistered(indexes, JobOf(r)), [job |-> JobOf(r), by |-> r]))
  <2>2. /\ b \in Seq(Entry) /\ OneEntry(b) /\ Held(b)
        /\ Fits => /\ \E i \in DOMAIN b : b[i].by = r
                   /\ \A k \in DOMAIN indexes : indexes[k].job # JobOf(r) =>
                         \E i \in DOMAIN b : b[i] = indexes[k]
    BY <1>1, BuiltIs
  <2>3. indexes' = b
    BY <1>2, Zenon DEF BuildIndex
  <2> HIDE DEF b
  <2>4. \A i \in DOMAIN indexes' :
          /\ indexes'[i].job = JobOf(indexes'[i].by)
          /\ exec'[indexes'[i].by].pc \in Holding
    <3>1. \A i \in DOMAIN b : b[i].by \in Requests
      <4>1. \A i \in DOMAIN b : b[i] \in Entry
        BY <2>2
      <4> QED BY <4>1 DEF Entry
    <3>2. \A i \in DOMAIN b : b[i].job = JobOf(b[i].by) /\ exec[b[i].by].pc \in Holding
      BY <2>2 DEF Held
    <3>3. exec'[r].pc \in Holding
      BY <2>1 DEF Holding
    <3> QED BY <2>1, <2>3, <3>1, <3>2, <3>3 DEF Moves
  <2>5. exec[r].pc \notin Outside
    BY <1>1 DEF Outside
  <2> QED BY <2>1, <2>2, <2>3, <2>4, <2>5, Advance
<1>3. CASE indexes' = indexes /\ ExecGoes(r, "yielded")
  <2>1. Moves(r) /\ exec'[r].pc = "yielded" /\ exec'[r].index = exec[r].index
        /\ exec'[r].alone = exec[r].alone
    BY <1>1, <1>3 DEF Serves, Typed, Moves, ExecShape, ExecGoes
  <2> QED BY <1>1, <1>3, <2>1, Stays DEF Holding, Outside
<1>4. CASE /\ indexes' = indexes
           /\ exec' = [exec EXCEPT ![r].pc = "yielded",
                                   ![r].index = IF @ = "built" THEN Found(r) ELSE @]
  <2>1. Moves(r) /\ exec'[r].pc = "yielded" /\ exec'[r].alone = exec[r].alone
        /\ exec'[r].index = IF exec[r].index = "built" THEN Found(r) ELSE exec[r].index
    BY <1>1, <1>4 DEF Serves, Typed, Moves, ExecShape
  <2>2. /\ indexes' \in Seq(Entry) /\ OneEntry(indexes')
        /\ \A i \in DOMAIN indexes' : indexes'[i].by \in Requests
    <3>1. indexes \in Seq(Entry) /\ OneEntry(indexes)
      BY DEF Serves, Typed
    <3>2. \A i \in DOMAIN indexes : indexes[i] \in Entry
      BY <3>1
    <3> QED BY <1>4, <3>1, <3>2 DEF Entry
  <2>3. \A i \in DOMAIN indexes' :
          /\ indexes'[i].job = JobOf(indexes'[i].by)
          /\ exec'[indexes'[i].by].pc \in Holding
    BY <1>4, <2>1, <2>2 DEF Serves, Held, Moves, Holding
  <2>4. Fits /\ exec[r].alone => exec'[r].index \in {"none", "own"}
    <3> SUFFICES ASSUME Fits, exec[r].alone
                 PROVE  exec'[r].index \in {"none", "own"}
      OBVIOUS
    <3>1. CASE exec[r].index = "built"
      BY <3>1, <1>1, <2>1, FindsItsOwn DEF Waits
    <3>2. CASE exec[r].index # "built"
      BY <3>2, <2>1 DEF Serves, Finds
    <3> QED BY <3>1, <3>2
  <2>5. exec[r].pc \notin Outside
    BY <1>1 DEF Outside
  <2>6. Fits =>
          /\ \A k \in DOMAIN indexes : indexes[k].job # JobOf(r) =>
               \E i \in DOMAIN indexes' : indexes'[i] = indexes[k]
          /\ exec'[r].alone =>
               /\ exec'[r].index \in {"none", "built", "own"}
               /\ exec'[r].index = "built" /\ exec'[r].pc \in {"node", "yielded", "record"} =>
                     \E i \in DOMAIN indexes' : indexes'[i].by = r
    BY <1>4, <2>1, <2>4
  <2> QED BY <2>1, <2>2, <2>3, <2>5, <2>6, Advance
<1> QED BY <1>2, <1>3, <1>4, Zenon DEF RunNode

----------------------------------------------------------------------------
(* The theorem.                                                            *)

LEMMA ServesInit == Init => Serves
<1> SUFFICES ASSUME Init PROVE Serves
  OBVIOUS
<1>1. \A r \in Requests : exec[r] = NoExec
  BY DEF Init
<1>2. Running = {}
  BY <1>1 DEF Running, Outside, NoExec
<1>3. Admitted
  BY <1>2, FS_EmptySet, DemoJobsAssumption DEF Admitted
<1>4. Typed
  BY DEF Init, Typed, NoExec
<1>5. indexes = <<>>
  BY DEF Init
<1> QED
  BY <1>1, <1>3, <1>4, <1>5
  DEF Serves, Dispatched, Fresh, OneEntry, Held, Exclusive, Finds, Waits, NoExec, Outside

LEMMA ServesStep == Serves /\ [Next]_vars => Serves'
<1> SUFFICES ASSUME Serves, [Next]_vars PROVE Serves'
  OBVIOUS
<1>1. CASE UNCHANGED vars
  BY <1>1 DEF vars, Serves, Typed, Dispatched, Fresh, OneEntry, Held, JobOf, Exclusive,
               Admitted, Running, Finds, Fits, Waits
<1>2. ASSUME NEW r \in Requests, Read(r) PROVE Serves'
  <2>1. call[r].pc = "idle" /\ exec' = exec /\ indexes' = indexes
    BY <1>2 DEF Read
  <2>2. /\ DOMAIN call' = Requests /\ DOMAIN call'[r] = {"pc", "kind", "job", "seen"}
        /\ call'[r].job \in Jobs \cup {None}
        /\ \A q \in Requests \ {r} : call'[q] = call[q]
    <3>1. PICK j \in Jobs, kind \in {"submit", "retry", "cancel"} :
            call' = [call EXCEPT ![r] = [pc |-> IF Refused(kind, rows[j]) THEN "refused" ELSE "read",
                                         kind |-> kind, job |-> j,
                                         seen |-> IF Refused(kind, rows[j]) THEN None ELSE rows[j]]]
      BY <1>2, Zenon DEF Read
    <3> QED BY <3>1 DEF Serves, Typed
  <2>3. exec[r].pc = "none"
    BY <2>1 DEF Serves, Dispatched
  <2>4. DOMAIN exec = Requests /\ DOMAIN exec[r] = ExecShape
    BY DEF Serves, Typed, ExecShape
  <2> QED BY <2>1, <2>2, <2>3, <2>4, Asks
<1>3. ASSUME NEW r \in Requests,
             Submit(r) \/ Retry(r) \/ RequestCancel(r) \/ CancelQueued(r)
      PROVE  Serves'
  <2>1. call[r].pc # "accepted" /\ exec' = exec /\ indexes' = indexes
    BY <1>3 DEF Submit, Retry, RequestCancel, CancelQueued
  <2>2. \E pc \in {"error", "written", "refused", "flagged", "accepted"} : CallGoes(r, pc)
    BY <1>3, Zenon DEF Submit, Retry, RequestCancel, CancelQueued
  <2>3. /\ DOMAIN call' = Requests /\ DOMAIN call'[r] = {"pc", "kind", "job", "seen"}
        /\ call'[r].job \in Jobs \cup {None}
        /\ \A q \in Requests \ {r} : call'[q] = call[q]
    BY <2>2 DEF CallGoes, Serves, Typed
  <2>4. exec[r].pc = "none"
    BY <2>1 DEF Serves, Dispatched
  <2>5. DOMAIN exec = Requests /\ DOMAIN exec[r] = ExecShape
    BY DEF Serves, Typed, ExecShape
  <2> QED BY <2>1, <2>3, <2>4, <2>5, Asks
<1>4. ASSUME NEW r \in Requests, Dispatch(r) PROVE Serves'
  <2>1. call[r].pc = "written" /\ indexes' = indexes
    BY <1>4 DEF Dispatch
  <2>2. /\ DOMAIN call' = Requests /\ DOMAIN call'[r] = {"pc", "kind", "job", "seen"}
        /\ call'[r].job \in Jobs \cup {None} /\ call'[r].pc = "accepted"
        /\ \A q \in Requests \ {r} : call'[q] = call[q]
    BY <1>4 DEF Dispatch, CallGoes, Serves, Typed
  <2>3. PICK reference :
          exec' = [exec EXCEPT ![r].pc = "waiting", ![r].reference = reference]
    BY <1>4, Zenon DEF Dispatch
  <2>4. /\ DOMAIN exec' = Requests /\ DOMAIN exec'[r] = ExecShape
        /\ exec'[r].pc = "waiting" /\ exec'[r].index = exec[r].index
        /\ \A q \in Requests \ {r} : exec'[q] = exec[q]
    BY <2>3 DEF Serves, Typed, ExecShape
  <2> QED BY <2>1, <2>2, <2>4, Asks
<1>5. ASSUME NEW r \in Requests,
             Recover(r) \/ Start(r) \/ CheckBeforeStart(r) \/ RecordNode(r) \/ Break(r)
      PROVE  Serves'
  <2>1. call' = call /\ indexes' = indexes
    BY <1>5 DEF Recover, Start, CheckBeforeStart, RecordNode, Break
  <2>2. \/ exec[r].pc = "recover" /\ \E pc \in {"start", "failing"} : ExecGoes(r, pc)
        \/ exec[r].pc = "start" /\ ExecGoes(r, "started")
        \/ exec[r].pc = "started" /\ \E pc \in {"cancelling", "node"} : ExecGoes(r, pc)
        \/ exec[r].pc \in {"node", "yielded"} /\ ExecGoes(r, "broken")
        \/ exec[r].pc = "record" /\ \E pc \in {"streamed", "node"} : \E node :
              exec' = [exec EXCEPT ![r].pc = pc, ![r].node = node]
    <3>1. CASE Recover(r)
      BY <3>1, Zenon DEF Recover
    <3>2. CASE Start(r) \/ Break(r)
      BY <3>2, Zenon DEF Start, Break
    <3>3. CASE CheckBeforeStart(r)
      BY <3>3, Zenon DEF CheckBeforeStart
    <3>4. CASE RecordNode(r)
      BY <3>4, Zenon DEF RecordNode
    <3> QED BY <1>5, <3>1, <3>2, <3>3, <3>4
  <2>3. /\ Moves(r) /\ exec'[r].index = exec[r].index /\ exec'[r].alone = exec[r].alone
        /\ \/ exec[r].pc = "recover" /\ exec'[r].pc \in {"start", "failing"}
           \/ exec[r].pc = "start" /\ exec'[r].pc = "started"
           \/ exec[r].pc = "started" /\ exec'[r].pc \in {"cancelling", "node"}
           \/ exec[r].pc \in {"node", "yielded"} /\ exec'[r].pc = "broken"
           \/ exec[r].pc = "record" /\ exec'[r].pc \in {"streamed", "node"}
    BY <2>1, <2>2 DEF Moves, ExecGoes, ExecShape, Serves, Typed
  <2>4. exec[r].pc \in {"recover", "start"} => exec'[r].index = "none"
    BY <2>3 DEF Serves, Fresh
  <2> QED BY <2>1, <2>3, <2>4, Stays DEF Holding, Outside
<1>6. ASSUME NEW r \in Requests, Fail(r) \/ Finish(r) \/ Cancelled(r)
      PROVE  Serves'
  <2>1. call' = call /\ indexes' = indexes
    BY <1>6 DEF Fail, Finish, Cancelled
  <2>2. \/ exec[r].pc = "broken" /\ ExecGoes(r, "clearing")
        \/ exec[r].pc \in {"failing", "finishing", "cancelling"} /\ Release(r)
    BY <1>6, Zenon DEF Fail, Finish, Cancelled
  <2>3. CASE exec[r].pc = "broken" /\ ExecGoes(r, "clearing")
    <3>1. /\ Moves(r) /\ exec'[r].index = exec[r].index /\ exec'[r].alone = exec[r].alone
          /\ exec'[r].pc = "clearing"
      BY <2>1, <2>3 DEF Moves, ExecGoes, ExecShape, Serves, Typed
    <3> QED BY <2>1, <2>3, <3>1, Stays DEF Holding, Outside
  <2>4. CASE exec[r].pc \in {"failing", "finishing", "cancelling"} /\ Release(r)
    <3>1. Moves(r) /\ exec'[r].index = "none" /\ exec'[r].pc = "done"
      BY <2>1, <2>4 DEF Moves, Release, NoExec, ExecShape, Serves, Typed
    <3> QED BY <2>1, <2>4, <3>1, Stays DEF Holding, Outside
  <2> QED BY <2>2, <2>3, <2>4
<1>7. ASSUME NEW r \in Requests, CheckCancel(r) PROVE Serves'
  <2>1. call' = call /\ exec[r].pc = "yielded"
    BY <1>7 DEF CheckCancel
  <2>2. CASE ClearIndex(JobOf(r)) /\ ExecGoes(r, "cancelling")
    <3>1. /\ Moves(r) /\ exec'[r].index = exec[r].index /\ exec'[r].alone = exec[r].alone
          /\ exec'[r].pc = "cancelling"
      BY <2>1, <2>2 DEF Moves, ExecGoes, ExecShape, Serves, Typed
    <3> QED BY <2>1, <2>2, <3>1, Clears DEF Holding, Outside
  <2>3. CASE indexes' = indexes /\ ExecGoes(r, "record")
    <3>1. /\ Moves(r) /\ exec'[r].index = exec[r].index /\ exec'[r].alone = exec[r].alone
          /\ exec'[r].pc = "record"
      BY <2>1, <2>3 DEF Moves, ExecGoes, ExecShape, Serves, Typed
    <3> QED BY <2>1, <2>3, <3>1, Stays DEF Holding, Outside
  <2> QED BY <1>7, <2>2, <2>3, Zenon DEF CheckCancel
<1>8. ASSUME NEW r \in Requests, Save(r) \/ ClearBroken(r) PROVE Serves'
  <2>1. call' = call /\ ClearIndex(JobOf(r))
    BY <1>8, Zenon DEF Save, ClearBroken
  <2>2. \/ exec[r].pc = "streamed" /\ \E pc \in {"finishing", "failing"} : ExecGoes(r, pc)
        \/ exec[r].pc = "clearing" /\ Release(r)
    BY <1>8, Zenon DEF Save, ClearBroken
  <2>3. CASE exec[r].pc = "streamed" /\ \E pc \in {"finishing", "failing"} : ExecGoes(r, pc)
    <3>1. /\ Moves(r) /\ exec'[r].index = exec[r].index /\ exec'[r].alone = exec[r].alone
          /\ exec'[r].pc \in {"finishing", "failing"}
      BY <2>1, <2>3 DEF Moves, ExecGoes, ExecShape, Serves, Typed
    <3> QED BY <2>1, <2>3, <3>1, Clears DEF Holding, Outside
  <2>4. CASE exec[r].pc = "clearing" /\ Release(r)
    <3>1. Moves(r) /\ exec'[r].index = "none" /\ exec'[r].pc = "done"
      BY <2>1, <2>4 DEF Moves, Release, NoExec, ExecShape, Serves, Typed
    <3> QED BY <2>1, <2>4, <3>1, Clears DEF Holding, Outside
  <2> QED BY <2>2, <2>3, <2>4
<1>9. ASSUME NEW r \in Requests, Admit(r) \/ RunNode(r) PROVE Serves'
  BY <1>9, Admits, RunsNode
<1> QED
  BY <1>1, <1>2, <1>3, <1>4, <1>5, <1>6, <1>7, <1>8, <1>9 DEF Next, Handle, Execute

LEMMA ServesSafely == Serves => RegistryServesExecutions
<1> SUFFICES ASSUME Serves PROVE RegistryServesExecutions
  OBVIOUS
<1>1. IndexesAreOfRunningJobs
  <2> SUFFICES ASSUME NEW i \in DOMAIN indexes PROVE RunningOn(indexes[i].job) # {}
    BY DEF IndexesAreOfRunningJobs
  <2>1. indexes[i] \in Entry
    BY DEF Serves, Typed
  <2>2. indexes[i].by \in Requests
    BY <2>1 DEF Entry
  <2>3. indexes[i].job = JobOf(indexes[i].by) /\ exec[indexes[i].by].pc \in Holding
    BY DEF Serves, Held
  <2>4. indexes[i].by \in RunningOn(indexes[i].job)
    BY <2>2, <2>3 DEF RunningOn, Running, Holding, Outside
  <2> QED BY <2>4
<1>2. RetrievalUsesOwnIndex
  BY DEF RetrievalUsesOwnIndex, Serves, Finds, Fits
<1> QED BY <1>1, <1>2 DEF RegistryServesExecutions

\* The registry of source indexes holds indexes of running jobs only, and an
\* execution that was alone on its job retrieves from the index it built, when
\* the registry has room for every running job (rag/source_index.py, the
\* finally of execute_job).
THEOREM RegistryIsServed == Spec => []RegistryServesExecutions
<1>1. Init => Serves
  BY ServesInit
<1>2. Serves /\ [Next]_vars => Serves'
  BY ServesStep
<1>3. Serves => RegistryServesExecutions
  BY ServesSafely
<1> QED BY <1>1, <1>2, <1>3, PTL DEF Spec

----------------------------------------------------------------------------
(* What the rows say of the requests.                                      *)

\* A request that was counted as an attempt.
Counted(r) == call[r].kind # "cancel" /\ call[r].pc \in {"written", "accepted"}

\* A row read by a submission knows of no more attempts than were made.
Recorded ==
    /\ rows \in [Jobs -> Row \cup {None}] /\ DOMAIN mirror = Jobs
    /\ \A r \in Requests :
        /\ call[r].pc # "idle" => JobOf(r) \in Jobs
        /\ call[r].pc = "read" =>
            /\ call[r].seen \in Row \cup {None}
            /\ call[r].kind # "submit" => call[r].seen \in Row
            /\ call[r].seen \in Row =>
                /\ rows[JobOf(r)] \in Row
                /\ call[r].seen.attempt <= Cardinality(Written(JobOf(r)))
        /\ call[r].pc \in {"written", "flagged", "accepted"} => rows[JobOf(r)] \in Row
        /\ call[r].pc = "flagged" => call[r].kind = "cancel"
        /\ call[r].pc = "written" => call[r].kind \in {"submit", "retry"}
    /\ \A j \in Jobs : rows[j] \in Row => rows[j].attempt <= Cardinality(Written(j))

\* The pcs at which a request or an execution keeps the event loop. It comes
\* to "start" and "failing" with the loop or, after a download, without it.
Handling == {"read", "written", "flagged"}
Keeping == {"recover", "started", "record", "broken", "finishing", "clearing", "cancelling"}

HoldsLoop(r) == call[r].pc \in Handling \/ exec[r].pc \in Keeping

\* With the memory store a request that is between two steps of its own has
\* the event loop, so what it read is still so and the count is exact.
LoopHeld == store = "memory" => \A r \in Requests : HoldsLoop(r) => busy = r

Undivided == store = "memory" =>
    \A r \in Requests :
        /\ call[r].pc = "read" => call[r].seen = rows[JobOf(r)]
        /\ call[r].pc = "flagged" => rows[JobOf(r)].status = "QUEUED"

Exact == store = "memory" =>
    \A j \in Jobs : rows[j] \in Row => rows[j].attempt = Cardinality(Written(j))

LEMMA WrittenIsFinite ==
    ASSUME NEW j PROVE IsFiniteSet(Written(j)) /\ Cardinality(Written(j)) \in Nat
<1>1. Written(j) \in SUBSET Requests
  BY DEF Written
<1> QED BY <1>1, DemoJobsAssumption, FS_Subset, FS_CardinalityType

\* What was written stays so, and a request is counted once.
LEMMA WrittenGrows ==
    ASSUME NEW r \in Requests, \A q \in Requests \ {r} : call'[q] = call[q],
           Counted(r) => Counted(r)',
           call'[r].job = call[r].job \/ ~Counted(r)'
    PROVE  \A j :
              /\ IsFiniteSet(Written(j)') /\ Cardinality(Written(j)') \in Nat
              /\ Cardinality(Written(j)) <= Cardinality(Written(j)')
              /\ (Counted(r)' => Counted(r)) \/ call[r].job # j => Written(j)' = Written(j)
              /\ ~Counted(r) /\ Counted(r)' /\ call[r].job = j =>
                    Cardinality(Written(j)') = Cardinality(Written(j)) + 1
<1> SUFFICES ASSUME NEW j
             PROVE  /\ IsFiniteSet(Written(j)') /\ Cardinality(Written(j)') \in Nat
                    /\ Cardinality(Written(j)) <= Cardinality(Written(j)')
                    /\ (Counted(r)' => Counted(r)) \/ call[r].job # j => Written(j)' = Written(j)
                    /\ ~Counted(r) /\ Counted(r)' /\ call[r].job = j =>
                          Cardinality(Written(j)') = Cardinality(Written(j)) + 1
  OBVIOUS
<1>1. /\ Written(j) = {q \in Requests : call[q].job = j /\ Counted(q)}
      /\ Written(j)' = {q \in Requests : call'[q].job = j /\ Counted(q)'}
  BY DEF Written, Counted, JobOf
<1>2. \A q \in Requests \ {r} : Counted(q)' <=> Counted(q)
  BY DEF Counted
<1>3. Written(j) \in SUBSET Requests /\ Written(j)' \in SUBSET Requests
  BY <1>1
<1>4. Written(j) \subseteq Written(j)'
  BY <1>1, <1>2
<1>5. /\ IsFiniteSet(Written(j)') /\ Cardinality(Written(j)') \in Nat
      /\ IsFiniteSet(Written(j)) /\ Cardinality(Written(j)) \in Nat
  BY <1>3, DemoJobsAssumption, FS_Subset, FS_CardinalityType
<1>6. Cardinality(Written(j)) <= Cardinality(Written(j)')
  BY <1>4, <1>5, FS_Subset
<1>7. (Counted(r)' => Counted(r)) \/ call[r].job # j => Written(j)' = Written(j)
  BY <1>1, <1>2
<1>8. ASSUME ~Counted(r), Counted(r)', call[r].job = j
      PROVE  Cardinality(Written(j)') = Cardinality(Written(j)) + 1
  <2>1. Written(j)' = Written(j) \cup {r} /\ r \notin Written(j)
    BY <1>1, <1>2, <1>8
  <2> QED BY <2>1, <1>5, FS_AddElement
<1> QED BY <1>5, <1>6, <1>7, <1>8

\* A row nobody has written to counts nothing.
LEMMA NoneWritten ==
    ASSUME Recorded, NEW j \in Jobs, rows[j] = None
    PROVE  Cardinality(Written(j)) = 0
<1>1. \A r \in Written(j) : rows[j] \in Row
  BY DEF Recorded, Written
<1>2. Written(j) = {}
  BY <1>1, DemoJobsAssumption
<1> QED BY <1>2, FS_EmptySet

\* What one row becomes, and nothing else.
OneRow(j) ==
    /\ rows' \in [Jobs -> Row \cup {None}]
    /\ rows'[j] \in Row
    /\ \A k \in Jobs \ {j} : rows'[k] = rows[k]

\* A step of a request or an execution that leaves the number of the row's
\* attempts alone.
LEMMA KeepsCount ==
    ASSUME Recorded, NEW r \in Requests, store' = store,
           \A q \in Requests \ {r} : call'[q] = call[q],
           call'[r].job = call[r].job, call'[r].kind = call[r].kind,
           Counted(r)' <=> Counted(r),
           call'[r].pc \notin {"read", "idle"} \/ call' = call,
           call[r].pc # "idle" \/ call' = call,
           call'[r].pc = "flagged" => call'[r].kind = "cancel",
           call'[r].pc = "written" => call[r].pc = "written",
           call'[r].pc \in {"flagged", "accepted"} => rows[JobOf(r)] \in Row,
           DOMAIN mirror' = Jobs,
           \/ rows' = rows
           \/ /\ OneRow(JobOf(r)) /\ rows[JobOf(r)] \in Row /\ JobOf(r) \in Jobs
              /\ rows'[JobOf(r)].attempt = rows[JobOf(r)].attempt
    PROVE  Recorded' /\ (Exact => Exact')
<1>1. \A j : Written(j)' = Written(j)
  BY WrittenGrows
<1>2. rows' \in [Jobs -> Row \cup {None}]
  BY DEF Recorded, OneRow
<1>3. \A j \in Jobs : /\ rows[j] \in Row => rows'[j] \in Row
                      /\ rows'[j] \in Row => rows[j] \in Row /\ rows'[j].attempt = rows[j].attempt
  BY DEF OneRow
<1>4. ASSUME NEW q \in Requests
      PROVE  /\ call'[q].pc # "idle" => JobOf(q)' \in Jobs
             /\ call'[q].pc = "read" =>
                 /\ call'[q].seen \in Row \cup {None}
                 /\ call'[q].kind # "submit" => call'[q].seen \in Row
                 /\ call'[q].seen \in Row =>
                     /\ rows'[JobOf(q)'] \in Row
                     /\ call'[q].seen.attempt <= Cardinality(Written(JobOf(q)'))
             /\ call'[q].pc \in {"written", "flagged", "accepted"} => rows'[JobOf(q)'] \in Row
             /\ call'[q].pc = "flagged" => call'[q].kind = "cancel"
             /\ call'[q].pc = "written" => call'[q].kind \in {"submit", "retry"}
  <2>1. CASE q # r \/ call' = call
    BY <1>3, <2>1 DEF Recorded, JobOf
  <2>2. CASE q = r /\ call' # call
    BY <1>3, <2>2 DEF Recorded, JobOf
  <2> QED BY <2>1, <2>2
<1>5. \A j \in Jobs : rows'[j] \in Row => rows'[j].attempt <= Cardinality(Written(j))
  BY <1>3 DEF Recorded
<1>6. ASSUME NEW q \in Requests, call'[q].pc = "read", call'[q].seen \in Row
      PROVE  call'[q].seen.attempt <= Cardinality(Written(JobOf(q))')
  <2>1. Written(JobOf(q))' = Written(JobOf(q)')
    <3>1. \A j : Written(j)' = {p \in Requests : JobOf(p)' = j /\ Counted(p)'}
      BY DEF Written, Counted
    <3>2. \A j : Written(j) = {p \in Requests : JobOf(p) = j /\ Counted(p)}
      BY DEF Written, Counted
    <3>3. Written(JobOf(q))' = {p \in Requests : JobOf(p)' = JobOf(q)' /\ Counted(p)'}
      BY DEF Written, Counted
    <3> QED BY <1>1, <3>1, <3>2, <3>3
  <2> QED BY <1>4, <1>6, <2>1
<1>7. Exact => Exact'
  BY <1>1, <1>3 DEF Exact
<1>8. Recorded'
  BY <1>2, <1>4, <1>5, <1>6, <1>1 DEF Recorded
<1> QED BY <1>7, <1>8

LEMMA RecordedInit == Init => Recorded
<1> SUFFICES ASSUME Init PROVE Recorded
  OBVIOUS
<1>1. rows = [j \in Jobs |-> None] /\ \A r \in Requests : call[r].pc = "idle"
  BY DEF Init
<1>2. \A j \in Jobs : rows[j] \notin Row
  BY <1>1, DemoJobsAssumption
<1> QED BY <1>1, <1>2 DEF Recorded, Init

\* What the rows are made into.
LEMMA RowsAreRows ==
    /\ NewRow \in Row /\ NewRow.attempt = 1
    /\ \A x \in Row :
        /\ Requeued(x) \in Row /\ Requeued(x).attempt = x.attempt + 1
        /\ \A y : Resubmitted(y, x) \in Row /\ Resubmitted(y, x).attempt = x.attempt + 1
        /\ [x EXCEPT !.cancel = TRUE] \in Row
        /\ [x EXCEPT !.cancel = TRUE].attempt = x.attempt
        /\ [x EXCEPT !.cancel = TRUE].status = x.status
        /\ \A s \in {"QUEUED", "PROCESSING"} \cup Terminal, e \in BOOLEAN :
              /\ WithStatus(x, s, e) \in Row
              /\ WithStatus(x, s, e).attempt = x.attempt
              /\ WithStatus(x, s, e).status = s
<1>1. ASSUME NEW x \in Row, NEW s \in {"QUEUED", "PROCESSING"} \cup Terminal, NEW e \in BOOLEAN
      PROVE  /\ WithStatus(x, s, e) \in Row
             /\ WithStatus(x, s, e).attempt = x.attempt
             /\ WithStatus(x, s, e).status = s
  <2>1. (x.error \/ e) \in BOOLEAN
    OBVIOUS
  <2> DEFINE error == x.error \/ e
  <2> HIDE DEF error
  <2>2. WithStatus(x, s, e) = [x EXCEPT !.status = s, !.error = error]
    BY DEF WithStatus, error
  <2>3. error \in BOOLEAN
    BY <2>1 DEF error
  <2> QED BY <2>2, <2>3 DEF Row
<1>2. NewRow \in Row /\ NewRow.attempt = 1
  BY DEF NewRow, Row
<1>3. ASSUME NEW x \in Row
      PROVE  /\ Requeued(x) \in Row /\ Requeued(x).attempt = x.attempt + 1
             /\ \A y : Resubmitted(y, x) \in Row /\ Resubmitted(y, x).attempt = x.attempt + 1
             /\ [x EXCEPT !.cancel = TRUE] \in Row
             /\ [x EXCEPT !.cancel = TRUE].attempt = x.attempt
             /\ [x EXCEPT !.cancel = TRUE].status = x.status
  <2>1. /\ x.attempt \in Nat /\ x.attempt + 1 \in Nat
        /\ x.status \in {"QUEUED", "PROCESSING"} \cup Terminal
    BY DEF Row
  <2>2. Requeued(x) \in Row /\ Requeued(x).attempt = x.attempt + 1
    BY <2>1 DEF Requeued, Row
  <2>3. \A y : Resubmitted(y, x) \in Row /\ Resubmitted(y, x).attempt = x.attempt + 1
    BY <2>1 DEF Resubmitted, Row
  <2>4. /\ [x EXCEPT !.cancel = TRUE] \in Row
        /\ [x EXCEPT !.cancel = TRUE].attempt = x.attempt
        /\ [x EXCEPT !.cancel = TRUE].status = x.status
    BY DEF Row
  <2> QED BY <2>2, <2>3, <2>4
<1> QED BY <1>1, <1>2, <1>3

\* A step that adds an attempt and counts a request.
LEMMA CountsOne ==
    ASSUME Recorded, NEW r \in Requests, store' = store,
           \A q \in Requests \ {r} : call'[q] = call[q],
           call[r].pc = "read", call[r].kind \in {"submit", "retry"},
           call'[r].job = call[r].job, call'[r].kind = call[r].kind,
           call'[r].pc = "written", OneRow(JobOf(r)), DOMAIN mirror' = Jobs,
           rows'[JobOf(r)].attempt <= Cardinality(Written(JobOf(r))) + 1,
           Exact,
           store = "memory" => rows'[JobOf(r)].attempt = Cardinality(Written(JobOf(r))) + 1
    PROVE  Recorded' /\ Exact'
<1>1. ~Counted(r) /\ Counted(r)' /\ JobOf(r) \in Jobs
  BY DEF Counted, Recorded
<1>2. \A j : /\ Cardinality(Written(j)') \in Nat /\ Cardinality(Written(j)) \in Nat
             /\ Cardinality(Written(j)) <= Cardinality(Written(j)')
             /\ JobOf(r) # j => Written(j)' = Written(j)
             /\ JobOf(r) = j => Cardinality(Written(j)') = Cardinality(Written(j)) + 1
  BY <1>1, WrittenGrows, WrittenIsFinite DEF JobOf
<1> DEFINE count == [j \in Jobs |-> Cardinality(Written(j))]
<1>3. \A q \in Requests : JobOf(q)' = JobOf(q)
  BY DEF JobOf
<1>4. \A j \in Jobs : rows[j] \in Row => rows'[j] \in Row
  BY DEF OneRow
<1>5. ASSUME NEW q \in Requests
      PROVE  /\ call'[q].pc # "idle" => JobOf(q)' \in Jobs
             /\ call'[q].pc = "read" =>
                 /\ call'[q].seen \in Row \cup {None}
                 /\ call'[q].kind # "submit" => call'[q].seen \in Row
                 /\ call'[q].seen \in Row => rows'[JobOf(q)'] \in Row
             /\ call'[q].pc \in {"written", "flagged", "accepted"} => rows'[JobOf(q)'] \in Row
             /\ call'[q].pc = "flagged" => call'[q].kind = "cancel"
             /\ call'[q].pc = "written" => call'[q].kind \in {"submit", "retry"}
  <2>1. CASE q # r
    BY <1>3, <1>4, <2>1 DEF Recorded
  <2>2. CASE q = r
    BY <1>1, <1>3, <2>2 DEF OneRow
  <2> QED BY <2>1, <2>2
<1>6. ASSUME NEW q \in Requests, call'[q].pc = "read", call'[q].seen \in Row
      PROVE  call'[q].seen.attempt <= Cardinality(Written(JobOf(q))')
  <2>1. q # r /\ call'[q] = call[q]
    BY <1>6
  <2>2. call[q].seen.attempt <= Cardinality(Written(JobOf(q)))
    BY <1>6, <2>1 DEF Recorded
  <2>3. call[q].seen.attempt \in Nat
    BY <1>6, <2>1 DEF Row
  <2>4. \E j : j = JobOf(q) /\ j = JobOf(q)'
    BY <1>3
  <2>5. PICK j : j = JobOf(q) /\ j = JobOf(q)'
    BY <2>4
  <2>6. call[q].seen.attempt <= Cardinality(Written(j)')
    BY <1>2, <2>2, <2>3, <2>5
  <2>7. Written(JobOf(q))' = Written(j)'
    <3>1. \A k : Written(k)' = {p \in Requests : JobOf(p)' = k /\ Counted(p)'}
      BY DEF Written, Counted
    <3>2. Written(JobOf(q))' = {p \in Requests : JobOf(p)' = JobOf(q)' /\ Counted(p)'}
      BY DEF Written, Counted
    <3> QED BY <2>5, <3>1, <3>2
  <2> QED BY <2>1, <2>6, <2>7
<1>7. ASSUME NEW j \in Jobs, rows'[j] \in Row
      PROVE  rows'[j].attempt <= Cardinality(Written(j)')
  <2>1. CASE j = JobOf(r)
    BY <1>2, <2>1
  <2>2. CASE j # JobOf(r)
    <3>1. rows'[j] = rows[j] /\ Written(j)' = Written(j)
      BY <1>2, <2>2 DEF OneRow
    <3> QED BY <1>7, <3>1 DEF Recorded
  <2> QED BY <2>1, <2>2
<1>8. rows' \in [Jobs -> Row \cup {None}]
  BY DEF OneRow
<1>9. Recorded'
  BY <1>5, <1>6, <1>7, <1>8 DEF Recorded
<1>10. ASSUME store = "memory", NEW j \in Jobs, rows'[j] \in Row
       PROVE  rows'[j].attempt = Cardinality(Written(j)')
  <2>1. CASE j = JobOf(r)
    BY <1>2, <1>10, <2>1
  <2>2. CASE j # JobOf(r)
    <3>1. rows'[j] = rows[j] /\ Written(j)' = Written(j)
      BY <1>2, <2>2 DEF OneRow
    <3> QED BY <1>10, <3>1 DEF Exact
  <2> QED BY <2>1, <2>2
<1> QED BY <1>9, <1>10 DEF Exact

\* The row of a job gets a status, and the mirror an entry for it.
Writes(r, s) ==
    /\ OneRow(JobOf(r))
    /\ rows'[JobOf(r)].status = s
    /\ rows'[JobOf(r)].attempt = rows[JobOf(r)].attempt
    /\ DOMAIN mirror' = Jobs
    /\ mirror'[JobOf(r)].status = IF s = "CANCELLED" THEN "FAILED" ELSE PublicStatus(s)
    /\ \A j \in Jobs \ {JobOf(r)} : mirror'[j] = mirror[j]

LEMMA WritesBoth ==
    ASSUME Recorded, NEW r \in Requests, JobOf(r) \in Jobs, rows[JobOf(r)] \in Row,
           NEW s \in {"QUEUED", "PROCESSING"} \cup Terminal, NEW e \in BOOLEAN,
           NEW result, NEW f,
           WriteStatus(JobOf(r), s, e),
           UpdateProgress(JobOf(r), IF s = "CANCELLED" THEN "FAILED" ELSE PublicStatus(s), result, f)
    PROVE  Writes(r, s)
<1> DEFINE j == JobOf(r)
           shown == IF s = "CANCELLED" THEN "FAILED" ELSE PublicStatus(s)
           row == WithStatus(rows[j], s, e)
<1>1. row \in Row /\ row.attempt = rows[j].attempt /\ row.status = s
  BY RowsAreRows
<1>2. rows' = [rows EXCEPT ![j] = row]
  BY DEF WriteStatus
<1> HIDE DEF row
<1>3. rows \in [Jobs -> Row \cup {None}] /\ DOMAIN mirror = Jobs
  BY DEF Recorded
<1>4. OneRow(j) /\ rows'[j].status = s /\ rows'[j].attempt = rows[j].attempt
  BY <1>1, <1>2, <1>3 DEF OneRow
<1> HIDE DEF shown
<1> DEFINE entry == [status |-> shown,
                     result |-> IF result # None THEN result ELSE EntryOf(j).result,
                     error |-> f \/ EntryOf(j).error]
<1>5. mirror' = [mirror EXCEPT ![j] = entry]
  BY DEF UpdateProgress, shown
<1>7. entry.status = shown
  OBVIOUS
<1> HIDE DEF entry
<1>6. DOMAIN mirror' = Jobs /\ mirror'[j].status = shown /\ \A k \in Jobs \ {j} : mirror'[k] = mirror[k]
  BY <1>3, <1>5, <1>7
<1> QED BY <1>4, <1>6 DEF Writes, shown

\* An execution changes no request and, if it writes a row, that of its job.
ExecutionStep(r) ==
    /\ call' = call /\ store' = store
    /\ exec[r].pc # "none"
    /\ \/ rows' = rows /\ DOMAIN mirror' = DOMAIN mirror
       \/ \E s \in {"QUEUED", "PROCESSING"} \cup Terminal : Writes(r, s)

LEMMA ExecutionsStep ==
    ASSUME Serves, Recorded, NEW r \in Requests, Execute(r) \/ Break(r)
    PROVE  ExecutionStep(r)
<1>1. exec[r].pc # "none" /\ call' = call /\ store' = store
  BY Zenon DEF Execute, Break, Admit, Recover, Start, CheckBeforeStart, RunNode, CheckCancel,
               RecordNode, Save, Finish, Fail, ClearBroken, Cancelled
<1>2. JobOf(r) \in Jobs /\ rows[JobOf(r)] \in Row
  BY <1>1 DEF Serves, Dispatched, Recorded
<1> DEFINE Statuses == {"QUEUED", "PROCESSING"} \cup Terminal
<1>3. PublicStatus("PROCESSING") = "PROCESSING" /\ PublicStatus("FAILED") = "FAILED"
  BY DEF PublicStatus
<1>4. {"PROCESSING", "FAILED", "CANCELLED", "COMPLETED", "PARTIAL"} \subseteq Statuses
  BY DEF Terminal
<1>5. TRUE \in BOOLEAN /\ FALSE \in BOOLEAN
  OBVIOUS
<1>6. CASE Admit(r) \/ Recover(r) \/ CheckBeforeStart(r) \/ CheckCancel(r) \/ Save(r)
           \/ ClearBroken(r) \/ Break(r)
  <2>1. rows' = rows /\ mirror' = mirror
    BY <1>6, Zenon DEF Admit, Recover, CheckBeforeStart, CheckCancel, Save, ClearBroken, Break
  <2> QED BY <1>1, <2>1 DEF ExecutionStep
<1>7. CASE Start(r) \/ RecordNode(r)
  <2>1. /\ WriteStatus(JobOf(r), "PROCESSING", FALSE)
        /\ UpdateProgress(JobOf(r), "PROCESSING", None, FALSE)
    BY <1>7, Zenon DEF Start, RecordNode
  <2>2. Writes(r, "PROCESSING")
    BY <1>2, <1>3, <1>4, <1>5, <2>1, WritesBoth
  <2> QED BY <1>1, <1>4, <2>2 DEF ExecutionStep
<1>8. CASE Fail(r)
  <2>1. WriteStatus(JobOf(r), "FAILED", TRUE) /\ UpdateProgress(JobOf(r), "FAILED", None, TRUE)
    BY <1>8, Zenon DEF Fail
  <2>2. Writes(r, "FAILED")
    BY <1>2, <1>3, <1>4, <1>5, <2>1, WritesBoth
  <2> QED BY <1>1, <1>4, <2>2 DEF ExecutionStep
<1>9. CASE Cancelled(r)
  <2>1. WriteStatus(JobOf(r), "CANCELLED", FALSE) /\ UpdateProgress(JobOf(r), "FAILED", None, TRUE)
    BY <1>9, Zenon DEF Cancelled
  <2>2. Writes(r, "CANCELLED")
    BY <1>2, <1>4, <1>5, <2>1, WritesBoth
  <2> QED BY <1>1, <1>4, <2>2 DEF ExecutionStep
<1>10. CASE Finish(r)
  <2>1. PICK s \in {"COMPLETED", "PARTIAL", "FAILED"} :
           /\ WriteStatus(JobOf(r), s, s = "FAILED")
           /\ UpdateProgress(JobOf(r), PublicStatus(s), IF s = "FAILED" THEN None ELSE r, s = "FAILED")
    BY <1>10, Zenon DEF Finish
  <2>2. s \in Statuses /\ s # "CANCELLED" /\ (s = "FAILED") \in BOOLEAN
    BY <1>4
  <2>3. Writes(r, s)
    BY <1>2, <2>1, <2>2, WritesBoth
  <2> QED BY <1>1, <2>2, <2>3 DEF ExecutionStep
<1>11. CASE RunNode(r)
  <2>1. rows' = rows /\ UpdateProgress(JobOf(r), "PROCESSING", None, FALSE)
    BY <1>11, Zenon DEF RunNode
  <2>2. DOMAIN mirror' = DOMAIN mirror
    BY <2>1 DEF UpdateProgress
  <2> QED BY <1>1, <2>1, <2>2 DEF ExecutionStep
<1> QED BY <1>6, <1>7, <1>8, <1>9, <1>10, <1>11, Zenon DEF Execute

----------------------------------------------------------------------------
(* Requests, and who has the event loop.                                   *)

\* The requests and executions other than r, and the kind of store, stay.
Alone(r) ==
    /\ store' = store
    /\ DOMAIN call' = Requests /\ DOMAIN exec' = Requests
    /\ \A q \in Requests \ {r} : call'[q] = call[q] /\ exec'[q].pc = exec[q].pc

LEMMA StepsAlone ==
    ASSUME Serves, NEW r \in Requests, Read(r) \/ Handle(r) \/ Execute(r) \/ Break(r)
    PROVE  Alone(r)
<1>0. DOMAIN call = Requests /\ DOMAIN exec = Requests
  BY DEF Serves, Typed
<1>1. CASE Read(r)
  BY <1>0, <1>1 DEF Read, Alone
<1>2. CASE Submit(r) \/ Retry(r) \/ RequestCancel(r) \/ CancelQueued(r)
  <2>1. store' = store /\ exec' = exec
    BY <1>2, Zenon DEF Submit, Retry, RequestCancel, CancelQueued
  <2>2. \E pc : CallGoes(r, pc)
    BY <1>2, Zenon DEF Submit, Retry, RequestCancel, CancelQueued
  <2> QED BY <1>0, <2>1, <2>2 DEF CallGoes, Alone
<1>3. CASE Dispatch(r)
  <2>1. store' = store /\ CallGoes(r, "accepted")
    BY <1>3, Zenon DEF Dispatch
  <2>2. PICK reference :
          exec' = [exec EXCEPT ![r].pc = "waiting", ![r].reference = reference]
    BY <1>3, Zenon DEF Dispatch
  <2> QED BY <1>0, <2>1, <2>2 DEF CallGoes, Alone
<1>4. CASE Admit(r)
  <2>1. store' = store /\ call' = call
    BY <1>4, Zenon DEF Admit
  <2> DEFINE others == RunningOn(JobOf(r))
  <2>2. exec' = [q \in Requests |->
          IF q = r THEN [exec[r] EXCEPT !.pc = IF exec[r].reference THEN "recover" ELSE "start",
                                        !.alone = others = {}]
          ELSE [exec[q] EXCEPT !.alone = @ /\ q \notin others]]
    BY <1>4, Zenon DEF Admit
  <2> HIDE DEF others
  <2>3. \A q \in Requests : "pc" \in DOMAIN exec[q]
    BY DEF Serves, Typed
  <2> QED BY <1>0, <2>1, <2>2, <2>3 DEF Alone
<1>5. CASE Recover(r) \/ Start(r) \/ CheckBeforeStart(r) \/ RunNode(r) \/ CheckCancel(r)
           \/ RecordNode(r) \/ Save(r) \/ Finish(r) \/ Fail(r) \/ ClearBroken(r) \/ Cancelled(r)
           \/ Break(r)
  <2>1. store' = store /\ call' = call
    BY <1>5, Zenon DEF Recover, Start, CheckBeforeStart, RunNode, CheckCancel, RecordNode, Save,
                       Finish, Fail, ClearBroken, Cancelled, Break
  <2>2. \E e : exec' = [exec EXCEPT ![r] = e]
    BY <1>5 DEF Recover, Start, CheckBeforeStart, RunNode, CheckCancel, RecordNode, Save,
                Finish, Fail, ClearBroken, Cancelled, Break, ExecGoes, Release
  <2> QED BY <1>0, <2>1, <2>2 DEF Alone
<1> QED BY <1>1, <1>2, <1>3, <1>4, <1>5, Zenon DEF Handle, Execute

\* With the memory store, r has its turn, and the loop until it waits.
LEMMA TakesTurn ==
    ASSUME Serves, store = "memory", NEW r \in Requests,
           Read(r) \/ Handle(r) \/ Execute(r) \/ Break(r)
    PROVE  /\ busy \in {None, r}
           /\ busy' = r \/ (busy' = None /\ ~HoldsLoop(r)')
<1>1. Turn(r)
  BY Zenon DEF Handle, Execute, Read, Submit, Dispatch, Retry, RequestCancel, CancelQueued, Admit,
               Recover, Start, CheckBeforeStart, RunNode, CheckCancel, RecordNode, Save, Finish, Fail,
               ClearBroken, Cancelled, Break
<1>2. busy \in {None, r}
  BY <1>1 DEF Turn
<1> SUFFICES busy' = r \/ (busy' = None /\ ~HoldsLoop(r)')
  BY <1>2
<1>3. Continue(r) => busy' = r
  BY DEF Continue
<1>4. /\ DOMAIN call = Requests /\ DOMAIN exec = Requests
      /\ \A q \in Requests : DOMAIN call[q] = {"pc", "kind", "job", "seen"}
      /\ \A q \in Requests : DOMAIN exec[q] = {"pc", "reference", "node", "index", "alone"}
  BY DEF Serves, Typed
<1>5. CASE Read(r)
  <2>1. PICK j \in Jobs, kind \in {"submit", "retry", "cancel"} :
          /\ call' = [call EXCEPT ![r] = [pc |-> IF Refused(kind, rows[j]) THEN "refused" ELSE "read",
                                         kind |-> kind, job |-> j,
                                         seen |-> IF Refused(kind, rows[j]) THEN None ELSE rows[j]]]
          /\ IF Refused(kind, rows[j]) THEN Suspend ELSE Continue(r)
    BY <1>5, Zenon DEF Read
  <2>3. exec' = exec
    BY <1>5, Zenon DEF Read
  <2>2. exec[r].pc = "none"
    BY <1>5 DEF Read, Serves, Dispatched
  <2> QED BY <1>3, <1>4, <2>1, <2>2, <2>3 DEF Suspend, HoldsLoop, Handling, Keeping
<1>6. CASE Submit(r) \/ Retry(r) \/ RequestCancel(r) \/ CancelQueued(r)
  <2>1. call[r].pc \in {"read", "flagged"} /\ exec' = exec
    BY <1>6, Zenon DEF Submit, Retry, RequestCancel, CancelQueued
  <2>4. Continue(r) \/ (Suspend /\ \E pc \in {"error", "refused", "accepted"} : CallGoes(r, pc))
    <3>1. CASE Submit(r)
      BY <3>1, Zenon DEF Submit
    <3>2. CASE Retry(r)
      BY <3>2, Zenon DEF Retry
    <3>3. CASE RequestCancel(r)
      BY <3>3, Zenon DEF RequestCancel
    <3>4. CASE CancelQueued(r)
      BY <3>4, Zenon DEF CancelQueued
    <3> QED BY <1>6, <3>1, <3>2, <3>3, <3>4
  <2>2. exec[r].pc = "none"
    BY <2>1 DEF Serves, Dispatched
  <2> QED BY <1>3, <1>4, <2>1, <2>2, <2>4 DEF Suspend, CallGoes, HoldsLoop, Handling, Keeping
<1>7. CASE Dispatch(r)
  <2>1. Suspend /\ CallGoes(r, "accepted")
    BY <1>7, Zenon DEF Dispatch
  <2>2. PICK reference :
          exec' = [exec EXCEPT ![r].pc = "waiting", ![r].reference = reference]
    BY <1>7, Zenon DEF Dispatch
  <2> QED BY <1>2, <1>4, <2>1, <2>2 DEF Suspend, CallGoes, HoldsLoop, Handling, Keeping
<1>8. CASE Execute(r) \/ Break(r)
  <2>1. exec[r].pc # "none" /\ call' = call
    BY <1>8, Zenon DEF Execute, Break, Admit, Recover, Start, CheckBeforeStart, RunNode, CheckCancel,
                       RecordNode, Save, Finish, Fail, ClearBroken, Cancelled
  <2>2. call'[r].pc = "accepted"
    BY <2>1 DEF Serves, Dispatched
  <2>3. CASE Admit(r) \/ Start(r) \/ CheckCancel(r) \/ Break(r) \/ Save(r)
    <3>1. Continue(r)
      BY <2>3, Zenon DEF Admit, Start, CheckCancel, Break, Save
    <3> QED BY <1>3, <3>1
  <2>4. CASE Recover(r) \/ CheckBeforeStart(r) \/ RunNode(r)
    <3>1. \/ Continue(r)
          \/ Suspend /\ \/ \E pc \in {"start", "failing", "node", "yielded"} : ExecGoes(r, pc)
                        \/ \E index : exec' = [exec EXCEPT ![r].pc = "yielded", ![r].index = index]
      <4>1. CASE Recover(r)
        BY <4>1, Zenon DEF Recover
      <4>2. CASE CheckBeforeStart(r) \/ RunNode(r)
        BY <4>2, Zenon DEF CheckBeforeStart, RunNode
      <4> QED BY <2>4, <4>1, <4>2
    <3> QED BY <1>3, <1>4, <2>2, <3>1 DEF ExecGoes, Suspend, HoldsLoop, Handling, Keeping
  <2>5. CASE RecordNode(r)
    <3>1. Suspend /\ exec'[r].pc \in {"node", "streamed"}
      BY <1>4, <2>5 DEF RecordNode
    <3> QED BY <2>2, <3>1 DEF Suspend, HoldsLoop, Handling, Keeping
  <2>6. CASE Finish(r) \/ Fail(r) \/ ClearBroken(r) \/ Cancelled(r)
    <3>1. Continue(r) \/ (Suspend /\ Release(r))
      <4>1. CASE Finish(r)
        BY <4>1, Zenon DEF Finish
      <4>2. CASE Fail(r) \/ ClearBroken(r) \/ Cancelled(r)
        BY <4>2, Zenon DEF Fail, ClearBroken, Cancelled
      <4> QED BY <2>6, <4>1, <4>2
    <3>2. Release(r) => exec'[r].pc = "done"
      BY <1>4 DEF Release, NoExec
    <3> QED BY <1>2, <1>3, <2>2, <3>1, <3>2 DEF Suspend, HoldsLoop, Handling, Keeping
  <2> QED BY <1>8, <2>3, <2>4, <2>5, <2>6, Zenon DEF Execute
<1> QED BY <1>5, <1>6, <1>7, <1>8, Zenon DEF Handle

LEMMA LoopStep ==
    ASSUME Serves, LoopHeld, NEW r \in Requests, Read(r) \/ Handle(r) \/ Execute(r) \/ Break(r)
    PROVE  /\ LoopHeld'
           /\ store = "memory" => \A q \in Requests \ {r} : ~HoldsLoop(q) /\ ~HoldsLoop(q)'
<1>1. Alone(r)
  BY StepsAlone
<1>2. CASE store = "memory"
  <2>1. busy \in {None, r} /\ (busy' = r \/ (busy' = None /\ ~HoldsLoop(r)'))
    BY <1>2, TakesTurn
  <2>2. \A q \in Requests \ {r} : ~HoldsLoop(q)
    BY <1>2, <2>1, DemoJobsAssumption DEF LoopHeld
  <2>3. \A q \in Requests \ {r} : ~HoldsLoop(q)'
    BY <1>1, <2>2 DEF Alone, HoldsLoop
  <2> QED BY <2>1, <2>2, <2>3 DEF LoopHeld
<1>3. CASE store # "memory"
  BY <1>1, <1>3 DEF Alone, LoopHeld
<1> QED BY <1>2, <1>3

----------------------------------------------------------------------------
(* The count of each step.                                                 *)

LEMMA ReadsRow ==
    ASSUME Serves, Recorded, Exact, NEW r \in Requests, Read(r)
    PROVE  /\ Recorded' /\ Exact'
           /\ call'[r].pc = "read" => call'[r].seen = rows'[JobOf(r)']
           /\ call'[r].pc \in {"read", "refused"}
<1>1. PICK j \in Jobs, kind \in {"submit", "retry", "cancel"} :
        call' = [call EXCEPT ![r] = [pc |-> IF Refused(kind, rows[j]) THEN "refused" ELSE "read",
                                     kind |-> kind, job |-> j,
                                     seen |-> IF Refused(kind, rows[j]) THEN None ELSE rows[j]]]
  BY Zenon DEF Read
<1>2. call[r].pc = "idle" /\ rows' = rows /\ mirror' = mirror /\ store' = store
  BY Zenon DEF Read
<1>3. /\ \A q \in Requests \ {r} : call'[q] = call[q]
      /\ call'[r].pc = (IF Refused(kind, rows[j]) THEN "refused" ELSE "read")
      /\ call'[r].kind = kind /\ call'[r].job = j
      /\ call'[r].pc = "read" => call'[r].seen = rows[j]
  BY <1>1 DEF Serves, Typed
<1>4. ~Counted(r) /\ ~Counted(r)'
  BY <1>2, <1>3 DEF Counted
<1>5. \A k : Written(k)' = Written(k)
  BY <1>3, <1>4, WrittenGrows
<1>6. call'[r].pc = "read" => kind = "submit" \/ rows[j] # None
  BY <1>3 DEF Refused
<1>7. \A k \in Jobs : rows[k] \in Row \cup {None}
  BY DEF Recorded
<1>8. \A q \in Requests \ {r} : JobOf(q)' = JobOf(q)
  BY <1>3 DEF JobOf
<1>9. JobOf(r)' = j
  BY <1>3 DEF JobOf
<1>10. ASSUME NEW q \in Requests
       PROVE  /\ call'[q].pc # "idle" => JobOf(q)' \in Jobs
              /\ call'[q].pc = "read" =>
                  /\ call'[q].seen \in Row \cup {None}
                  /\ call'[q].kind # "submit" => call'[q].seen \in Row
                  /\ call'[q].seen \in Row => rows'[JobOf(q)'] \in Row
              /\ call'[q].pc \in {"written", "flagged", "accepted"} => rows'[JobOf(q)'] \in Row
              /\ call'[q].pc = "flagged" => call'[q].kind = "cancel"
              /\ call'[q].pc = "written" => call'[q].kind \in {"submit", "retry"}
  <2>1. CASE q # r
    BY <1>2, <1>3, <1>8, <2>1 DEF Recorded
  <2>2. CASE q = r
    BY <1>2, <1>3, <1>6, <1>7, <1>9, <2>2
  <2> QED BY <2>1, <2>2
<1>11. ASSUME NEW q \in Requests, call'[q].pc = "read", call'[q].seen \in Row
       PROVE  call'[q].seen.attempt <= Cardinality(Written(JobOf(q))')
  <2>1. PICK k : k = JobOf(q)'
    OBVIOUS
  <2>2. k \in Jobs
    BY <1>10, <1>11, <2>1
  <2>3. call'[q].seen.attempt <= Cardinality(Written(k))
    <3>1. CASE q # r
      BY <1>3, <1>8, <1>11, <2>1, <3>1 DEF Recorded
    <3>2. CASE q = r
      BY <1>3, <1>9, <1>11, <2>1, <3>2 DEF Recorded
    <3> QED BY <3>1, <3>2
  <2>4. Written(JobOf(q))' = Written(k)'
    <3>1. Written(k)' = {p \in Requests : JobOf(p)' = k /\ Counted(p)'}
      BY DEF Written, Counted
    <3>2. Written(JobOf(q))' = {p \in Requests : JobOf(p)' = JobOf(q)' /\ Counted(p)'}
      BY DEF Written, Counted
    <3> QED BY <2>1, <3>1, <3>2
  <2> QED BY <1>5, <2>3, <2>4
<1>12. \A k \in Jobs : rows'[k] \in Row => rows'[k].attempt <= Cardinality(Written(k)')
  BY <1>2, <1>5 DEF Recorded
<1>13. rows' \in [Jobs -> Row \cup {None}] /\ DOMAIN mirror' = Jobs
  BY <1>2 DEF Recorded
<1>14. Recorded'
  BY <1>10, <1>11, <1>12, <1>13 DEF Recorded
<1>15. Exact'
  BY <1>2, <1>5 DEF Exact
<1> QED BY <1>2, <1>3, <1>9, <1>14, <1>15

LEMMA Goes ==
    ASSUME Serves, NEW r \in Requests, NEW pc, CallGoes(r, pc)
    PROVE  /\ \A q \in Requests \ {r} : call'[q] = call[q]
           /\ call'[r].pc = pc /\ call'[r].kind = call[r].kind /\ call'[r].job = call[r].job
BY DEF Serves, Typed, CallGoes

LEMMA SubmitsRow ==
    ASSUME Serves, Recorded, Undivided, Exact, NEW r \in Requests, Submit(r)
    PROVE  Recorded' /\ Exact' /\ call'[r].pc \in {"error", "written"}
<1> DEFINE j == JobOf(r)
           new == call[r].seen = None
           conflict == new /\ rows[j] # None /\ store = "database"
<1>1. /\ call[r].pc = "read" /\ call[r].kind = "submit"
      /\ store' = store /\ mirror' = mirror
  BY Zenon DEF Submit
<1>2. CallGoes(r, IF conflict THEN "error" ELSE "written")
  BY Zenon DEF Submit
<1>3. rows' = IF conflict THEN rows
              ELSE [rows EXCEPT ![j] = IF new THEN NewRow ELSE Resubmitted(@, call[r].seen)]
  BY Zenon DEF Submit
<1>4. /\ j \in Jobs /\ DOMAIN mirror' = Jobs /\ rows \in [Jobs -> Row \cup {None}]
      /\ call[r].seen \in Row \cup {None}
  BY <1>1 DEF Recorded
<1>5. None \notin Row
  BY DemoJobsAssumption
<1>6. CASE conflict
  <2>1. rows' = rows /\ CallGoes(r, "error")
    BY <1>2, <1>3, <1>6
  <2>2. /\ \A q \in Requests \ {r} : call'[q] = call[q]
        /\ call'[r].pc = "error" /\ call'[r].kind = call[r].kind /\ call'[r].job = call[r].job
    BY <2>1, Goes
  <2>3. ~Counted(r) /\ ~Counted(r)'
    BY <1>1, <2>2 DEF Counted
  <2> QED BY <1>1, <1>4, <2>1, <2>2, <2>3, KeepsCount
<1>7. CASE ~conflict
  <2>1. CallGoes(r, "written")
    BY <1>2, <1>7
  <2>2. /\ \A q \in Requests \ {r} : call'[q] = call[q]
        /\ call'[r].pc = "written" /\ call'[r].kind = call[r].kind /\ call'[r].job = call[r].job
    BY <2>1, Goes
  <2> DEFINE row == IF new THEN NewRow ELSE Resubmitted(rows[j], call[r].seen)
  <2>3. rows' = [rows EXCEPT ![j] = row]
    BY <1>3, <1>7
  <2>4. Cardinality(Written(j)) \in Nat
    BY WrittenIsFinite
  <2>5. /\ row \in Row /\ row.attempt <= Cardinality(Written(j)) + 1
        /\ store = "memory" => row.attempt = Cardinality(Written(j)) + 1
    <3>1. CASE new
      <4>1. row \in Row /\ row.attempt = 1
        BY <3>1, RowsAreRows
      <4>2. store = "memory" => Cardinality(Written(j)) = 0
        <5>1. store = "memory" => rows[j] = None
          BY <1>1, <3>1 DEF Undivided
        <5> QED BY <1>4, <5>1, NoneWritten
      <4> QED BY <2>4, <4>1, <4>2
    <3>2. CASE ~new
      <4>1. /\ call[r].seen \in Row /\ call[r].seen.attempt \in Nat
            /\ call[r].seen.attempt <= Cardinality(Written(j))
        BY <1>1, <1>4, <3>2 DEF Recorded, Row
      <4>2. row \in Row /\ row.attempt = call[r].seen.attempt + 1
        BY <3>2, <4>1, RowsAreRows
      <4>3. store = "memory" => call[r].seen.attempt = Cardinality(Written(j))
        <5>1. store = "memory" => call[r].seen = rows[j]
          BY <1>1 DEF Undivided
        <5> QED BY <1>4, <4>1, <5>1 DEF Exact
      <4> QED BY <2>4, <4>1, <4>2, <4>3
    <3> QED BY <3>1, <3>2
  <2> HIDE DEF row
  <2>6. OneRow(j) /\ rows'[j] = row
    BY <1>4, <2>3, <2>5 DEF OneRow
  <2> QED BY <1>1, <1>4, <2>2, <2>5, <2>6, CountsOne
<1> QED BY <1>6, <1>7

\* A retry requeues the row of the job, and no other.
LEMMA RetriesRow ==
    ASSUME Serves, Recorded, Exact, NEW r \in Requests, Retry(r)
    PROVE  Recorded' /\ Exact' /\ call'[r].pc \in {"refused", "written"}
<1> DEFINE j == JobOf(r)
<1>1. call[r].pc = "read" /\ call[r].kind = "retry" /\ store' = store
  BY Zenon DEF Retry
<1>2. /\ j \in Jobs /\ DOMAIN mirror = Jobs /\ rows \in [Jobs -> Row \cup {None}]
      /\ rows[j] \in Row
  BY <1>1 DEF Recorded
<1>3. CASE CallGoes(r, "refused") /\ UNCHANGED <<rows, mirror>>
  <2>1. /\ \A q \in Requests \ {r} : call'[q] = call[q]
        /\ call'[r].pc = "refused" /\ call'[r].kind = call[r].kind /\ call'[r].job = call[r].job
    BY <1>3, Goes
  <2>2. ~Counted(r) /\ ~Counted(r)'
    BY <1>1, <2>1 DEF Counted
  <2> QED BY <1>1, <1>2, <1>3, <2>1, <2>2, KeepsCount
<1>4. CASE CallGoes(r, "written") /\ rows' = [rows EXCEPT ![j] = Requeued(@)] /\ MirrorRetry(j)
  <2>1. /\ \A q \in Requests \ {r} : call'[q] = call[q]
        /\ call'[r].pc = "written" /\ call'[r].kind = call[r].kind /\ call'[r].job = call[r].job
    BY <1>4, Goes
  <2> DEFINE row == Requeued(rows[j])
  <2>2. row \in Row /\ row.attempt = rows[j].attempt + 1
    BY <1>2, RowsAreRows
  <2>3. rows' = [rows EXCEPT ![j] = row]
    BY <1>4
  <2> HIDE DEF row
  <2>4. OneRow(j) /\ rows'[j] = row
    BY <1>2, <2>2, <2>3 DEF OneRow
  <2>5. DOMAIN mirror' = Jobs
    BY <1>2, <1>4 DEF MirrorRetry, UpdateProgress
  <2>6. /\ rows[j].attempt \in Nat /\ Cardinality(Written(j)) \in Nat
        /\ rows[j].attempt <= Cardinality(Written(j))
        /\ store = "memory" => rows[j].attempt = Cardinality(Written(j))
    BY <1>2, WrittenIsFinite DEF Recorded, Exact, Row
  <2>7. /\ rows'[j].attempt <= Cardinality(Written(j)) + 1
        /\ store = "memory" => rows'[j].attempt = Cardinality(Written(j)) + 1
    BY <2>2, <2>4, <2>6
  <2> QED BY <1>1, <2>1, <2>4, <2>5, <2>7, CountsOne
<1> QED BY <1>3, <1>4, Zenon DEF Retry

\* A cancellation changes neither the attempt nor the number of requests.
LEMMA CancelsRow ==
    ASSUME Serves, Recorded, Exact, NEW r \in Requests, RequestCancel(r) \/ CancelQueued(r)
    PROVE  /\ Recorded' /\ Exact'
           /\ call'[r].pc \in {"flagged", "accepted"}
           /\ call'[r].pc = "flagged" =>
                /\ call[r].pc = "read" /\ call[r].seen.status = "QUEUED"
                /\ JobOf(r)' = JobOf(r) /\ rows'[JobOf(r)].status = rows[JobOf(r)].status
<1> DEFINE j == JobOf(r)
<1>1. CASE RequestCancel(r)
  <2>1. /\ call[r].pc = "read" /\ call[r].kind = "cancel" /\ store' = store /\ mirror' = mirror
        /\ rows' = [rows EXCEPT ![j].cancel = TRUE]
        /\ CallGoes(r, IF call[r].seen.status = "QUEUED" THEN "flagged" ELSE "accepted")
    BY <1>1, Zenon DEF RequestCancel
  <2>2. /\ j \in Jobs /\ DOMAIN mirror' = Jobs /\ rows \in [Jobs -> Row \cup {None}]
        /\ rows[j] \in Row
    BY <2>1 DEF Recorded
  <2> DEFINE row == [rows[j] EXCEPT !.cancel = TRUE]
  <2>3. row \in Row /\ row.attempt = rows[j].attempt /\ row.status = rows[j].status
    BY <2>2, RowsAreRows
  <2>4. rows' = [rows EXCEPT ![j] = row]
    BY <2>1
  <2> HIDE DEF row
  <2>5. OneRow(j) /\ rows'[j] = row
    BY <2>2, <2>3, <2>4 DEF OneRow
  <2>6. /\ \A q \in Requests \ {r} : call'[q] = call[q]
        /\ call'[r].pc = (IF call[r].seen.status = "QUEUED" THEN "flagged" ELSE "accepted")
        /\ call'[r].kind = call[r].kind /\ call'[r].job = call[r].job
    BY <2>1, Goes
  <2>7. ~Counted(r) /\ ~Counted(r)'
    BY <2>1, <2>6 DEF Counted
  <2>8. Recorded' /\ Exact'
    BY <2>1, <2>2, <2>3, <2>5, <2>6, <2>7, KeepsCount
  <2> QED BY <2>1, <2>3, <2>5, <2>6, <2>8 DEF JobOf
<1>2. CASE CancelQueued(r)
  <2>1. /\ call[r].pc = "flagged" /\ store' = store
        /\ WriteStatus(j, "CANCELLED", FALSE) /\ UpdateProgress(j, "FAILED", None, TRUE)
        /\ CallGoes(r, "accepted")
    BY <1>2, Zenon DEF CancelQueued
  <2>2. call[r].kind = "cancel" /\ j \in Jobs /\ rows[j] \in Row
    BY <2>1 DEF Recorded
  <2>3. Writes(r, "CANCELLED")
    <3>1. "CANCELLED" \in {"QUEUED", "PROCESSING"} \cup Terminal
      BY DEF Terminal
    <3> QED BY <2>1, <2>2, <3>1, WritesBoth
  <2>4. /\ \A q \in Requests \ {r} : call'[q] = call[q]
        /\ call'[r].pc = "accepted" /\ call'[r].kind = call[r].kind /\ call'[r].job = call[r].job
    BY <2>1, Goes
  <2>5. ~Counted(r) /\ ~Counted(r)'
    BY <2>2, <2>4 DEF Counted
  <2> QED BY <2>1, <2>2, <2>3, <2>4, <2>5, KeepsCount DEF Writes
<1> QED BY <1>1, <1>2

LEMMA DispatchesRow ==
    ASSUME Serves, Recorded, Exact, NEW r \in Requests, Dispatch(r)
    PROVE  Recorded' /\ Exact' /\ call'[r].pc = "accepted"
<1>1. /\ call[r].pc = "written" /\ store' = store /\ rows' = rows
      /\ CallGoes(r, "accepted")
  BY Zenon DEF Dispatch
<1>2. DOMAIN mirror' = DOMAIN mirror
  BY DEF Dispatch
<1>3. /\ \A q \in Requests \ {r} : call'[q] = call[q]
      /\ call'[r].pc = "accepted" /\ call'[r].kind = call[r].kind /\ call'[r].job = call[r].job
  BY <1>1, Goes
<1>4. Counted(r) /\ Counted(r)' /\ rows[JobOf(r)] \in Row /\ DOMAIN mirror' = Jobs
  BY <1>1, <1>2, <1>3 DEF Counted, Recorded
<1> QED BY <1>1, <1>3, <1>4, KeepsCount

LEMMA ExecutesRow ==
    ASSUME Serves, Recorded, Exact, NEW r \in Requests, Execute(r) \/ Break(r)
    PROVE  Recorded' /\ Exact' /\ call' = call
<1>1. ExecutionStep(r)
  BY ExecutionsStep
<1>2. call' = call /\ store' = store /\ exec[r].pc # "none"
  BY <1>1 DEF ExecutionStep
<1>3. JobOf(r) \in Jobs /\ rows[JobOf(r)] \in Row /\ DOMAIN mirror = Jobs
  BY <1>2 DEF Serves, Dispatched, Recorded
<1>4. Counted(r)' <=> Counted(r)
  BY <1>2 DEF Counted
<1>5. /\ DOMAIN mirror' = Jobs
      /\ \/ rows' = rows
         \/ OneRow(JobOf(r)) /\ rows'[JobOf(r)].attempt = rows[JobOf(r)].attempt
  BY <1>1, <1>3 DEF ExecutionStep, Writes
<1>6. /\ call'[r].pc = "flagged" => call'[r].kind = "cancel"
      /\ call'[r].pc = "written" => call[r].pc = "written"
  BY <1>2 DEF Recorded
<1> QED BY <1>2, <1>3, <1>4, <1>5, <1>6, KeepsCount

Counts == Recorded /\ LoopHeld /\ Undivided /\ Exact

LEMMA CountsStep == Serves /\ Counts /\ [Next]_vars => Counts'
<1> SUFFICES ASSUME Serves, Counts, [Next]_vars PROVE Counts'
  OBVIOUS
<1>0. Recorded /\ LoopHeld /\ Undivided /\ Exact
  BY DEF Counts
<1>1. CASE UNCHANGED vars
  <2>1. \A j : Written(j)' = Written(j)
    BY <1>1 DEF vars, Written, JobOf
  <2>2. LoopHeld' /\ Undivided' /\ Exact'
    BY <1>0, <1>1, <2>1 DEF vars, LoopHeld, HoldsLoop, Undivided, Exact, JobOf
  <2>3. Recorded'
    BY <1>0, <1>1 DEF vars, Recorded, JobOf, Written
  <2> QED BY <2>2, <2>3 DEF Counts
<1>2. ASSUME NEW r \in Requests, Read(r) \/ Handle(r) \/ Execute(r) \/ Break(r)
      PROVE  Counts'
  <2>1. LoopHeld' /\ (store = "memory" => \A q \in Requests \ {r} : ~HoldsLoop(q)')
    BY <1>0, <1>2, LoopStep
  <2>2. Alone(r)
    BY <1>2, StepsAlone
  <2> DEFINE Stated ==
               /\ Recorded' /\ Exact'
               /\ store = "memory" =>
                    /\ call'[r].pc = "read" => call'[r].seen = rows'[JobOf(r)']
                    /\ call'[r].pc = "flagged" => rows'[JobOf(r)'].status = "QUEUED"
  <2>4. ASSUME Read(r) PROVE Stated
    BY <1>0, <2>4, ReadsRow
  <2>5. ASSUME Submit(r) \/ Retry(r) \/ Dispatch(r) PROVE Stated
    BY <1>0, <2>5, SubmitsRow, RetriesRow, DispatchesRow
  <2>6. ASSUME RequestCancel(r) \/ CancelQueued(r) PROVE Stated
    <3>1. /\ Recorded' /\ Exact' /\ call'[r].pc \in {"flagged", "accepted"}
          /\ call'[r].pc = "flagged" =>
               /\ call[r].pc = "read" /\ call[r].seen.status = "QUEUED"
               /\ JobOf(r)' = JobOf(r) /\ rows'[JobOf(r)].status = rows[JobOf(r)].status
      BY <1>0, <2>6, CancelsRow
    <3>2. store = "memory" /\ call[r].pc = "read" => call[r].seen = rows[JobOf(r)]
      BY <1>0 DEF Undivided
    <3> QED BY <3>1, <3>2
  <2>7. ASSUME Execute(r) \/ Break(r) PROVE Stated
    <3>1. Recorded' /\ Exact' /\ call' = call
      BY <1>0, <2>7, ExecutesRow
    <3>2. exec[r].pc # "none"
      BY <2>7, ExecutionsStep, <1>0 DEF ExecutionStep
    <3>3. call'[r].pc = "accepted"
      BY <3>1, <3>2 DEF Serves, Dispatched
    <3> QED BY <3>1, <3>3
  <2>8. Stated
    <3> HIDE DEF Stated
    <3> QED BY <1>2, <2>4, <2>5, <2>6, <2>7, Zenon DEF Handle
  <2>9. Undivided'
    <3>1. store = "memory" => \A q \in Requests \ {r} : call'[q].pc \notin {"read", "flagged"}
      BY <2>1 DEF HoldsLoop, Handling
    <3>2. store' = store
      BY <2>2 DEF Alone
    <3>3. store = "memory" =>
            \A q \in Requests :
              /\ call'[q].pc = "read" => call'[q].seen = rows'[JobOf(q)']
              /\ call'[q].pc = "flagged" => rows'[JobOf(q)'].status = "QUEUED"
      BY <2>8, <3>1
    <3> QED BY <3>2, <3>3 DEF Undivided
  <2> QED BY <2>1, <2>8, <2>9 DEF Counts
<1> QED BY <1>1, <1>2 DEF Next

LEMMA CountsInit == Init => Counts
<1> SUFFICES ASSUME Init PROVE Counts
  OBVIOUS
<1>1. /\ rows = [j \in Jobs |-> None]
      /\ \A r \in Requests : call[r].pc = "idle" /\ exec[r].pc = "none"
  BY DEF Init, NoExec
<1>2. \A j \in Jobs : rows[j] \notin Row
  BY <1>1, DemoJobsAssumption
<1> QED BY <1>1, <1>2, RecordedInit
    DEF Counts, LoopHeld, HoldsLoop, Handling, Keeping, Undivided, Exact

\* The attempt number of a row is at most the number of submissions and retries
\* of its job, and exactly it with the memory store, where nothing comes between
\* the read and the write (get_or_create_job, retry_job).
THEOREM AttemptsAreCounted == Spec => []AttemptsCountSubmissions
<1>1. Init => Serves /\ Counts
  BY ServesInit, CountsInit
<1>2. Serves /\ Counts /\ [Next]_vars => (Serves /\ Counts)'
  BY ServesStep, CountsStep
<1>3. Serves /\ Counts => AttemptsCountSubmissions
  BY DEF Counts, Recorded, Exact, AttemptsCountSubmissions
<1> QED BY <1>1, <1>2, <1>3, PTL DEF Spec

----------------------------------------------------------------------------
(* The mirror of a job that is left alone agrees with its row.             *)

Agrees(j) ==
    mirror[j].status = IF rows[j].status = "CANCELLED" THEN "FAILED"
                       ELSE PublicStatus(rows[j].status)

\* No submission of the job waits, and no two executions of it overlapped.
Quiet(j) ==
    /\ \A r \in RunningOn(j) : exec[r].alone
    /\ \A r \in Requests :
          JobOf(r) = j /\ call[r].kind = "submit" =>
             call[r].pc # "written" /\ exec[r].pc # "waiting"

\* Only a retry has to recover its input: its mirror was written with the row.
References ==
    \A r \in Requests : exec[r].reference => call[r].pc = "accepted" /\ call[r].kind = "retry"

\* A submission has the loop from its permit until it has written both.
Catching(r) == exec[r].pc = "start" /\ busy = r
\* An execution that has written PROCESSING and no outcome.
Processing == {"started", "node", "yielded", "record", "streamed"}

FollowsOf(j) ==
    /\ Agrees(j) \/ \E r \in RunningOn(j) : Catching(r)
    /\ \A r \in RunningOn(j) : exec[r].pc \in Processing => rows[j].status = "PROCESSING"

Follows == store = "memory" =>
    /\ \A r \in Requests : exec[r].pc = "clearing" => Agrees(JobOf(r))
    /\ \A j \in Jobs : rows[j] \in Row /\ Quiet(j) => FollowsOf(j)

\* A job whose row, mirror and executions stay as they are.
LEMMA FollowsStill ==
    ASSUME NEW j \in Jobs, rows[j] \in Row /\ Quiet(j) => FollowsOf(j),
           rows'[j] \in Row => rows[j] \in Row /\ rows'[j].status = rows[j].status,
           mirror'[j] = mirror[j],
           Quiet(j)' => Quiet(j),
           RunningOn(j)' = RunningOn(j),
           \A q \in RunningOn(j) : exec'[q].pc = exec[q].pc /\ busy # q
    PROVE  rows'[j] \in Row /\ Quiet(j)' => FollowsOf(j)'
<1> SUFFICES ASSUME rows'[j] \in Row, Quiet(j)' PROVE FollowsOf(j)'
  OBVIOUS
<1>1. FollowsOf(j) /\ rows'[j].status = rows[j].status
  OBVIOUS
<1>2. Agrees(j) => Agrees(j)'
  BY <1>1 DEF Agrees
<1> QED BY <1>1, <1>2 DEF FollowsOf, Catching

\* The request that takes a step is of another job, or of no execution.
LEMMA SameRunners ==
    ASSUME Serves, NEW r \in Requests, Alone(r), NEW j \in Jobs,
           (exec[r].pc \in Outside /\ exec'[r].pc \in Outside) \/ (JobOf(r) # j /\ JobOf(r)' = JobOf(r))
    PROVE  RunningOn(j)' = RunningOn(j) /\ \A q \in RunningOn(j) : q \in Requests \ {r}
<1>1. /\ RunningOn(j) = {q \in Requests : exec[q].pc \notin Outside /\ JobOf(q) = j}
      /\ RunningOn(j)' = {q \in Requests : exec'[q].pc \notin Outside /\ JobOf(q)' = j}
  BY DEF RunningOn, Running
<1>2. \A q \in Requests \ {r} : exec'[q].pc = exec[q].pc /\ JobOf(q)' = JobOf(q)
  BY DEF Alone, JobOf
<1> QED BY <1>1, <1>2

\* The request that takes a step is the only one that can have the loop.
LEMMA OthersWait ==
    ASSUME Serves, store = "memory", NEW r \in Requests,
           Read(r) \/ Handle(r) \/ Execute(r) \/ Break(r),
           NEW q \in Requests \ {r}
    PROVE  busy # q
BY TakesTurn, DemoJobsAssumption

\* A step of a request that has no execution disturbs no execution, and the
\* job of a submission is not quiet until its execution is admitted.
LEMMA QuietStill ==
    ASSUME Serves, NEW r \in Requests, Alone(r), NEW j \in Jobs,
           exec[r].pc = "none", exec'[r].pc \in {"none", "waiting"},
           \A q \in Requests : exec'[q].alone = exec[q].alone,
           call[r].pc = "written" =>
              exec'[r].pc = "waiting" /\ call'[r].job = call[r].job /\ call'[r].kind = call[r].kind
    PROVE  /\ Quiet(j)' => Quiet(j)
           /\ RunningOn(j)' = RunningOn(j)
           /\ \A q \in RunningOn(j) : q \in Requests \ {r} /\ exec'[q].pc = exec[q].pc
           /\ \A q \in Requests : exec'[q].pc = "clearing" => q # r /\ exec[q].pc = "clearing"
<1>1. exec[r].pc \in Outside /\ exec'[r].pc \in Outside
  BY DEF Outside
<1>2. RunningOn(j)' = RunningOn(j) /\ \A q \in RunningOn(j) : q \in Requests \ {r}
  BY <1>1, SameRunners
<1>3. \A q \in RunningOn(j) : exec'[q].pc = exec[q].pc
  BY <1>2 DEF Alone
<1>4. ASSUME Quiet(j)' PROVE Quiet(j)
  <2>1. \A q \in RunningOn(j) : exec[q].alone
    BY <1>2, <1>4 DEF Quiet
  <2>2. ASSUME NEW q \in Requests, JobOf(q) = j, call[q].kind = "submit"
        PROVE  call[q].pc # "written" /\ exec[q].pc # "waiting"
    <3>1. CASE q # r
      BY <1>4, <2>2, <3>1 DEF Quiet, Alone, JobOf
    <3>2. CASE q = r
      BY <1>4, <2>2, <3>2 DEF Quiet, JobOf
    <3> QED BY <3>1, <3>2
  <2> QED BY <2>1, <2>2 DEF Quiet
<1>5. \A q \in Requests : exec'[q].pc = "clearing" => q # r /\ exec[q].pc = "clearing"
  BY DEF Alone
<1> QED BY <1>2, <1>3, <1>4, <1>5

\* Nobody but the execution that takes the step can be clearing.
LEMMA ClearsAlone ==
    ASSUME Serves, LoopHeld, store = "memory", NEW r \in Requests,
           Read(r) \/ Handle(r) \/ Execute(r) \/ Break(r),
           NEW q \in Requests \ {r}
    PROVE  exec[q].pc # "clearing" /\ exec'[q].pc # "clearing"
BY LoopStep DEF HoldsLoop, Keeping

LEMMA ReadFollows ==
    ASSUME Serves, Counts, Follows, store = "memory", NEW r \in Requests, Read(r)
    PROVE  Follows'
<1>1. Alone(r) /\ LoopHeld
  BY StepsAlone DEF Counts
<1>2. call[r].pc = "idle" /\ exec' = exec /\ rows' = rows /\ mirror' = mirror
  BY Zenon DEF Read
<1>3. exec[r].pc = "none"
  BY <1>2 DEF Serves, Dispatched
<1>4. ASSUME NEW q \in Requests, exec'[q].pc = "clearing" PROVE FALSE
  BY <1>1, <1>2, <1>3, <1>4, ClearsAlone
<1>5. ASSUME NEW j \in Jobs PROVE rows'[j] \in Row /\ Quiet(j)' => FollowsOf(j)'
  <2>1. /\ Quiet(j)' => Quiet(j)
        /\ RunningOn(j)' = RunningOn(j)
        /\ \A q \in RunningOn(j) : q \in Requests \ {r} /\ exec'[q].pc = exec[q].pc
    BY <1>1, <1>2, <1>3, QuietStill
  <2>2. \A q \in RunningOn(j) : busy # q
    BY <2>1, OthersWait
  <2> QED BY <1>2, <2>1, <2>2, FollowsStill DEF Follows
<1> QED BY <1>4, <1>5 DEF Follows

\* What has to be shown of a step of a request.
LEMMA HandledFollows ==
    ASSUME Serves, Counts, Follows, store = "memory", NEW r \in Requests, Handle(r),
           exec[r].pc = "none", exec'[r].pc \in {"none", "waiting"},
           \A q \in Requests : exec'[q].alone = exec[q].alone,
           JobOf(r) \in Jobs, call'[r].job = call[r].job, call'[r].kind = call[r].kind,
           call[r].pc = "written" => exec'[r].pc = "waiting",
           \A j \in Jobs \ {JobOf(r)} : rows'[j] = rows[j] /\ mirror'[j] = mirror[j],
           Quiet(JobOf(r))' =>
              /\ rows[JobOf(r)] \in Row
              /\ \/ /\ rows'[JobOf(r)].status = rows[JobOf(r)].status
                    /\ mirror'[JobOf(r)] = mirror[JobOf(r)]
                 \/ /\ rows[JobOf(r)].status # "PROCESSING"
                    /\ Agrees(JobOf(r))'
    PROVE  Follows'
<1>1. Alone(r) /\ LoopHeld
  BY StepsAlone DEF Counts
<1>2. ASSUME NEW q \in Requests, exec'[q].pc = "clearing" PROVE FALSE
  BY <1>1, <1>2, ClearsAlone
<1>3. ASSUME NEW j \in Jobs PROVE rows'[j] \in Row /\ Quiet(j)' => FollowsOf(j)'
  <2>1. /\ Quiet(j)' => Quiet(j)
        /\ RunningOn(j)' = RunningOn(j)
        /\ \A q \in RunningOn(j) : q \in Requests \ {r} /\ exec'[q].pc = exec[q].pc
    BY <1>1, QuietStill
  <2>5. \A q \in RunningOn(j) : exec'[q].pc = exec[q].pc /\ busy # q
    BY <2>1, OthersWait
  <2>2. rows[j] \in Row /\ Quiet(j) => FollowsOf(j)
    BY DEF Follows
  <2>3. CASE j # JobOf(r)
    BY <2>1, <2>2, <2>3, <2>5, FollowsStill
  <2>4. CASE j = JobOf(r)
    <3> SUFFICES ASSUME rows'[j] \in Row, Quiet(j)' PROVE FollowsOf(j)'
      OBVIOUS
    <3>1. \E k : k = JobOf(r)' /\ k = j
      BY <2>4 DEF JobOf
    <3>2. Quiet(JobOf(r))'
      BY <2>4 DEF Quiet, RunningOn, Running, JobOf
    <3>3. CASE rows'[j].status = rows[j].status /\ mirror'[j] = mirror[j] /\ rows[j] \in Row
      BY <2>1, <2>2, <2>5, <3>3, FollowsStill
    <3>4. CASE rows[j].status # "PROCESSING" /\ Agrees(JobOf(r))' /\ rows[j] \in Row
      <4>1. Agrees(j)'
        BY <3>1, <3>4 DEF Agrees, JobOf
      <4>2. FollowsOf(j)
        BY <2>1, <2>2, <3>4
      <4> QED BY <2>1, <3>4, <4>1, <4>2 DEF FollowsOf
    <3> QED BY <2>4, <3>2, <3>3, <3>4
  <2> QED BY <2>3, <2>4
<1> QED BY <1>2, <1>3, <1>1 DEF Follows, Alone

LEMMA HandleFollows ==
    ASSUME Serves, Counts, Follows, store = "memory", NEW r \in Requests, Handle(r)
    PROVE  Follows'
<1> DEFINE j == JobOf(r)
<1>0. Recorded /\ LoopHeld /\ Undivided
  BY DEF Counts
<1>1. call[r].pc \in {"read", "written", "flagged"}
  BY Zenon DEF Handle, Submit, Dispatch, Retry, RequestCancel, CancelQueued
<1>2. exec[r].pc = "none"
  BY <1>1 DEF Serves, Dispatched
<1>3. j \in Jobs /\ rows \in [Jobs -> Row \cup {None}] /\ DOMAIN mirror = Jobs
  BY <1>0, <1>1 DEF Recorded
<1>4. PICK pc \in {"error", "written", "refused", "flagged", "accepted"} : CallGoes(r, pc)
  BY Zenon DEF Handle, Submit, Dispatch, Retry, RequestCancel, CancelQueued
<1>5. /\ call'[r].pc = pc /\ call'[r].kind = call[r].kind /\ call'[r].job = call[r].job
      /\ \E k : k = JobOf(r)' /\ k = j
  BY <1>4, Goes DEF JobOf
<1>6. DOMAIN exec = Requests /\ \A q \in Requests : DOMAIN exec[q] = ExecShape
  BY DEF Serves, Typed, ExecShape
<1>7. \A k : k = JobOf(r)' /\ Quiet(k)' =>
        ~(call'[r].kind = "submit" /\ (call'[r].pc = "written" \/ exec'[r].pc = "waiting"))
  BY DEF Quiet
<1>8. CASE Submit(r)
  <2>1. /\ exec' = exec /\ mirror' = mirror /\ call[r].pc = "read" /\ call[r].kind = "submit"
        /\ CallGoes(r, "written")
    <3>1. ~(store = "database")
      OBVIOUS
    <3> QED BY <1>8, <3>1, Zenon DEF Submit
  <2>2. call'[r].pc = "written"
    BY <2>1, Goes
  <2>3. ~Quiet(JobOf(r))'
    BY <1>5, <1>7, <2>1, <2>2
  <2>4. \A k \in Jobs \ {j} : rows'[k] = rows[k]
    BY <1>3, <1>8 DEF Submit
  <2> QED BY <1>2, <1>3, <1>5, <2>1, <2>3, <2>4, HandledFollows
<1>9. CASE Dispatch(r)
  <2>1. PICK reference :
          exec' = [exec EXCEPT ![r].pc = "waiting", ![r].reference = reference]
    BY <1>9, Zenon DEF Dispatch
  <2>2. exec'[r].pc = "waiting" /\ \A q \in Requests : exec'[q].alone = exec[q].alone
    BY <1>6, <2>1 DEF ExecShape
  <2>3. call[r].pc = "written" /\ rows' = rows
    BY <1>9, Zenon DEF Dispatch
  <2>4. \A k \in Jobs \ {j} : mirror'[k] = mirror[k]
    BY <1>3, <1>9 DEF Dispatch
  <2>5. Quiet(JobOf(r))' => call[r].kind # "submit"
    BY <1>5, <1>7, <2>2
  <2>6. call[r].kind # "submit" => mirror' = mirror
    BY <1>9, Zenon DEF Dispatch
  <2>7. rows[j] \in Row
    BY <1>0, <2>3 DEF Recorded
  <2> QED BY <1>2, <1>3, <1>5, <2>2, <2>3, <2>4, <2>5, <2>6, <2>7, HandledFollows
<1>10. CASE Retry(r)
  <2>1. exec' = exec /\ call[r].pc = "read" /\ call[r].kind = "retry"
    BY <1>10, Zenon DEF Retry
  <2>2. rows[j] \in Row
    BY <1>0, <2>1 DEF Recorded
  <2>3. CASE rows' = rows /\ mirror' = mirror
    BY <1>2, <1>3, <1>5, <2>1, <2>2, <2>3, HandledFollows
  <2>4. CASE /\ rows[j].status \in {"FAILED", "CANCELLED"}
             /\ rows' = [rows EXCEPT ![j] = Requeued(@)] /\ MirrorRetry(j)
    <3>1. rows'[j].status = "QUEUED" /\ \A k \in Jobs \ {j} : rows'[k] = rows[k]
      BY <1>3, <2>4 DEF Requeued
    <3>2. mirror'[j].status = "QUEUED" /\ \A k \in Jobs \ {j} : mirror'[k] = mirror[k]
      BY <1>3, <2>4 DEF MirrorRetry, UpdateProgress
    <3>3. Agrees(JobOf(r))'
      BY <1>5, <3>1, <3>2 DEF Agrees, PublicStatus
    <3> QED BY <1>2, <1>3, <1>5, <2>1, <2>2, <2>4, <3>1, <3>2, <3>3, HandledFollows
  <2> QED BY <1>10, <2>3, <2>4, Zenon DEF Retry
<1>11. CASE RequestCancel(r)
  <2>1. /\ exec' = exec /\ mirror' = mirror /\ call[r].pc = "read" /\ call[r].kind = "cancel"
        /\ rows' = [rows EXCEPT ![j].cancel = TRUE]
    BY <1>11, Zenon DEF RequestCancel
  <2>2. rows[j] \in Row
    BY <1>0, <2>1 DEF Recorded
  <2>3. rows'[j].status = rows[j].status /\ \A k \in Jobs \ {j} : rows'[k] = rows[k]
    BY <1>3, <2>1, <2>2 DEF Row
  <2> QED BY <1>2, <1>3, <1>5, <2>1, <2>2, <2>3, HandledFollows
<1>12. CASE CancelQueued(r)
  <2>1. /\ exec' = exec /\ call[r].pc = "flagged"
        /\ WriteStatus(j, "CANCELLED", FALSE) /\ UpdateProgress(j, "FAILED", None, TRUE)
    BY <1>12, Zenon DEF CancelQueued
  <2>2. rows[j] \in Row /\ rows[j].status = "QUEUED"
    BY <1>0, <2>1 DEF Recorded, Undivided
  <2>3. Writes(r, "CANCELLED")
    <3>1. "CANCELLED" \in {"QUEUED", "PROCESSING"} \cup Terminal
      BY DEF Terminal
    <3> QED BY <1>0, <1>3, <2>1, <2>2, <3>1, WritesBoth
  <2>4. Agrees(JobOf(r))'
    BY <1>5, <2>3 DEF Writes, Agrees
  <2>5. \A k \in Jobs \ {j} : rows'[k] = rows[k] /\ mirror'[k] = mirror[k]
    BY <2>3 DEF Writes, OneRow
  <2> QED BY <1>2, <1>3, <1>5, <2>1, <2>2, <2>4, <2>5, HandledFollows
<1> QED BY <1>8, <1>9, <1>10, <1>11, <1>12 DEF Handle

\* What a step of an execution does for its job.
Advances(r) ==
    \/ /\ exec[r].pc = "waiting" /\ rows' = rows /\ mirror' = mirror
       /\ \/ exec'[r].pc = "start" /\ Continue(r)
          \/ exec'[r].pc = "recover" /\ exec[r].reference
    \/ /\ exec[r].pc = "recover" /\ exec'[r].pc \in {"start", "failing"}
       /\ exec'[r].alone = exec[r].alone /\ rows' = rows /\ mirror' = mirror
    \/ \E s \in {"QUEUED", "PROCESSING"} \cup Terminal :
         Writes(r, s) /\ (exec'[r].pc \in Processing => s = "PROCESSING")
    \/ /\ exec[r].pc \in Processing /\ exec'[r].pc \notin Outside
       /\ exec'[r].alone = exec[r].alone /\ rows' = rows
       /\ mirror' = mirror \/ mirror'[JobOf(r)].status = "PROCESSING"
    \/ exec[r].pc = "clearing" /\ exec'[r].pc = "done" /\ rows' = rows /\ mirror' = mirror

LEMMA ExecutionAdvances ==
    ASSUME Serves, Recorded, NEW r \in Requests, Execute(r) \/ Break(r)
    PROVE  /\ Advances(r) /\ exec[r].pc # "none"
           /\ \A j \in Jobs \ {JobOf(r)} : rows'[j] = rows[j] /\ mirror'[j] = mirror[j]
           /\ exec'[r].pc = "clearing" => \E s \in {"QUEUED", "PROCESSING"} \cup Terminal : Writes(r, s)
           /\ Admit(r) \/ \A q \in Requests : exec'[q].pc \notin Outside => exec'[q].alone = exec[q].alone
<1> DEFINE Statuses == {"QUEUED", "PROCESSING"} \cup Terminal
<1>1. /\ exec[r].pc # "none"
      /\ rows' = rows \/ \E s \in Statuses : Writes(r, s)
  BY ExecutionsStep DEF ExecutionStep
<1>2. /\ DOMAIN exec = Requests
      /\ \A q \in Requests : DOMAIN exec[q] = {"pc", "reference", "node", "index", "alone"}
  BY DEF Serves, Typed
<1>3. /\ JobOf(r) \in Jobs /\ rows[JobOf(r)] \in Row /\ DOMAIN mirror = Jobs
  BY <1>1 DEF Serves, Dispatched, Recorded
<1>4. PublicStatus("PROCESSING") = "PROCESSING" /\ PublicStatus("FAILED") = "FAILED"
  BY DEF PublicStatus
<1>5. {"PROCESSING", "FAILED", "CANCELLED", "COMPLETED", "PARTIAL"} \subseteq Statuses
  BY DEF Terminal
<1>6. TRUE \in BOOLEAN /\ FALSE \in BOOLEAN
  OBVIOUS
<1>7. \A pc : ExecGoes(r, pc) =>
        /\ exec'[r].pc = pc
        /\ \A q \in Requests : exec'[q].alone = exec[q].alone
  BY <1>2 DEF ExecGoes
<1>8. Release(r) =>
        /\ exec'[r].pc = "done"
        /\ \A q \in Requests : exec'[q].pc \notin Outside => exec'[q].alone = exec[q].alone
  BY <1>2 DEF Release, NoExec, Outside
<1>9. \A s \in Statuses : Writes(r, s) =>
        \A j \in Jobs \ {JobOf(r)} : rows'[j] = rows[j] /\ mirror'[j] = mirror[j]
  BY DEF Writes, OneRow
<1>10. CASE Admit(r)
  <2>1. rows' = rows /\ mirror' = mirror
    BY <1>10, Zenon DEF Admit
  <2> DEFINE others == RunningOn(JobOf(r))
  <2>2. exec' = [q \in Requests |->
          IF q = r THEN [exec[r] EXCEPT !.pc = IF exec[r].reference THEN "recover" ELSE "start",
                                        !.alone = others = {}]
          ELSE [exec[q] EXCEPT !.alone = @ /\ q \notin others]]
    BY <1>10, Zenon DEF Admit
  <2> HIDE DEF others
  <2>3. exec[r].pc = "waiting" /\ Continue(r)
    BY <1>10, Zenon DEF Admit
  <2>4. CASE exec[r].reference
    <3>1. PICK alone : exec'[r] = [exec[r] EXCEPT !.pc = "recover", !.alone = alone]
      BY <2>2, <2>4, Zenon
    <3>2. exec'[r].pc = "recover"
      BY <1>2, <3>1
    <3> QED BY <1>1, <1>10, <2>1, <2>3, <2>4, <3>2 DEF Advances
  <2>5. CASE ~exec[r].reference
    <3>1. PICK alone : exec'[r] = [exec[r] EXCEPT !.pc = "start", !.alone = alone]
      BY <2>2, <2>5, Zenon
    <3>2. exec'[r].pc = "start"
      BY <1>2, <3>1
    <3> QED BY <1>1, <1>10, <2>1, <2>3, <3>2 DEF Advances
  <2> QED BY <2>4, <2>5
<1>11. CASE Recover(r)
  <2>1. /\ exec[r].pc = "recover" /\ rows' = rows /\ mirror' = mirror
        /\ \E pc \in {"start", "failing"} : ExecGoes(r, pc)
    BY <1>11, Zenon DEF Recover
  <2> QED BY <1>1, <1>7, <2>1 DEF Advances
<1>12. CASE Start(r) \/ RecordNode(r)
  <2>1. /\ WriteStatus(JobOf(r), "PROCESSING", FALSE)
        /\ UpdateProgress(JobOf(r), "PROCESSING", None, FALSE)
    BY <1>12, Zenon DEF Start, RecordNode
  <2>2. Writes(r, "PROCESSING")
    BY <1>3, <1>4, <1>5, <1>6, <2>1, WritesBoth
  <2>3. exec'[r].pc # "clearing" /\ \A q \in Requests : exec'[q].alone = exec[q].alone
    <3>1. CASE Start(r)
      BY <1>7, <3>1 DEF Start
    <3>2. CASE RecordNode(r)
      BY <1>2, <3>2 DEF RecordNode
    <3> QED BY <1>12, <3>1, <3>2
  <2> QED BY <1>1, <1>5, <1>9, <2>2, <2>3 DEF Advances
<1>13. CASE CheckBeforeStart(r) \/ CheckCancel(r) \/ Break(r) \/ Save(r)
  <2>1. /\ exec[r].pc \in {"started", "yielded", "node", "streamed"}
        /\ rows' = rows /\ mirror' = mirror
        /\ \E pc \in {"cancelling", "node", "record", "broken", "finishing", "failing"} : ExecGoes(r, pc)
    <3>1. CASE CheckBeforeStart(r)
      BY <3>1, Zenon DEF CheckBeforeStart
    <3>2. CASE CheckCancel(r)
      BY <3>2, Zenon DEF CheckCancel
    <3>3. CASE Break(r) \/ Save(r)
      BY <3>3, Zenon DEF Break, Save
    <3> QED BY <1>13, <3>1, <3>2, <3>3
  <2> QED BY <1>1, <1>7, <2>1 DEF Advances, Processing, Outside
<1>14. CASE Finish(r)
  <2>1. PICK s \in {"COMPLETED", "PARTIAL", "FAILED"} :
           /\ WriteStatus(JobOf(r), s, s = "FAILED")
           /\ UpdateProgress(JobOf(r), PublicStatus(s), IF s = "FAILED" THEN None ELSE r, s = "FAILED")
    BY <1>14, Zenon DEF Finish
  <2>2. s \in Statuses /\ s # "CANCELLED" /\ (s = "FAILED") \in BOOLEAN
    BY <1>5
  <2>3. Writes(r, s)
    BY <1>3, <2>1, <2>2, WritesBoth
  <2>4. Release(r)
    BY <1>14, Zenon DEF Finish
  <2> QED BY <1>1, <1>8, <1>9, <2>2, <2>3, <2>4 DEF Advances, Processing
<1>15. CASE Fail(r)
  <2>1. WriteStatus(JobOf(r), "FAILED", TRUE) /\ UpdateProgress(JobOf(r), "FAILED", None, TRUE)
    BY <1>15, Zenon DEF Fail
  <2>2. Writes(r, "FAILED")
    BY <1>3, <1>4, <1>5, <1>6, <2>1, WritesBoth
  <2>3. ExecGoes(r, "clearing") \/ Release(r)
    BY <1>15, Zenon DEF Fail
  <2> QED BY <1>1, <1>5, <1>7, <1>8, <1>9, <2>2, <2>3 DEF Advances, Processing
<1>16. CASE Cancelled(r)
  <2>1. WriteStatus(JobOf(r), "CANCELLED", FALSE) /\ UpdateProgress(JobOf(r), "FAILED", None, TRUE)
    BY <1>16, Zenon DEF Cancelled
  <2>2. Writes(r, "CANCELLED") /\ Release(r)
    BY <1>3, <1>5, <1>6, <1>16, <2>1, WritesBoth DEF Cancelled
  <2> QED BY <1>1, <1>5, <1>8, <1>9, <2>2 DEF Advances, Processing
<1>17. CASE ClearBroken(r)
  <2>1. exec[r].pc = "clearing" /\ Release(r) /\ rows' = rows /\ mirror' = mirror
    BY <1>17, Zenon DEF ClearBroken
  <2> QED BY <1>1, <1>8, <2>1 DEF Advances
<1>18. CASE RunNode(r)
  <2>1. /\ exec[r].pc = "node" /\ rows' = rows
        /\ UpdateProgress(JobOf(r), "PROCESSING", None, FALSE)
        /\ \/ ExecGoes(r, "yielded")
           \/ \E index : exec' = [exec EXCEPT ![r].pc = "yielded", ![r].index = index]
    BY <1>18, Zenon DEF RunNode
  <2>2. exec'[r].pc = "yielded" /\ \A q \in Requests : exec'[q].alone = exec[q].alone
    BY <1>2, <1>7, <2>1
  <2>3. /\ mirror'[JobOf(r)].status = "PROCESSING"
        /\ \A j \in Jobs \ {JobOf(r)} : mirror'[j] = mirror[j]
    BY <1>3, <2>1 DEF UpdateProgress
  <2> QED BY <1>1, <2>1, <2>2, <2>3 DEF Advances, Processing, Outside
<1> QED BY <1>10, <1>11, <1>12, <1>13, <1>14, <1>15, <1>16, <1>17, <1>18, Zenon DEF Execute

\* In a quiet job the execution that takes a step is the only one.
LEMMA OnlyRunner ==
    ASSUME Serves, Recorded, NEW r \in Requests, Execute(r) \/ Break(r), Quiet(JobOf(r))'
    PROVE  \A q \in RunningOn(JobOf(r))' : q = r
<1>1. Alone(r) /\ call' = call
  <2>1. exec[r].pc # "none" /\ call' = call
    BY ExecutionsStep DEF ExecutionStep
  <2> QED BY <2>1, StepsAlone
<1> SUFFICES ASSUME NEW q \in Requests, q # r, exec'[q].pc \notin Outside, JobOf(q)' = JobOf(r)'
             PROVE  FALSE
  BY DEF RunningOn, Running
<1>2. exec'[q].alone /\ q \in RunningOn(JobOf(r)) /\ exec[q].pc \notin Outside /\ JobOf(q) = JobOf(r)
  BY <1>1 DEF Quiet, RunningOn, Running, Alone, JobOf
<1>3. CASE Admit(r)
  <2> DEFINE others == RunningOn(JobOf(r))
  <2>1. exec' = [p \in Requests |->
          IF p = r THEN [exec[r] EXCEPT !.pc = IF exec[r].reference THEN "recover" ELSE "start",
                                        !.alone = others = {}]
          ELSE [exec[p] EXCEPT !.alone = @ /\ p \notin others]]
    BY <1>3, Zenon DEF Admit
  <2>2. q \in others
    BY <1>2
  <2> HIDE DEF others
  <2>3. "alone" \in DOMAIN exec[q]
    BY DEF Serves, Typed
  <2>4. exec'[q] = [exec[q] EXCEPT !.alone = @ /\ q \notin others]
    BY <2>1
  <2>5. exec'[q].alone = (exec[q].alone /\ q \notin others)
    BY <2>3, <2>4, Zenon
  <2> QED BY <1>2, <2>2, <2>5
<1>4. CASE ~Admit(r)
  <2>1. exec[q].alone
    BY <1>2, <1>4, ExecutionAdvances
  <2>2. exec[r].pc \notin Outside
    BY <1>4, Zenon DEF Execute, Recover, Start, CheckBeforeStart, RunNode, CheckCancel, RecordNode,
                       Save, Finish, Fail, ClearBroken, Cancelled, Break, Outside
  <2> QED BY <1>2, <2>1, <2>2 DEF Serves, Exclusive
<1> QED BY <1>3, <1>4

LEMMA ExecuteFollows ==
    ASSUME Serves, Counts, References, Follows, store = "memory", NEW r \in Requests, Execute(r) \/ Break(r)
    PROVE  Follows'
<1>10. PICK J : J = JobOf(r)
  OBVIOUS
<1> DEFINE Statuses == {"QUEUED", "PROCESSING"} \cup Terminal
<1>0. Recorded /\ LoopHeld
  BY DEF Counts
<1>1. Alone(r)
  BY StepsAlone
<1>2. /\ Advances(r) /\ exec[r].pc # "none"
      /\ \A j \in Jobs \ {J} : rows'[j] = rows[j] /\ mirror'[j] = mirror[j]
      /\ exec'[r].pc = "clearing" => \E s \in Statuses : Writes(r, s)
      /\ Admit(r) \/ \A q \in Requests : exec'[q].pc \notin Outside => exec'[q].alone = exec[q].alone
  BY <1>0, <1>10, ExecutionAdvances
<1>3. call' = call
  BY <1>0, ExecutionsStep DEF ExecutionStep
<1>4. J \in Jobs /\ rows[J] \in Row /\ \A q \in Requests : JobOf(q)' = JobOf(q)
  BY <1>0, <1>2, <1>3, <1>10 DEF Serves, Dispatched, Recorded, JobOf
<1>5. ASSUME NEW s \in Statuses, Writes(r, s) PROVE Agrees(J)' /\ rows'[J].status = s
  BY <1>5, <1>10 DEF Writes, Agrees, OneRow
<1>6. ASSUME NEW q \in Requests, exec'[q].pc = "clearing" PROVE Agrees(JobOf(q))'
  <2>1. q = r
    BY <1>0, <1>6, ClearsAlone
  <2>2. Agrees(J)'
    BY <1>2, <1>5, <1>6, <2>1
  <2>3. JobOf(q)' = J
    BY <1>4, <1>10, <2>1
  <2> QED BY <2>2, <2>3 DEF Agrees
<1>7. ASSUME NEW j \in Jobs, j # J, rows'[j] \in Row, Quiet(j)' PROVE FollowsOf(j)'
  <2>1. RunningOn(j)' = RunningOn(j) /\ \A q \in RunningOn(j) : q \in Requests \ {r}
    BY <1>1, <1>4, <1>7, <1>10, SameRunners
  <2>2. \A q \in RunningOn(j) : exec'[q].pc = exec[q].pc
    BY <1>1, <2>1 DEF Alone
  <2>3. Quiet(j)' => Quiet(j)
    <3>1. \A q \in RunningOn(j) : exec'[q].alone => exec[q].alone
      <4>1. CASE Admit(r)
        <5> DEFINE others == RunningOn(JobOf(r))
        <5>1. exec' = [p \in Requests |->
                IF p = r THEN [exec[r] EXCEPT !.pc = IF exec[r].reference THEN "recover" ELSE "start",
                                              !.alone = others = {}]
                ELSE [exec[p] EXCEPT !.alone = @ /\ p \notin others]]
          BY <4>1, Zenon DEF Admit
        <5> HIDE DEF others
        <5>2. \A p \in Requests : "alone" \in DOMAIN exec[p]
          BY DEF Serves, Typed
        <5>3. \A p \in Requests \ {r} : exec'[p] = [exec[p] EXCEPT !.alone = @ /\ p \notin others]
          BY <5>1
        <5>4. \A p \in Requests \ {r} : exec'[p].alone = (exec[p].alone /\ p \notin others)
          BY <5>2, <5>3, Zenon
        <5> QED BY <2>1, <5>4
      <4>2. CASE ~Admit(r)
        BY <1>2, <2>1, <2>2, <4>2 DEF RunningOn, Running
      <4> QED BY <4>1, <4>2
    <3>2. ASSUME Quiet(j)', NEW q \in Requests, JobOf(q) = j, call[q].kind = "submit"
          PROVE  call[q].pc # "written" /\ exec[q].pc # "waiting"
      <4>1. q # r
        BY <1>7, <1>10, <3>2
      <4> QED BY <1>1, <1>4, <3>2, <4>1 DEF Quiet, Alone
    <3>3. ASSUME Quiet(j)', NEW q \in RunningOn(j) PROVE exec[q].alone
      BY <2>1, <3>1, <3>3 DEF Quiet
    <3> QED BY <3>2, <3>3 DEF Quiet
  <2>4. rows[j] \in Row /\ Quiet(j) => FollowsOf(j)
    BY DEF Follows
  <2>5. \A q \in RunningOn(j) : exec'[q].pc = exec[q].pc /\ busy # q
    BY <2>1, <2>2, OthersWait
  <2> QED BY <1>2, <1>7, <2>1, <2>3, <2>4, <2>5, FollowsStill
<1>8. ASSUME rows'[J] \in Row, Quiet(J)' PROVE FollowsOf(J)'
  <2>1. \A q \in RunningOn(J)' : q = r
    <3>1. Quiet(JobOf(r))' /\ RunningOn(JobOf(r))' = RunningOn(J)'
      BY <1>4, <1>8, <1>10 DEF Quiet, RunningOn, Running
    <3> QED BY <1>0, <3>1, OnlyRunner
  <2>2. r \in RunningOn(J)' <=> exec'[r].pc \notin Outside
    BY <1>4, <1>10 DEF RunningOn, Running
  <2>3. CASE exec'[r].pc = "start" /\ Continue(r)
    <3>1. r \in RunningOn(J)' /\ busy' = r
      BY <2>2, <2>3 DEF Outside, Continue
    <3> QED BY <2>1, <2>3, <3>1 DEF FollowsOf, Catching, Processing
  <2>7. CASE /\ exec[r].pc = "waiting" /\ exec'[r].pc = "recover" /\ exec[r].reference
             /\ rows' = rows /\ mirror' = mirror
    <3>1. RunningOn(J) = {}
      <4>1. ASSUME NEW q \in RunningOn(J) PROVE FALSE
        <5>1. q \in Requests /\ exec[q].pc \notin Outside /\ JobOf(q) = J
          BY DEF RunningOn, Running
        <5>2. q # r
          BY <2>7, <5>1 DEF Outside
        <5>3. q \in RunningOn(J)'
          BY <1>1, <1>4, <5>1, <5>2 DEF RunningOn, Running, Alone
        <5> QED BY <2>1, <5>2, <5>3
      <4> QED BY <4>1
    <3>2. Quiet(J)
      <4>1. ASSUME NEW q \in Requests, JobOf(q) = J, call[q].kind = "submit"
            PROVE  call[q].pc # "written" /\ exec[q].pc # "waiting"
        <5>1. q # r
          BY <2>7, <4>1 DEF References
        <5> QED BY <1>1, <1>3, <1>4, <1>8, <4>1, <5>1 DEF Quiet, Alone
      <4> QED BY <3>1, <4>1 DEF Quiet
    <3>3. Agrees(J)
      BY <1>4, <3>1, <3>2 DEF Follows, FollowsOf
    <3>4. Agrees(J)'
      BY <2>7, <3>3 DEF Agrees
    <3> QED BY <2>1, <2>7, <3>4 DEF FollowsOf, Processing
  <2>4. ASSUME NEW s \in Statuses, Writes(r, s), exec'[r].pc \in Processing => s = "PROCESSING"
        PROVE  FollowsOf(J)'
    BY <1>5, <2>1, <2>4 DEF FollowsOf
  <2>5. ASSUME exec[r].pc \in Processing \cup {"recover"}, exec'[r].pc \notin Outside,
               exec'[r].alone = exec[r].alone, rows' = rows,
               \/ mirror' = mirror
               \/ exec[r].pc \in Processing /\ mirror'[J].status = "PROCESSING",
               exec'[r].pc \in Processing => exec[r].pc \in Processing
        PROVE  FollowsOf(J)'
    <3>1. r \in RunningOn(J) /\ r \in RunningOn(J)' /\ exec[r].alone
      BY <1>8, <1>10, <2>2, <2>5 DEF RunningOn, Running, Processing, Outside, Quiet
    <3>2. \A q \in RunningOn(J) : q = r
      BY <3>1 DEF Serves, Exclusive, RunningOn, Running
    <3>3. Quiet(J)
      <4>1. ASSUME NEW q \in Requests, JobOf(q) = J, call[q].kind = "submit"
            PROVE  call[q].pc # "written" /\ exec[q].pc # "waiting"
        <5>1. call'[q].pc # "written" /\ exec'[q].pc # "waiting"
          BY <1>3, <1>4, <1>8, <4>1 DEF Quiet
        <5>2. q = r \/ exec'[q].pc = exec[q].pc
          BY <1>1 DEF Alone
        <5> QED BY <1>3, <2>5, <5>1, <5>2 DEF Processing
      <4> QED BY <3>1, <3>2, <4>1 DEF Quiet
    <3>4. Agrees(J) /\ (exec[r].pc \in Processing => rows[J].status = "PROCESSING")
      <4>1. FollowsOf(J)
        BY <1>4, <3>3 DEF Follows
      <4>2. ~Catching(r)
        BY <2>5 DEF Processing, Catching
      <4> QED BY <2>5, <3>1, <3>2, <4>1, <4>2 DEF FollowsOf
    <3>5. Agrees(J)'
      BY <2>5, <3>4 DEF Agrees, PublicStatus
    <3> QED BY <2>1, <2>5, <3>4, <3>5 DEF FollowsOf
  <2>6. CASE exec[r].pc = "clearing" /\ exec'[r].pc = "done" /\ rows' = rows /\ mirror' = mirror
    <3>1. Agrees(J)
      BY <1>10, <2>6 DEF Follows
    <3>2. Agrees(J)' /\ r \notin RunningOn(J)'
      BY <2>2, <2>6, <3>1 DEF Agrees, Outside
    <3> QED BY <2>1, <3>2 DEF FollowsOf
  <2>8. CASE /\ exec[r].pc = "recover" /\ exec'[r].pc \in {"start", "failing"}
             /\ exec'[r].alone = exec[r].alone /\ rows' = rows /\ mirror' = mirror
    BY <2>5, <2>8 DEF Processing, Outside
  <2>9. CASE /\ exec[r].pc \in Processing /\ exec'[r].pc \notin Outside
             /\ exec'[r].alone = exec[r].alone /\ rows' = rows
             /\ mirror' = mirror \/ mirror'[J].status = "PROCESSING"
    BY <2>5, <2>9
  <2> QED BY <1>2, <1>10, <2>3, <2>4, <2>6, <2>7, <2>8, <2>9 DEF Advances
<1> QED BY <1>6, <1>7, <1>8, <1>4 DEF Follows

\* Dispatch says of an execution whether it has to recover its input.
LEMMA ReferencesStep == Serves /\ References /\ [Next]_vars => References'
<1> SUFFICES ASSUME Serves, References, [Next]_vars PROVE References'
  OBVIOUS
<1>0. /\ DOMAIN exec = Requests
      /\ \A q \in Requests : DOMAIN exec[q] = {"pc", "reference", "node", "index", "alone"}
  BY DEF Serves, Typed
<1>1. CASE UNCHANGED vars
  BY <1>1, Zenon DEF vars, References
<1>2. ASSUME NEW r \in Requests, Read(r) \/ Handle(r) PROVE References'
  <2>1. Alone(r)
    BY <1>2, StepsAlone
  <2>2. call[r].pc \in {"idle", "read", "written", "flagged"}
    BY <1>2, Zenon DEF Read, Handle, Submit, Dispatch, Retry, RequestCancel, CancelQueued
  <2>3. ~exec[r].reference
    BY <2>2 DEF References
  <2>4. CASE ~Dispatch(r)
    <3>1. exec' = exec
      BY <1>2, <2>4, Zenon DEF Read, Handle, Submit, Retry, RequestCancel, CancelQueued
    <3> QED BY <2>1, <2>3, <3>1 DEF References, Alone
  <2>5. CASE Dispatch(r)
    <3>1. /\ CallGoes(r, "accepted")
          /\ exec' = [exec EXCEPT ![r].pc = "waiting", ![r].reference = call[r].kind = "retry"]
      BY <2>5, Zenon DEF Dispatch
    <3>2. call'[r].pc = "accepted" /\ call'[r].kind = call[r].kind
      BY <3>1, Goes
    <3>3. \A q \in Requests \ {r} : exec'[q] = exec[q]
      BY <1>0, <3>1
    <3>4. CASE call[r].kind = "retry"
      BY <2>1, <3>2, <3>3, <3>4 DEF References, Alone
    <3>5. CASE call[r].kind # "retry"
      <4>1. exec' = [exec EXCEPT ![r].pc = "waiting", ![r].reference = FALSE]
        <5>1. (call[r].kind = "retry") = FALSE
          BY <3>5
        <5> QED BY <3>1, <5>1, Zenon
      <4>2. ~exec'[r].reference
        BY <1>0, <4>1
      <4> QED BY <2>1, <3>3, <4>2 DEF References, Alone
    <3> QED BY <3>4, <3>5
  <2> QED BY <2>4, <2>5
<1>3. ASSUME NEW r \in Requests, Execute(r) \/ Break(r) PROVE References'
  <2>1. call' = call
    BY <1>3, Zenon DEF Execute, Break, Admit, Recover, Start, CheckBeforeStart, RunNode, CheckCancel,
                       RecordNode, Save, Finish, Fail, ClearBroken, Cancelled
  <2>2. \A pc : ExecGoes(r, pc) => \A q \in Requests : exec'[q].reference = exec[q].reference
    BY <1>0 DEF ExecGoes
  <2>3. Release(r) =>
          ~exec'[r].reference /\ \A q \in Requests \ {r} : exec'[q].reference = exec[q].reference
    BY <1>0 DEF Release, NoExec
  <2>4. CASE Admit(r)
    <3> DEFINE others == RunningOn(JobOf(r))
    <3>1. exec' = [q \in Requests |->
            IF q = r THEN [exec[r] EXCEPT !.pc = IF exec[r].reference THEN "recover" ELSE "start",
                                          !.alone = others = {}]
            ELSE [exec[q] EXCEPT !.alone = @ /\ q \notin others]]
      BY <2>4, Zenon DEF Admit
    <3> HIDE DEF others
    <3>2. \A q \in Requests : "reference" \in DOMAIN exec[q]
      BY <1>0
    <3>3. \A q \in Requests : exec'[q].reference = exec[q].reference
      BY <3>1, <3>2
    <3> QED BY <2>1, <3>3 DEF References
  <2>5. CASE RunNode(r) \/ RecordNode(r)
    <3>1. \/ ExecGoes(r, "yielded")
          \/ \E index : exec' = [exec EXCEPT ![r].pc = "yielded", ![r].index = index]
          \/ \E pc, node : exec' = [exec EXCEPT ![r].pc = pc, ![r].node = node]
      BY <2>5, Zenon DEF RunNode, RecordNode
    <3>2. ASSUME NEW q \in Requests PROVE exec'[q].reference = exec[q].reference
      <4>1. CASE ExecGoes(r, "yielded")
        BY <2>2, <4>1
      <4>2. ASSUME NEW index, exec' = [exec EXCEPT ![r].pc = "yielded", ![r].index = index]
            PROVE  exec'[q].reference = exec[q].reference
        BY <1>0, <4>2
      <4>3. ASSUME NEW pc, NEW node, exec' = [exec EXCEPT ![r].pc = pc, ![r].node = node]
            PROVE  exec'[q].reference = exec[q].reference
        BY <1>0, <4>3
      <4> QED BY <3>1, <4>1, <4>2, <4>3, Zenon
    <3> QED BY <2>1, <3>2 DEF References
  <2>6. CASE Recover(r) \/ Start(r) \/ CheckBeforeStart(r) \/ CheckCancel(r) \/ Save(r) \/ Break(r)
    <3>1. \E pc : ExecGoes(r, pc)
      BY <2>6, Zenon DEF Recover, Start, CheckBeforeStart, CheckCancel, Save, Break
    <3> QED BY <2>1, <2>2, <3>1 DEF References
  <2>7. CASE Finish(r) \/ Fail(r) \/ ClearBroken(r) \/ Cancelled(r)
    <3>1. Release(r) \/ \E pc : ExecGoes(r, pc)
      BY <2>7, Zenon DEF Finish, Fail, ClearBroken, Cancelled
    <3> QED BY <2>1, <2>2, <2>3, <3>1 DEF References
  <2> QED BY <1>3, <2>4, <2>5, <2>6, <2>7, Zenon DEF Execute
<1> QED BY <1>1, <1>2, <1>3 DEF Next

LEMMA FollowsStep == Serves /\ Counts /\ References /\ Follows /\ [Next]_vars => Follows'
<1> SUFFICES ASSUME Serves, Counts, References, Follows, [Next]_vars PROVE Follows'
  OBVIOUS
<1>1. CASE UNCHANGED vars
  BY <1>1 DEF vars, Follows, FollowsOf, Catching, Agrees, Quiet, RunningOn, Running, JobOf
<1>2. ASSUME NEW r \in Requests, Read(r) \/ Handle(r) \/ Execute(r) \/ Break(r)
      PROVE  Follows'
  <2>1. CASE store = "memory"
    BY <1>2, <2>1, ReadFollows, HandleFollows, ExecuteFollows
  <2>2. CASE store # "memory"
    <3>1. store' = store
      BY <1>2, StepsAlone DEF Alone
    <3> QED BY <2>2, <3>1 DEF Follows
  <2> QED BY <2>1, <2>2
<1> QED BY <1>1, <1>2 DEF Next

\* With the memory store the mirror, from which /status answers, agrees with
\* the row whenever no task is between two awaits, no submission of the job
\* waits for its turn and no execution of it has overlapped another
\* (public_status_view, update_progress, update_job).
THEOREM MirrorAgrees == Spec => []MirrorFollowsRow
<1>1. Init => Serves /\ Counts /\ References /\ Follows
  <2> SUFFICES ASSUME Init PROVE References /\ Follows
    BY ServesInit, CountsInit
  <2>1. /\ rows = [j \in Jobs |-> None]
        /\ \A r \in Requests : exec[r].pc = "none" /\ ~exec[r].reference
    BY DEF Init, NoExec
  <2>2. \A j \in Jobs : rows[j] \notin Row
    BY <2>1, DemoJobsAssumption
  <2> QED BY <2>1, <2>2 DEF References, Follows
<1>2. Serves /\ Counts /\ References /\ Follows /\ [Next]_vars => (Serves /\ Counts /\ References /\ Follows)'
  BY ServesStep, CountsStep, ReferencesStep, FollowsStep
<1>3. Serves /\ Counts /\ References /\ Follows => MirrorFollowsRow
  <2> SUFFICES ASSUME Serves, Counts, Follows, store = "memory",
                      NEW j \in Jobs, Settled(j), rows[j] # None
               PROVE  Agrees(j)
    BY DEF MirrorFollowsRow, Agrees
  <2>1. \A r \in Requests : ~HoldsLoop(r)
    BY DemoJobsAssumption DEF Counts, LoopHeld, Settled
  <2>2. rows[j] \in Row
    BY DEF Counts, Recorded
  <2>3. Quiet(j)
    BY <2>1 DEF Settled, Quiet, HoldsLoop, Handling
  <2>4. \A r \in RunningOn(j) : ~Catching(r)
    BY DemoJobsAssumption DEF RunningOn, Running, Settled, Catching
  <2> QED BY <2>2, <2>3, <2>4 DEF Follows, FollowsOf
<1> QED BY <1>1, <1>2, <1>3, PTL DEF Spec

----------------------------------------------------------------------------
(* Every step takes a request further, and nobody is stranded.             *)

CallStages == {"idle", "read", "written", "flagged", "accepted", "refused", "error"}
ExecStages == ExecutionStages \cup {"none", "waiting", "done"}

\* Where a request or an execution may have the event loop.
MayHold(r) == HoldsLoop(r) \/ exec[r].pc \in {"start", "failing"}

\* Requests are at stages there are, and who has the event loop needs it.
Staged ==
    /\ \A r \in Requests :
        call[r].pc \in CallStages /\ exec[r].pc \in ExecStages /\ exec[r].node \in {1, 2}
    /\ store = "memory" => busy = None \/ (busy \in Requests /\ MayHold(busy))

\* The ranks, one by one.
LEMMA CallRanks ==
    /\ CallRank["idle"] = 0 /\ CallRank["read"] = 1
    /\ CallRank["written"] = 2 /\ CallRank["flagged"] = 2
    /\ CallRank["accepted"] = 3 /\ CallRank["refused"] = 3 /\ CallRank["error"] = 3
BY DEF CallRank

LEMMA ExecRanks ==
    /\ ExecRank["none"] = 0 /\ ExecRank["waiting"] = 1 /\ ExecRank["recover"] = 2
    /\ ExecRank["start"] = 3 /\ ExecRank["started"] = 4 /\ ExecRank["node"] = 5
    /\ ExecRank["yielded"] = 6 /\ ExecRank["record"] = 7
    /\ ExecRank["streamed"] = 11 /\ ExecRank["broken"] = 11
    /\ ExecRank["finishing"] = 12 /\ ExecRank["failing"] = 12
    /\ ExecRank["cancelling"] = 12 /\ ExecRank["clearing"] = 12 /\ ExecRank["done"] = 13
BY DEF ExecRank

\* From one stage to the next: of the handler, of the execution.
HandlerGoes(r) ==
    /\ exec'[r].pc = exec[r].pc /\ exec'[r].node = exec[r].node
    /\ \/ call[r].pc = "idle" /\ call'[r].pc \in {"read", "refused"}
       \/ call[r].pc = "read" /\ call'[r].pc \in {"error", "written", "refused", "flagged", "accepted"}
       \/ call[r].pc = "flagged" /\ call'[r].pc = "accepted"

ExecutionGoes(r) ==
    /\ call'[r].pc = call[r].pc
    /\ \/ /\ exec'[r].node = exec[r].node
          /\ \/ exec[r].pc = "waiting" /\ exec'[r].pc \in {"recover", "start"}
             \/ exec[r].pc = "recover" /\ exec'[r].pc \in {"start", "failing"}
             \/ exec[r].pc = "start" /\ exec'[r].pc = "started"
             \/ exec[r].pc = "started" /\ exec'[r].pc \in {"cancelling", "node"}
             \/ exec[r].pc = "node" /\ exec'[r].pc \in {"yielded", "broken"}
             \/ exec[r].pc = "yielded" /\ exec'[r].pc \in {"cancelling", "record", "broken"}
             \/ exec[r].pc = "record" /\ exec[r].node = 2 /\ exec'[r].pc = "streamed"
             \/ exec[r].pc = "streamed" /\ exec'[r].pc \in {"finishing", "failing"}
             \/ exec[r].pc = "broken" /\ exec'[r].pc = "clearing"
       \/ /\ exec[r].pc = "record" /\ exec[r].node = 1
          /\ exec'[r].pc = "node" /\ exec'[r].node = 2
       \/ /\ exec[r].pc \in {"finishing", "failing", "clearing", "cancelling"}
          /\ exec'[r].pc = "done" /\ exec'[r].node = 1

Dispatches(r) ==
    /\ call[r].pc = "written" /\ call'[r].pc = "accepted"
    /\ exec[r].pc = "none" /\ exec'[r].pc = "waiting" /\ exec'[r].node = exec[r].node

\* A step gives the event loop back or needs it next.
KeepsOrGives(r) == busy' = None \/ MayHold(r)'

LEMMA HandlersGo ==
    ASSUME Serves, NEW r \in Requests, Read(r) \/ Handle(r)
    PROVE  /\ HandlerGoes(r) \/ Dispatches(r)
           /\ \A q \in Requests \ {r} : exec'[q].node = exec[q].node
           /\ KeepsOrGives(r)
<1>0. /\ DOMAIN call = Requests /\ DOMAIN exec = Requests
      /\ \A q \in Requests : DOMAIN call[q] = {"pc", "kind", "job", "seen"}
      /\ \A q \in Requests : DOMAIN exec[q] = {"pc", "reference", "node", "index", "alone"}
  BY DEF Serves, Typed
<1>1. CASE Read(r)
  <2>1. PICK j \in Jobs, kind \in {"submit", "retry", "cancel"} :
          /\ call' = [call EXCEPT ![r] = [pc |-> IF Refused(kind, rows[j]) THEN "refused" ELSE "read",
                                         kind |-> kind, job |-> j,
                                         seen |-> IF Refused(kind, rows[j]) THEN None ELSE rows[j]]]
          /\ IF Refused(kind, rows[j]) THEN Suspend ELSE Continue(r)
    BY <1>1, Zenon DEF Read
  <2>2. call[r].pc = "idle" /\ exec' = exec
    BY <1>1, Zenon DEF Read
  <2>3. \/ call'[r].pc = "refused" /\ Suspend
        \/ call'[r].pc = "read"
    BY <1>0, <2>1
  <2> QED BY <2>2, <2>3 DEF HandlerGoes, KeepsOrGives, Suspend, MayHold, HoldsLoop, Handling
<1>2. CASE Submit(r) \/ Retry(r) \/ RequestCancel(r) \/ CancelQueued(r)
  <2>1. exec' = exec
    BY <1>2, Zenon DEF Submit, Retry, RequestCancel, CancelQueued
  <2>2. \/ /\ call[r].pc = "read"
           /\ \/ Suspend /\ \E pc \in {"error", "refused", "accepted"} : CallGoes(r, pc)
              \/ \E pc \in {"written", "flagged"} : CallGoes(r, pc)
        \/ call[r].pc = "flagged" /\ Suspend /\ CallGoes(r, "accepted")
    <3>1. CASE Submit(r)
      BY <3>1, Zenon DEF Submit
    <3>2. CASE Retry(r)
      BY <3>2, Zenon DEF Retry
    <3>3. CASE RequestCancel(r)
      BY <3>3, Zenon DEF RequestCancel
    <3>4. CASE CancelQueued(r)
      BY <3>4, Zenon DEF CancelQueued
    <3> QED BY <1>2, <3>1, <3>2, <3>3, <3>4
  <2>3. \/ /\ call[r].pc = "read"
           /\ \/ Suspend /\ call'[r].pc \in {"error", "refused", "accepted"}
              \/ call'[r].pc \in {"written", "flagged"}
        \/ call[r].pc = "flagged" /\ Suspend /\ call'[r].pc = "accepted"
    BY <2>2, Goes
  <2> QED BY <2>1, <2>3 DEF HandlerGoes, KeepsOrGives, Suspend, MayHold, HoldsLoop, Handling
<1>3. CASE Dispatch(r)
  <2>1. call[r].pc = "written" /\ Suspend /\ CallGoes(r, "accepted")
    BY <1>3, Zenon DEF Dispatch
  <2>2. PICK reference :
          exec' = [exec EXCEPT ![r].pc = "waiting", ![r].reference = reference]
    BY <1>3, Zenon DEF Dispatch
  <2>3. call'[r].pc = "accepted" /\ exec[r].pc = "none"
    BY <2>1, Goes DEF Serves, Dispatched
  <2>4. /\ exec'[r].pc = "waiting" /\ exec'[r].node = exec[r].node
        /\ \A q \in Requests \ {r} : exec'[q].node = exec[q].node
    BY <1>0, <2>2
  <2> QED BY <2>1, <2>3, <2>4 DEF Dispatches, KeepsOrGives, Suspend
<1> QED BY <1>1, <1>2, <1>3, Zenon DEF Handle

LEMMA ExecutionsGo ==
    ASSUME Serves, Staged, NEW r \in Requests, Execute(r) \/ Break(r)
    PROVE  /\ ExecutionGoes(r)
           /\ \A q \in Requests \ {r} : exec'[q].node = exec[q].node
           /\ KeepsOrGives(r)
<1>0. /\ DOMAIN exec = Requests
      /\ \A q \in Requests : DOMAIN exec[q] = {"pc", "reference", "node", "index", "alone"}
  BY DEF Serves, Typed
<1>1. call' = call
  BY Zenon DEF Execute, Break, Admit, Recover, Start, CheckBeforeStart, RunNode, CheckCancel,
               RecordNode, Save, Finish, Fail, ClearBroken, Cancelled
<1>2. \A pc : ExecGoes(r, pc) =>
        /\ exec'[r].pc = pc /\ exec'[r].node = exec[r].node
        /\ \A q \in Requests \ {r} : exec'[q].node = exec[q].node
  BY <1>0 DEF ExecGoes
<1>3. Release(r) =>
        /\ exec'[r].pc = "done" /\ exec'[r].node = 1
        /\ \A q \in Requests \ {r} : exec'[q].node = exec[q].node
  BY <1>0 DEF Release, NoExec
<1> USE DEF KeepsOrGives, MayHold, HoldsLoop, Keeping, Suspend
<1>4. CASE Admit(r)
  <2> DEFINE others == RunningOn(JobOf(r))
  <2>1. /\ exec[r].pc = "waiting"
        /\ exec' = [q \in Requests |->
             IF q = r THEN [exec[r] EXCEPT !.pc = IF exec[r].reference THEN "recover" ELSE "start",
                                           !.alone = others = {}]
             ELSE [exec[q] EXCEPT !.alone = @ /\ q \notin others]]
    BY <1>4, Zenon DEF Admit
  <2> HIDE DEF others
  <2>2. PICK first \in {"recover", "start"} :
            exec'[r] = [exec[r] EXCEPT !.pc = first, !.alone = others = {}]
    <3>1. exec'[r] = [exec[r] EXCEPT !.pc = IF exec[r].reference THEN "recover" ELSE "start",
                                     !.alone = others = {}]
      BY <2>1, Zenon
    <3> QED BY <3>1, Zenon
  <2>3. exec'[r].pc \in {"recover", "start"} /\ exec'[r].node = exec[r].node
    BY <1>0, <2>2
  <2>4. ASSUME NEW q \in Requests \ {r} PROVE exec'[q].node = exec[q].node
    <3>1. exec'[q] = [exec[q] EXCEPT !.alone = @ /\ q \notin others]
      BY <2>1, Zenon
    <3>2. PICK alone : exec'[q] = [exec[q] EXCEPT !.alone = alone]
      BY <3>1, Zenon
    <3> QED BY <3>2
  <2>5. exec[r].pc = "waiting"
    BY <2>1, Zenon
  <2> QED BY ONLY <1>1, <2>3, <2>4, <2>5 DEF ExecutionGoes, KeepsOrGives, MayHold, HoldsLoop, Keeping
<1>5. CASE Recover(r)
  <2>1. exec[r].pc = "recover" /\ \E pc \in {"start", "failing"} : ExecGoes(r, pc)
    BY <1>5, Zenon DEF Recover
  <2> QED BY <1>1, <1>2, <2>1 DEF ExecutionGoes
<1>6. CASE Start(r)
  <2>1. exec[r].pc = "start" /\ ExecGoes(r, "started")
    BY <1>6, Zenon DEF Start
  <2> QED BY <1>1, <1>2, <2>1 DEF ExecutionGoes
<1>7. CASE CheckBeforeStart(r)
  <2>1. exec[r].pc = "started" /\ (ExecGoes(r, "cancelling") \/ (ExecGoes(r, "node") /\ Suspend))
    BY <1>7, Zenon DEF CheckBeforeStart
  <2> QED BY <1>1, <1>2, <2>1 DEF ExecutionGoes
<1>8. CASE RunNode(r)
  <2>1. /\ exec[r].pc = "node" /\ Suspend
        /\ \/ ExecGoes(r, "yielded")
           \/ \E index : exec' = [exec EXCEPT ![r].pc = "yielded", ![r].index = index]
    BY <1>8, Zenon DEF RunNode
  <2>2. /\ exec'[r].pc = "yielded" /\ exec'[r].node = exec[r].node
        /\ \A q \in Requests \ {r} : exec'[q].node = exec[q].node
    BY <1>0, <1>2, <2>1
  <2> QED BY <1>1, <2>1, <2>2 DEF ExecutionGoes
<1>9. CASE CheckCancel(r)
  <2>1. exec[r].pc = "yielded" /\ \E pc \in {"cancelling", "record"} : ExecGoes(r, pc)
    BY <1>9, Zenon DEF CheckCancel
  <2> QED BY <1>1, <1>2, <2>1 DEF ExecutionGoes
<1>10. CASE RecordNode(r)
  <2>1. Len(Nodes) = 2 /\ exec[r].node \in {1, 2}
    BY DEF Nodes, Staged
  <2>2. exec[r].pc = "record" /\ Suspend
    BY <1>10, Zenon DEF RecordNode
  <2>3. exec' = [exec EXCEPT
          ![r].pc = IF exec[r].node = Len(Nodes) THEN "streamed" ELSE "node",
          ![r].node = IF exec[r].node = Len(Nodes) THEN @ ELSE @ + 1]
    BY <1>10, Zenon DEF RecordNode
  <2>4. \A q \in Requests \ {r} : exec'[q].node = exec[q].node
    BY <1>0, <2>3
  <2>5. CASE exec[r].node = 2
    <3>1. exec'[r].pc = "streamed" /\ exec'[r].node = exec[r].node
      BY <1>0, <2>1, <2>3, <2>5
    <3> QED BY <1>1, <2>2, <2>4, <2>5, <3>1 DEF ExecutionGoes
  <2>6. CASE exec[r].node = 1
    <3>1. exec'[r].pc = "node" /\ exec'[r].node = 2
      BY <1>0, <2>1, <2>3, <2>6
    <3> QED BY <1>1, <2>2, <2>4, <2>6, <3>1 DEF ExecutionGoes
  <2> QED BY <2>1, <2>5, <2>6
<1>11. CASE Save(r)
  <2>1. exec[r].pc = "streamed" /\ \E pc \in {"finishing", "failing"} : ExecGoes(r, pc)
    BY <1>11, Zenon DEF Save
  <2> QED BY <1>1, <1>2, <2>1 DEF ExecutionGoes
<1>12. CASE Finish(r) \/ ClearBroken(r) \/ Cancelled(r)
  <2>1. exec[r].pc \in {"finishing", "clearing", "cancelling"} /\ Release(r) /\ Suspend
    BY <1>12, Zenon DEF Finish, ClearBroken, Cancelled
  <2> QED BY <1>1, <1>3, <2>1 DEF ExecutionGoes
<1>13. CASE Fail(r)
  <2>1. \/ exec[r].pc = "broken" /\ ExecGoes(r, "clearing")
        \/ exec[r].pc = "failing" /\ Release(r) /\ Suspend
    BY <1>13, Zenon DEF Fail
  <2> QED BY <1>1, <1>2, <1>3, <2>1 DEF ExecutionGoes
<1>14. CASE Break(r)
  <2>1. exec[r].pc \in {"node", "yielded"} /\ ExecGoes(r, "broken")
    BY <1>14, Zenon DEF Break
  <2> QED BY <1>1, <1>2, <2>1 DEF ExecutionGoes
<1> QED BY <1>4, <1>5, <1>6, <1>7, <1>8, <1>9, <1>10, <1>11, <1>12, <1>13, <1>14, Zenon
        DEF Execute

\* What a step of any kind does.
LEMMA StepGoes ==
    ASSUME Serves, Staged, NEW r \in Requests, Read(r) \/ Handle(r) \/ Execute(r) \/ Break(r)
    PROVE  /\ HandlerGoes(r) \/ Dispatches(r) \/ ExecutionGoes(r)
           /\ \A q \in Requests \ {r} :
                call'[q] = call[q] /\ exec'[q].pc = exec[q].pc /\ exec'[q].node = exec[q].node
           /\ KeepsOrGives(r) /\ store' = store
  BY StepsAlone, HandlersGo, ExecutionsGo DEF Alone

LEMMA StagedInit == Init => Staged
  BY DEF Init, Staged, CallStages, ExecStages, NoExec

LEMMA StagedStep ==
    ASSUME Serves, Staged, NEW r \in Requests, Read(r) \/ Handle(r) \/ Execute(r) \/ Break(r)
    PROVE  Staged'
<1>1. call'[r].pc \in CallStages /\ exec'[r].pc \in ExecStages /\ exec'[r].node \in {1, 2}
  <2>1. CASE HandlerGoes(r)
    BY <2>1 DEF HandlerGoes, Staged, CallStages
  <2>2. CASE Dispatches(r)
    BY <2>2 DEF Dispatches, Staged, CallStages, ExecStages
  <2>3. CASE ExecutionGoes(r)
    BY <2>3 DEF ExecutionGoes, Staged, ExecStages, ExecutionStages
  <2> QED BY <2>1, <2>2, <2>3, StepGoes
<1>2. store' = "memory" => busy' = None \/ (busy' \in Requests /\ MayHold(busy)')
  <2> SUFFICES ASSUME store' = "memory" PROVE busy' = None \/ (busy' \in Requests /\ MayHold(busy)')
    OBVIOUS
  <2>1. store = "memory" /\ KeepsOrGives(r)
    BY StepGoes
  <2>2. busy' = r \/ busy' = None
    BY <2>1, TakesTurn
  <2>3. busy' = r => (MayHold(busy)' <=> MayHold(r)')
    BY DEF MayHold, HoldsLoop
  <2> QED BY <2>1, <2>2, <2>3, DemoJobsAssumption DEF KeepsOrGives
<1>3. \A q \in Requests \ {r} :
        call'[q].pc \in CallStages /\ exec'[q].pc \in ExecStages /\ exec'[q].node \in {1, 2}
  BY StepGoes DEF Staged
<1> QED BY <1>1, <1>2, <1>3 DEF Staged

\* Where a request is, in numbers.
LEMMA ProgressIs ==
    ASSUME NEW r \in Requests
    PROVE  /\ exec[r].pc \in {"node", "yielded", "record"} =>
                Progress(r) = CallRank[call[r].pc] + ExecRank[exec[r].pc] + 3 * (exec[r].node - 1)
           /\ exec[r].pc \notin {"node", "yielded", "record"} =>
                Progress(r) = CallRank[call[r].pc] + ExecRank[exec[r].pc] + 3 * 0
           /\ exec'[r].pc \in {"node", "yielded", "record"} =>
                Progress(r)' = CallRank[call'[r].pc] + ExecRank[exec'[r].pc] + 3 * (exec'[r].node - 1)
           /\ exec'[r].pc \notin {"node", "yielded", "record"} =>
                Progress(r)' = CallRank[call'[r].pc] + ExecRank[exec'[r].pc] + 3 * 0
  BY DEF Progress, NodesBehind, CallRank, ExecRank

LEMMA StepAdvances ==
    ASSUME Serves, Staged, NEW r \in Requests, Read(r) \/ Handle(r) \/ Execute(r) \/ Break(r)
    PROVE  /\ Progress(r) < Progress(r)' /\ Progress(r)' <= 16
           /\ \A q \in Requests \ {r} : Progress(q)' = Progress(q)
<1>1. \A q \in Requests \ {r} : Progress(q)' = Progress(q)
  BY StepGoes DEF Progress, NodesBehind
<1>2. exec[r].pc # "none" => call[r].pc = "accepted"
  BY DEF Serves, Dispatched
<1>3. exec[r].node \in {1, 2} /\ exec[r].pc \in ExecStages
  BY DEF Staged
<1>4. CASE HandlerGoes(r)
  <2>1. exec[r].pc = "none" /\ exec'[r].pc = "none"
    BY <1>2, <1>4 DEF HandlerGoes
  <2> QED BY <1>1, <1>4, <2>1, CallRanks, ExecRanks, ProgressIs DEF HandlerGoes
<1>5. CASE Dispatches(r)
  BY <1>1, <1>5, CallRanks, ExecRanks, ProgressIs DEF Dispatches
<1>6. CASE ExecutionGoes(r)
  <2>1. call[r].pc = "accepted" /\ call'[r].pc = "accepted"
    BY <1>2, <1>6 DEF ExecutionGoes
  <2> QED BY <1>1, <1>3, <1>6, <2>1, CallRanks, ExecRanks, ProgressIs DEF ExecutionGoes
<1> QED BY <1>4, <1>5, <1>6, StepGoes

\* Somebody can go on wherever somebody has not finished.
LEMMA SomebodyGoesOn == Serves /\ Staged => NothingIsStranded
<1> SUFFICES ASSUME Serves, Staged, NEW r \in Requests, Unfinished(r)
             PROVE  \E q \in Requests : CanGoOn(q)
  BY DEF NothingIsStranded
<1>1. CASE store = "memory" /\ busy # None
  <2>1. busy \in Requests /\ MayHold(busy)
    BY <1>1 DEF Staged
  <2>2. CanGoOn(busy)
    BY <2>1 DEF CanGoOn, Turn, MayHold, HoldsLoop, Handling, Keeping, HandlerStages, ExecutionStages
  <2> QED BY <2>1, <2>2
<1>2. CASE store # "memory" \/ busy = None
  <2>1. \A q \in Requests : Turn(q)
    BY <1>2 DEF Turn
  <2>2. CASE call[r].pc \in HandlerStages \/ exec[r].pc \in ExecutionStages
    BY <2>1, <2>2 DEF CanGoOn
  <2>3. CASE exec[r].pc = "waiting"
    <3>1. CASE Cardinality(Running) < MaxConcurrent
      BY <2>1, <2>3, <3>1 DEF CanGoOn
    <3>2. CASE ~ (Cardinality(Running) < MaxConcurrent)
      <4>1. Running # {}
        BY <3>2, FS_EmptySet, DemoJobsAssumption
      <4>2. PICK q \in Requests : exec[q].pc \notin Outside
        BY <4>1 DEF Running
      <4>3. exec[q].pc \in ExecutionStages
        BY <4>2 DEF Staged, ExecStages, Outside
      <4> QED BY <2>1, <4>3 DEF CanGoOn
    <3> QED BY <3>1, <3>2
  <2> QED BY <2>2, <2>3 DEF Unfinished, Staged, ExecStages
<1> QED BY <1>1, <1>2

LEMMA StagedNext == Serves /\ Staged /\ [Next]_vars => Staged'
<1> SUFFICES ASSUME Serves, Staged, [Next]_vars PROVE Staged'
  OBVIOUS
<1>1. CASE UNCHANGED vars
  BY <1>1 DEF vars, Staged, MayHold, HoldsLoop
<1>2. CASE Next
  BY <1>2, StagedStep DEF Next
<1> QED BY <1>1, <1>2

\* While a request is handled, waits for a permit or executes, some request has
\* a step to take: the event loop and the permits of InProcessQueue always end
\* up with somebody who gives them back, however the executions end.
THEOREM NobodyIsStranded == Spec => []NothingIsStranded
<1>1. Init => Serves /\ Staged
  BY ServesInit, StagedInit
<1>2. Serves /\ Staged /\ [Next]_vars => (Serves /\ Staged)'
  BY ServesStep, StagedNext
<1> QED BY <1>1, <1>2, SomebodyGoesOn, PTL DEF Spec

\* Every step takes one request further, none back, and none beyond its end: a
\* process that accepted finitely many requests takes finitely many steps.
THEOREM StepsAdvance == Spec => EveryStepAdvances
<1>1. Init => Serves /\ Staged
  BY ServesInit, StagedInit
<1>2. Serves /\ Staged /\ [Next]_vars => (Serves /\ Staged)'
  BY ServesStep, StagedNext
<1>3. Serves /\ Staged /\ [Next]_vars =>
        [\E r \in Requests :
            /\ Progress(r) < Progress(r)' /\ Progress(r)' <= 16
            /\ \A q \in Requests \ {r} : Progress(q)' = Progress(q)]_vars
  BY StepAdvances DEF Next
<1> QED BY <1>1, <1>2, <1>3, PTL DEF Spec, EveryStepAdvances
=============================================================================
