------------------------ MODULE PrepareSourcesProofs ------------------------
(***************************************************************************)
(* Proofs about PrepareSources for any finite set of sources, any          *)
(* submissions and any settings of the two semaphores.                     *)
(***************************************************************************)
EXTENDS PrepareSources, FiniteSetTheorems, TLAPS

Stages == {"idle", "queued", "done"} \cup Serving

\* Tasks are those of the submission, and a source has an outcome when its task
\* has ended.
Sound ==
    /\ pc \in [Sources -> Stages]
    /\ outcome \in [Sources -> Outcomes \cup {"none"}]
    /\ given \in Inputs
    /\ \A s \in Sources : pc[s] # "idle" => s \in InputOf(given)
    /\ \A s \in Sources : pc[s] = "done" <=> outcome[s] \in Outcomes

\* What one task does: it leaves its stage, and the other tasks where they are.
LEMMA StepMoves ==
    ASSUME Sound, NEW s \in Sources, Step(s)
    PROVE  /\ given' = given /\ verdict' = verdict
           /\ pc[s] # "idle" /\ pc[s] # "done"
           /\ \/ \E v \in Serving : pc' = [pc EXCEPT ![s] = v] /\ outcome' = outcome
              \/ \E status \in Outcomes : /\ pc' = [pc EXCEPT ![s] = "done"]
                                          /\ outcome' = [outcome EXCEPT ![s] = status]
<1> USE DEF Sound, Goto, Finish, Outcomes, Serving
<1>1. CASE Admit(s) \/ CallStt(s) \/ PrimaryFails(s)
  BY <1>1 DEF Admit, CallStt, Calling, PrimaryFails
<1>2. CASE ReadDocument(s) \/ InspectAudio(s)
  BY <1>2 DEF ReadDocument, InspectAudio
<1>3. CASE SttAnswers(s)
  BY <1>3 DEF SttAnswers
<1>4. CASE Judge(s)
  BY <1>4 DEF Judge
<1> QED BY <1>1, <1>2, <1>3, <1>4 DEF Step

LEMMA SoundInit == Init => Sound
  BY DEF Init, Sound, Stages, Outcomes

LEMMA SoundStep == Sound /\ [Next]_vars => Sound'
<1> SUFFICES ASSUME Sound, [Next]_vars PROVE Sound'
    OBVIOUS
<1>1. CASE Refuse \/ Merge
  BY <1>1 DEF Refuse, Merge, Sound
<1>2. CASE StartAll
  BY <1>2 DEF StartAll, Sound, Stages, Outcomes
<1>3. ASSUME NEW s \in Sources, Step(s) PROVE Sound'
  BY <1>3, StepMoves DEF Sound, Stages, Outcomes, Serving
<1>4. CASE UNCHANGED vars
  BY <1>4 DEF vars, Sound
<1> QED BY <1>1, <1>2, <1>3, <1>4 DEF Next, Node

----------------------------------------------------------------------------
(* Permits.                                                                *)

\* A task that enters or leaves a set of stages changes its number by one.
LEMMA Moved ==
    ASSUME Sound, NEW stages, NEW s \in Sources, NEW v, pc' = [pc EXCEPT ![s] = v]
    PROVE  LET n == Cardinality({q \in Sources : pc[q] \in stages})
               m == Cardinality({q \in Sources : pc'[q] \in stages})
           IN  /\ n \in Nat
               /\ pc[s] \notin stages /\ v \in stages => m = n + 1
               /\ pc[s] \in stages /\ v \notin stages => m = n - 1
               /\ (pc[s] \in stages <=> v \in stages) => m = n
<1> DEFINE A == {q \in Sources : pc[q] \in stages}
           B == {q \in Sources : pc'[q] \in stages}
<1>1. pc \in [Sources -> Stages]
  BY DEF Sound
<1>2. IsFiniteSet(A) /\ Cardinality(A) \in Nat
  BY SourcesAssumption, FS_Subset, FS_CardinalityType
<1>3. Cardinality(A \cup {s}) = IF s \in A THEN Cardinality(A) ELSE Cardinality(A) + 1
  BY <1>2, FS_AddElement
<1>4. Cardinality(A \ {s}) = IF s \in A THEN Cardinality(A) - 1 ELSE Cardinality(A)
  BY <1>2, FS_RemoveElement
<1>5. /\ pc[s] \notin stages /\ v \in stages => B = A \cup {s} /\ s \notin A
      /\ pc[s] \in stages /\ v \notin stages => B = A \ {s} /\ s \in A
      /\ (pc[s] \in stages <=> v \in stages) => B = A
  BY <1>1
<1> HIDE DEF A, B
<1>6. /\ Cardinality(A) \in Nat
      /\ pc[s] \notin stages /\ v \in stages => Cardinality(B) = Cardinality(A) + 1
      /\ pc[s] \in stages /\ v \notin stages => Cardinality(B) = Cardinality(A) - 1
      /\ (pc[s] \in stages <=> v \in stages) => Cardinality(B) = Cardinality(A)
  BY <1>2, <1>3, <1>4, <1>5
<1> QED BY <1>6 DEF A, B

LEMMA PermitsStep == Sound /\ PermitsConserved /\ [Next]_vars => PermitsConserved'
<1> SUFFICES ASSUME Sound, PermitsConserved, [Next]_vars PROVE PermitsConserved'
    OBVIOUS
<1> DEFINE n == Cardinality(In(Serving))
           k == Cardinality(In(OnCall))
<1>0. /\ permits \in Nat /\ sttPermits \in Nat
      /\ SourceConcurrency \in Nat /\ SttConcurrency \in Nat
      /\ permits + n = SourceConcurrency /\ sttPermits + k = SttConcurrency
  BY ConcurrencyAssumption DEF PermitsConserved
<1>1. ASSUME permits' = permits, sttPermits' = sttPermits,
             \A s \in Sources : /\ pc'[s] \in Serving <=> pc[s] \in Serving
                                /\ pc'[s] \in OnCall <=> pc[s] \in OnCall
      PROVE  PermitsConserved'
  <2>1. In(Serving)' = In(Serving) /\ In(OnCall)' = In(OnCall)
    BY <1>1 DEF In
  <2> QED BY <1>1, <2>1 DEF PermitsConserved
<1>2. CASE Refuse \/ Merge \/ UNCHANGED vars
  BY <1>1, <1>2 DEF Refuse, Merge, vars
<1>3. CASE StartAll
  BY <1>1, <1>3 DEF StartAll, Serving, OnCall
<1>4. ASSUME NEW s \in Sources, Step(s) PROVE PermitsConserved'
  <2>1. ASSUME NEW v, pc' = [pc EXCEPT ![s] = v],
               permits' = IF pc[s] = "queued" THEN permits - 1
                          ELSE IF v = "done" THEN permits + 1 ELSE permits,
               sttPermits' = IF v \in OnCall THEN sttPermits - 1
                             ELSE IF pc[s] \in OnCall THEN sttPermits + 1 ELSE sttPermits,
               pc[s] = "queued" => v \in Serving /\ permits > 0,
               pc[s] # "queued" => pc[s] \in Serving /\ v \in Serving \cup {"done"},
               v \in OnCall => pc[s] \notin OnCall /\ sttPermits > 0
        PROVE  PermitsConserved'
    <3> DEFINE n1 == Cardinality({q \in Sources : pc'[q] \in Serving})
               k1 == Cardinality({q \in Sources : pc'[q] \in OnCall})
    <3>1. /\ n = Cardinality({q \in Sources : pc[q] \in Serving})
          /\ k = Cardinality({q \in Sources : pc[q] \in OnCall})
      BY DEF In
    <3>2. /\ n \in Nat
          /\ pc[s] \notin Serving /\ v \in Serving => n1 = n + 1
          /\ pc[s] \in Serving /\ v \notin Serving => n1 = n - 1
          /\ (pc[s] \in Serving <=> v \in Serving) => n1 = n
      BY <2>1, <3>1, Moved
    <3>3. /\ k \in Nat
          /\ pc[s] \notin OnCall /\ v \in OnCall => k1 = k + 1
          /\ pc[s] \in OnCall /\ v \notin OnCall => k1 = k - 1
          /\ (pc[s] \in OnCall <=> v \in OnCall) => k1 = k
      BY <2>1, <3>1, Moved
    <3>4. "queued" \notin Serving /\ "done" \notin Serving
      BY DEF Serving
    <3>5. n1 = Cardinality(In(Serving))' /\ k1 = Cardinality(In(OnCall))'
      BY DEF In, Serving, OnCall
    <3> HIDE DEF n, k, n1, k1
    <3>6. permits' \in Nat /\ permits' + n1 = SourceConcurrency
      BY <1>0, <2>1, <3>2, <3>4
    <3>7. sttPermits' \in Nat /\ sttPermits' + k1 = SttConcurrency
      BY <1>0, <2>1, <3>3
    <3> QED BY <3>5, <3>6, <3>7 DEF PermitsConserved
  <2>2. CASE Admit(s)
    BY <2>1, <2>2 DEF Admit, Goto, Serving, OnCall
  <2>3. CASE ReadDocument(s) \/ InspectAudio(s)
    BY <2>1, <2>3 DEF ReadDocument, InspectAudio, Goto, Finish, Serving, OnCall
  <2>4. CASE CallStt(s)
    <3>1. Calling(pc[s]) \in OnCall /\ pc' = [pc EXCEPT ![s] = Calling(pc[s])]
      BY <2>4 DEF CallStt, Calling, Goto, OnCall
    <3>2. /\ pc[s] \in {"primary", "fallback"} /\ permits' = permits
          /\ sttPermits > 0 /\ sttPermits' = sttPermits - 1
      BY <2>4 DEF CallStt
    <3> QED BY <2>1, <3>1, <3>2 DEF Serving, OnCall
  <2>5. CASE SttAnswers(s) \/ PrimaryFails(s)
    BY <2>1, <2>5 DEF SttAnswers, PrimaryFails, Goto, Finish, Serving, OnCall
  <2>6. CASE Judge(s)
    BY <2>1, <2>6 DEF Judge, Finish, Goto, Serving, OnCall
  <2> QED BY <1>4, <2>2, <2>3, <2>4, <2>5, <2>6 DEF Step
<1> QED BY <1>2, <1>3, <1>4 DEF Next, Node

LEMMA PermitsInit == Init => PermitsConserved
<1> SUFFICES ASSUME Init PROVE PermitsConserved
    OBVIOUS
<1>1. In(Serving) = {} /\ In(OnCall) = {}
  BY DEF Init, In, Serving, OnCall
<1>2. Cardinality({}) = 0
  BY FS_EmptySet
<1>3. /\ permits = SourceConcurrency /\ SourceConcurrency \in Nat
      /\ sttPermits = SttConcurrency /\ SttConcurrency \in Nat
  BY ConcurrencyAssumption DEF Init
<1> QED BY <1>1, <1>2, <1>3 DEF PermitsConserved

\* Whatever fails and falls back, a permit of source_sem or stt_sem is free or
\* with a task that is between its acquire and its release.
THEOREM PermitsAreConserved == Spec => []PermitsConserved
  BY PermitsInit, SoundInit, SoundStep, PermitsStep, PTL DEF Spec

----------------------------------------------------------------------------
(* The node implements the contract.                                       *)

\* The operators of SourceVerdict mean the same in the contract.
LEMMA SameInput == ASSUME NEW g PROVE Contract!InputOf(g) = InputOf(g)
  BY DEF InputOf, Contract!InputOf

LEMMA SameWith ==
    ASSUME NEW status, NEW g, NEW o
    PROVE  Contract!With(status, g, o) = With(status, g, o)
  BY DEF With, Contract!With

LEMMA SameSome ==
    ASSUME NEW status, NEW g, NEW o
    PROVE  Contract!SomeAre(status, g, o) <=> SomeAre(status, g, o)
  BY SameInput DEF SomeAre, Contract!SomeAre

LEMMA SameVerdict ==
    ASSUME NEW g, NEW o
    PROVE  Contract!Verdict(g, o) = Verdict(g, o)
  BY SameWith, SameSome
     DEF Verdict, Usable, Unusable, SourceWarnings, Contract!Verdict, Contract!Usable,
         Contract!Unusable, Contract!SourceWarnings

LEMMA ContractStep ==
    Sound /\ [Next]_vars => [Contract!Decide]_<<given, verdict>>
<1> SUFFICES ASSUME Sound, [Next]_vars, <<given, verdict>>' # <<given, verdict>>
             PROVE  Contract!Decide
    OBVIOUS
<1>1. CASE Refuse
  <2>1. given = <<>> => InputOf(given) = {}
    BY DEF InputOf
  <2>2. verdict = Contract!NoVerdict /\ given' = given
    BY <1>1 DEF Refuse, NoVerdict
  <2>3. CASE given = <<>> /\ verdict' = NoSources
    <3>1. Contract!NoSources = NoSources
      BY DEF NoSources, Unusable, Contract!NoSources, Contract!Unusable
    <3> QED BY <2>2, <2>3, <3>1 DEF Contract!Decide, Contract!Possible
  <2>4. CASE InputOf(given) \cap Audio # {} /\ verdict' = TooMuchAudio
    <3>1. given # <<>>
      BY <2>1, <2>4
    <3>2. verdict' \in Contract!Possible(given)
      <4>1. Contract!TooMuchAudio = TooMuchAudio
        BY DEF TooMuchAudio, Unusable, Contract!TooMuchAudio, Contract!Unusable
      <4> QED BY <2>4, <3>1, <4>1, SameInput DEF Contract!Possible
    <3> QED BY <2>2, <3>2 DEF Contract!Decide
  <2> QED BY <1>1, <2>3, <2>4 DEF Refuse
<1>2. CASE Merge
  <2>1. outcome \in Contract!Judged(given)
    <3>1. \A s \in Sources : s \in InputOf(given) <=> outcome[s] \in Outcomes
      BY <1>2 DEF Merge, Sound
    <3>2. outcome \in [Sources -> Outcomes \cup {"none"}] /\ Contract!Outcomes = Outcomes
      BY DEF Sound, Outcomes, Contract!Outcomes
    <3> QED BY <3>1, <3>2, SameInput DEF Contract!Judged
  <2>2. verdict = Contract!NoVerdict /\ given' = given /\ given # <<>>
        /\ verdict' = Verdict(given, outcome)
    BY <1>2 DEF Merge, NoVerdict
  <2>3. verdict' \in Contract!Possible(given)
    BY <2>1, <2>2, SameVerdict DEF Contract!Possible
  <2> QED BY <2>2, <2>3 DEF Contract!Decide
<1>3. CASE StartAll \/ UNCHANGED vars
  BY <1>3 DEF StartAll, vars
<1>4. ASSUME NEW s \in Sources, Step(s) PROVE FALSE
  BY <1>4, StepMoves
<1> QED BY <1>1, <1>2, <1>3, <1>4 DEF Next, Node

\* prepare_sources decides once, and its verdict is a function of the outcomes
\* of the sources in the order they were submitted (asyncio.gather).
THEOREM ContractImplemented == Spec => ContractSpec
<1>1. Init => verdict = Contract!NoVerdict
  BY DEF Init, NoVerdict
<1> QED BY <1>1, SoundInit, SoundStep, ContractStep, PTL DEF Spec, ContractSpec, Contract!Spec

----------------------------------------------------------------------------
(* The node is never stuck and never goes round in circles.                *)

\* The tasks are started all at once.
AllStarted ==
    \/ \A s \in Sources : pc[s] = "idle"
    \/ given # <<>> /\ \A s \in InputOf(given) : s \in Sources /\ pc[s] # "idle"

\* There is no task between its first step and its last once there is a verdict.
Decided ==
    verdict # NoVerdict => \A s \in Sources : pc[s] \in {"idle", "done"}

Ordered == AllStarted /\ Decided

\* A verdict is one.
LEMMA VerdictIsOne ==
    /\ NoSources # NoVerdict /\ TooMuchAudio # NoVerdict
    /\ \A g, o : Verdict(g, o) # NoVerdict
<1>1. NoVerdict.error = "undecided"
  BY DEF NoVerdict, Contract!NoVerdict
<1>2. NoSources.error = "NO_SOURCES" /\ TooMuchAudio.error = "AGGREGATE_AUDIO_DURATION_EXCEEDED"
  BY DEF NoSources, TooMuchAudio, Unusable
<1>3. ASSUME NEW g, NEW o PROVE Verdict(g, o).error # "undecided"
  <2>1. Usable(g, o).error = "none"
    BY DEF Usable
  <2>2. \A e, w : Unusable(e, w).error = e
    BY DEF Unusable
  <2>3. \/ Verdict(g, o) = Usable(g, o)
        \/ \E e \in {"ALL_SOURCES_FAILED", "DOCUMENT_REJECTED"} :
             Verdict(g, o) = Unusable(e, SourceWarnings(g, o))
    BY Zenon DEF Verdict
  <2> QED BY <2>1, <2>2, <2>3
<1> QED BY <1>1, <1>2, <1>3

LEMMA OrderedInit == Init => Ordered
  BY DEF Init, Ordered, AllStarted, Decided

\* Each step is the last one or one of a task that had started, or starts them.
LEMMA StepKinds ==
    ASSUME Sound, Ordered, Next
    PROVE  /\ verdict = NoVerdict /\ given' = given
           /\ \/ verdict' # NoVerdict /\ pc' = pc
                /\ \A s \in Sources : pc[s] \in {"idle", "done"}
              \/ verdict' = verdict /\ StartAll
              \/ verdict' = verdict /\ \E s \in Sources : Step(s)
<1>1. CASE Refuse
  BY <1>1, VerdictIsOne DEF Refuse
<1>2. CASE Merge
  <2>1. \A s \in Sources : pc[s] \in {"idle", "done"}
    BY <1>2 DEF Merge, Sound
  <2> QED BY <1>2, <2>1, VerdictIsOne DEF Merge
<1>3. CASE StartAll
  BY <1>3 DEF StartAll
<1>4. ASSUME NEW s \in Sources, Step(s)
      PROVE  verdict = NoVerdict /\ verdict' = verdict /\ given' = given
  BY <1>4, StepMoves DEF Ordered, Decided
<1> QED BY <1>1, <1>2, <1>3, <1>4 DEF Next, Node

LEMMA OrderedStep == Sound /\ Ordered /\ [Next]_vars => Ordered'
<1> SUFFICES ASSUME Sound, Ordered, [Next]_vars PROVE Ordered'
    OBVIOUS
<1>1. CASE UNCHANGED vars
  BY <1>1 DEF vars, Ordered, AllStarted, Decided
<1>2. CASE Next
  <2>1. CASE verdict' # NoVerdict /\ pc' = pc /\ \A s \in Sources : pc[s] \in {"idle", "done"}
    BY <1>2, <2>1, StepKinds DEF Ordered, AllStarted, Decided, NoVerdict
  <2>2. CASE StartAll
    <3>1. \A s \in InputOf(given) : s \in Sources
      BY SourcesAssumption DEF Sound, InputOf
    <3> QED BY <2>2, <3>1 DEF StartAll, Ordered, AllStarted, Decided, NoVerdict
  <2>3. ASSUME NEW s \in Sources, Step(s) PROVE Ordered'
    <3>1. /\ given' = given /\ verdict' = verdict /\ pc[s] # "idle" /\ pc[s] # "done"
          /\ \E v \in Serving \cup {"done"} : pc' = [pc EXCEPT ![s] = v]
      BY <2>3, StepMoves
    <3>2. verdict' = NoVerdict'
      BY <3>1 DEF Ordered, Decided, NoVerdict
    <3> QED BY <3>1, <3>2 DEF Ordered, AllStarted, Decided, Serving, Sound
  <2> QED BY <1>2, <2>1, <2>2, <2>3, StepKinds
<1> QED BY <1>1, <1>2

\* Until there is a verdict some task or the node itself can go on, for any
\* number of recordings and any settings of the two semaphores.
THEOREM NobodyIsStuck == Spec => []NeverStuck
<1>1. Sound /\ Ordered /\ PermitsConserved => NeverStuck
  <2> SUFFICES ASSUME Sound, Ordered, PermitsConserved, ~ NodeCanStep
               PROVE  \E s \in Sources : CanStep(s)
    BY DEF NeverStuck
  <2>1. PICK s \in Sources : pc[s] \notin {"idle", "done"}
    BY DEF NodeCanStep, Ordered, AllStarted
  <2>2. /\ permits + Cardinality(In(Serving)) = SourceConcurrency
        /\ sttPermits + Cardinality(In(OnCall)) = SttConcurrency
        /\ permits \in Nat /\ sttPermits \in Nat
        /\ SourceConcurrency \in Nat \ {0} /\ SttConcurrency \in Nat \ {0}
        /\ Cardinality({}) = 0
    BY ConcurrencyAssumption, FS_EmptySet DEF PermitsConserved
  <2>3. permits > 0 \/ \E q \in Sources : pc[q] \in Serving
    <3>1. permits = 0 => In(Serving) # {}
      BY <2>2
    <3> QED BY <2>2, <3>1 DEF In
  <2>4. sttPermits > 0 \/ \E q \in Sources : pc[q] \in OnCall
    <3>1. sttPermits = 0 => In(OnCall) # {}
      BY <2>2
    <3> QED BY <2>2, <3>1 DEF In
  <2>5. ASSUME NEW q \in Sources, pc[q] \in Serving PROVE \E r \in Sources : CanStep(r)
    <3>1. CASE pc[q] \in {"started", "relevance"} \cup OnCall
      BY <3>1 DEF CanStep
    <3>2. CASE pc[q] \in {"primary", "fallback"}
      BY <2>4, <3>2 DEF CanStep
    <3> QED BY <2>5, <3>1, <3>2 DEF Serving, OnCall
  <2>6. CASE pc[s] = "queued"
    BY <2>3, <2>5, <2>6 DEF CanStep
  <2>7. CASE pc[s] \in Serving
    BY <2>5, <2>7
  <2> QED BY <2>1, <2>6, <2>7 DEF Sound, Stages
<1> QED BY <1>1, PermitsInit, SoundInit, SoundStep, OrderedInit, OrderedStep, PermitsStep, PTL DEF Spec

\* The ranks, one by one.
LEMMA Ranks ==
    /\ Rank["idle"] = 0 /\ Rank["queued"] = 1 /\ Rank["started"] = 2 /\ Rank["primary"] = 3
    /\ Rank["callPrimary"] = 4 /\ Rank["fallback"] = 5 /\ Rank["callFallback"] = 6
    /\ Rank["relevance"] = 7 /\ Rank["done"] = 8
  BY DEF Rank

\* A task goes forward, by whichever path.
LEMMA StepForward ==
    ASSUME Sound, NEW s \in Sources, Step(s)
    PROVE  \E v \in Stages : pc' = [pc EXCEPT ![s] = v] /\ Rank[pc[s]] < Rank[v]
<1> USE Ranks DEF Goto, Stages, Serving
<1>1. CASE Admit(s)
  BY <1>1 DEF Admit
<1>2. CASE ReadDocument(s) \/ InspectAudio(s)
  BY <1>2 DEF ReadDocument, InspectAudio, Finish
<1>3. CASE CallStt(s)
  <2>1. CASE pc[s] = "primary"
    BY <1>3, <2>1 DEF CallStt, Calling
  <2>2. CASE pc[s] = "fallback"
    BY <1>3, <2>2 DEF CallStt, Calling
  <2> QED BY <1>3, <2>1, <2>2 DEF CallStt
<1>4. CASE SttAnswers(s) \/ PrimaryFails(s)
  BY <1>4 DEF SttAnswers, PrimaryFails, Finish
<1>5. CASE Judge(s)
  BY <1>5 DEF Judge, Finish
<1> QED BY <1>1, <1>2, <1>3, <1>4, <1>5 DEF Step

\* Every step of the node is one towards its verdict, for any number of sources;
\* a fallback to the other provider is made once and goes back to nothing.
THEOREM StepsAdvance == Spec => EveryStepAdvances
<1> DEFINE Advances ==
        /\ verdict = NoVerdict
        /\ \/ verdict' # NoVerdict /\ pc' = pc
           \/ /\ verdict' = NoVerdict
              /\ \A s \in Sources : Rank[pc[s]] <= Rank[pc'[s]]
              /\ \E s \in Sources : Rank[pc[s]] < Rank[pc'[s]]
<1>1. Sound /\ Ordered /\ [Next]_vars => [Advances]_vars
  <2> SUFFICES ASSUME Sound, Ordered, Next PROVE Advances
    OBVIOUS
  <2>1. \A v \in Stages : Rank[v] \in Nat
    BY Ranks DEF Stages, Serving
  <2>2. CASE verdict' # NoVerdict /\ pc' = pc
    BY <2>2, StepKinds
  <2>3. CASE verdict' = verdict /\ StartAll
    <3>1. PICK t \in Sources : t \in InputOf(given)
      <4>1. given \in Seq(Sources) /\ given # <<>>
        BY <2>3, SourcesAssumption DEF StartAll, Sound
      <4>2. 1 \in DOMAIN given /\ given[1] \in Sources
        BY <4>1
      <4> QED BY <4>2 DEF InputOf
    <3>2. \A s \in Sources : pc[s] = "idle" /\ pc'[s] \in {"idle", "queued"}
      BY <2>3 DEF StartAll
    <3>3. pc'[t] = "queued"
      BY <2>3, <3>1 DEF StartAll
    <3> QED BY <2>3, <3>2, <3>3, Ranks, StepKinds
  <2>4. ASSUME verdict' = verdict, NEW s \in Sources, Step(s) PROVE Advances
    <3>1. PICK v \in Stages : pc' = [pc EXCEPT ![s] = v] /\ Rank[pc[s]] < Rank[v]
      BY <2>4, StepForward
    <3>2. pc \in [Sources -> Stages]
      BY DEF Sound
    <3>3. \A q \in Sources : Rank[pc[q]] <= Rank[pc'[q]]
      BY <2>1, <3>1, <3>2
    <3>4. Rank[pc[s]] < Rank[pc'[s]]
      BY <3>1, <3>2
    <3> QED BY <2>4, <3>3, <3>4, StepKinds
  <2> QED BY <2>2, <2>3, <2>4, StepKinds
<1> QED BY <1>1, SoundInit, SoundStep, OrderedInit, OrderedStep, PTL DEF Spec, EveryStepAdvances
=============================================================================
