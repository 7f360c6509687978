-------------------------- MODULE ResilientLLMProofs --------------------------
(***************************************************************************)
(* Proofs about ResilientLLM for any number of calls, any chain and any    *)
(* settings.                                                               *)
(***************************************************************************)
EXTENDS ResilientLLM, FiniteSetTheorems, TLAPS

----------------------------------------------------------------------------
(* The chain.                                                              *)

\* The chain names each endpoint once.
LEMMA ChainHasNoRepeats ==
    /\ Kept \subseteq DOMAIN Configured /\ Kept \subseteq Nat
    /\ \A i \in Kept : Configured[i] \in Endpoints
    /\ \A i, k \in Kept : i # k => Configured[i] # Configured[k]
<1>1. DOMAIN Configured = 1 .. Len(Configured) /\ Len(Configured) \in Nat
  BY ChainAssumption
<1>2. \A i \in DOMAIN Configured : Configured[i] \in Endpoints
  BY ChainAssumption
<1>3. ASSUME NEW i \in Kept, NEW k \in Kept, i < k PROVE Configured[i] # Configured[k]
  <2>1. i \in 1 .. k - 1
    BY <1>1, <1>3 DEF Kept
  <2> QED BY <2>1 DEF Kept
<1>4. Kept \subseteq DOMAIN Configured /\ Kept \subseteq Nat
  BY <1>1 DEF Kept
<1> QED BY <1>2, <1>3, <1>4

----------------------------------------------------------------------------
(* The invariant of a call.                                                *)

Typed ==
    /\ pc \in [Calls -> {"idle"} \cup Underway \cup Ended]
    /\ pos \in [Calls -> Nat]
    /\ attempt \in [Calls -> Nat]
    /\ free \in Nat
    /\ cooling \in SUBSET Endpoints /\ healthy \in SUBSET Usable
    /\ asked \in [Calls -> [Endpoints -> Nat]]
    /\ told \in [Calls -> SUBSET Endpoints]

\* A call underway has counted its attempts at its endpoint.
Counted(c) ==
    /\ attempt[c] <= MaxRetries + 1
    /\ pc[c] = "asleep" => attempt[c] <= MaxRetries
    /\ attempt[c] = IF pc[c] = "queued" THEN asked[c][Endpoint(c)] + 1
                                         ELSE asked[c][Endpoint(c)]

\* It has been refused by all the chain before its position, and has not asked
\* anything behind it.
OnRoute(c) ==
    /\ pos[c] \in Kept
    /\ \A i \in Kept :
         /\ i < pos[c] => Configured[i] \notin healthy
         /\ i > pos[c] => asked[c][Configured[i]] = 0
         /\ i >= pos[c] => Configured[i] \notin told[c]

CallOK(c) ==
    /\ pc[c] = "idle" => told[c] = {} /\ \A e \in Endpoints : asked[c][e] = 0
    /\ pc[c] \in Underway => Counted(c) /\ OnRoute(c)
    /\ pc[c] = "failed" => \A i \in Kept : Configured[i] \notin healthy
    /\ \A e \in Endpoints : asked[c][e] <= 1 + MaxRetries

\* An endpoint that answers whatever it is asked never cools down.
Sound == Typed /\ cooling \cap healthy = {} /\ \A c \in Calls : CallOK(c)

LEMMA SoundInit == Init => Sound
<1> SUFFICES ASSUME Init PROVE Sound
    OBVIOUS
<1>2. Typed
  BY SettingsAssumption, ChainAssumption DEF Init, Typed
<1>3. ASSUME NEW c \in Calls PROVE CallOK(c)
  BY SettingsAssumption DEF Init, CallOK, Underway
<1> QED BY <1>2, <1>3 DEF Sound, Init

\* What turning to the next endpoint does, if all before position i refuse.
LEMMA Turned ==
    ASSUME Sound, NEW c \in Calls, NEW i \in Nat, NEW off \in SUBSET Endpoints,
           off \cap healthy = {},
           \A k \in Kept : k < i => Configured[k] \notin healthy,
           TurnTo(c, i, off)
    PROVE  \/ \E k \in Kept :
                 /\ k >= i
                 /\ \A j \in Kept : j < k => Configured[j] \notin healthy
                 /\ pc' = [pc EXCEPT ![c] = "queued"]
                 /\ pos' = [pos EXCEPT ![c] = k]
                 /\ attempt' = [attempt EXCEPT ![c] = 1]
           \/ /\ \A j \in Kept : Configured[j] \notin healthy
              /\ pc' = [pc EXCEPT ![c] = "failed"]
              /\ UNCHANGED <<pos, attempt>>
<1> DEFINE Rest == {k \in Kept : k >= i}
<1>1. \A j \in Rest : MayPassOver(j, off) => Configured[j] \notin healthy
  BY DEF MayPassOver
<1>2. \A j \in Kept : j \in Rest \/ j < i
  BY ChainHasNoRepeats
<1> QED BY <1>1, <1>2 DEF TurnTo

\* A step of one call leaves the others where they are.
LEMMA OthersOK ==
    ASSUME NEW d \in Calls, CallOK(d), healthy' = healthy,
           pc'[d] = pc[d], pos'[d] = pos[d], attempt'[d] = attempt[d],
           asked'[d] = asked[d], told'[d] = told[d]
    PROVE  CallOK(d)'
  BY DEF CallOK, Counted, OnRoute, Endpoint

\* A call that turns on from an endpoint, or begins, is all right again.
LEMMA TurnedOK ==
    ASSUME Sound, NEW c \in Calls, NEW i \in Nat, NEW off \in SUBSET Endpoints,
           off \cap healthy = {},
           \A k \in Kept : k < i => Configured[k] \notin healthy,
           \A k \in Kept : k >= i => /\ asked[c][Configured[k]] = 0
                                     /\ Configured[k] \notin told'[c],
           TurnTo(c, i, off),
           UNCHANGED <<healthy, asked>>
    PROVE  /\ CallOK(c)'
           /\ pc' \in [Calls -> {"idle"} \cup Underway \cup Ended]
           /\ pos' \in [Calls -> Nat]
           /\ attempt' \in [Calls -> Nat]
           /\ \A d \in Calls \ {c} :
                pc'[d] = pc[d] /\ pos'[d] = pos[d] /\ attempt'[d] = attempt[d]
           /\ pc'[c] # "asking"
<1>0. \A k \in Kept : k \in Nat /\ Configured[k] \in Endpoints
  BY ChainHasNoRepeats
<1>1. CASE \E k \in Kept :
              /\ k >= i
              /\ \A j \in Kept : j < k => Configured[j] \notin healthy
              /\ pc' = [pc EXCEPT ![c] = "queued"]
              /\ pos' = [pos EXCEPT ![c] = k]
              /\ attempt' = [attempt EXCEPT ![c] = 1]
  <2>1. PICK k \in Kept :
              /\ k >= i
              /\ \A j \in Kept : j < k => Configured[j] \notin healthy
              /\ pc' = [pc EXCEPT ![c] = "queued"]
              /\ pos' = [pos EXCEPT ![c] = k]
              /\ attempt' = [attempt EXCEPT ![c] = 1]
    BY <1>1
  <2>2. pc'[c] = "queued" /\ pos'[c] = k /\ attempt'[c] = 1
    BY <2>1 DEF Sound, Typed
  <2>3. OnRoute(c)'
    <3>2. \A j \in Kept : /\ j < k => Configured[j] \notin healthy
                          /\ j > k => asked'[c][Configured[j]] = 0
                          /\ j >= k => Configured[j] \notin told'[c]
      <4> SUFFICES ASSUME NEW j \in Kept
                   PROVE  /\ j < k => Configured[j] \notin healthy
                          /\ j > k => asked'[c][Configured[j]] = 0
                          /\ j >= k => Configured[j] \notin told'[c]
          OBVIOUS
      <4>1. j \in Nat /\ k \in Nat /\ k >= i
        BY <1>0, <2>1
      <4>2. (j > k => j >= i) /\ (j >= k => j >= i)
        BY <4>1
      <4> QED BY <2>1, <4>2
    <3> QED BY <2>2, <3>2 DEF OnRoute
  <2>4. Counted(c)'
    <3>1. asked'[c][Configured[k]] = 0
      BY <2>1
    <3>2. 1 <= MaxRetries + 1
      BY SettingsAssumption
    <3>3. Endpoint(c)' = Configured[k]
      BY <2>2 DEF Endpoint
    <3>4. asked'[c][Endpoint(c)'] + 1 = 1
      BY <3>1, <3>3
    <3>5. /\ attempt'[c] <= MaxRetries + 1
          /\ attempt'[c] = asked'[c][Endpoint(c)'] + 1
          /\ pc'[c] = "queued" /\ pc'[c] # "asleep"
      BY <2>2, <3>2, <3>4
    <3> QED BY <3>5 DEF Counted
  <2>5. CallOK(c)'
    BY <2>2, <2>3, <2>4 DEF Sound, CallOK, Underway
  <2>6. k \in Nat /\ 1 \in Nat
    BY <1>0
  <2> QED BY <2>1, <2>2, <2>5, <2>6 DEF Sound, Typed, Underway
<1>2. CASE /\ \A j \in Kept : Configured[j] \notin healthy
           /\ pc' = [pc EXCEPT ![c] = "failed"]
           /\ UNCHANGED <<pos, attempt>>
  <2>1. CallOK(c)'
    BY <1>2 DEF Sound, Typed, CallOK, Underway
  <2> QED BY <1>2, <2>1 DEF Sound, Typed, Ended
<1> QED BY <1>1, <1>2, Turned

\* Where an error leaves a call: its endpoint is not healthy, and nothing behind
\* it was asked.
LEMMA AfterError ==
    ASSUME Sound, NEW c \in Calls, Errs(c)
    PROVE  /\ pos[c] + 1 \in Nat /\ Endpoint(c) \in Endpoints
           /\ \A k \in Kept : k < pos[c] + 1 => Configured[k] \notin healthy
           /\ \A k \in Kept : k >= pos[c] + 1 =>
                /\ asked[c][Configured[k]] = 0
                /\ Configured[k] \notin told[c] \cup {Endpoint(c)}
<1>1. OnRoute(c) /\ pos[c] \in Kept /\ pos[c] \in Nat
  BY ChainHasNoRepeats DEF Sound, CallOK, Errs, Underway, OnRoute
<1>2. \A k \in Kept : k \in Nat /\ (k < pos[c] + 1 <=> k < pos[c] \/ k = pos[c])
                               /\ (k >= pos[c] + 1 <=> k > pos[c])
  BY <1>1, ChainHasNoRepeats
<1> QED BY <1>1, <1>2, ChainHasNoRepeats DEF OnRoute, Errs, Endpoint

LEMMA SoundStep == Sound /\ [Next]_vars => Sound'
<1> SUFFICES ASSUME Sound, [Next]_vars PROVE Sound'
    OBVIOUS
<1> USE DEF Sound
<1>1. ASSUME NEW c \in Calls, Invoke(c) PROVE Sound'
  <2>1. \A k \in Kept : /\ ~ k < 1
                        /\ asked[c][Configured[k]] = 0 /\ Configured[k] \notin told'[c]
    BY <1>1, ChainHasNoRepeats, ChainAssumption DEF Invoke, CallOK, Kept
  <2>2. TurnTo(c, 1, cooling) /\ UNCHANGED <<free, cooling, healthy, asked, told>>
    BY <1>1 DEF Invoke
  <2>3. /\ CallOK(c)'
        /\ pc' \in [Calls -> {"idle"} \cup Underway \cup Ended]
        /\ pos' \in [Calls -> Nat]
        /\ attempt' \in [Calls -> Nat]
        /\ \A d \in Calls \ {c} :
             pc'[d] = pc[d] /\ pos'[d] = pos[d] /\ attempt'[d] = attempt[d]
    <3>1. 1 \in Nat /\ cooling \in SUBSET Endpoints
      BY DEF Typed
    <3>2. /\ \A k \in Kept : k < 1 => Configured[k] \notin healthy
          /\ \A k \in Kept : k >= 1 => /\ asked[c][Configured[k]] = 0
                                      /\ Configured[k] \notin told'[c]
      BY <2>1
    <3> QED BY <2>2, <3>1, <3>2, TurnedOK
  <2>4. \A d \in Calls \ {c} : CallOK(d)'
    BY <2>2, <2>3, OthersOK
  <2>5. Typed'
    BY <2>2, <2>3 DEF Typed
  <2> QED BY <2>2, <2>3, <2>4, <2>5
<1>2. ASSUME NEW c \in Calls, Errs(c), NEW off \in SUBSET Endpoints,
             off \cap healthy = {}, TurnTo(c, pos[c] + 1, off),
             cooling' = off, free' = free + 1,
             \/ told' = told
             \/ told' = [told EXCEPT ![c] = @ \cup {Endpoint(c)}],
             UNCHANGED <<healthy, asked>>
      PROVE  Sound'
  <2>1. told' \in [Calls -> SUBSET Endpoints]
        /\ told'[c] \subseteq told[c] \cup {Endpoint(c)}
        /\ \A d \in Calls \ {c} : told'[d] = told[d]
    BY <1>2, AfterError DEF Typed
  <2>2. /\ CallOK(c)'
        /\ pc' \in [Calls -> {"idle"} \cup Underway \cup Ended]
        /\ pos' \in [Calls -> Nat]
        /\ attempt' \in [Calls -> Nat]
        /\ \A d \in Calls \ {c} :
             pc'[d] = pc[d] /\ pos'[d] = pos[d] /\ attempt'[d] = attempt[d]
    BY <1>2, <2>1, AfterError, TurnedOK
  <2>3. \A d \in Calls \ {c} : CallOK(d)'
    BY <1>2, <2>1, <2>2, OthersOK
  <2>4. Typed'
    BY <1>2, <2>1, <2>2 DEF Typed
  <2> QED BY <1>2, <2>2, <2>3, <2>4
<1>3. ASSUME NEW c \in Calls, OutOfQuota(c) PROVE Sound'
  <2>1. cooling \cup {Endpoint(c)} \in SUBSET Endpoints
        /\ (cooling \cup {Endpoint(c)}) \cap healthy = {}
    BY <1>3, AfterError DEF OutOfQuota, Errs, Typed
  <2> QED BY <1>2, <1>3, <2>1 DEF OutOfQuota
<1>4. ASSUME NEW c \in Calls, NextEndpoint(c) PROVE Sound'
  BY <1>2, <1>4 DEF NextEndpoint, Typed
<1>5. ASSUME NEW c \in Calls, Enter(c) PROVE Sound'
  <2> DEFINE n == asked[c][Endpoint(c)] + 1
  <2>1. Counted(c) /\ OnRoute(c) /\ pc[c] = "queued"
    BY <1>5 DEF Enter, CallOK, Underway
  <2>2. Endpoint(c) \in Endpoints /\ pos[c] \in Kept /\ pos[c] \in Nat
    BY <2>1, ChainHasNoRepeats DEF OnRoute, Endpoint
  <2>3. n = attempt[c] /\ n \in Nat /\ n <= MaxRetries + 1
    BY <2>1, <2>2 DEF Counted, Typed
  <2>4. /\ pc' = [pc EXCEPT ![c] = "asking"] /\ free' \in Nat
        /\ UNCHANGED <<pos, attempt, cooling, healthy, told>>
        /\ asked' = [asked EXCEPT ![c] = [asked[c] EXCEPT ![Endpoint(c)] = n]]
    <3>1. free \in Nat /\ free > 0 /\ free' = free - 1
      BY <1>5 DEF Enter, Typed
    <3>2. free' \in Nat
      BY <3>1
    <3> QED BY <1>5, <3>2 DEF Enter
  <2> HIDE DEF n
  <2>5. /\ asked' \in [Calls -> [Endpoints -> Nat]]
        /\ asked'[c][Endpoint(c)] = n
        /\ \A e \in Endpoints \ {Endpoint(c)} : asked'[c][e] = asked[c][e]
        /\ \A d \in Calls \ {c} : asked'[d] = asked[d]
    BY <2>2, <2>3, <2>4 DEF Typed
  <2>6. pc'[c] = "asking" /\ \A d \in Calls \ {c} : pc'[d] = pc[d]
    BY <2>4 DEF Typed
  <2>7. OnRoute(c)'
    <3>1. \A i \in Kept : i > pos[c] => Configured[i] \in Endpoints \ {Endpoint(c)}
      BY <2>2, ChainHasNoRepeats DEF Endpoint
    <3>2. \A i \in Kept : i > pos[c] => asked'[c][Configured[i]] = 0
      BY <2>1, <2>5, <3>1 DEF OnRoute
    <3> QED BY <2>1, <2>4, <3>2 DEF OnRoute
  <2>8. Counted(c)'
    BY <2>1, <2>3, <2>4, <2>5, <2>6 DEF Counted, Endpoint
  <2>9. \A e \in Endpoints : asked'[c][e] <= 1 + MaxRetries
    <3>1. \A e \in Endpoints : asked[c][e] <= 1 + MaxRetries
      BY DEF CallOK
    <3>2. n <= 1 + MaxRetries
      BY <2>3, SettingsAssumption
    <3> QED BY <2>5, <3>1, <3>2
  <2>10. CallOK(c)'
    BY <2>6, <2>7, <2>8, <2>9 DEF CallOK, Underway
  <2>11. \A d \in Calls \ {c} : CallOK(d)'
    BY <2>4, <2>5, <2>6, OthersOK
  <2>12. Typed'
    BY <2>4, <2>5 DEF Typed, Underway
  <2> QED BY <2>4, <2>10, <2>11, <2>12
<1>6. ASSUME NEW c \in Calls, Answer(c) PROVE Sound'
  <2>1. /\ pc' = [pc EXCEPT ![c] = "answered"] /\ free' \in Nat
        /\ UNCHANGED <<pos, attempt, cooling, healthy, asked, told>>
    BY <1>6 DEF Answer, Typed
  <2>2. pc'[c] = "answered" /\ \A d \in Calls \ {c} : pc'[d] = pc[d]
    BY <2>1 DEF Typed
  <2>3. CallOK(c)'
    BY <2>1, <2>2 DEF CallOK, Underway
  <2>4. \A d \in Calls \ {c} : CallOK(d)'
    BY <2>1, <2>2, OthersOK
  <2>5. Typed'
    BY <2>1 DEF Typed, Ended
  <2> QED BY <2>1, <2>3, <2>4, <2>5
<1>7. ASSUME NEW c \in Calls, BackOff(c) PROVE Sound'
  <2>1. /\ pc' = [pc EXCEPT ![c] = "asleep"] /\ free' \in Nat
        /\ UNCHANGED <<pos, attempt, cooling, healthy, asked, told>>
    BY <1>7 DEF BackOff, Typed
  <2>2. pc'[c] = "asleep" /\ \A d \in Calls \ {c} : pc'[d] = pc[d]
    BY <2>1 DEF Typed
  <2>3. CallOK(c)'
    <3>1. Counted(c) /\ OnRoute(c) /\ pc[c] = "asking" /\ attempt[c] <= MaxRetries
      BY <1>7 DEF BackOff, Errs, CallOK, Underway
    <3>2. OnRoute(c)'
      BY <2>1, <3>1 DEF OnRoute
    <3>3. Counted(c)'
      BY <2>1, <2>2, <3>1 DEF Counted, Endpoint
    <3> QED BY <2>1, <2>2, <3>2, <3>3 DEF CallOK, Underway
  <2>4. \A d \in Calls \ {c} : CallOK(d)'
    BY <2>1, <2>2, OthersOK
  <2>5. Typed'
    BY <2>1 DEF Typed, Underway
  <2> QED BY <2>1, <2>3, <2>4, <2>5
<1>9. ASSUME NEW c \in Calls, GiveUp(c) PROVE Sound'
  <2>1. /\ pc' = [pc EXCEPT ![c] = "cancelled"] /\ free' \in Nat
        /\ UNCHANGED <<pos, attempt, cooling, healthy, asked, told>>
    <3>1. free \in Nat /\ free + 1 \in Nat
      BY DEF Typed
    <3> QED BY <1>9, <3>1 DEF GiveUp
  <2>2. pc'[c] = "cancelled" /\ \A d \in Calls \ {c} : pc'[d] = pc[d]
    BY <2>1 DEF Typed
  <2>3. CallOK(c)'
    BY <2>1, <2>2 DEF CallOK, Underway
  <2>4. \A d \in Calls \ {c} : CallOK(d)'
    BY <2>1, <2>2, OthersOK
  <2>5. Typed'
    BY <2>1 DEF Typed, Ended
  <2> QED BY <2>1, <2>3, <2>4, <2>5
<1>8. ASSUME NEW c \in Calls, Wake(c) PROVE Sound'
  <2>1. Counted(c) /\ OnRoute(c) /\ pc[c] = "asleep"
    BY <1>8 DEF Wake, CallOK, Underway
  <2>2. /\ pc' = [pc EXCEPT ![c] = "queued"]
        /\ attempt' = [attempt EXCEPT ![c] = attempt[c] + 1]
        /\ UNCHANGED <<pos, free, cooling, healthy, asked, told>>
    BY <1>8 DEF Wake
  <2>3. attempt[c] + 1 \in Nat /\ attempt[c] + 1 <= MaxRetries + 1
    BY <2>1, SettingsAssumption DEF Counted, Typed
  <2>4. /\ pc'[c] = "queued" /\ attempt'[c] = attempt[c] + 1
        /\ \A d \in Calls \ {c} : pc'[d] = pc[d] /\ attempt'[d] = attempt[d]
    BY <2>2 DEF Typed
  <2>5. OnRoute(c)'
    BY <2>1, <2>2 DEF OnRoute
  <2>6. Counted(c)'
    BY <2>1, <2>2, <2>3, <2>4 DEF Counted, Endpoint
  <2>7. CallOK(c)'
    BY <2>2, <2>4, <2>5, <2>6 DEF CallOK, Underway
  <2>8. \A d \in Calls \ {c} : CallOK(d)'
    BY <2>2, <2>4, OthersOK
  <2>9. Typed'
    BY <2>2, <2>3 DEF Typed, Underway
  <2> QED BY <2>2, <2>7, <2>8, <2>9
<1>10. ASSUME NEW e \in Endpoints, Recover(e) PROVE Sound'
  <2>1. \A d \in Calls : CallOK(d)'
    BY <1>10, OthersOK DEF Recover
  <2> QED BY <1>10, <2>1 DEF Recover, Typed
<1>11. CASE UNCHANGED vars
  <2>1. \A d \in Calls : CallOK(d)'
    BY <1>11, OthersOK DEF vars
  <2> QED BY <1>11, <2>1 DEF vars, Typed
<1> QED BY <1>1, <1>3, <1>4, <1>5, <1>6, <1>7, <1>8, <1>9, <1>10, <1>11
        DEF Next, Proceed

\* Whatever other calls were told and however often cooldowns begin and end, a
\* call fails only if no endpoint of its chain would have answered.
THEOREM HealthyAnswers == Spec => []HealthyEndpointAnswers
<1>1. Sound => HealthyEndpointAnswers
  BY DEF Sound, CallOK, HealthyEndpointAnswers
<1> QED BY <1>1, SoundInit, SoundStep, PTL DEF Spec

\* For every chain, repeats included, a call asks an endpoint no more often than
\* the settings allow.
THEOREM BoundedAttempts == Spec => []AttemptsAreBounded
<1>1. Sound => AttemptsAreBounded
  BY DEF Sound, CallOK, AttemptsAreBounded
<1> QED BY <1>1, SoundInit, SoundStep, PTL DEF Spec

\* A quota error ends a call's business with that endpoint.
THEOREM QuotaIsFinal == Spec => []QuotaErrorIsFinal
<1>1. Sound => QuotaErrorIsFinal
  <2> SUFFICES ASSUME Sound, NEW c \in Calls, pc[c] \in Underway
               PROVE  Endpoint(c) \notin told[c]
      BY DEF QuotaErrorIsFinal
  <2>1. OnRoute(c) /\ pos[c] \in Kept /\ pos[c] \in Nat
    BY ChainHasNoRepeats DEF Sound, CallOK, OnRoute
  <2> QED BY <2>1 DEF OnRoute, Endpoint
<1> QED BY <1>1, SoundInit, SoundStep, PTL DEF Spec

----------------------------------------------------------------------------
(* The permits.                                                            *)

Asking == {c \in Calls : pc[c] = "asking"}

\* Somebody enters, somebody who was inside leaves, or neither.
LEMMA AskingChanges ==
    ASSUME Typed, NEW c \in Calls, NEW v, pc' = [pc EXCEPT ![c] = v],
           v = "asking" => pc[c] # "asking"
    PROVE  /\ v = "asking" => Cardinality(Asking') = Cardinality(Asking) + 1
           /\ pc[c] = "asking" => Cardinality(Asking') = Cardinality(Asking) - 1
           /\ v # "asking" /\ pc[c] # "asking" => Asking' = Asking
           /\ Cardinality(Asking) \in Nat
<1>1. IsFiniteSet(Asking) /\ Cardinality(Asking) \in Nat
  BY CallsAssumption, FS_Subset, FS_CardinalityType DEF Asking
<1>2. Asking' = IF v = "asking" THEN Asking \cup {c} ELSE Asking \ {c}
  BY DEF Asking, Typed
<1>3. c \in Asking <=> pc[c] = "asking"
  BY DEF Asking
<1>4. CASE v = "asking"
  BY <1>1, <1>2, <1>3, <1>4, FS_AddElement
<1>5. CASE v # "asking"
  <2>1. Cardinality(Asking \ {c}) =
          IF c \in Asking THEN Cardinality(Asking) - 1 ELSE Cardinality(Asking)
    BY <1>1, FS_RemoveElement
  <2> QED BY <1>1, <1>2, <1>3, <1>5, <2>1
<1> QED BY <1>4, <1>5

\* Turning to an endpoint puts the call in the line or ends it.
LEMMA TurnToLeaves ==
    ASSUME NEW c \in Calls, NEW i, NEW off, TurnTo(c, i, off)
    PROVE  \E v \in {"queued", "failed"} : pc' = [pc EXCEPT ![c] = v]
  BY DEF TurnTo

LEMMA PermitsStep == Sound /\ PermitsConserved /\ [Next]_vars => PermitsConserved'
<1> SUFFICES ASSUME Sound, PermitsConserved, [Next]_vars PROVE PermitsConserved'
    OBVIOUS
<1>1. Typed /\ free \in Nat /\ free + Cardinality(Asking) = Permits
  BY DEF Sound, Typed, PermitsConserved, Asking
<1>2. SUFFICES free' + Cardinality(Asking') = Permits
  BY DEF PermitsConserved, Asking
<1>3. Permits \in Nat
  BY SettingsAssumption
<1>4. ASSUME NEW c \in Calls, NEW v, pc' = [pc EXCEPT ![c] = v], v # "asking",
             free' = IF pc[c] = "asking" THEN free + 1 ELSE free
      PROVE  free' + Cardinality(Asking') = Permits
  <2>1. CASE pc[c] = "asking"
    <3>1. Cardinality(Asking') = Cardinality(Asking) - 1 /\ Cardinality(Asking) \in Nat
      BY <1>1, <1>4, <2>1, AskingChanges
    <3> QED BY <1>1, <1>3, <1>4, <2>1, <3>1
  <2>2. CASE pc[c] # "asking"
    <3>1. Asking' = Asking
      BY <1>1, <1>4, <2>2, AskingChanges
    <3> QED BY <1>1, <1>4, <2>2, <3>1
  <2> QED BY <2>1, <2>2
<1>5. ASSUME NEW c \in Calls, Enter(c)
      PROVE  free' + Cardinality(Asking') = Permits
  <2>1. /\ pc' = [pc EXCEPT ![c] = "asking"] /\ pc[c] # "asking" /\ free' = free - 1
    BY <1>5 DEF Enter
  <2>2. Cardinality(Asking') = Cardinality(Asking) + 1 /\ Cardinality(Asking) \in Nat
    BY <1>1, <2>1, AskingChanges
  <2> QED BY <1>1, <1>3, <2>1, <2>2
<1>6. ASSUME NEW c \in Calls, Invoke(c) \/ OutOfQuota(c) \/ NextEndpoint(c)
      PROVE  free' + Cardinality(Asking') = Permits
  <2>1. PICK v \in {"queued", "failed"} : pc' = [pc EXCEPT ![c] = v]
    BY <1>6, TurnToLeaves DEF Invoke, OutOfQuota, NextEndpoint
  <2>2. free' = IF pc[c] = "asking" THEN free + 1 ELSE free
    BY <1>6 DEF Invoke, OutOfQuota, NextEndpoint, Errs
  <2> QED BY <1>4, <2>1, <2>2
<1>7. ASSUME NEW c \in Calls, Answer(c) \/ BackOff(c) \/ Wake(c) \/ GiveUp(c)
      PROVE  free' + Cardinality(Asking') = Permits
  <2>1. free' = IF pc[c] = "asking" THEN free + 1 ELSE free
    BY <1>7 DEF Answer, BackOff, Wake, GiveUp, Errs
  <2>2. PICK v \in {"answered", "asleep", "queued", "cancelled"} :
          pc' = [pc EXCEPT ![c] = v]
    BY <1>7 DEF Answer, BackOff, Wake, GiveUp
  <2> QED BY <1>4, <2>1, <2>2
<1>8. CASE UNCHANGED <<pc, free>>
  BY <1>1, <1>8 DEF Asking
<1> QED BY <1>5, <1>6, <1>7, <1>8 DEF Next, Proceed, Recover, vars

\* For any number of calls, however they are cancelled: a permit is with a call
\* that is asking, or free.
THEOREM PermitsAreConserved == Spec => []PermitsConserved
<1>1. Init => PermitsConserved
  <2> SUFFICES ASSUME Init PROVE PermitsConserved
      OBVIOUS
  <2>1. {c \in Calls : pc[c] = "asking"} = {}
    BY DEF Init
  <2>2. Cardinality({}) = 0
    BY FS_EmptySet
  <2>3. free = Permits /\ Permits \in Nat
    BY SettingsAssumption DEF Init
  <2> QED BY <2>1, <2>2, <2>3 DEF PermitsConserved
<1> QED BY <1>1, SoundInit, SoundStep, PermitsStep, PTL DEF Spec

----------------------------------------------------------------------------
(* The line.                                                               *)

\* A call that joins the line stands at its end.
LEMMA Joins ==
    ASSUME Typed, LineIsTrue, NEW c \in Calls, pc[c] # "queued",
           pc' = [pc EXCEPT ![c] = "queued"], line' = Append(line, c)
    PROVE  LineIsTrue'
<1>1. /\ line' \in Seq(Calls) /\ DOMAIN line' = 1 .. Len(line) + 1
      /\ DOMAIN line = 1 .. Len(line) /\ Len(line) \in Nat
      /\ \A i \in DOMAIN line : line'[i] = line[i]
      /\ line'[Len(line) + 1] = c
  BY DEF LineIsTrue
<1>2. pc'[c] = "queued" /\ \A d \in Calls \ {c} : pc'[d] = pc[d]
  BY DEF Typed
<1>3. \A i \in DOMAIN line : line[i] # c
  BY DEF LineIsTrue
<1>4. \A i \in DOMAIN line' : i \in DOMAIN line \/ i = Len(line) + 1
  BY <1>1
<1>5. \A d \in Calls : pc'[d] = "queued" <=> \E i \in DOMAIN line' : line'[i] = d
  <2>1. ASSUME NEW d \in Calls \ {c}
        PROVE  (\E i \in DOMAIN line' : line'[i] = d) <=> \E i \in DOMAIN line : line[i] = d
    BY <1>1, <1>4
  <2>2. Len(line) + 1 \in DOMAIN line'
    BY <1>1
  <2> QED BY <1>1, <1>2, <2>1, <2>2 DEF LineIsTrue
<1>6. \A i, j \in DOMAIN line' : line'[i] = line'[j] => i = j
  BY <1>1, <1>3, <1>4 DEF LineIsTrue
<1> QED BY <1>1, <1>5, <1>6 DEF LineIsTrue

\* A call that leaves the line from place i lets the others behind it move up.
LEMMA Leaves ==
    ASSUME Typed, LineIsTrue, NEW c \in Calls, pc[c] = "queued",
           NEW v, v # "queued", pc' = [pc EXCEPT ![c] = v],
           NEW i \in DOMAIN line, line[i] = c,
           line' \in Seq(Calls), Len(line') = Len(line) - 1,
           \A k \in 1 .. Len(line) - 1 :
              line'[k] = IF k < i THEN line[k] ELSE line[k + 1]
    PROVE  LineIsTrue'
<1> DEFINE Old(k) == IF k < i THEN k ELSE k + 1
<1>1. /\ DOMAIN line = 1 .. Len(line) /\ Len(line) \in Nat
      /\ DOMAIN line' = 1 .. Len(line) - 1
      /\ i \in 1 .. Len(line)
  <2>1. DOMAIN line' = 1 .. Len(line') /\ DOMAIN line = 1 .. Len(line) /\ Len(line) \in Nat
    BY DEF LineIsTrue
  <2> QED BY <2>1
<1>2. pc'[c] # "queued" /\ \A d \in Calls \ {c} : pc'[d] = pc[d]
  BY DEF Typed
<1>3. \A k \in DOMAIN line' : /\ Old(k) \in DOMAIN line \ {i} /\ line'[k] = line[Old(k)]
  BY <1>1
<1>4. \A k, n \in DOMAIN line' : Old(k) = Old(n) => k = n
  BY <1>1
<1>5. ASSUME NEW k \in DOMAIN line \ {i} PROVE \E n \in DOMAIN line' : Old(n) = k
  <2>1. CASE k < i
    <3>1. k \in DOMAIN line' /\ Old(k) = k
      BY <1>1, <1>5, <2>1
    <3> QED BY <3>1
  <2>2. CASE ~ k < i
    <3>1. k - 1 \in DOMAIN line' /\ Old(k - 1) = k
      BY <1>1, <1>5, <2>2
    <3> QED BY <3>1
  <2> QED BY <2>1, <2>2
<1> HIDE DEF Old
<1>6. \A k \in DOMAIN line : line[k] = c => k = i
  BY DEF LineIsTrue
<1>7. ASSUME NEW d \in Calls
      PROVE  pc'[d] = "queued" <=> \E k \in DOMAIN line' : line'[k] = d
  <2>1. CASE d = c
    BY <1>2, <1>3, <1>6, <2>1
  <2>2. CASE d # c
    <3>1. ASSUME NEW k \in DOMAIN line, line[k] = d PROVE \E n \in DOMAIN line' : line'[n] = d
      <4>1. k \in DOMAIN line \ {i}
        BY <2>2, <3>1
      <4>2. PICK n \in DOMAIN line' : Old(n) = k
        BY <1>5, <4>1
      <4> QED BY <1>3, <3>1, <4>2
    <3>2. ASSUME NEW k \in DOMAIN line', line'[k] = d PROVE \E n \in DOMAIN line : line[n] = d
      BY <1>3, <3>2
    <3> QED BY <1>2, <2>2, <3>1, <3>2 DEF LineIsTrue
  <2> QED BY <2>1, <2>2
<1>8. \A k, n \in DOMAIN line' : line'[k] = line'[n] => k = n
  BY <1>3, <1>4 DEF LineIsTrue
<1> QED BY <1>7, <1>8 DEF LineIsTrue

\* Whoever is not in the line may do anything but join it.
LEMMA StaysOut ==
    ASSUME Typed, LineIsTrue, NEW c \in Calls, pc[c] # "queued",
           NEW v, v # "queued", pc' = [pc EXCEPT ![c] = v], line' = line
    PROVE  LineIsTrue'
<1>1. \A d \in Calls : pc'[d] = "queued" <=> pc[d] = "queued"
  BY DEF Typed
<1> QED BY <1>1 DEF LineIsTrue

LEMMA LineStep == Sound /\ LineIsTrue /\ [Next]_vars => LineIsTrue'
<1> SUFFICES ASSUME Sound, LineIsTrue, [Next]_vars PROVE LineIsTrue'
    OBVIOUS
<1>0. Typed
  BY DEF Sound
<1>1. ASSUME NEW c \in Calls, Invoke(c) \/ OutOfQuota(c) \/ NextEndpoint(c)
      PROVE  LineIsTrue'
  <2>1. pc[c] # "queued"
    BY <1>1 DEF Invoke, OutOfQuota, NextEndpoint, Errs
  <2>2. \/ pc' = [pc EXCEPT ![c] = "queued"] /\ line' = Append(line, c)
        \/ pc' = [pc EXCEPT ![c] = "failed"] /\ line' = line
    BY <1>1 DEF Invoke, OutOfQuota, NextEndpoint, TurnTo
  <2> QED BY <1>0, <2>1, <2>2, Joins, StaysOut
<1>2. ASSUME NEW c \in Calls, Enter(c) PROVE LineIsTrue'
  <2>1. /\ pc[c] = "queued" /\ Head(line) = c /\ line' = Tail(line)
        /\ pc' = [pc EXCEPT ![c] = "asking"]
    BY <1>2 DEF Enter
  <2>2. line \in Seq(Calls) /\ line # <<>>
    BY <2>1 DEF LineIsTrue
  <2>3. /\ 1 \in DOMAIN line /\ line[1] = c
        /\ line' \in Seq(Calls) /\ Len(line') = Len(line) - 1
        /\ \A k \in 1 .. Len(line) - 1 : ~ k < 1 /\ line'[k] = line[k + 1]
    BY <2>1, <2>2
  <2> QED BY <1>0, <2>1, <2>3, Leaves
<1>3. ASSUME NEW c \in Calls, GiveUp(c) PROVE LineIsTrue'
  <2>1. pc' = [pc EXCEPT ![c] = "cancelled"]
    BY <1>3 DEF GiveUp
  <2>2. CASE pc[c] # "queued" /\ line' = line
    BY <1>0, <2>1, <2>2, StaysOut
  <2>3. ASSUME NEW i \in DOMAIN line, line[i] = c, line' = Without(line, i)
        PROVE  LineIsTrue'
    <3>1. line \in Seq(Calls) /\ pc[c] = "queued"
      BY <2>3 DEF LineIsTrue
    <3>2. /\ line' \in Seq(Calls) /\ Len(line') = Len(line) - 1
          /\ \A k \in 1 .. Len(line) - 1 :
                line'[k] = IF k < i THEN line[k] ELSE line[k + 1]
      BY <2>3, <3>1 DEF Without
    <3> QED BY <1>0, <2>1, <2>3, <3>1, <3>2, Leaves
  <2> QED BY <1>3, <2>2, <2>3 DEF GiveUp
<1>4. ASSUME NEW c \in Calls, Answer(c) \/ BackOff(c) PROVE LineIsTrue'
  <2>1. pc[c] = "asking" /\ line' = line
    BY <1>4 DEF Answer, BackOff, Errs
  <2>2. \/ pc' = [pc EXCEPT ![c] = "answered"] \/ pc' = [pc EXCEPT ![c] = "asleep"]
    BY <1>4 DEF Answer, BackOff
  <2> QED BY <1>0, <2>1, <2>2, StaysOut
<1>5. ASSUME NEW c \in Calls, Wake(c) PROVE LineIsTrue'
  BY <1>0, <1>5, Joins DEF Wake
<1>6. CASE UNCHANGED <<pc, line>>
  BY <1>6 DEF LineIsTrue
<1> QED BY <1>1, <1>2, <1>3, <1>4, <1>5, <1>6 DEF Next, Proceed, Recover, vars

\* However calls fail, sleep, retry and are cancelled: the line is the calls that
\* wait for a permit, once each.
THEOREM LineStaysTrue == Spec => []LineIsTrue
<1>1. Init => LineIsTrue
  <2> SUFFICES ASSUME Init PROVE LineIsTrue
      OBVIOUS
  <2>1. line = <<>> /\ \A c \in Calls : pc[c] = "idle"
    BY DEF Init
  <2> QED BY <2>1 DEF LineIsTrue
<1> QED BY <1>1, SoundInit, SoundStep, LineStep, PTL DEF Spec

LEMMA SomebodyProceeds == Sound /\ LineIsTrue /\ PermitsConserved => NeverStuck
<1> SUFFICES ASSUME Sound, LineIsTrue, PermitsConserved,
                    NEW c \in Calls, pc[c] \in Underway
             PROVE  \E d \in Calls : CanProceed(d)
    BY DEF NeverStuck
<1>1. CASE pc[c] # "queued"
  BY <1>1 DEF CanProceed, Underway
<1>2. CASE pc[c] = "queued" /\ free > 0
  <2>1. line \in Seq(Calls) /\ line # <<>>
    BY <1>2 DEF LineIsTrue
  <2>2. 1 \in DOMAIN line /\ Head(line) = line[1] /\ line[1] \in Calls
    BY <2>1
  <2>3. pc[Head(line)] = "queued" /\ Head(line) \in Calls
    BY <2>2 DEF LineIsTrue
  <2> QED BY <1>2, <2>3 DEF CanProceed
<1>3. CASE ~ free > 0
  <2>1. free \in Nat /\ Permits \in Nat \ {0}
    BY SettingsAssumption DEF Sound, Typed
  <2>2. Cardinality(Asking) # 0
    BY <1>3, <2>1 DEF PermitsConserved, Asking
  <2>3. Asking # {}
    BY <2>2, FS_EmptySet
  <2> QED BY <2>3 DEF Asking, CanProceed
<1> QED BY <1>1, <1>2, <1>3

\* For any number of calls and permits: as long as a call is underway, one of them
\* waits neither for a permit nor behind another one.
THEOREM NobodyIsStuck == Spec => []NeverStuck
<1> QED BY LineStaysTrue, PermitsAreConserved, SoundInit, SoundStep,
           SomebodyProceeds, PTL DEF Spec

----------------------------------------------------------------------------
(* Progress.                                                               *)

\* A call that is refused turns to an endpoint further down the chain, or ends.
LEMMA TurnAdvances ==
    ASSUME Sound, Sound', NEW c \in Calls, NEW i \in Nat, NEW off, TurnTo(c, i, off),
           pc[c] = "idle" \/ (pc[c] \in Underway /\ pos[c] < i)
    PROVE  /\ Advances(c)
           /\ \A d \in Calls \ {c} :
                 pc'[d] = pc[d] /\ pos'[d] = pos[d] /\ attempt'[d] = attempt[d]
<1>1. \A d \in Calls \ {c} :
         pc'[d] = pc[d] /\ pos'[d] = pos[d] /\ attempt'[d] = attempt[d]
  BY DEF TurnTo, Sound, Typed
<1>2. CASE pc' = [pc EXCEPT ![c] = "failed"]
  <2>1. pc'[c] = "failed"
    BY <1>2 DEF Sound, Typed
  <2>2. pc'[c] \in Ended
    BY <2>1 DEF Ended
  <2>3. pc'[c] \in Underway \cup Ended
    BY <2>2
  <2> QED BY <1>1, <2>2, <2>3, Zenon DEF Advances
<1>3. ASSUME NEW k \in Kept, k >= i, pc' = [pc EXCEPT ![c] = "queued"],
             pos' = [pos EXCEPT ![c] = k], attempt' = [attempt EXCEPT ![c] = 1]
      PROVE  Advances(c)
  <2>1. pc'[c] = "queued" /\ pos'[c] = k /\ attempt'[c] = 1
    BY <1>3 DEF Sound, Typed
  <2>2. k \in Nat /\ k <= Len(Configured) /\ pos[c] \in Nat /\ 1 <= MaxRetries + 1
    BY ChainHasNoRepeats, ChainAssumption, SettingsAssumption DEF Sound, Typed
  <2>3. pc[c] # "idle" => pos[c] < k
    BY <1>3, <2>2
  <2> QED BY <2>1, <2>2, <2>3 DEF Advances, Descends, Underway
<1> QED BY <1>1, <1>2, <1>3 DEF TurnTo

\* The bounds of a call underway.
LEMMA Bounds ==
    ASSUME Sound, NEW c \in Calls, pc[c] \in Underway
    PROVE  /\ pos[c] \in Nat /\ pos[c] <= Len(Configured)
           /\ attempt[c] \in Nat /\ attempt[c] <= MaxRetries + 1
  BY ChainHasNoRepeats, ChainAssumption
     DEF Sound, Typed, CallOK, Counted, OnRoute

LEMMA StepAdvances ==
    ASSUME Sound, Sound', Next
    PROVE  \/ \E c \in Calls :
                 /\ Advances(c)
                 /\ \A d \in Calls \ {c} :
                       pc'[d] = pc[d] /\ pos'[d] = pos[d] /\ attempt'[d] = attempt[d]
           \/ /\ UNCHANGED <<pc, pos, attempt>> /\ cooling' # cooling
              /\ cooling' \subseteq cooling
<1> DEFINE Alone(c) == \A d \in Calls \ {c} :
               pc'[d] = pc[d] /\ pos'[d] = pos[d] /\ attempt'[d] = attempt[d]
<1>0. Typed
  BY DEF Sound
<1>1. ASSUME NEW c \in Calls, Invoke(c) PROVE Advances(c) /\ Alone(c)
  BY <1>1, TurnAdvances DEF Invoke
<1>2. ASSUME NEW c \in Calls, OutOfQuota(c) \/ NextEndpoint(c)
      PROVE  Advances(c) /\ Alone(c)
  <2>1. pc[c] \in Underway /\ \E off : TurnTo(c, pos[c] + 1, off)
    BY <1>2 DEF OutOfQuota, NextEndpoint, Errs, Underway
  <2>2. pos[c] + 1 \in Nat /\ pos[c] < pos[c] + 1
    BY <1>0 DEF Typed
  <2> QED BY <2>1, <2>2, TurnAdvances
<1>3. ASSUME NEW c \in Calls, Answer(c) \/ GiveUp(c) PROVE Advances(c) /\ Alone(c)
  <2>1. /\ pc[c] \in Underway
        /\ \E v \in Ended : pc' = [pc EXCEPT ![c] = v]
        /\ UNCHANGED <<pos, attempt>>
    BY <1>3 DEF Answer, GiveUp, Underway, Ended
  <2> QED BY <1>0, <2>1 DEF Typed, Advances
<1>4. ASSUME NEW c \in Calls, Enter(c) \/ BackOff(c) PROVE Advances(c) /\ Alone(c)
  <2>1. /\ UNCHANGED <<pos, attempt>>
        /\ \/ pc[c] = "queued" /\ pc' = [pc EXCEPT ![c] = "asking"]
           \/ pc[c] = "asking" /\ pc' = [pc EXCEPT ![c] = "asleep"]
    BY <1>4 DEF Enter, BackOff, Errs
  <2>2. /\ pc[c] \in Underway /\ pc'[c] \in Underway
        /\ <<pc[c], pc'[c]>> \in {<<"queued", "asking">>, <<"asking", "asleep">>}
        /\ \A d \in Calls \ {c} : pc'[d] = pc[d]
    BY <1>0, <2>1 DEF Typed, Underway
  <2>3. Descends(c)
    BY <2>1, <2>2, Bounds DEF Descends
  <2> QED BY <2>1, <2>2, <2>3 DEF Advances
<1>5. ASSUME NEW c \in Calls, Wake(c) PROVE Advances(c) /\ Alone(c)
  <2>1. /\ pc[c] = "asleep" /\ pc' = [pc EXCEPT ![c] = "queued"]
        /\ attempt' = [attempt EXCEPT ![c] = attempt[c] + 1] /\ pos' = pos
    BY <1>5 DEF Wake
  <2>2. pc[c] \in Underway /\ pc'[c] \in Underway /\ attempt'[c] = attempt[c] + 1
    BY <1>0, <2>1 DEF Typed, Underway
  <2>3. /\ pos'[c] = pos[c] /\ pos[c] <= Len(Configured)
        /\ attempt'[c] <= MaxRetries + 1 /\ attempt[c] \in Nat
    <3>1. pos[c] <= Len(Configured) /\ attempt[c] \in Nat
      BY <2>2, Bounds
    <3>2. attempt'[c] <= MaxRetries + 1
      BY <2>2 DEF Sound, CallOK, Counted
    <3> QED BY <2>1, <3>1, <3>2
  <2>4. Descends(c)
    BY <2>2, <2>3 DEF Descends
  <2> QED BY <1>0, <2>1, <2>4 DEF Typed, Advances
<1>6. ASSUME NEW e \in Endpoints, Recover(e)
      PROVE  /\ UNCHANGED <<pc, pos, attempt>> /\ cooling' # cooling
             /\ cooling' \subseteq cooling
  BY <1>6 DEF Recover
<1> HIDE DEF Alone
<1>7. (\E c \in Calls : (Advances(c) /\ Alone(c))) \/ (\E e \in Endpoints : Recover(e))
  BY <1>1, <1>2, <1>3, <1>4, <1>5 DEF Next, Proceed
<1> QED BY <1>6, <1>7 DEF Alone

\* For every chain and any settings: each step takes one call further down its
\* chain, through its attempts or to its end, or ends a cooldown.
THEOREM StepsAdvance == Spec => EveryStepAdvances
<1>1. Sound /\ Sound' /\ [Next]_vars =>
        [\/ \E c \in Calls :
              /\ Advances(c)
              /\ \A d \in Calls \ {c} :
                    pc'[d] = pc[d] /\ pos'[d] = pos[d] /\ attempt'[d] = attempt[d]
         \/ /\ UNCHANGED <<pc, pos, attempt>> /\ cooling' # cooling
            /\ cooling' \subseteq cooling]_vars
  BY StepAdvances
<1> QED BY <1>1, SoundInit, SoundStep, PTL DEF Spec, EveryStepAdvances
=============================================================================
