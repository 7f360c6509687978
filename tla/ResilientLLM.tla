----------------------------- MODULE ResilientLLM -----------------------------
(***************************************************************************)
(* The client every node asks its model through. A call goes down a chain  *)
(* of endpoints and retries each of them; the calls of a process share the *)
(* permits of a gate and the cooldowns of endpoints that are out of quota. *)
(* Callers may give a call up: a node by its own timeout, the worker by    *)
(* that of the job.                                                        *)
(*                                                                         *)
(* A step is the code between two awaits: the gate, an answer, a sleep.    *)
(***************************************************************************)
EXTENDS Naturals, Sequences, FiniteSets

CONSTANTS
    Calls,        \* calls of ainvoke in one event loop
    Endpoints,    \* pairs of a provider and a model
    Configured,   \* the primary endpoint, then LLM_FALLBACK_CHAIN
    Usable,       \* endpoints of a supported provider with a key
    Permits,      \* LLM_MAX_CONCURRENCY
    MaxRetries    \* LLM_MAX_RETRIES

ASSUME CallsAssumption == IsFiniteSet(Calls)
ASSUME ChainAssumption ==
    /\ Configured \in Seq(Endpoints) /\ Configured # <<>>
    /\ Usable \subseteq Endpoints
ASSUME SettingsAssumption == Permits \in Nat \ {0} /\ MaxRetries \in Nat

----------------------------------------------------------------------------

\* Faulty variant of Kept: the chain keeps an endpoint that is configured twice.
KeptTwice == {i \in DOMAIN Configured : i = 1 \/ Configured[i] \in Usable}

\* The positions of the chain a client is built with: the primary endpoint
\* whatever it is, usable fallbacks, and each endpoint once.
Kept ==
    {i \in DOMAIN Configured :
        /\ i = 1 \/ Configured[i] \in Usable
        /\ \A j \in 1 .. i - 1 : Configured[j] # Configured[i]}

VARIABLES
    pc,       \* what each call is doing
    pos,      \* position of the endpoint it is at
    attempt,  \* how often it has turned to this endpoint
    line,     \* calls waiting for a permit, first come first served
    free,     \* permits nobody holds
    cooling,  \* endpoints in their quota cooldown
    healthy,  \* endpoints that answer whatever they are asked; never changes
    asked,    \* history: how often each call asked each endpoint
    told      \* history: endpoints that told a call that its quota is out

vars == <<pc, pos, attempt, line, free, cooling, healthy, asked, told>>

Underway == {"queued", "asking", "asleep"}
Ended == {"answered", "failed", "cancelled"}

Endpoint(c) == Configured[pos[c]]

Init ==
    /\ pc = [c \in Calls |-> "idle"]
    /\ pos = [c \in Calls |-> 1] /\ attempt = [c \in Calls |-> 0]
    /\ line = <<>> /\ free = Permits /\ cooling = {}
    /\ healthy \in SUBSET Usable
    /\ asked = [c \in Calls |-> [e \in Endpoints |-> 0]]
    /\ told = [c \in Calls |-> {}]

----------------------------------------------------------------------------

\* An endpoint is passed over while it cools down, or when no client can be
\* built for it.
MayPassOver(i, off) == Configured[i] \in off \/ Configured[i] \notin healthy

\* The call turns to the first endpoint from position i on that is not passed
\* over, or raises because there is none.
TurnTo(c, i, off) ==
    LET Rest == {k \in Kept : k >= i}
    IN  \/ \E k \in Rest :
              /\ Configured[k] \notin off
              /\ \A j \in Rest : j < k => MayPassOver(j, off)
              /\ pc' = [pc EXCEPT ![c] = "queued"]
              /\ pos' = [pos EXCEPT ![c] = k]
              /\ attempt' = [attempt EXCEPT ![c] = 1]
              /\ line' = Append(line, c)
        \/ /\ \A j \in Rest : MayPassOver(j, off)
           /\ pc' = [pc EXCEPT ![c] = "failed"]
           /\ UNCHANGED <<pos, attempt, line>>

Invoke(c) ==
    /\ pc[c] = "idle"
    /\ TurnTo(c, 1, cooling)
    /\ UNCHANGED <<free, cooling, healthy, asked, told>>

\* The gate lets the first of the line in, and the request goes out.
Enter(c) ==
    /\ pc[c] = "queued" /\ Head(line) = c /\ free > 0
    /\ pc' = [pc EXCEPT ![c] = "asking"]
    /\ line' = Tail(line) /\ free' = free - 1
    /\ asked' = [asked EXCEPT ![c][Endpoint(c)] = @ + 1]
    /\ UNCHANGED <<pos, attempt, cooling, healthy, told>>

Answer(c) ==
    /\ pc[c] = "asking"
    /\ pc' = [pc EXCEPT ![c] = "answered"]
    /\ free' = free + 1
    /\ UNCHANGED <<pos, attempt, line, cooling, healthy, asked, told>>

\* The endpoint, or its timeout, ends the request with an error.
Errs(c) == pc[c] = "asking" /\ Endpoint(c) \notin healthy

\* Faulty variant of OutOfQuota: the cooldown is kept for the provider, not for
\* one of its models.
ProviderOutOfQuota(c) ==
    LET off == cooling \cup {e \in Endpoints : e[1] = Endpoint(c)[1]}
    IN  /\ Errs(c)
        /\ cooling' = off /\ free' = free + 1
        /\ told' = [told EXCEPT ![c] = @ \cup {Endpoint(c)}]
        /\ TurnTo(c, pos[c] + 1, off)
        /\ UNCHANGED <<healthy, asked>>

\* Credits or a daily quota are used up: the endpoint cools down for every call,
\* and this one goes on without retrying.
OutOfQuota(c) ==
    LET off == cooling \cup {Endpoint(c)}
    IN  /\ Errs(c)
        /\ cooling' = off /\ free' = free + 1
        /\ told' = [told EXCEPT ![c] = @ \cup {Endpoint(c)}]
        /\ TurnTo(c, pos[c] + 1, off)
        /\ UNCHANGED <<healthy, asked>>

\* An error that a retry cannot mend, or the last attempt.
NextEndpoint(c) ==
    /\ Errs(c)
    /\ free' = free + 1
    /\ TurnTo(c, pos[c] + 1, cooling)
    /\ UNCHANGED <<cooling, healthy, asked, told>>

\* Faulty variant of BackOff: the call sleeps inside the gate.
BackOffInside(c) ==
    /\ Errs(c) /\ attempt[c] <= MaxRetries
    /\ pc' = [pc EXCEPT ![c] = "asleep"]
    /\ UNCHANGED <<pos, attempt, line, free, cooling, healthy, asked, told>>

\* Faulty variant of BackOff: the attempts are counted from zero.
BackOffOnceMore(c) ==
    /\ Errs(c) /\ attempt[c] <= MaxRetries + 1
    /\ pc' = [pc EXCEPT ![c] = "asleep"]
    /\ free' = free + 1
    /\ UNCHANGED <<pos, attempt, line, cooling, healthy, asked, told>>

\* A rate limit, a timeout, a connection or a server error: sleep and retry.
BackOff(c) ==
    /\ Errs(c) /\ attempt[c] <= MaxRetries
    /\ pc' = [pc EXCEPT ![c] = "asleep"]
    /\ free' = free + 1
    /\ UNCHANGED <<pos, attempt, line, cooling, healthy, asked, told>>

\* The retry looks at no cooldown: another call may have started one meanwhile.
Wake(c) ==
    /\ pc[c] = "asleep"
    /\ pc' = [pc EXCEPT ![c] = "queued"]
    /\ attempt' = [attempt EXCEPT ![c] = @ + 1]
    /\ line' = Append(line, c)
    /\ UNCHANGED <<pos, free, cooling, healthy, asked, told>>

\* Faulty variant of GiveUp: the place in the line is kept.
GiveUpInLine(c) ==
    /\ pc[c] \in Underway
    /\ pc' = [pc EXCEPT ![c] = "cancelled"]
    /\ free' = IF pc[c] = "asking" THEN free + 1 ELSE free
    /\ UNCHANGED <<pos, attempt, line, cooling, healthy, asked, told>>

\* A queue without its element at place i.
Without(queue, i) ==
    [k \in 1 .. Len(queue) - 1 |-> IF k < i THEN queue[k] ELSE queue[k + 1]]

\* The caller cancels the call wherever it waits: no handler of the client
\* catches that, and the permit goes back as the gate is left.
GiveUp(c) ==
    /\ pc[c] \in Underway
    /\ pc' = [pc EXCEPT ![c] = "cancelled"]
    /\ \/ pc[c] # "queued" /\ UNCHANGED line
       \/ \E i \in DOMAIN line : line[i] = c /\ line' = Without(line, i)
    /\ free' = IF pc[c] = "asking" THEN free + 1 ELSE free
    /\ UNCHANGED <<pos, attempt, cooling, healthy, asked, told>>

\* A cooldown is over.
Recover(e) ==
    /\ e \in cooling
    /\ cooling' = cooling \ {e}
    /\ UNCHANGED <<pc, pos, attempt, line, free, healthy, asked, told>>

----------------------------------------------------------------------------

Proceed(c) ==
    \/ Enter(c) \/ Answer(c) \/ Wake(c)
    \/ OutOfQuota(c) \/ NextEndpoint(c) \/ BackOff(c)

Next ==
    \/ \E c \in Calls : Invoke(c) \/ Proceed(c) \/ GiveUp(c)
    \/ \E e \in Endpoints : Recover(e)

Spec == Init /\ [][Next]_vars

\* Every request has a timeout, every sleep ends, and the gate serves its line
\* in order.
FairSpec == Spec /\ \A c \in Calls : WF_vars(Proceed(c))

----------------------------------------------------------------------------

\* Permits are with the calls that are asking and nowhere else: not with one
\* that sleeps, was given up or has ended (_async_gate).
PermitsConserved == free + Cardinality({c \in Calls : pc[c] = "asking"}) = Permits

\* A call does not raise while its chain has an endpoint that would answer, no
\* matter what other calls were told by other endpoints (ainvoke).
HealthyEndpointAnswers ==
    \A c \in Calls : pc[c] = "failed" => \A i \in Kept : Configured[i] \notin healthy

\* A call asks an endpoint at most once and MaxRetries times more, whatever the
\* chain repeats and whoever else asks it (ainvoke).
AttemptsAreBounded ==
    \A c \in Calls, e \in Endpoints : asked[c][e] <= 1 + MaxRetries

\* A call that was told that a quota is out never returns to that endpoint, not
\* even when the cooldown is over before the call is (_is_permanent_quota_error).
QuotaErrorIsFinal ==
    \A c \in Calls : pc[c] \in Underway => Endpoint(c) \notin told[c]

\* Calls that were made end, though others are cancelled in the line, with a
\* permit or asleep (ainvoke, _async_gate).
CallsEnd == \A c \in Calls : pc[c] \in Underway ~> pc[c] \in Ended

----------------------------------------------------------------------------
(* The part of CallsEnd that is not about fairness: the calls never wait   *)
(* for each other in a circle, and none goes round in circles.             *)

\* The line holds the calls that wait for a permit, each of them once.
LineIsTrue ==
    /\ line \in Seq(Calls)
    /\ \A c \in Calls : pc[c] = "queued" <=> \E i \in DOMAIN line : line[i] = c
    /\ \A i, j \in DOMAIN line : line[i] = line[j] => i = j

\* A call that does not have to wait for another one.
CanProceed(c) ==
    \/ pc[c] \in {"asking", "asleep"}
    \/ pc[c] = "queued" /\ Head(line) = c /\ free > 0

\* While a call is underway some call can take its next step: no permit is with
\* a call that waits, and nobody who was given up stands at the head of the line
\* (_async_gate).
NeverStuck ==
    (\E c \in Calls : pc[c] \in Underway) => \E c \in Calls : CanProceed(c)

\* The call leaves an endpoint for one further down the chain, begins another of
\* the attempts it has, or gets on with the present one.
Descends(c) ==
    /\ pc[c] \in Underway /\ pc'[c] \in Underway
    /\ pos'[c] <= Len(Configured) /\ attempt'[c] <= MaxRetries + 1
    /\ \/ pos[c] < pos'[c]
       \/ pos[c] = pos'[c] /\ attempt[c] < attempt'[c]
       \/ /\ pos[c] = pos'[c] /\ attempt[c] = attempt'[c]
          /\ <<pc[c], pc'[c]>> \in {<<"queued", "asking">>, <<"asking", "asleep">>}

Advances(c) ==
    \/ pc[c] = "idle" /\ pc'[c] \in Underway \cup Ended
    \/ pc[c] \in Underway /\ pc'[c] \in Ended
    \/ Descends(c)

\* Every step takes one call further and leaves the others where they are, or ends
\* a cooldown: no retry, failover or cooldown sends a call back (ainvoke).
EveryStepAdvances ==
    [][\/ \E c \in Calls :
             /\ Advances(c)
             /\ \A d \in Calls \ {c} :
                   pc'[d] = pc[d] /\ pos'[d] = pos[d] /\ attempt'[d] = attempt[d]
       \/ /\ UNCHANGED <<pc, pos, attempt>> /\ cooling' # cooling
          /\ cooling' \subseteq cooling]_vars
=============================================================================
