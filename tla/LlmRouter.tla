------------------------------- MODULE LlmRouter -------------------------------
(***************************************************************************)
(* The provider router (providers/router.py): callers in parallel, each    *)
(* going through the adapters in the order of their registration with      *)
(* retries, and one circuit breaker per provider kind that they share.     *)
(* The breaker has no lock: every statement of it that reads or writes one *)
(* of its fields is a step.  Backoff is the time between two steps.        *)
(***************************************************************************)
EXTENDS Integers, Sequences

CONSTANTS
    Callers,
    Adapters,       \* the kinds of the registered adapters, a sequence
    Threshold,      \* circuit_failure_threshold
    MaxRetries,     \* max_retries_per_provider
    MaxFailures     \* bound on the failures of each kind

Kinds == {Adapters[i] : i \in DOMAIN Adapters}

\* The router wants an adapter, and LlmRouterConfig a threshold of one or more.
RouterConstants ==
    /\ Adapters \in Seq(Kinds) /\ Adapters # <<>>
    /\ Threshold \in Nat \ {0} /\ MaxRetries \in Nat
    /\ MaxFailures \in [Kinds -> Nat]

VARIABLES
    failures,   \* _failure_count
    circuit,    \* _state
    opened,     \* _opened_at: none, recent, or recovery_seconds old
    call,       \* call[c]: where complete() stands
    blamed,     \* failures of a kind so far, for properties only
    crossed     \* two callers were in a breaker at once, for properties only

vars == <<failures, circuit, opened, call, blamed, crossed>>

\* A call that comes to adapter n, or has ended if n is 0.  count is what += has
\* read; tried, the kinds that failed the call, is for properties only.
Fresh(n, tried, outcome) ==
    [at |-> n, attempt |-> 0, step |-> "look", count |-> 0, tried |-> tried,
     outcome |-> outcome]

Kind(c) == Adapters[call[c].at]

\* Within a method of its breaker, at least one statement done.
Within(c) == call[c].step \notin {"look", "trying"}

Init ==
    /\ failures = [k \in Kinds |-> 0]
    /\ circuit = [k \in Kinds |-> "closed"]
    /\ opened = [k \in Kinds |-> "none"]
    /\ call = [c \in Callers |-> Fresh(0, {}, "none")]
    /\ blamed = [k \in Kinds |-> 0]
    /\ crossed = [k \in Kinds |-> FALSE]

\* c begins a method of its breaker.
Enters(c) ==
    crossed' = [crossed EXCEPT ![Kind(c)] =
                    @ \/ \E d \in Callers \ {c} : Within(d) /\ Kind(d) = Kind(c)]

Stands(c, step) == call[c].at > 0 /\ call[c].step = step

Steps(c, from, to) == Stands(c, from) /\ call' = [call EXCEPT ![c].step = to]

Begin(c) ==
    /\ call[c].at = 0
    /\ call' = [call EXCEPT ![c] = Fresh(1, {}, "none")]
    /\ UNCHANGED <<failures, circuit, opened, blamed, crossed>>

\* The next adapter, or the error that all providers are exhausted.
Onward(c) ==
    IF call[c].at < Len(Adapters)
    THEN Fresh(call[c].at + 1, call[c].tried, "none")
    ELSE Fresh(0, call[c].tried, "exhausted")

\* is_available(), asked once, before the first attempt at an adapter.
Look(c) ==
    /\ Steps(c, "look", IF circuit[Kind(c)] = "open" THEN "stamped" ELSE "answer")
    /\ Enters(c)
    /\ UNCHANGED <<failures, circuit, opened, blamed>>

Stamped(c) ==
    /\ Steps(c, "stamped", IF opened[Kind(c)] = "none" THEN "answer" ELSE "elapsed")
    /\ UNCHANGED <<failures, circuit, opened, blamed, crossed>>

\* _opened_at is read again; None minus a number is a TypeError of complete().
Elapsed(c) ==
    /\ Stands(c, "elapsed")
    /\ \/ /\ opened[Kind(c)] # "none"
          /\ Steps(c, "elapsed", IF opened[Kind(c)] = "old" THEN "reopen" ELSE "answer")
       \/ /\ opened[Kind(c)] = "none"
          /\ call' = [call EXCEPT ![c] = Fresh(0, {}, "raised")]
    /\ UNCHANGED <<failures, circuit, opened, blamed, crossed>>

Reopen(c) ==
    /\ Steps(c, "reopen", "answer")
    /\ circuit' = [circuit EXCEPT ![Kind(c)] = "half_open"]
    /\ UNCHANGED <<failures, opened, blamed, crossed>>

Answer(c) ==
    /\ Stands(c, "answer")
    /\ \/ circuit[Kind(c)] # "open" /\ Steps(c, "answer", "trying")
       \/ /\ circuit[Kind(c)] = "open"
          /\ call' = [call EXCEPT ![c] = Onward(c)]
    /\ UNCHANGED <<failures, circuit, opened, blamed, crossed>>

\* Mutant: a success closes the circuit and keeps the count.
ResetKeepingCount(c) ==
    /\ Steps(c, "trying", "close")
    /\ Enters(c)
    /\ UNCHANGED <<failures, circuit, opened, blamed>>

\* record_success(): count, state and time, one after the other.
Reset(c) ==
    /\ Steps(c, "trying", "close")
    /\ failures' = [failures EXCEPT ![Kind(c)] = 0]
    /\ Enters(c)
    /\ UNCHANGED <<circuit, opened, blamed>>

Close(c) ==
    /\ Steps(c, "close", "forget")
    /\ circuit' = [circuit EXCEPT ![Kind(c)] = "closed"]
    /\ UNCHANGED <<failures, opened, blamed, crossed>>

Forget(c) ==
    /\ Stands(c, "forget")
    /\ opened' = [opened EXCEPT ![Kind(c)] = "none"]
    /\ call' = [call EXCEPT ![c] = Fresh(0, {}, "answered")]
    /\ UNCHANGED <<failures, circuit, blamed, crossed>>

\* record_failure(): the count is read, ...
Load(c) ==
    /\ Stands(c, "trying")
    /\ blamed[Kind(c)] < MaxFailures[Kind(c)]
    /\ call' = [call EXCEPT ![c] = [call[c] EXCEPT !.step = "store",
                    !.count = failures[Kind(c)], !.tried = call[c].tried \cup {Kind(c)}]]
    /\ blamed' = [blamed EXCEPT ![Kind(c)] = @ + 1]
    /\ Enters(c)
    /\ UNCHANGED <<failures, circuit, opened>>

\* ... written, whatever it has become, ...
Store(c) ==
    /\ Steps(c, "store", "compare")
    /\ failures' = [failures EXCEPT ![Kind(c)] = call[c].count + 1]
    /\ UNCHANGED <<circuit, opened, blamed, crossed>>

\* The attempts at this adapter go on although the circuit may have opened,
\* unless the error cannot be retried.
AfterFailure(c, retryable) ==
    IF retryable /\ call[c].attempt < MaxRetries
    THEN [call[c] EXCEPT !.attempt = @ + 1, !.step = "trying", !.count = 0]
    ELSE Onward(c)

\* ... and read again for the threshold.
Compare(c, retryable) ==
    /\ Stands(c, "compare")
    /\ \/ failures[Kind(c)] >= Threshold /\ Steps(c, "compare", "open")
       \/ /\ failures[Kind(c)] < Threshold
          /\ call' = [call EXCEPT ![c] = AfterFailure(c, retryable)]
    /\ UNCHANGED <<failures, circuit, opened, blamed, crossed>>

Open(c) ==
    /\ Steps(c, "open", "stamp")
    /\ circuit' = [circuit EXCEPT ![Kind(c)] = "open"]
    /\ UNCHANGED <<failures, opened, blamed, crossed>>

Stamp(c, retryable) ==
    /\ Stands(c, "stamp")
    /\ opened' = [opened EXCEPT ![Kind(c)] = "recent"]
    /\ call' = [call EXCEPT ![c] = AfterFailure(c, retryable)]
    /\ UNCHANGED <<failures, circuit, blamed, crossed>>

\* recovery_seconds pass.
Cool(k) ==
    /\ opened[k] = "recent"
    /\ opened' = [opened EXCEPT ![k] = "old"]
    /\ UNCHANGED <<failures, circuit, call, blamed, crossed>>

Next ==
    \/ \E c \in Callers :
        \/ Begin(c) \/ Look(c) \/ Stamped(c) \/ Elapsed(c) \/ Reopen(c) \/ Answer(c)
        \/ Reset(c) \/ Close(c) \/ Forget(c) \/ Load(c) \/ Store(c) \/ Open(c)
        \/ \E retryable \in BOOLEAN : Compare(c, retryable) \/ Stamp(c, retryable)
    \/ \E k \in Kinds : Cool(k)

Spec == Init /\ [][Next]_vars

-----------------------------------------------------------------------------

CallSteps == {"look", "stamped", "elapsed", "reopen", "answer", "trying", "close", "forget",
              "store", "compare", "open", "stamp"}

TypeOK ==
    /\ failures \in [Kinds -> Nat]
    /\ circuit \in [Kinds -> {"closed", "open", "half_open"}]
    /\ opened \in [Kinds -> {"none", "recent", "old"}]
    /\ call \in [Callers -> [at: 0..Len(Adapters), attempt: 0..MaxRetries, step: CallSteps,
                             count: Nat, tried: SUBSET Kinds,
                             outcome: {"none", "answered", "exhausted", "raised"}]]
    /\ blamed \in [Kinds -> Nat] /\ \A k \in Kinds : blamed[k] <= MaxFailures[k]
    /\ crossed \in [Kinds -> BOOLEAN]

\* A circuit that is not closed has seen as many failures as the threshold
\* asks for, in however many statements of different callers they were lost.
OpenedByFailures ==
    \A k \in Kinds :
        /\ failures[k] <= blamed[k]
        /\ circuit[k] # "closed" => blamed[k] >= Threshold

\* As long as no two callers were in a breaker at once, it is closed exactly
\* while fewer failures than the threshold stand against its kind, and an open
\* one knows when it opened, without which it would stay open for good.
CircuitMatchesCount ==
    \A k \in Kinds :
        ~crossed[k] /\ (\A c \in Callers : Within(c) => Kind(c) # k) =>
            /\ circuit[k] = "closed" <=> failures[k] < Threshold
            /\ circuit[k] = "open" => opened[k] # "none"

\* l.145: failover.  A request is given up only when every kind failed it, or
\* failed often enough before: no race between callers makes a provider that
\* works look like one that does not.
HealthyKindAnswers ==
    \A c \in Callers : call[c].outcome = "exhausted" =>
        \A k \in Kinds : k \in call[c].tried \/ blamed[k] >= Threshold

\* The TypeError of l.96 takes two callers in one breaker.
OnlyRacesRaise ==
    \A c \in Callers : call[c].outcome = "raised" => \E k \in Kinds : crossed[k]

RouterFailsOver ==
    OpenedByFailures /\ CircuitMatchesCount /\ HealthyKindAnswers /\ OnlyRacesRaise
=============================================================================
