----------------------------- MODULE TokenFactory -----------------------------
(***************************************************************************)
(* TokenFactoryProvider (agent.py): a tool call to the model service with   *)
(* retries, one repair, a time budget and a circuit breaker.  A session     *)
(* owns its provider and calls it under the service's lock, so calls follow *)
(* one another.  Time is counted in units: a post lasts at most PostTime,   *)
(* the sleep after a failed one between 1 and Backoff.  _circuit_open_until *)
(* is kept as the time left until then, and _consecutive_failures up to     *)
(* Threshold, beyond which the code tells no two values apart.              *)
(***************************************************************************)
EXTENDS Naturals

CONSTANTS
    MaxRetries,     \* NEBIUS_MAX_RETRIES
    Budget,         \* NEBIUS_MAX_TOTAL_INFERENCE_SECONDS
    Threshold,      \* NEBIUS_CIRCUIT_BREAKER_THRESHOLD
    Cooldown,       \* NEBIUS_CIRCUIT_BREAKER_COOLDOWN_SECONDS
    PostTime,       \* the longest post
    Backoff         \* the longest sleep between two attempts

ASSUME SettingsAssumption ==
    /\ MaxRetries \in Nat
    /\ Budget \in Nat \ {0}
    /\ Threshold \in Nat \ {0}
    /\ Cooldown \in Nat \ {0}
    /\ PostTime \in Nat
    /\ Backoff \in Nat \ {0}

VARIABLES
    calling,    \* inside _call_tool
    attempt,    \* of the current round, counted from 0
    repairs,    \* repair_count
    retries,    \* retry_count, over both rounds
    elapsed,    \* since total_started
    failures,   \* _consecutive_failures
    cooldown,   \* time left until _circuit_open_until
    outcome     \* of the last call

call == <<calling, attempt, repairs, retries, elapsed, outcome>>
breaker == <<failures, cooldown>>
vars == <<call, breaker>>

\* What a caller makes of a valid answer: it may say something else than it was asked.
Verdict == {"answered", "refuted"}

Outcome == {"none", "refused", "failed", "invalid", "escaped"} \cup Verdict

Init ==
    /\ calling = FALSE
    /\ attempt = 0
    /\ repairs = 0
    /\ retries = 0
    /\ elapsed = 0
    /\ failures = 0
    /\ cooldown = 0
    /\ outcome = "none"

-----------------------------------------------------------------------------
\* A slip: the count is compared before it is raised.
RegisterFailure_OffByOne ==
    /\ failures' = IF failures < Threshold THEN failures + 1 ELSE Threshold
    /\ cooldown' = IF failures >= Threshold THEN Cooldown ELSE cooldown

RegisterFailure ==
    /\ failures' = IF failures < Threshold THEN failures + 1 ELSE Threshold
    /\ cooldown' = IF failures + 1 >= Threshold THEN Cooldown ELSE cooldown

\* Ends the call after a last post of d units, or without one if d is 0.
End(result, d) ==
    /\ calling' = FALSE
    /\ outcome' = result
    /\ elapsed' = elapsed + d
    /\ UNCHANGED <<attempt, repairs, retries>>

\* A slip: the repair is not held to the budget.
WithinBudget_FirstRound == repairs > 0 \/ elapsed < Budget

WithinBudget == elapsed < Budget

LastAttempt == attempt >= MaxRetries

\* The budget is looked at before every post.
Posting == calling /\ WithinBudget

-----------------------------------------------------------------------------
(* The steps of _call_tool.                                                 *)

Begin ==
    /\ ~calling
    /\ cooldown = 0
    /\ calling' = TRUE
    /\ attempt' = 0
    /\ repairs' = 0
    /\ retries' = 0
    /\ elapsed' = 0
    /\ UNCHANGED <<outcome, breaker>>

\* A slip: a refusal counts as a failure.
Refuse_Counts ==
    /\ ~calling
    /\ cooldown > 0
    /\ outcome' = "refused"
    /\ RegisterFailure
    /\ UNCHANGED <<calling, attempt, repairs, retries, elapsed>>

Refuse ==
    /\ ~calling
    /\ cooldown > 0
    /\ outcome' = "refused"
    /\ UNCHANGED <<calling, attempt, repairs, retries, elapsed, breaker>>

OverBudget ==
    /\ calling
    /\ ~WithinBudget
    /\ RegisterFailure
    /\ End("failed", 0)

\* A timeout, 429 or 5xx that is tried again.
Retry ==
    /\ Posting
    /\ ~LastAttempt
    /\ attempt' = attempt + 1
    /\ retries' = retries + 1
    /\ \E d \in 0 .. PostTime, nap \in 1 .. Backoff : elapsed' = elapsed + d + nap
    /\ UNCHANGED <<calling, repairs, outcome, breaker>>

\* The same on the last attempt of a round.
GiveUp ==
    /\ Posting
    /\ LastAttempt
    /\ RegisterFailure
    /\ \E d \in 0 .. PostTime : End("failed", d)

\* A connection error, another 4xx or a body that is no JSON: raised, not counted.
Escape ==
    /\ Posting
    /\ \E d \in 0 .. PostTime : End("escaped", d)
    /\ UNCHANGED breaker

\* Invalid tool output is repaired once, with a fresh round of attempts.
Repair ==
    /\ Posting
    /\ repairs = 0
    /\ repairs' = 1
    /\ attempt' = 0
    /\ \E d \in 0 .. PostTime : elapsed' = elapsed + d
    /\ UNCHANGED <<calling, retries, outcome, breaker>>

Invalid ==
    /\ Posting
    /\ repairs >= 1
    /\ \E d \in 0 .. PostTime : End("invalid", d)
    /\ UNCHANGED breaker

\* Valid output closes the breaker, also when the caller refutes what it says.
Answer ==
    /\ Posting
    /\ failures' = 0
    /\ \E d \in 0 .. PostTime, result \in Verdict : End(result, d)
    /\ UNCHANGED cooldown

\* Time passes between calls.
Wait ==
    /\ ~calling
    /\ cooldown > 0
    /\ cooldown' = cooldown - 1
    /\ UNCHANGED <<call, failures>>

Next ==
    \/ Begin \/ Refuse \/ OverBudget \/ Retry \/ GiveUp
    \/ Escape \/ Repair \/ Invalid \/ Answer \/ Wait

Spec == Init /\ [][Next]_vars

\* Time passes whatever the callers do.
FairSpec == Spec /\ WF_vars(Wait)

-----------------------------------------------------------------------------
TypeOK ==
    /\ calling \in BOOLEAN
    /\ attempt \in 0 .. MaxRetries
    /\ repairs \in 0 .. 1
    /\ retries \in Nat
    /\ elapsed \in Nat
    /\ failures \in 0 .. Threshold
    /\ cooldown \in 0 .. Cooldown
    /\ outcome \in Outcome

\* A repair starts a second round of attempts (agent.py 429-449), so the retry_count of the
\* evidence can pass max_retries; over both rounds it never passes twice that.
RetriesAreBounded == retries <= 2 * MaxRetries

\* max_total_inference_seconds is only looked at before a post (agent.py 391-396): a call
\* outlasts it by less than one post and one sleep, through however many rounds and retries.
EndsNearBudget == elapsed < Budget + PostTime + Backoff

\* A call runs only while the breaker lets it, Threshold failed calls with no valid output
\* between them open it, whatever refused, excused and repaired calls lie between, and a call
\* that fails after the cooldown opens it at once (agent.py 379-380, 481-486).
Breaker ==
    INSTANCE CircuitBreaker WITH
        breaker <- IF cooldown > 0 THEN "open"
                   ELSE IF failures < Threshold THEN "closed" ELSE "probing",
        strikes <- failures

ImplementsCircuitBreaker == Breaker!Spec

\* An open breaker lets a call try again, however often it refused calls meanwhile: refusals
\* neither count as failures nor prolong the cooldown (agent.py 379-380).
AdmitsAgain == (cooldown > 0) ~> (cooldown = 0)

=============================================================================
