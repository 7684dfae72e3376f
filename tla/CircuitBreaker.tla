---------------------------- MODULE CircuitBreaker ----------------------------
(***************************************************************************)
(* What the model provider promises about a service that keeps failing: a   *)
(* call is let through only while the breaker is not open, Threshold failed *)
(* calls with no success between them open it, time lets one more call try, *)
(* and one success forgets every failure.  No retries, budgets or clocks.   *)
(***************************************************************************)
EXTENDS Naturals

CONSTANT Threshold

VARIABLES
    breaker,    \* "closed", "open" or "probing"
    strikes,    \* failed calls since the last success, up to Threshold
    calling     \* a call is let through and has not ended

vars == <<breaker, strikes, calling>>

Init ==
    /\ breaker = "closed"
    /\ strikes = 0
    /\ calling = FALSE

Admit ==
    /\ ~calling
    /\ breaker # "open"
    /\ calling' = TRUE
    /\ UNCHANGED <<breaker, strikes>>

Succeed ==
    /\ calling
    /\ calling' = FALSE
    /\ breaker' = "closed"
    /\ strikes' = 0

\* A failure that opens nothing yet.
Strike ==
    /\ calling
    /\ breaker = "closed"
    /\ strikes + 1 < Threshold
    /\ strikes' = strikes + 1
    /\ calling' = FALSE
    /\ UNCHANGED breaker

\* The Threshold-th failure, or any failure of a probe.
Trip ==
    /\ calling
    /\ strikes + 1 >= Threshold
    /\ strikes' = Threshold
    /\ breaker' = "open"
    /\ calling' = FALSE

\* A call that ends neither as a success nor as a failure of the service.
Excuse ==
    /\ calling
    /\ calling' = FALSE
    /\ UNCHANGED <<breaker, strikes>>

Cool ==
    /\ breaker = "open"
    /\ breaker' = "probing"
    /\ UNCHANGED <<strikes, calling>>

Next == Admit \/ Succeed \/ Strike \/ Trip \/ Excuse \/ Cool

Spec == Init /\ [][Next]_vars
=============================================================================
