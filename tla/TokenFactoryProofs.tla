-------------------------- MODULE TokenFactoryProofs --------------------------
(***************************************************************************)
(* Proofs about TokenFactory, for every setting of retries, budget,         *)
(* threshold and cooldown: the bounds of a call, and that the provider is a *)
(* circuit breaker.                                                         *)
(***************************************************************************)
EXTENDS TokenFactory, TLAPS

\* Why retries are bounded: at most MaxRetries were used up before the repair.
RoundsAddUp == retries <= (IF repairs = 0 THEN 0 ELSE MaxRetries) + attempt

\* Why a call never runs under an open breaker: only calls open it, at their end.
OpenMeansQuiet ==
    /\ calling => cooldown = 0
    /\ cooldown > 0 => failures = Threshold

Inv ==
    /\ TypeOK
    /\ RoundsAddUp
    /\ OpenMeansQuiet
    /\ EndsNearBudget

LEMMA RegisterFailureFacts ==
    ASSUME TypeOK, RegisterFailure
    PROVE  /\ failures' \in 0 .. Threshold
           /\ cooldown' \in 0 .. Cooldown
           /\ cooldown = 0 /\ cooldown' > 0 => failures' = Threshold
BY SettingsAssumption DEF TypeOK, RegisterFailure

LEMMA EndFacts ==
    ASSUME TypeOK, RoundsAddUp,
           NEW result \in Outcome, NEW d \in Nat, End(result, d)
    PROVE  /\ ~calling'
           /\ attempt' \in 0 .. MaxRetries
           /\ repairs' \in 0 .. 1
           /\ retries' \in Nat
           /\ elapsed' \in Nat
           /\ outcome' \in Outcome
           /\ RoundsAddUp'
           /\ elapsed' = elapsed + d
BY SettingsAssumption DEF TypeOK, RoundsAddUp, End

\* A call that ends after a post it began in time, its failure counted or not.
LEMMA EndKeepsInv ==
    ASSUME Inv, NEW result \in Outcome, NEW d \in 0 .. PostTime, End(result, d), calling,
           d = 0 \/ WithinBudget,
           \/ RegisterFailure
           \/ UNCHANGED breaker
           \/ failures' = 0 /\ UNCHANGED cooldown
    PROVE  Inv'
<1> USE SettingsAssumption
<1>1. d \in Nat /\ cooldown = 0 /\ elapsed \in Nat /\ TypeOK /\ RoundsAddUp /\ EndsNearBudget
  BY DEF Inv, OpenMeansQuiet, TypeOK
<1>2. /\ ~calling' /\ calling' \in BOOLEAN
      /\ attempt' \in 0 .. MaxRetries /\ repairs' \in 0 .. 1 /\ retries' \in Nat
      /\ elapsed' \in Nat /\ outcome' \in Outcome /\ RoundsAddUp' /\ elapsed' = elapsed + d
  BY <1>1, EndFacts DEF End
<1>3. /\ failures' \in 0 .. Threshold /\ cooldown' \in 0 .. Cooldown
      /\ cooldown' > 0 => failures' = Threshold
  <2>1. CASE RegisterFailure
    BY <1>1, <2>1, RegisterFailureFacts
  <2>2. CASE UNCHANGED breaker
    BY <1>1, <2>2 DEF TypeOK, breaker
  <2>3. CASE failures' = 0 /\ UNCHANGED cooldown
    BY <1>1, <2>3 DEF TypeOK
  <2>4. QED
    BY <2>1, <2>2, <2>3
<1>4. EndsNearBudget'
  BY <1>1, <1>2 DEF EndsNearBudget, WithinBudget
<1>5. TypeOK' /\ OpenMeansQuiet'
  BY <1>2, <1>3 DEF TypeOK, OpenMeansQuiet
<1>6. QED
  BY <1>2, <1>4, <1>5 DEF Inv

LEMMA InitInv == Init => Inv
<1> SUFFICES ASSUME Init PROVE Inv
  OBVIOUS
<1>1. calling \in BOOLEAN /\ ~calling
  BY DEF Init
<1>2. outcome \in Outcome
  BY DEF Init, Outcome
<1>3. /\ attempt \in 0 .. MaxRetries /\ repairs \in 0 .. 1 /\ retries \in Nat
      /\ elapsed \in Nat /\ failures \in 0 .. Threshold /\ cooldown \in 0 .. Cooldown
      /\ cooldown = 0 /\ RoundsAddUp /\ EndsNearBudget
  BY SettingsAssumption DEF Init, RoundsAddUp, EndsNearBudget
<1>4. QED
  BY <1>1, <1>2, <1>3 DEF Inv, TypeOK, OpenMeansQuiet

LEMMA StepInv == Inv /\ [Next]_vars => Inv'
<1> SUFFICES ASSUME Inv, [Next]_vars PROVE Inv'
  OBVIOUS
<1> USE SettingsAssumption
<1>1. CASE Begin
  BY <1>1 DEF Inv, Begin, TypeOK, RoundsAddUp, OpenMeansQuiet, EndsNearBudget, breaker
<1>2. CASE Refuse
  BY <1>2 DEF Inv, Refuse, TypeOK, RoundsAddUp, OpenMeansQuiet, EndsNearBudget, Outcome, breaker
<1>3. CASE OverBudget
  BY <1>3, EndKeepsInv DEF OverBudget, Outcome
<1>4. CASE Retry
  <2>1. PICK d \in 0 .. PostTime, nap \in 1 .. Backoff : elapsed' = elapsed + d + nap
    BY <1>4 DEF Retry
  <2>2. TypeOK' /\ RoundsAddUp' /\ OpenMeansQuiet'
    BY <1>4, <2>1
       DEF Inv, Retry, Posting, LastAttempt, TypeOK, RoundsAddUp, OpenMeansQuiet, breaker
  <2>3. EndsNearBudget'
    BY <1>4, <2>1 DEF Inv, TypeOK, Retry, Posting, WithinBudget, EndsNearBudget
  <2>4. QED
    BY <2>2, <2>3 DEF Inv
<1>5. CASE GiveUp
  BY <1>5, EndKeepsInv DEF GiveUp, Posting, Outcome
<1>6. CASE Escape
  BY <1>6, EndKeepsInv DEF Escape, Posting, Outcome
<1>7. CASE Repair
  <2>1. PICK d \in 0 .. PostTime : elapsed' = elapsed + d
    BY <1>7 DEF Repair
  <2>2. TypeOK' /\ RoundsAddUp' /\ OpenMeansQuiet'
    BY <1>7, <2>1 DEF Inv, Repair, Posting, TypeOK, RoundsAddUp, OpenMeansQuiet, breaker
  <2>3. EndsNearBudget'
    BY <1>7, <2>1 DEF Inv, TypeOK, Repair, Posting, WithinBudget, EndsNearBudget
  <2>4. QED
    BY <2>2, <2>3 DEF Inv
<1>8. CASE Invalid
  BY <1>8, EndKeepsInv DEF Invalid, Posting, Outcome
<1>9. CASE Answer
  BY <1>9, EndKeepsInv DEF Answer, Posting, Outcome, Verdict
<1>10. CASE Wait
  BY <1>10 DEF Inv, Wait, TypeOK, RoundsAddUp, OpenMeansQuiet, EndsNearBudget, call
<1>11. CASE UNCHANGED vars
  BY <1>11
     DEF Inv, TypeOK, RoundsAddUp, OpenMeansQuiet, EndsNearBudget, vars, call, breaker
<1>12. QED
  BY <1>1, <1>2, <1>3, <1>4, <1>5, <1>6, <1>7, <1>8, <1>9, <1>10, <1>11 DEF Next

\* The counters of a call and of the breaker stay in their ranges, and the bounds that
\* follow from it hold, whatever the settings.
THEOREM Invariant == Spec => []Inv
BY InitInv, StepInv, PTL DEF Spec

THEOREM TypeCorrect == Spec => []TypeOK
<1>1. Inv => TypeOK
  BY DEF Inv
<1>2. QED
  BY <1>1, Invariant, PTL

\* One call retries at most twice max_retries, its repair included.
THEOREM RetriesBounded == Spec => []RetriesAreBounded
<1>1. Inv => RetriesAreBounded
  BY SettingsAssumption DEF Inv, TypeOK, RoundsAddUp, RetriesAreBounded
<1>2. QED
  BY <1>1, Invariant, PTL

\* One call outlasts its budget by less than one post and one sleep.
THEOREM CallsEndNearBudget == Spec => []EndsNearBudget
<1>1. Inv => EndsNearBudget
  BY DEF Inv
<1>2. QED
  BY <1>1, Invariant, PTL

-----------------------------------------------------------------------------
(* The provider is a circuit breaker.                                       *)

\* What the end of a call does to the breaker a caller sees.
LEMMA FailureIsAStrike ==
    ASSUME Inv, calling, ~calling', RegisterFailure
    PROVE  Breaker!Strike \/ Breaker!Trip
<1> USE SettingsAssumption
<1>1. cooldown = 0 /\ failures \in 0 .. Threshold
  BY DEF Inv, OpenMeansQuiet, TypeOK
<1>2. CASE failures + 1 < Threshold
  BY <1>1, <1>2 DEF RegisterFailure, Breaker!Strike
<1>3. CASE failures + 1 >= Threshold
  BY <1>1, <1>3 DEF RegisterFailure, Breaker!Trip
<1>4. QED
  BY <1>1, <1>2, <1>3

LEMMA InitImplements == Init => Breaker!Init
BY SettingsAssumption DEF Init, Breaker!Init

LEMMA StepImplements == Inv /\ [Next]_vars => [Breaker!Next]_Breaker!vars
<1> SUFFICES ASSUME Inv, [Next]_vars
             PROVE  Breaker!Next \/ UNCHANGED Breaker!vars
  OBVIOUS
<1> USE SettingsAssumption
<1>1. CASE Begin
  <2>1. Breaker!Admit
    BY <1>1 DEF Begin, breaker, Breaker!Admit
  <2>2. QED
    BY <2>1 DEF Breaker!Next
<1>2. CASE Refuse
  BY <1>2 DEF Refuse, breaker, Breaker!vars
<1>3. CASE OverBudget \/ GiveUp
  <2>1. calling /\ ~calling' /\ RegisterFailure
    BY <1>3 DEF OverBudget, GiveUp, Posting, End
  <2>2. QED
    BY <2>1, FailureIsAStrike DEF Breaker!Next
<1>4. CASE Retry
  BY <1>4 DEF Retry, breaker, Breaker!vars
<1>5. CASE Escape \/ Invalid
  <2>1. Breaker!Excuse
    BY <1>5 DEF Escape, Invalid, Posting, End, breaker, Breaker!Excuse
  <2>2. QED
    BY <2>1 DEF Breaker!Next
<1>6. CASE Repair
  BY <1>6 DEF Repair, breaker, Breaker!vars
<1>7. CASE Answer
  <2>1. calling /\ ~calling' /\ failures' = 0 /\ cooldown' = cooldown
    BY <1>7 DEF Answer, Posting, End
  <2>2. cooldown = 0
    BY <2>1 DEF Inv, OpenMeansQuiet
  <2>3. Breaker!Succeed
    BY <2>1, <2>2 DEF Breaker!Succeed
  <2>4. QED
    BY <2>3 DEF Breaker!Next
<1>8. CASE Wait
  <2>1. /\ cooldown \in 0 .. Cooldown /\ cooldown > 0 /\ failures = Threshold
        /\ cooldown' = cooldown - 1 /\ failures' = failures /\ calling' = calling
    BY <1>8 DEF Wait, call, Inv, TypeOK, OpenMeansQuiet
  <2>2. CASE cooldown = 1
    <3>1. Breaker!Cool
      BY <2>1, <2>2 DEF Breaker!Cool
    <3>2. QED
      BY <3>1 DEF Breaker!Next
  <2>3. CASE cooldown > 1
    BY <2>1, <2>3 DEF Breaker!vars
  <2>4. QED
    BY <2>1, <2>2, <2>3
<1>9. CASE UNCHANGED vars
  BY <1>9 DEF vars, call, breaker, Breaker!vars
<1>10. QED
  BY <1>1, <1>2, <1>3, <1>4, <1>5, <1>6, <1>7, <1>8, <1>9 DEF Next

\* The provider implements CircuitBreaker: no call runs while the breaker is open, and it
\* opens exactly on the Threshold-th failure since the last valid output, or on any failure
\* of a probe.
THEOREM Implements == Spec => ImplementsCircuitBreaker
<1>1. Init => Breaker!Init
  BY InitImplements
<1>2. Inv /\ [Next]_vars => [Breaker!Next]_Breaker!vars
  BY StepImplements
<1>3. QED
  BY <1>1, <1>2, Invariant, PTL DEF Spec, ImplementsCircuitBreaker, Breaker!Spec
=============================================================================
