---------------------------- MODULE WorkflowState ----------------------------
(***************************************************************************)
(* The mission workflow's statuses and the transition table that            *)
(* WorkflowState.transition consults (state_machine.py).  A session keeps   *)
(* the whole history of its statuses; the current one is the last.          *)
(***************************************************************************)
EXTENDS Naturals, Sequences

MissionStatus ==
    {"INTENT", "NEEDS_INPUT", "OBSERVED", "PLANNED", "PROPOSED", "VERIFIED",
     "APPROVED", "EXECUTING", "BLOCKED", "SAFE_STOP", "REPLANNING",
     "COMPLETED", "REJECTED", "FAILED", "FAILED_SAFE"}

\* ALLOWED_TRANSITIONS, as the set of <<from, to>> pairs.
AllowedTransitions ==
    ({"INTENT"}      \X {"OBSERVED", "NEEDS_INPUT"}) \cup
    ({"NEEDS_INPUT"} \X {"INTENT", "REJECTED"}) \cup
    ({"OBSERVED"}    \X {"PLANNED", "FAILED_SAFE"}) \cup
    ({"PLANNED"}     \X {"PROPOSED", "REJECTED"}) \cup
    ({"PROPOSED"}    \X {"VERIFIED", "REJECTED"}) \cup
    ({"VERIFIED"}    \X {"APPROVED", "EXECUTING", "REJECTED", "FAILED_SAFE"}) \cup
    ({"APPROVED"}    \X {"EXECUTING", "REJECTED", "FAILED_SAFE"}) \cup
    ({"EXECUTING"}   \X {"BLOCKED", "COMPLETED", "FAILED_SAFE"}) \cup
    ({"BLOCKED"}     \X {"SAFE_STOP", "FAILED_SAFE"}) \cup
    ({"SAFE_STOP"}   \X {"REPLANNING", "FAILED_SAFE"}) \cup
    ({"REPLANNING"}  \X {"VERIFIED", "FAILED_SAFE"})

\* The statuses whose row of the table is empty.
Terminal == {"COMPLETED", "REJECTED", "FAILED", "FAILED_SAFE"}

\* Every two neighbouring statuses of h are a row of the table: the check
\* that WorkflowState.transition makes has never raised InvalidTransition.
LegalHistory(h) ==
    \A i \in 1..(Len(h) - 1) : <<h[i], h[i + 1]>> \in AllowedTransitions
=============================================================================
