--------------------------- MODULE MCMissionConsole ---------------------------
(* Small instances of MissionConsole for TLC.                               *)
EXTENDS MissionConsole

Summary(valid, part, metrics) ==
    [of |-> "heroSummary", trace_chain_valid |-> valid, model_calls |-> part,
     estimated_model_cost_usd |-> part, operation_metrics |-> metrics]
Valid == Summary(TRUE, TRUE, "completed")
Bare == Summary(TRUE, FALSE, "none")
Broken == [Summary(FALSE, TRUE, "incomplete") EXCEPT !.estimated_model_cost_usd = FALSE]
Gate(passed) == [of |-> "liveGate", official_gate_passed |-> passed]
Eligible == [of |-> "screenshotEvidence", final_submission_eligible |-> TRUE]
Undeployed ==
    [of |-> "serverless", cloud_deployed |-> FALSE, artifact_ready |-> TRUE, smoke_test_passed |-> TRUE]

\* The hero summary, the gate, the screenshots and the serverless report are answered.
SomeAnswers ==
    [r \in Reports |->
        CASE r = "heroSummary" -> {Valid, Bare, Broken, Failed}
          [] r = "liveGate" -> {Gate(TRUE), Gate(FALSE)}
          [] r = "screenshotEvidence" -> {Eligible}
          [] r = "serverless" -> {Undeployed, Failed}
          [] OTHER -> {}]
=============================================================================
