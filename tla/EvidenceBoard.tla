---------------------------- MODULE EvidenceBoard ----------------------------
(***************************************************************************)
(* The evidence the console loads and what it claims on its strength        *)
(* (mission-console.tsx): nine files are fetched when the console is        *)
(* mounted, each arrives, fails or stays away on its own, and the header    *)
(* and the cards of the evidence view word what has arrived.  A file is     *)
(* the truth values of the fields the screen decides by, and of an optional *)
(* field whether the file has it; the numbers it prints are left out, and a *)
(* print of them is "shown".                                                *)
(***************************************************************************)
EXTENDS FiniteSets

CONSTANT Answers        \* what each fetch may bring; nothing: it stays away

Reports == {"heroSummary", "scenarioMetrics", "judgeLoad", "impactLoad", "screenshotEvidence",
            "liveGate", "liveRuntime", "serverless", "releaseAcceptance"}

\* The fields the screen decides by.  Each item of the release matrix has one of three
\* statuses; here the set of those that occur.  The hero summary may come without its
\* model calls, its cost or its metrics; the metrics are of a mission completed or not.
ScenarioMetrics == [of : {"scenarioMetrics"}]
ImpactLoadModel == [of : {"impactLoad"}]
LiveRuntimeSummary == [of : {"liveRuntime"}]
HeroSummary ==
    [of : {"heroSummary"}, trace_chain_valid : BOOLEAN, model_calls : BOOLEAN,
     estimated_model_cost_usd : BOOLEAN, operation_metrics : {"none", "completed", "incomplete"}]
JudgeLoadEvidence == [of : {"judgeLoad"}, acceptance_passed : BOOLEAN]
ScreenshotEvidence == [of : {"screenshotEvidence"}, final_submission_eligible : BOOLEAN]
LiveGateEvidence == [of : {"liveGate"}, official_gate_passed : BOOLEAN]
ServerlessReadiness ==
    [of : {"serverless"}, cloud_deployed : BOOLEAN, artifact_ready : BOOLEAN,
     smoke_test_passed : BOOLEAN]
ReleaseAcceptance ==
    [of : {"releaseAcceptance"},
     statuses : SUBSET {"passed", "external_evidence_required", "failed"}]

Loading == [of |-> "loading"]
Failed == [of |-> "failed"]
Contents ==
    UNION {HeroSummary, ScenarioMetrics, JudgeLoadEvidence, ImpactLoadModel, ScreenshotEvidence,
           LiveGateEvidence, LiveRuntimeSummary, ServerlessReadiness, ReleaseAcceptance}

ASSUME BoardAssumption ==
    /\ DOMAIN Answers = Reports
    /\ \A r \in Reports : \A c \in Answers[r] : c = Failed \/ (c \in Contents /\ c.of = r)

VARIABLES
    report,         \* what each fetch has brought
    evidenceError   \* some fetch has failed

board == <<report, evidenceError>>

Arrived(r) == report[r].of = r
Holds(r, field) == Arrived(r) /\ report[r][field]

-----------------------------------------------------------------------------
(* The screen.                                                              *)

evidenceStamp == IF Arrived("heroSummary") THEN "shown" ELSE "LOADING"

\* The tiles above the mission view that print the hero summary.
heroTiles ==
    [latency |-> IF Holds("heroSummary", "model_calls") THEN "shown" ELSE "loading",
     cost |-> IF Holds("heroSummary", "estimated_model_cost_usd") THEN "shown" ELSE "loading",
     safety |-> IF Arrived("heroSummary") THEN "shown" ELSE "loading"]

tracePill ==
    IF evidenceError THEN "EVIDENCE LOAD ERROR"
    ELSE IF Holds("heroSummary", "trace_chain_valid") THEN "TRACE CHAIN VALID"
    ELSE "VERIFYING TRACE"

heroTraceRow ==
    IF evidenceError THEN "LOAD ERROR"
    ELSE IF Holds("heroSummary", "trace_chain_valid") THEN "VALID"
    ELSE "VERIFYING"

gateBadge == IF Holds("liveGate", "official_gate_passed") THEN "LIVE GATE PASSED" ELSE "LIVE GATE VERIFYING"

\* A slip: a load error of any file withdraws the card's badge.
gateCard_UnlessError ==
    [badge |-> IF Holds("liveGate", "official_gate_passed") /\ ~evidenceError THEN "OFFICIAL GATE PASS"
               ELSE "VERIFYING",
     numbers |-> IF Arrived("liveGate") THEN "shown" ELSE "Loading signed-off aggregate report"]

gateCard ==
    [badge |-> IF Holds("liveGate", "official_gate_passed") THEN "OFFICIAL GATE PASS" ELSE "VERIFYING",
     numbers |-> IF Arrived("liveGate") THEN "shown" ELSE "Loading signed-off aggregate report"]

releaseCard ==
    IF Arrived("releaseAcceptance")
    THEN [badges |-> "shown", items |-> report["releaseAcceptance"].statuses]
    ELSE [badges |-> "LOADING", items |-> {}]

figures ==
    [scenarios |-> IF Arrived("scenarioMetrics") THEN "shown" ELSE "-",
     judgeLoad |-> IF Arrived("judgeLoad") THEN "shown" ELSE "-",
     judgeTone |-> IF Holds("judgeLoad", "acceptance_passed") THEN "emerald" ELSE "amber"]

receipts == IF Arrived("liveRuntime") THEN "shown" ELSE "Loading real-call receipts"

\* Without the optional model calls the card says that it is loading, arrived or not;
\* without the optional metrics their block is left out.
Metrics(outcome) == Arrived("heroSummary") /\ report["heroSummary"].operation_metrics = outcome

toolSpans ==
    [calls |-> IF Holds("heroSummary", "model_calls") THEN "shown" ELSE "Loading verified tool spans",
     result |-> IF Metrics("completed") THEN "TYPED RESULT PASS"
                ELSE IF Metrics("incomplete") THEN "INCOMPLETE" ELSE "-"]

\* The row A01-A02 of the boundary; the others are fixed.
boundaryRow == IF Holds("liveGate", "official_gate_passed") THEN "LIVE PASS" ELSE "VERIFYING"

judgeCard ==
    [badge |-> IF Holds("judgeLoad", "acceptance_passed") THEN "PASS" ELSE "VERIFYING",
     numbers |-> IF Arrived("judgeLoad") THEN "shown" ELSE "-"]

impactCard == IF Arrived("impactLoad") THEN "shown" ELSE "Loading projection"

serverlessCard ==
    [badge |-> IF Holds("serverless", "cloud_deployed") THEN "CLOUD DEPLOYED" ELSE "ACCOUNT-GATED",
     artifact |-> IF Holds("serverless", "artifact_ready") THEN "READY" ELSE "VERIFYING",
     smoke |-> IF Holds("serverless", "smoke_test_passed") THEN "100/100 PASS" ELSE "-",
     deployment |-> IF Holds("serverless", "cloud_deployed") THEN "SUCCEEDED" ELSE "NO RECEIPT",
     violations |-> IF Arrived("serverless") THEN "shown" ELSE "-",
     blockers |-> Arrived("serverless") /\ ~Holds("serverless", "cloud_deployed")]

finalGate ==
    [text |-> IF Holds("screenshotEvidence", "final_submission_eligible") THEN "screenshots eligible"
              ELSE IF Holds("liveGate", "official_gate_passed") THEN "gate passes, screenshots preflight-only"
              ELSE "screenshots preflight-only",
     badge |-> IF Holds("screenshotEvidence", "final_submission_eligible") THEN "FINAL LIVE EVIDENCE"
               ELSE "RECAPTURE REQUIRED"]

-----------------------------------------------------------------------------
\* The console is mounted, and its effect starts the fetches.
Mounted ==
    /\ report = [r \in Reports |-> Loading]
    /\ evidenceError = FALSE

Remounted ==
    /\ report' = [r \in Reports |-> Loading]
    /\ evidenceError' = FALSE

\* A slip: a file that arrives clears the error.
Arrive_Clears(r) ==
    /\ report[r] = Loading
    /\ \E c \in Answers[r] :
        /\ report' = [report EXCEPT ![r] = c]
        /\ evidenceError' = (c = Failed)

\* A fetch is answered: its then stores the file, or its catch notes the failure.
Arrive(r) ==
    /\ report[r] = Loading
    /\ \E c \in Answers[r] :
        /\ report' = [report EXCEPT ![r] = c]
        /\ evidenceError' = (evidenceError \/ c = Failed)

-----------------------------------------------------------------------------
(* What is checked.                                                         *)

\* The files some card or tile still waits for.
awaited ==
    {r \in Reports :
        \/ r = "heroSummary"
            /\ {evidenceStamp, toolSpans.calls, heroTiles.latency, heroTiles.cost, heroTiles.safety} # {"shown"}
        \/ r = "scenarioMetrics" /\ figures.scenarios # "shown"
        \/ r = "judgeLoad" /\ (figures.judgeLoad # "shown" \/ judgeCard.numbers # "shown")
        \/ r = "impactLoad" /\ impactCard # "shown"
        \/ r = "liveGate" /\ gateCard.numbers # "shown"
        \/ r = "liveRuntime" /\ receipts # "shown"
        \/ r = "serverless" /\ serverlessCard.violations # "shown"
        \/ r = "releaseAcceptance" /\ releaseCard.badges # "shown"}

\* What the screen claims to have been passed.
claims ==
    {gateBadge, gateCard.badge, boundaryRow, judgeCard.badge, serverlessCard.badge,
     serverlessCard.artifact, serverlessCard.smoke, finalGate.badge, toolSpans.result}
    \ {"LIVE GATE VERIFYING", "VERIFYING", "ACCOUNT-GATED", "-", "RECAPTURE REQUIRED", "INCOMPLETE"}

\* The optional parts a card or a tile would print, of which the hero summary has none.
omitted ==
    {part \in {"model_calls", "estimated_model_cost_usd"} :
        Arrived("heroSummary") /\ ~Holds("heroSummary", part)}

\* In whatever order the fetches are answered, a failure shows in the header and in the
\* manifest: the trace is called valid only while none has failed; what goes on saying that
\* it loads waits for a fetch under way, stands beside a load error, or belongs to a hero
\* summary that came without that part, for which it waits in silence and for ever; the
\* two places that print the model calls agree; and the gate is called passed in all three
\* places at once.
FailureIsNeverHidden ==
    LET gate == {"LIVE GATE PASSED", "OFFICIAL GATE PASS", "LIVE PASS"}
    IN /\ (\E r \in Reports : report[r] = Failed) <=> tracePill = "EVIDENCE LOAD ERROR"
       /\ tracePill = "EVIDENCE LOAD ERROR" <=> heroTraceRow = "LOAD ERROR"
       /\ tracePill = "TRACE CHAIN VALID" <=> heroTraceRow = "VALID"
       /\ \A r \in awaited :
            \/ report[r] = Loading \/ tracePill = "EVIDENCE LOAD ERROR"
            \/ r = "heroSummary" /\ omitted # {}
       /\ toolSpans.calls = "shown" <=> heroTiles.latency = "shown"
       /\ gate \subseteq claims \/ gate \intersect claims = {}
=============================================================================
