\* Two runs of the replay while four of the files are answered.
SPECIFICATION FairSpec
CONSTANTS
    MaxRuns = 2
    Answers <- SomeAnswers
INVARIANTS
    MissionScreenAgrees
    FailureIsNeverHidden
PROPERTIES
    ReplayGoesForward
    ReplayEnds
    ClaimsStand
