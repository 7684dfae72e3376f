\* One session, two idempotency keys: every operation, its failures, those of the
\* evidence recorder included, and the second approval of a replanned mission.
SPECIFICATION Spec
CONSTANTS
    Session = {s1}
    Key = {k1, k2}
    Role = {"operator", "approver", "executor", "safety", "admin"}
    RouteLength = {2, 3}
    MaxMission = 2
    MaxVersion = 9
    MaxHistory = 13
SYMMETRY Symmetry
INVARIANTS
    MotionIsAttended
    StoppedUntilResumed
    OneDispatchPerProposal
    CompletedMeansDelivered
    CommitsAreSerial
PROPERTIES
    TerminalIsFinal
    ImplementsMotionAuthority
CHECK_DEADLOCK FALSE
