\* Does the vehicle stop whenever the workflow is BLOCKED?
SPECIFICATION Spec
CONSTANTS
    Session = {s1}
    Key = {k1}
    Role = {"approver", "executor", "safety"}
    RouteLength = {3}
    MaxMission = 1
    MaxVersion = 4
    MaxHistory = 9
INVARIANTS
    BlockageAlwaysStops
CHECK_DEADLOCK FALSE
