\* Does a replanned mission go on under the approval it has?
SPECIFICATION Spec
CONSTANTS
    Session = {s1}
    Key = {k1, k2}
    Role = {"approver", "executor", "safety"}
    RouteLength = {4}
    MaxMission = 2
    MaxVersion = 6
    MaxHistory = 13
PROPERTIES
    ResumesUnderExistingApproval
CHECK_DEADLOCK FALSE
