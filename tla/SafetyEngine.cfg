\* Every map of four nodes whose edges are 1 or 3 long (two short edges beat a long one,
\* three tie with it), every kind of obstacle, and every wait-for graph of four vehicles.
SPECIFICATION PlanningSpec
CONSTANTS
    Node = {1, 2, 3, 4}
    Length = {1, 3}
    Vehicle = {u, v, w, x}
INVARIANTS
    AgreesWithReference
    RouteIsShortest
    UnsafeOnlyAtOrigin
    DeadlockIsRefused
PROPERTY PlanIsJudged
CHECK_DEADLOCK FALSE
