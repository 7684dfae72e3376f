\* Three requests, retries of one another or not, and one crash.
SPECIFICATION NamedSpec
CONSTANTS
    r1 = r1
    a = a
    i = i
    l1 = l1
    Request = {r1, r2, r3}
    Slot = {a, b}
    Input = {i, j}
    Ledger = {l1, l2}
    MaxCrash = 1
INVARIANTS
    AtMostOnce
    AnswersAgree
    ResponseShowsOwnEffect
    AuditIsHonest
PROPERTIES
    ImplementsOnceOnly
    EveryRequestAnswered
CHECK_DEADLOCK FALSE
