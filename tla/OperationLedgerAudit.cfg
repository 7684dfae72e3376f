\* Is every committed decision in the audit ledger?
SPECIFICATION Spec
CONSTANTS
    r1 = r1
    a = a
    i = i
    l1 = l1
    Request = {r1, r2, r3}
    Slot = {a}
    Input = {i}
    Ledger = {l1}
    MaxCrash = 1
INVARIANTS
    DecisionsAreAudited
CHECK_DEADLOCK FALSE
