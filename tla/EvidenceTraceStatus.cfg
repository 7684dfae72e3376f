\* Does a status request that records beside an operation keep the chain?
SPECIFICATION Spec
CONSTANTS
    Writer = {w1}
    Reader = {r1}
    MaxSpan = 4
INVARIANT ChainHolds
