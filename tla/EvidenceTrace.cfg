\* Two operations and two status requests that record beside them, with failed writes.
SPECIFICATION Spec
CONSTANTS
    Writer = {w1, w2}
    Reader = {r1, r2}
    MaxSpan = 4
SYMMETRY Symmetry
INVARIANTS
    TraceVerifies
    LossShows
    ReferencesResolve
    SpansAreKept
