\* Every speed and latency on offer; four timer ticks may meet between two renders.
SPECIFICATION FairSpec
CONSTANTS
    Speeds = {1, 2, 4}
    Latencies = {84, 150, 240}
    MaxTicks = 4
INVARIANTS
    FieldTestOK
    ScreenAgrees
    ExportTellsTheRun
PROPERTIES
    ImplementsSafeStop
    RunEnds
