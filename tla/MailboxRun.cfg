SPECIFICATION FairSpec
CONSTANTS
    Word = 8
    MaxDelta = 2
    PcDelta = 4
    MaxLimit = 2
    SeedCycles = {0, 6}
    SeedReasons = {"none", "breakpoint"}
INVARIANTS TypeOK ReasonTellsWhy FaultIsCurrent
PROPERTIES RunEnds
