SPECIFICATION FairSpec
CONSTANTS
    Procs = {p1, p2}
    Launches = {l1}
    Lanes = {a, b, c}
    UnboundLanes = {c}
    HsacoLanes = {b}
    MaxRuns = 2
    None = None
CHECK_DEADLOCK FALSE
INVARIANTS
    TypeOK
    ReleasedBundleIsRight
    UndisturbedRunIsRight
PROPERTIES
    RequestsEnd
