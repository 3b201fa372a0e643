SPECIFICATION FairSpec
CONSTANTS
    NumShards = 5
    Workers = 2
    TopK = 1
    Regions = {r1, r2}
    Budget = {r1, r2}
    MaxScore = 1
    MinCompleted = 2
    StableShards = 2
    MaxNewRegions = 0
    MaxHitGain = 0
    MaxChurnPct = 20
    None = None
    NoFile = NoFile
    Failed = Failed
CHECK_DEADLOCK FALSE
INVARIANTS
    TypeOK
    StopIsWhereConverged
    ReturnAccountsForAll
PROPERTIES
    OnlyStragglersMoveTheStop
    CampaignEnds
