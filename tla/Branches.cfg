SPECIFICATION FairSpec
CONSTANTS
  Choices <- MCAcceptance
  Evidence <- MCEvidence
  Arriving <- MCNone
  Fragile = {"resolution"}
  Order <- MCTwice
  Probings <- MCProbings
  Followed = TRUE
INVARIANTS TypeOK LoopSeenOnlyInStaleFiles AcceptedXiangShanIsStale AcceptedVortexIsBacked
CHECK_DEADLOCK FALSE
