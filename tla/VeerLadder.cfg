SPECIFICATION FairSpec
CONSTANTS
  Choices <- MCHoldSecond
  Evidence <- MCVariants
  Arriving <- MCWrongThreshold
  Fragile = {"same_acceptance_gate"}
INVARIANTS TypeOK GateTellsSelection AcceptedWasWon LeavingIsBacked
PROPERTY RefreshSettles
CHECK_DEADLOCK FALSE
