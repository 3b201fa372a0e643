SPECIFICATION FairSpec
CONSTANTS
  Choices <- MCNoChoice
  Evidence <- MCRepository
  Arriving <- MCNone
  Fragile = {}
  Order <- MCTwice
  Probings <- MCProbings
  Followed = TRUE
PROPERTY FollowingSettles
CHECK_DEADLOCK FALSE
