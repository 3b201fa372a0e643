SPECIFICATION Spec
CONSTANTS
  Choices <- MCChoices
  Evidence <- MCEvidence
  Arriving <- MCNone
  Fragile = {"policy_gate"}
  Order <- MCOrder
  MaxSkipped = 1
INVARIANTS TypeOK DecisionsAreBacked VeerAdviceIsStale
CHECK_DEADLOCK FALSE
