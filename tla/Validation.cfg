SPECIFICATION Spec
CONSTANTS
  Processes = {p1, p2}
  Designs <- MCDesigns
  Sound <- MCSound
  MaxVersion = 2
  MaxJobs = 2
SYMMETRY Symmetry
INVARIANTS
  TypeOK
  ComparisonsAreBacked
  SuccessIsFresh
CHECK_DEADLOCK FALSE
