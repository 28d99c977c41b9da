SPECIFICATION Spec
CONSTANTS
  MaxEdits = 4
  MaxCommands = 2
  MaxOutside = 2
  MaxTools = 1
  MaxFaults = 1
CHECK_DEADLOCK FALSE
INVARIANTS
  ViewFollowsOwnEffects
PROPERTIES
  CommittedIsApproved
  SuccessIsEvidence
  CleanFailureHadNoEffect
  NothingLostUnraced
