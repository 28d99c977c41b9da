SPECIFICATION FairSpec
CONSTANTS
  OverlapPolicies = {"Skip", "Queue", "Replace"}
  max_consecutive_failures = 2
  MaxFirings = 3
  MaxFaults = 1
INVARIANTS
  OneFiring
  NeverWedged
  BrokenTriggerIsDisabled
PROPERTIES
  QueuedFires
CHECK_DEADLOCK FALSE
