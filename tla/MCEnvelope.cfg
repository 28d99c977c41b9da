SPECIFICATION Spec
CONSTANTS
  Shapes <- MCShapes
  Calls <- MCCalls
  MAX_CHILDREN = 1
  MAX_ENVELOPE = 4
  MaxFaults = 2
INVARIANTS
  GivenWasArmed
  ChildrenWithinAuthority
PROPERTIES
  NothingInFlightWidens
