SPECIFICATION FairSpec
CONSTANTS
  Children <- MCChildren
  MaxFaults = 2
INVARIANTS
  SettledIsComplete
  VerifiedIsFresh
PROPERTIES
  GroupSettles
  EveryChildIsHeardOf
CHECK_DEADLOCK FALSE
