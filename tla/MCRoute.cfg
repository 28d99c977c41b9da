SPECIFICATION FairSpec
CONSTANTS
  Provider <- MCProvider
  Route <- MCRoute
  failure_threshold = 2
  max_provider_turns = 3
  Configured = TRUE
  MaxFaults = 1
INVARIANTS
  ChargesWhomItAsks
PROPERTIES
  HardStopHolds
CHECK_DEADLOCK FALSE
