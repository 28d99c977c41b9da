SPECIFICATION AnsweringSpec
CONSTANTS
  Call = {"write", "command"}
  NoCall = "nocall"
  Tier <- MCTier
  Command <- MCCommand
  NeedsTrust <- MCNeedsTrust
  GrantsTrust <- MCGrantsTrust
  Completion <- MCCompletion
  ModelTiers = {"Standard"}
  Mode = {"WorkspaceWrite"}
  MaxRuns = 1
  MaxBatch = 2
  MaxSteering = 0
  max_provider_turns = 2
  max_tool_calls = 2
\* An ended session whose process is gone has nothing left to do.
CHECK_DEADLOCK FALSE
PROPERTIES
  CancelReachesTheEnd
