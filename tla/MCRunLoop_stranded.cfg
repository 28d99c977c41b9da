SPECIFICATION Spec
CONSTANTS
  Call = {"write"}
  NoCall = "nocall"
  Tier <- MCTier
  Command <- MCCommand
  NeedsTrust <- MCNeedsTrust
  GrantsTrust <- MCGrantsTrust
  Completion <- MCCompletion
  ModelTiers = {"Standard"}
  Mode = {"WorkspaceWrite"}
  MaxRuns = 1
  MaxBatch = 1
  MaxSteering = 1
  max_provider_turns = 2
  max_tool_calls = 1
\* An ended session whose process is gone has nothing left to do.
CHECK_DEADLOCK FALSE
INVARIANTS
  NoStrandedRun
