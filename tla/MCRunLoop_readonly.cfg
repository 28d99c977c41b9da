SPECIFICATION Spec
CONSTANTS
  Call = {"extension", "read"}
  NoCall = "nocall"
  Tier <- MCTier
  Command <- MCCommand
  NeedsTrust <- MCNeedsTrust
  GrantsTrust <- MCGrantsTrust
  Completion <- MCCompletion
  ModelTiers = {"Standard"}
  Mode = {"ReadOnly"}
  MaxRuns = 1
  MaxBatch = 1
  MaxSteering = 0
  max_provider_turns = 1
  max_tool_calls = 1
\* An ended session whose process is gone has nothing left to do.
CHECK_DEADLOCK FALSE
INVARIANTS
  ReadOnlyRunsOnlyReads
