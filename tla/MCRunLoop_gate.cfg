SPECIFICATION FairSpec
CONSTANTS
  Call = {"write", "command", "skill", "finish"}
  NoCall = "nocall"
  Tier <- MCTier
  Command <- MCCommand
  NeedsTrust <- MCNeedsTrust
  GrantsTrust <- MCGrantsTrust
  Completion <- MCCompletion
  ModelTiers = {"Supervised", "Standard"}
  Mode = {"ReadOnly", "Ask", "WorkspaceWrite", "FullAuto"}
  MaxRuns = 1
  MaxBatch = 2
  MaxSteering = 1
  max_provider_turns = 2
  max_tool_calls = 2
\* An ended session whose process is gone has nothing left to do.
CHECK_DEADLOCK FALSE
INVARIANTS
  GateHonoured
  ResumeNeverWidens
PROPERTIES
  BudgetBoundsEveryRun
