SPECIFICATION Spec
CONSTANTS
  Call = {"write"}
  NoCall = "nocall"
  Tier <- MCTier
  Command <- MCCommand
  NeedsTrust <- MCNeedsTrust
  GrantsTrust <- MCGrantsTrust
  Completion <- MCCompletion
  ModelTiers = {"Standard"}
  Mode = {"WorkspaceWrite", "FullAuto"}
  MaxRuns = 2
  MaxBatch = 1
  MaxSteering = 0
  max_provider_turns = 2
  max_tool_calls = 2
\* An ended session whose process is gone has nothing left to do.
CHECK_DEADLOCK FALSE
INVARIANTS
  CheckpointIsOnlyAnOptimisation
  IntentBeforeEffect
  UnapprovedNeverRan
  UnrecordedEffectExplained
  TrackerAgreesWithRun
PROPERTIES
  EffectsAreAccountedFor
  TerminalIsFinal
