SPECIFICATION Spec
CONSTANTS
  Context <- MCContext
  First = "a"
  EVENT_CAPACITY = 2
  UPDATE_CAPACITY = 1
  Fragile = {"a"}
  Busy = FALSE
  Calls = {"request", "select"}
  MaxEvents <- MCMaxEvents
  MaxChanges <- MCMaxChanges
  MaxCalls = 1
INVARIANTS
  BubbleIsRetired
  ScreenIsCurrent
PROPERTIES
  GapIsResynced
CHECK_DEADLOCK FALSE
