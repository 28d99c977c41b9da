SPECIFICATION Spec
\* The bound on appended events stops the session.
CHECK_DEADLOCK FALSE
CONSTANTS
  MaxEvents = 6
  MaxNotes = 1
INVARIANTS
  NothingResurrected
  LinearResumesWhole
  RewindSurvivesRestart
