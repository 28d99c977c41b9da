SPECIFICATION Spec
CONSTANTS
  MAX_INTERVIEW_QUESTIONS = 1
  Members = 2
  rounds = 2
  slice = 6
  max_provider_turns = 1
  Sections = 1
  StartFails = FALSE
  MaxEvents = 6
  MaxMoves = 2
  MaxCouncils = 0
\* The bound on events stops the session.
CHECK_DEADLOCK FALSE
INVARIANT HistoryReplays
