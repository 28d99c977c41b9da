SPECIFICATION Spec
CONSTANTS
  MAX_INTERVIEW_QUESTIONS = 1
  Members = 2
  rounds = 2
  slice = 4
  max_provider_turns = 2
  Sections = 1
  StartFails = FALSE
  MaxEvents = 2
  MaxMoves = 0
  MaxCouncils = 1
INVARIANT CouncilWithinSlice
\* The bound on events stops the session.
CHECK_DEADLOCK FALSE
