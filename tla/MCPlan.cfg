SPECIFICATION FairSpec
CONSTANTS
  MAX_INTERVIEW_QUESTIONS = 1
  Members = 1
  rounds = 1
  slice = 2
  max_provider_turns = 1
  Sections = 2
  StartFails = TRUE
  MaxEvents = 6
  MaxMoves = 1
  MaxCouncils = 1
INVARIANTS
  LiveIsReplay
  HandoffWasApproved
  SynthesisWasReviewed
PROPERTIES
  ReviewIsLinked
CHECK_DEADLOCK FALSE
