SPECIFICATION Spec
\* The bound on appended events stops the session.
CHECK_DEADLOCK FALSE
CONSTANTS
  MaxEvents = 12
  MaxNotes = 1
PROPERTY TranscriptIsTheBranch
