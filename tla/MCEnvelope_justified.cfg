SPECIFICATION Spec
CONSTANTS
  Shapes <- MCShapes
  Calls <- MCCalls
  MAX_CHILDREN = 1
  MAX_ENVELOPE = 4
  MaxFaults = 0
INVARIANTS
  EnvelopeJustified
