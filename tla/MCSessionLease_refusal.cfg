SPECIFICATION Spec
CONSTANTS
  Process = {p1, p2}
  MaxLeases = 4
  HumanErrs = FALSE
INVARIANT RefusalIsNotAFailure
