SPECIFICATION Spec
CONSTANTS
  Results = {red, blue}
  Randomness = {h}
  MaxAttempts = 3
  MaxStalls = 1
  Budgets <- MCNoFault
  Pending = Pending
  None = None
CHECK_DEADLOCK FALSE
INVARIANTS
  NoBetLeftBehind
