SPECIFICATION FairSpec
CONSTANTS
  Results = {red, blue}
  Randomness = {h}
  MaxAttempts = 3
  MaxStalls = 1
  Budgets <- MCTwoTimeouts
  Pending = Pending
  None = None
CHECK_DEADLOCK FALSE
PROPERTIES
  BetReachesSettlement
  RoundEnds
