SPECIFICATION Spec
CONSTANTS
  Users <- MCUsers1
  MaxRounds = 1
  MaxTime = 2
  MaxVault = 10
  Stakes = {10}
  Amounts = {}
  Selections <- MCSelections
  Outcomes = {even, odd}
  CommunityOutcomes = {comm}
  WinsOn <- MCWinsOn
  Edges = {1000}
  OddsBps <- MCOddsBps
  Randomness = {h}
  MinLockDuration = 1
  MaxPredicting = 2
  MaxU32 = 2
  MaxU64 = 4000
  Pending = Pending
  None = None
  ua = ua
  ub = ub
  even = even
  odd = odd
  comm = comm
CHECK_DEADLOCK FALSE
INVARIANTS
  CounterExact
  CommitAfterLockWindow
  CopiesInOrder
PROPERTIES
  BaseNeverRollsBack
  ImplementsRoundAccount
