SPECIFICATION Spec
CONSTANTS
  Users <- MCUsers2
  MaxRounds = 1
  MaxTime = 2
  MaxVault = 10
  Stakes = {10}
  Amounts = {10}
  Selections <- MCSelections
  Outcomes = {even}
  CommunityOutcomes = {}
  WinsOn <- MCWinsOn
  Edges = {0, 1000}
  OddsBps <- MCOddsBps
  Randomness = {}
  MinLockDuration = 1
  MaxPredicting = 2
  MaxU32 = 2
  MaxU64 = 4000
  Pending = Pending
  None = None
  ua = ua
  ub = ub
  even = even
  odd = odd
  comm = comm
CHECK_DEADLOCK FALSE
INVARIANTS
  TypeOK
  BooksBalance
  SettledRoundHasNoOpenBet
  BetsPrecedeLock
PROPERTIES
  ImplementsBetBook
