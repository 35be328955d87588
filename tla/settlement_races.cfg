SPECIFICATION Spec
CONSTANTS
  Bets = {win, lose}
  Wins = {win}
  LateBets = {lose}
  Workers = {w1, w2}
  Stake = 10
  Odds = 180
  Liquidity = 20
  MaxAttempts = 3
  MaxStalls = 1
  MaxRefunds = 1
  MaxTimeouts = 1
  MaxRollupTimeouts = 1
  MaxStoreErrors = 1
  MaxCrashes = 1
  None = None
  win = win
  lose = lose
  late = late
  w1 = w1
  w2 = w2
CHECK_DEADLOCK FALSE
SYMMETRY WorkersAlike
INVARIANTS
  TypeOK
  DbMatchesChain
  CountedOnce
  OnlyFaultsLoseRecords
