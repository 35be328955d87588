SPECIFICATION FairSpec
CONSTANTS
  Bets = {win, lose, late}
  Wins = {win}
  LateBets = {}
  Workers = {w1}
  Stake = 10
  Odds = 180
  Liquidity = 30
  MaxAttempts = 3
  MaxStalls = 0
  MaxRefunds = 1
  MaxTimeouts = 1
  MaxRollupTimeouts = 0
  MaxStoreErrors = 0
  MaxCrashes = 0
  None = None
  win = win
  lose = lose
  late = late
  w1 = w1
  w2 = w2
CHECK_DEADLOCK FALSE
PROPERTIES
  PendingBetsClose
  SettlementEnds
