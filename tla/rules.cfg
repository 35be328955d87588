SPECIFICATION Spec
CONSTANTS
  Markets <- AllMarkets
  Edges = {200, 6000}
  Partitions = {3}
  Typed <- TypedNumbers
  Encodings <- WalletSelections
  Stakes = {1, 33}
  Scores = {0, 625, 700}
  MaxStreak = 5
  MaxChanges = 1
  None = None
CHECK_DEADLOCK FALSE
INVARIANTS
  TypeOK
  
  RecordsAgree
  FairPrice
  PaidAsShown
