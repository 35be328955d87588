SPECIFICATION Spec
CONSTANTS
  Results = {red, blue}
  Randomness = {h}
  MaxAttempts = 3
  MaxStalls = 1
  Budgets <- MCBudgets
  Pending = Pending
  None = None
CHECK_DEADLOCK FALSE
INVARIANTS
  TypeOK
  LockedOnChain
  RevealedIsOnChain
  CommitmentHonoured
  SettleOnlyRevealed
PROPERTIES
  AttestationIsFinal
  TerminalStays
