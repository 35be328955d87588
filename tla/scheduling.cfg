SPECIFICATION Spec
CONSTANTS
  Docs = {d1, d2}
  Runs = {a1, a2}
  MaxNumber = 4
  MaxAttempts = 2
  MaxLast = 2
  MaxFaults = 1
  MaxMeetings = 1
  None = None
CHECK_DEADLOCK FALSE
SYMMETRY DocsAlike
INVARIANTS
  TypeOK
  OpenIsOpened
PROPERTIES
  ImplementsRoundSeries
