SPECIFICATION Spec
CONSTANTS
  Callers = {c1, c2}
  Methods <- Shapes
  Polls = 2
CHECK_DEADLOCK FALSE
INVARIANTS
  TypeOK
  BackOnBase
PROPERTIES
  ImplementsChainCall
  CallEnds
