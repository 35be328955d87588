SPECIFICATION Spec
CONSTANTS
  a = a
  b = b
  a1 = a1
  a2 = a2
  b1 = b1
  w = w
  v = v
  Players = {a, b}
  Pages = {a1, a2, b1}
  Player <- TwoPages
  Wagers = {w, v}
  Vault = Vault
  Tokens <- NoneOrAll
  Budgets <- Few
  None = None
SYMMETRY Symmetric
CHECK_DEADLOCK FALSE
INVARIANT SignatureProvesBet
