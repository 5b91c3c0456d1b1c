SPECIFICATION TaskSpec
CONSTANTS
  Thread = {t1, t2, t3}
  Node = {n0, n1, n2, n3}
  Value <- MCValue
  Items = 1
  Fake = n0
  Null = Null
  NoValue = NoValue
  Garbage = Garbage
  Spurious = FALSE
SYMMETRY Symmetry
CHECK_DEADLOCK FALSE
INVARIANT NoUninitialisedRead
