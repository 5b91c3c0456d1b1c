SPECIFICATION MCSpec
CONSTANTS
  N = 2
  Node = {n0, n1, n2, n3}
  Value = {v1}
  Fake = n0
  Null = Null
  NoValue = NoValue
  Producer = {0, 1}
  Threshold = 1
INVARIANT LastHasNoSuccessor
