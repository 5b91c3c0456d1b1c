SPECIFICATION NoFreeSpec
CONSTANTS
  Thread = {t1, t2}
  Node = {n0, n1, n2}
  Value = {v1}
  Fake = n0
  Null = Null
  NoValue = NoValue
  Garbage = {Null}
PROPERTY SwingMovesHead
