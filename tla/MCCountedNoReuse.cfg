SPECIFICATION MCSpec
CONSTANTS
  Thread <- MCThread
  Node = {n0, n1, n2, n3}
  Value <- MCValue
  Fake = n0
  Null = Null
  NoValue <- MCNoValue
  CountMod = 16
  MaxCount = 4
  Reuse = FALSE
  Residue = {}
  Elements = 3
SYMMETRY Symmetry
INVARIANTS TestPasses BenchmarkDrains
PROPERTIES Linearizable LinksAfterTheLast LoopEndsOnSuccess
