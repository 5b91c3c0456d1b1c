SPECIFICATION MCSpec
CONSTANTS
  N = 2
  Pool = {p1, p2}
  Heap = {1, 2, 3, 4, 5}
  Node <- MCNode
  Value <- MCValue
  Fake = 0
  Null = Null
  NoValue <- MCNoValue
  Producer = {0, 1}
  Threshold = 2
  Items = 3
SYMMETRY Symmetry
INVARIANTS ReadsLiveNodes ListIntact RetiredOnce ThreadsForgetNoNode
INVARIANTS GarbageBound TypeOK ScanSparesNamed
PROPERTIES Linearizable TestsPass
