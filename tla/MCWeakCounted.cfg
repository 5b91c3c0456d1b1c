SPECIFICATION MCSpec
CONSTANTS
  Thread = {t1, t2}
  Node <- MCNode
  Value <- MCValue
  Items = 2
  Fake = 0
  Null = Null
  NoValue = NoValue
  Garbage = Garbage
  Spurious = TRUE
SYMMETRY Symmetry
CHECK_DEADLOCK FALSE
INVARIANTS TypeOK ListIntact HeadBehindTail NoDataRace
INVARIANTS JoinBalanced EveryDequeueSucceeds TaskFindsNext
INVARIANTS ListIsAlive DeleteOnce
PROPERTIES LooselyLinearizable
