SPECIFICATION MCSpec
CONSTANTS
  Thread <- MCThread
  Node <- MCNode
  Value <- MCValue
  Program <- MCProgram
  Fake <- MCFake
  Null = Null
  NoValue = NoValue
ACTION_CONSTRAINT Bounded
INVARIANTS TypeOK NoNullDereference TailBounds IInv
INVARIANTS JoinBalanced EveryDequeueSucceeds ProducerOrder
PROPERTIES ListOnlyGrows Linearizable Nonblocking
