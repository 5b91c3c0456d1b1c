SPECIFICATION Spec
CONSTANTS
  Thread = {t1, t2}
  NoCall = NoCall
  CharBits = 2
  ShortBits = 3
  IntBits = 3
  LongBits = 4
SYMMETRY Symmetry
INVARIANT TypeOK
PROPERTY ImplementsCell
