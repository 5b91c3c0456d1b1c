SPECIFICATION Spec
CONSTANTS
  Thread = {t1, t2, t3}
  Node = {n0, n1, n2}
  Value = {v1}
  Fake = n0
  Null = Null
  NoValue = NoValue
  CountMod = 16
  MaxCount = 2
  Reuse = TRUE
  Residue <- MCResidue
SYMMETRY Symmetry
INVARIANTS TypeOK EndsAreAlive DeleteOnce
PROPERTY SwingIsCurrent
