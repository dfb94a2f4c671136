CONSTANTS
  TagIds = {t1, t2, t3, t4}
  Values = {v1, v2}
  Wanted = {v1}
  Limit = 1
  MaxTime = 3
SPECIFICATION Spec
SYMMETRY Symmetry
INVARIANTS
  TypeOK
  NothingSkipped
  NothingTwice
