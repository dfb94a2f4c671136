CONSTANTS
  s1 = s1
  s2 = s2
  p1 = p1
  p2 = p2
  v1 = v1
  t1 = t1
  t2 = t2
  Subjects = {s1, s2}
  Purposes = {p1, p2, p3}
  Values = {v1, v2}
  TagIds = {t1, t2, t3, t4}
  NoTag = NoTag
  NoPurpose = NoPurpose
  Exclusive = {p1}
  MaxClicks = 1
  Failures = {}
  MaxRenders = 2
  Seed <- MCSeedPair
  PurposeSets = {{p1, p2}, {p2, p3}}
SPECIFICATION Spec
INVARIANTS
  WithinPurposes
