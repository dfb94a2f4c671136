CONSTANTS
  s1 = s1
  s2 = s2
  p1 = p1
  p2 = p2
  v1 = v1
  t1 = t1
  t2 = t2
  Subjects = {s1, s2}
  Purposes = {p1, p2}
  Values = {v1, v2}
  TagIds = {t1, t2, t3, t4}
  NoTag = NoTag
  NoPurpose = NoPurpose
  Exclusive = {p1}
  MaxClicks = 2
  Failures = {}
  MaxRenders = 1
  Seed <- MCSeedPair
  PurposeSets = {{}}
SPECIFICATION Spec
PROPERTIES
  ReportIsCurrent
