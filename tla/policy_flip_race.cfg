CONSTANTS
  Requests = {r1, r2}
  Ops = {"create"}
  Actors = {alice}
  Grants = {}
  TagIds = {t1, t2}
  SeedTags = {}
  Subjects = {doc}
  Purposes = {status}
  MutablePolicies = {status}
  Values = {v1}
  Colors = {red}
  Failures = {}
  Invalid = Invalid
  NoTag = NoTag
  NoOwner = NoOwner
  Nil = Nil
  Everything = Everything
  alice = alice
  bob = bob
  t1 = t1
  SeedRow <- MCSeedRow
SPECIFICATION AuditSpec
PROPERTY
  NoSecondUnderPolicy
