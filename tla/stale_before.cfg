CONSTANTS
  Requests = {r1, r2}
  Ops = {"value"}
  Actors = {alice}
  Grants = {}
  TagIds = {t1}
  SeedTags = {t1}
  Subjects = {doc}
  Purposes = {status}
  MutablePolicies = {}
  Values = {v1, v2}
  Colors = {red}
  Failures = {}
  Invalid = Invalid
  NoTag = NoTag
  NoOwner = NoOwner
  Nil = Nil
  Everything = Everything
  alice = alice
  bob = bob
  t1 = t1
  SeedRow <- MCSeedRow
SPECIFICATION AuditSpec
INVARIANTS
  ChainedBefore
