CONSTANTS
  alice = alice
  bob = bob
  t1 = t1
  Requests = {r1, r2}
  Ops = {"create", "value", "color", "delete", "read"}
  Actors = {alice, bob}
  Grants <- MCGrants
  TagIds = {t1, t2, t3}
  SeedTags = {t1}
  Subjects = {doc}
  Purposes = {status, team}
  MutablePolicies = {team}
  Values = {v1, v2}
  Colors = {red}
  Failures = {"tx", "commitReply", "crash"}
  Invalid = Invalid
  NoTag = NoTag
  NoOwner = NoOwner
  Nil = Nil
  Everything = Everything
  SeedRow <- MCSeedRow
SPECIFICATION FairAuditSpec
INVARIANTS
  TypeOK
  ArchivedExactlyDeleted
  AnswerIsTruthful
  OnlyEntitledChange
  AuditReplay
  CommittedNotices
  GenuineBefore
  OneLife
  GuardedExclusive
  StablePolicyHolds
PROPERTIES
  Refines
  EveryRequestAnswered
