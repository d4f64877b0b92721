SPECIFICATION Spec
CONSTANTS
  Digests = {d1, d2}
  KeyDigest = d1
  Admins = {a1}
  Clis = {c1}
  Checks = {k1}
  Quotas = {1}
  NewPlans <- Basic
  PlanChanges <- Upgrade
  Overrides = {0, 3}
  TTL = 2
  MaxEntries = 1
  MaxTime = 2
  MaxRevs = 2
INVARIANTS
  AnswerIsRecent
  CacheBounded
PROPERTIES
  GenerationGuards
  RevocationIsFinal
