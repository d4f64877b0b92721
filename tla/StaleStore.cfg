SPECIFICATION Spec
CONSTANTS
  Digests = {d1, d2}
  KeyDigest = d1
  Admins = {a1}
  Clis = {}
  Checks = {k1}
  Quotas = {1, 2}
  NewPlans <- Basic
  PlanChanges <- Upgrade
  Overrides = {3}
  TTL = 1
  MaxEntries = 1
  MaxTime = 1
  MaxRevs = 2
INVARIANT InvalidationSticks
