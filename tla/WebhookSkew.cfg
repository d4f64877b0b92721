SPECIFICATION Spec
CONSTANTS
  Digests = {d1, d2}
  KeyDigest = d1
  Admins = {a1, a2}
  Clis = {}
  Checks = {k1}
  Quotas = {1, 2}
  NewPlans <- Warning
  PlanChanges <- WarningChanges
  Overrides = {3}
  TTL = 1
  MaxEntries = 1
  MaxTime = 1
  MaxRevs = 2
INVARIANT WebhookRequired
