SPECIFICATION Spec
CONSTANTS
  Resources = {r1, r2}
  Costs = {1}
  Plans <- TwoPlans
  UTOK = 2
  KeyGrace = 1
  MonthGrace = 2
  MonthLen = 4
  MaxTime = 4
  MaxSkew = 1
INVARIANTS
  WindowBound
  BurstConformance
  QuotaHeld
  SoftAtMostOnce
SYMMETRY Symmetric
