SPECIFICATION FairSpec
CONSTANTS
  Keys = {k1}
  Runners = {r1, r2}
  Soft = 2
  RunsFitTTL = TRUE
  Decodes = {TRUE, FALSE}
  Losses = TRUE
  MaxUsed = 3
  MaxFaults = 2
INVARIANTS
  OneRun
  WarningIsTrue
PROPERTIES
  UsedOnlyRaised
  WarningIsKept
  CountIsKept
