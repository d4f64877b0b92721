SPECIFICATION Spec
CONSTANTS
  Keys = {k1}
  Runners = {r1, r2}
  Soft = 2
  RunsFitTTL = FALSE
  Decodes = {TRUE, FALSE}
  Losses = FALSE
  MaxUsed = 3
  MaxFaults = 0
PROPERTY UsedNeverLowered
