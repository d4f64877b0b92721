SPECIFICATION FairSpec
CONSTANTS
  Rows = {1, 2}
  Batch = 1
  MaxAttempts = 1
  Base = 5
  MaxBackoff = 6
  MaxHookless = 1
  MaxFaults = 0
PROPERTY SettlesAlways
