SPECIFICATION FairSpec
CONSTANTS
  Rows = {1, 2}
  Batch = 1
  MaxAttempts = 3
  Base = 5
  MaxBackoff = 6
  MaxHookless = 1
  MaxFaults = 1
INVARIANT PostsBounded
PROPERTIES
  BackoffKept
  Settles
