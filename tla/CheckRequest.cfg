CHECK_DEADLOCK FALSE
SPECIFICATION FairSpec
CONSTANTS
  Requests = {q1, q2}
  Timeout = 1
  Hard = 1
  Soft = 1
  PassTicks = 2
  MaxPasses = 1
  MaxFaults = 2
INVARIANTS
  ChargedAsAnswered
  WaitBounded
  ErrorsAreExplained
PROPERTY EveryCheckAnswered
