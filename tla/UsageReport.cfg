SPECIFICATION Spec
CONSTANTS
  Asked = {1, 3}
  Soft = 2
  LastMonth = 3
  MaxUsed = 2
  MaxLosses = 1
INVARIANTS
  NothingInvented
  ClosedMonthsAreFinal
  FlagNotBehindCount
