SPECIFICATION Spec
CONSTANTS
  Asked = {2}
  Soft = 2
  LastMonth = 2
  MaxUsed = 2
  MaxLosses = 0
INVARIANT
  MonthsAsAsked
