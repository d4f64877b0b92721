SPECIFICATION LuaSpec
CONSTANTS
  Resources = {r1}
  Costs = {1, 2}
  Plans <- OnePlan
  UTOK = 2
  KeyGrace = 1
  MonthGrace = 1
  MonthLen = 6
  MaxTime = 7
  MaxSkew = 0
  LastDay = 146100
INVARIANTS
  TypeOK
  SoftWarnedExactly
  RetryAfterHonest
  RemainingIsSpendable
  ResetsAreHonest
  CountersExpire
  HeaderIsTrue
  ResetClearsTheDenial
  DateIsRight
  DayIsRight
  MonthEndIsRight
PROPERTIES
  DenyIsInvisible
  ImplementsAdmission
