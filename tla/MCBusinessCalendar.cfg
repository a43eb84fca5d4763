SPECIFICATION Spec
CONSTANTS
  FirstDate = 1
  LastDate = 7
  MonthOf <- MCMonthOf
  Weekends <- MCWeekends
INVARIANTS
  AdjustmentIsModifiedFollowing
  TPlusTwoIsExact
CHECK_DEADLOCK FALSE
