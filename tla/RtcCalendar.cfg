SPECIFICATION Spec
CONSTANTS
  LastYear = 2032
  Hour = {0, 1, 22, 23}
  Minute = {0, 59}
  Second = {0, 59}
INVARIANTS
  WeekdayRight
  MonthLengthRight
  TimestampRight
  DayOfYearRight
CHECK_DEADLOCK FALSE
