\* AlarmTiming
CONSTANTS
  Wrap = 5
  UIPeriod = 2
  WaterAfter = 2
  NotifyAfter = 3
  WaterLoops = 2
  PauseLoops = 2
  HoursPerDay = 1
  MinutesPerHour = 1
  MonthDays = 1
  Byte = 2
  MaxHeld = 2
  MaxResets = 1
SPECIFICATION Spec
INVARIANTS TypeOK QuietOutsideRing WaterAfterGrace NotifyAfterGrace
PROPERTIES DismissalKept ImplementsPromise
