\* AlarmEditing
CONSTANTS
  Wrap = 2
  UIPeriod = 1
  WaterAfter = 1
  NotifyAfter = 1
  WaterLoops = 1
  PauseLoops = 1
  HoursPerDay = 2
  MinutesPerHour = 2
  MonthDays = 1
  Byte = 3
  MaxHeld = 2
  MaxResets = 1
SPECIFICATION Spec
INVARIANTS AlarmCanRing
PROPERTIES ConfirmsWhatIsShown
