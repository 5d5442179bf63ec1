CONSTANTS
  Wrap = 2
  UIPeriod = 1
  WaterAfter = 1
  NotifyAfter = 1
  WaterLoops = 1
  PauseLoops = 1
  HoursPerDay = 1
  MinutesPerHour = 1
  MonthDays = 1
  Byte = 2
  MaxHeld = 2
  MaxResets = 1
  NumTimers = 2
  SlotsPerTimer = 1
  SlotsPerGroup = 1
SPECIFICATION SysFairSpec
INVARIANT OutputsFollow
PROPERTIES AlarmServed PumpStops HeldEditSilences
