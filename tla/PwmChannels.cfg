SPECIFICATION ServoSpec
CONSTANTS
  NumTimers = 2
  SlotsPerTimer = 3
  SlotsPerGroup = 2
  TonePin = {"buzz", "horn"}
  WritePin = {relay, pump}
  ServoPin = {"arm"}
  ToneFreq <- FixedFreq
  ServoUse <- Widths
  Level = {140}
SYMMETRY Relays
INVARIANTS
  TypeOK
  Books
  HaltsOnlyWhenFull
  Honoured
