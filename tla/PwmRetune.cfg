SPECIFICATION ServoSpec
CONSTANTS
  NumTimers = 2
  SlotsPerTimer = 2
  SlotsPerGroup = 2
  TonePin = {"buzz", "bell"}
  WritePin = {"relay"}
  ServoPin = {}
  ToneFreq <- Melody
  ServoUse <- NoServo
  Level = {140}
PROPERTY ToneHeard
