SPECIFICATION Spec
CONSTANTS
  Setting <- FewSettings
  Plain <- FewPlain
  ChipTime <- Times
INVARIANTS
  TypeOK
  NoFalseAlarm
  AsAsked
  ReadsBack
PROPERTIES
  OtherAlarmKept
  KeepsPromise
