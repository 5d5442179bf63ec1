SPECIFICATION FairSpec
CONSTANTS
  Slots = {0, 1}
  Settings <- SettingsUsed
  Timeout = 1
  MaxConnects = 2
  MaxBytes = 2
  MaxAsks = 1
INVARIANTS
  TypeOK
  OwnSocketOnly
  Settled
  FreedAfterMade
  NothingLost
PROPERTIES
  CallReturns
