SPECIFICATION FairSpec
CONSTANTS
  MaxCalls = 4
  MaxPieces = 2
  Tolerant <- MessageLast
  Long <- OneLong
  Upload <- ImageFirst
INVARIANTS
  TypeOK
  RequestsAreFramed
PROPERTIES
  KeepsPromise
  CallReturns
