SPECIFICATION Spec
CONSTANTS
  MaxCalls = 2
  MaxPieces = 1
  Tolerant <- MessagesOnly
  Long <- NoneLong
  Upload <- NoUpload
INVARIANT MessageCallReturns
