SPECIFICATION Spec
CONSTANTS
  Columns = 2
  Text <- Texts
  Extra = {"cursor", "direction", "autoscroll", "scroll", "createChar", "home"}
  MaxResets = 1
  MaxLosses = 1
  MaxBlind = 1
INVARIANTS
  TypeOK
  InStep
  CopiesAreTrue
  ShowsThePage
