SPECIFICATION Spec
CONSTANTS
  p1 = p1  p2 = p2
  Procs = {p1}
  Requests <- Forced
  NoHold = NoHold
  Ttl = 3
  MaxGrants = 2
  MaxExtension = 4
  StaleAfter = 5
  Tries = 3
  MaxTime = 7
  MaxRev = 5
  MaxCrashes = 1
  MaxErrors = 1
  Claims = TRUE
INVARIANT SealedQuiet
PROPERTY HoldEndsProperly
CHECK_DEADLOCK FALSE
