SPECIFICATION Spec
CONSTANTS
  p1 = p1  p2 = p2
  Procs = {p1, p2}
  Requests <- TwoHolds
  NoHold = NoHold
  Ttl = 3
  MaxGrants = 2
  MaxExtension = 4
  StaleAfter = 5
  Tries = 2
  MaxTime = 3
  MaxRev = 4
  MaxCrashes = 1
  MaxErrors = 1
  Claims = FALSE
SYMMETRY ProcSymmetry
INVARIANT SerialInv
PROPERTY Serialised
CHECK_DEADLOCK FALSE
