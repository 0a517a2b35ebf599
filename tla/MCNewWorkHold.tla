--------------------------- MODULE MCNewWorkHold ---------------------------
(***************************************************************************)
(* Instances of NewWorkHold: the commands an owner may send.               *)
(***************************************************************************)
EXTENDS NewWorkHold, TLC

CONSTANTS p1, p2

Ask(op, hold, force) == [op |-> op, hold |-> hold, force |-> force]

OneHold == {Ask("set", "h1", FALSE), Ask("extend", "h1", FALSE), Ask("release", "h1", FALSE)}
TwoHolds == {Ask("set", "h1", FALSE), Ask("release", "h1", FALSE), Ask("set", "h2", FALSE)}
Forced == OneHold \cup {Ask("set", "h2", TRUE)}
TwoSets == {Ask("set", "h1", FALSE), Ask("set", "h2", FALSE)}

ProcSymmetry == Permutations(Procs)
=============================================================================
