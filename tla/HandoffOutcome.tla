--------------------------- MODULE HandoffOutcome ---------------------------
(***************************************************************************)
(* What a host handoff promises, without the protocol: each handoff gets   *)
(* one outcome, the target alone can make it "moved", it is never taken    *)
(* back, and the source concludes nothing else.  The source may doubt a    *)
(* conclusion it had reached (a late answer writes "uncertain" over the    *)
(* record) but cannot reach the opposite one.                              *)
(***************************************************************************)
CONSTANT Handoffs

VARIABLES
    offered,   \* the source has committed itself: activate may be on its way
    outcome,   \* what has become of the authority
    belief     \* what the source has concluded

vars == <<offered, outcome, belief>>

Init ==
    /\ offered = [h \in Handoffs |-> FALSE]
    /\ outcome = [h \in Handoffs |-> "undecided"]
    /\ belief = [h \in Handoffs |-> "open"]

\* After this only the target's record decides.
Offer(h) ==
    /\ belief[h] = "open"
    /\ offered' = [offered EXCEPT ![h] = TRUE]
    /\ UNCHANGED <<outcome, belief>>

\* The target takes the authority.
Move(h) ==
    /\ offered[h] /\ outcome[h] = "undecided"
    /\ outcome' = [outcome EXCEPT ![h] = "moved"]
    /\ UNCHANGED <<offered, belief>>

\* The target drops its copy.
Decline(h) ==
    /\ outcome[h] = "undecided"
    /\ outcome' = [outcome EXCEPT ![h] = "returned"]
    /\ UNCHANGED <<offered, belief>>

\* The source gives up by itself, which it may only do before it has offered.
Withdraw(h) ==
    /\ ~offered[h]
    /\ outcome' = [outcome EXCEPT ![h] = "returned"]
    /\ belief' = [belief EXCEPT ![h] = "returned"]
    /\ UNCHANGED offered

\* The source learns the outcome.
Learn(h) ==
    /\ outcome[h] # "undecided"
    /\ belief' = [belief EXCEPT ![h] = outcome[h]]
    /\ UNCHANGED <<offered, outcome>>

\* A late answer makes the source ask again.
Doubt(h) ==
    /\ offered[h]
    /\ belief' = [belief EXCEPT ![h] = "open"]
    /\ UNCHANGED <<offered, outcome>>

Next == \E h \in Handoffs :
    Offer(h) \/ Move(h) \/ Decline(h) \/ Withdraw(h) \/ Learn(h) \/ Doubt(h)

Spec == Init /\ [][Next]_vars
=============================================================================
