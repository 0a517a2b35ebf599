---------------------------- MODULE MCTurnPublish ----------------------------
(***************************************************************************)
(* Instances of TurnPublish: which mesh each row belongs to.               *)
(***************************************************************************)
EXTENDS TurnPublish

CONSTANTS a, b, c

Alternating == [r \in 1..N |-> IF r % 2 = 1 THEN a ELSE b]
SecondOfC == [r \in 1..N |-> IF r = 2 THEN c ELSE IF r % 2 = 1 THEN a ELSE b]
FirstRowsOfA == [r \in 1..N |-> IF r < N THEN a ELSE b]
=============================================================================
