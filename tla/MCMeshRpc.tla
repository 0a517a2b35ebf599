----------------------------- MODULE MCMeshRpc -----------------------------
(***************************************************************************)
(* Instances of MeshRpc: daemons "m" and "h" that each host a mesh the     *)
(* other belongs to, with commands from "m".                               *)
(***************************************************************************)
EXTENDS MeshRpc

TwoEnds == {"m", "h"}
FromM == [c \in Calls |-> "m"]
SomeKinds == [c \in Calls |-> IF c = "c1" THEN {"plain", "poll"} ELSE {"plain", "big"}]
CrossLinks == [l \in Links |-> IF l = "ofH" THEN "m" ELSE "h"]

\* c1 is sent before c2, which is sent only in the behaviours without faults.
Scenario == \A c \in Calls \ {"c1"} : calls[c].st # "new" => faults = 0

MCSpec == Init /\ [][Next /\ Scenario']_vars

MCFairSpec == MCSpec /\ Fairness

============================================================================
