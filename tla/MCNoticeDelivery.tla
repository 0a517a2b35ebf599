-------------------------- MODULE MCNoticeDelivery --------------------------
(***************************************************************************)
(* Instances of NoticeDelivery: what the notices of a run are.             *)
(***************************************************************************)
EXTENDS NoticeDelivery

CONSTANT s1

\* All to any coordinator: everything coalesces.
AllToAny == [n \in 1..N |-> AnySession]
\* The first to one coordinator, the others to any: the first rides alone.
FirstAddressed == [n \in 1..N |-> IF n = 1 THEN s1 ELSE AnySession]

Decisions == [n \in 1..N |-> "decision"]
InfoFirst == [n \in 1..N |-> IF n = 1 THEN "info" ELSE "decision"]

NoFacts == [n \in 1..N |-> NoFact]
\* The last two rows announce the same fact.
LastShareFact == [n \in 1..N |-> IF n > N - 2 THEN "late" ELSE NoFact]

\* What the agent made of a write decides nothing the handlers do as long as
\* no write is lost: states that differ in it alone are explored once.
WritesSeen == {[n |-> w.n, ids |-> w.ids, watch |-> w.watch, copy |-> w.copy]: w \in sent}
HandlersView == <<notices, cursor, claims, h, todo, settled, view, WritesSeen, retried, crashes>>
=============================================================================
