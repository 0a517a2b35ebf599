---------------------------- MODULE TurnPublish ----------------------------
(***************************************************************************)
(* The publisher of the turn ledger (mesh/turn-ledger/ledger.ts): event    *)
(* rows committed to the daemon's own database are appended to the topic   *)
(* of their mesh by a single flush at a time, which drains the pending     *)
(* rows batch by batch.  The two databases share no transaction, so a      *)
(* crash may fall between an append and the mark on the row.  What becomes *)
(* of the entries of a topic is the matter of NoticeDelivery.              *)
(*                                                                         *)
(* A row is its rank in write order.  The awaits of the code are the steps *)
(* between Appends, Marks, Fails, Refused, DrainEnds and Clear; all that   *)
(* runs between two awaits is one step.                                    *)
(***************************************************************************)
EXTENDS Naturals, Sequences, FiniteSets, FiniteSetsExt

CONSTANTS N,            \* rows 1 .. N, written in this order
          Meshes,
          MeshOf,       \* the mesh of each row
          Invalid,      \* rows whose entry fails the content guard for good
          Bare,         \* rows without a publishable entry
          Sealed,       \* meshes whose topic refuses every append
          Batch,        \* PUBLISH_BATCH
          Flushes,      \* slots for concurrent flushes; the code means to use one
          MaxFails, MaxCrashes

Rows == 1 .. N

ASSUME PublishAssumption ==
    /\ N \in Nat /\ Batch \in Nat \ {0} /\ MaxFails \in Nat /\ MaxCrashes \in Nat
    /\ MeshOf \in [Rows -> Meshes]
    /\ Invalid \subseteq Rows /\ Bare \subseteq Rows /\ Sealed \subseteq Meshes

VARIABLES written,   \* number of rows committed so far
          state,     \* publish_state of each row
          topic,     \* the entries of each mesh's topic
          flush,     \* the flushes under way
          flushing,  \* the module's `flushing` promise: a flush is running
          again,     \* flushAgain
          owed,      \* a flush was asked for and no drain has read the rows since
          fails, crashes

vars == <<written, state, topic, flush, flushing, again, owed, fails, crashes>>

NoFlush == [pc |-> "none", rows |-> {}, at |-> 0, blocked |-> {}, progressed |-> FALSE]

Init ==
    /\ written = 0
    /\ state = [r \in Rows |-> "none"]
    /\ topic = [m \in Meshes |-> <<>>]
    /\ flush = [f \in Flushes |-> NoFlush]
    /\ flushing = FALSE /\ again = FALSE /\ owed = FALSE
    /\ fails = 0 /\ crashes = 0

----------------------------------------------------------------------------
(* drain *)

PendingRows(st) == {r \in Rows : st[r] = "pending"}

\* The first PUBLISH_BATCH of them, in write order.
PendingPublish(st) == {r \in PendingRows(st) : Cardinality({q \in PendingRows(st) : q < r}) < Batch}

\* The rows of a batch that the loop still has to publish, from a row on:
\* rows without an entry and rows of a blocked mesh are passed over.
Eligible(d, from) == {r \in d.rows : r >= from /\ r \notin Bare /\ MeshOf[r] \notin d.blocked}

Publishing(d, from) == [d EXCEPT !.pc = "publishing", !.at = Min(Eligible(d, from))]

\* A round of drain's loop: read a batch and go to its first row to publish.
Round(d, st) ==
    LET batch == [d EXCEPT !.rows = PendingPublish(st), !.progressed = FALSE]
    IN  IF Eligible(batch, 1) = {} THEN [batch EXCEPT !.pc = "left"] ELSE Publishing(batch, 1)

Drain(st) == Round(NoFlush, st)

\* Is the loop to go round again?
More(d) == again \/ (Cardinality(d.rows) = Batch /\ d.progressed)

\* The rest of the loop body once a row is done, up to the next await.
Proceed(f, d, st) ==
    IF Eligible(d, d.at + 1) # {}
    THEN /\ flush' = [flush EXCEPT ![f] = Publishing(d, d.at + 1)]
         /\ UNCHANGED <<again, owed>>
    ELSE IF More(d)
         THEN /\ flush' = [flush EXCEPT ![f] = Round(d, st)]
              /\ again' = FALSE /\ owed' = FALSE
         ELSE /\ flush' = [flush EXCEPT ![f].pc = "left"]
              /\ UNCHANGED <<again, owed>>

RowOf(f) == flush[f].at

\* publisher.publish resolves: the entry is in the topic, under the next seq.
Appends(f) ==
    LET m == MeshOf[RowOf(f)] IN
    /\ flush[f].pc = "publishing"
    /\ RowOf(f) \notin Invalid /\ m \notin Sealed
    /\ topic' = [topic EXCEPT ![m] = Append(@, RowOf(f))]
    /\ flush' = [flush EXCEPT ![f].pc = "appended"]
    /\ UNCHANGED <<written, state, flushing, again, owed, fails, crashes>>

\* The code after the await: markPublished, then on to the next row.
Marks(f) ==
    LET st == [state EXCEPT ![RowOf(f)] = IF @ = "pending" THEN "published" ELSE @] IN
    /\ flush[f].pc = "appended"
    /\ state' = st
    /\ Proceed(f, [flush[f] EXCEPT !.progressed = TRUE], st)
    /\ UNCHANGED <<written, topic, flushing, fails, crashes>>

\* Mutant: a failed append does not block its mesh.
FailsUnblocked(f) ==
    /\ flush[f].pc = "publishing"
    /\ RowOf(f) \notin Invalid
    /\ \/ MeshOf[RowOf(f)] \in Sealed /\ UNCHANGED fails
       \/ fails < MaxFails /\ fails' = fails + 1
    /\ Proceed(f, flush[f], state)
    /\ UNCHANGED <<written, state, topic, flushing, crashes>>

\* publisher.publish rejects for another reason: the mesh is blocked for this pass.
Fails(f) ==
    /\ flush[f].pc = "publishing"
    /\ RowOf(f) \notin Invalid
    /\ \/ MeshOf[RowOf(f)] \in Sealed /\ UNCHANGED fails
       \/ fails < MaxFails /\ fails' = fails + 1
    /\ Proceed(f, [flush[f] EXCEPT !.blocked = @ \cup {MeshOf[RowOf(f)]}], state)
    /\ UNCHANGED <<written, state, topic, flushing, crashes>>

\* Mutant: an invalid row stays pending and blocks its mesh.
RefusedBlocks(f) ==
    /\ flush[f].pc = "publishing"
    /\ RowOf(f) \in Invalid
    /\ Proceed(f, [flush[f] EXCEPT !.blocked = @ \cup {MeshOf[RowOf(f)]}], state)
    /\ UNCHANGED <<written, state, topic, flushing, fails, crashes>>

\* publisher.publish rejects with content_guard: the row is parked as local-only.
Refused(f) ==
    LET st == [state EXCEPT ![RowOf(f)] = IF @ = "pending" THEN "none" ELSE @] IN
    /\ flush[f].pc = "publishing"
    /\ RowOf(f) \in Invalid
    /\ state' = st
    /\ Proceed(f, flush[f], st)
    /\ UNCHANGED <<written, topic, flushing, fails, crashes>>

----------------------------------------------------------------------------
(* flushPublish *)

\* Mutant: every request starts a flush of its own.
FlushEveryTime(st) ==
    \E f \in Flushes :
        /\ flush[f].pc = "none"
        /\ flush' = [flush EXCEPT ![f] = Drain(st)]
        /\ flushing' = TRUE /\ again' = FALSE /\ owed' = FALSE

\* A request: join the flush under way, or start one, which reads its first batch at once.
FlushPublish(st) ==
    \/ /\ flushing
       /\ again' = TRUE /\ owed' = TRUE
       /\ UNCHANGED <<flush, flushing>>
    \/ /\ ~flushing
       /\ \E f \in Flushes :
            /\ flush[f].pc = "none"
            /\ flush' = [flush EXCEPT ![f] = Drain(st)]
       /\ flushing' = TRUE /\ again' = FALSE /\ owed' = FALSE

\* drain has returned: the do-while of flushPublish drains once more if asked.
DrainEnds(f) ==
    /\ flush[f].pc = "left"
    /\ IF again
       THEN /\ flush' = [flush EXCEPT ![f] = Drain(state)]
            /\ again' = FALSE /\ owed' = FALSE
       ELSE /\ flush' = [flush EXCEPT ![f].pc = "returned"]
            /\ UNCHANGED <<again, owed>>
    /\ UNCHANGED <<written, state, topic, flushing, fails, crashes>>

\* The promise of the flush settles one turn later: finally clears `flushing`.
Clear(f) ==
    /\ flush[f].pc = "returned"
    /\ flush' = [flush EXCEPT ![f] = NoFlush]
    /\ flushing' = FALSE
    /\ UNCHANGED <<written, state, topic, again, owed, fails, crashes>>

\* insertEvent commits a pending row; its bridge commit asks for a flush.
Insert ==
    LET st == [state EXCEPT ![written + 1] = "pending"] IN
    /\ written < N
    /\ written' = written + 1
    /\ state' = st
    /\ FlushPublish(st)
    /\ UNCHANGED <<topic, fails, crashes>>

\* republishPending, at boot and on every scheduler tick.
Tick ==
    /\ FlushPublish(state)
    /\ UNCHANGED <<written, state, topic, fails, crashes>>

Crash ==
    /\ crashes < MaxCrashes
    /\ crashes' = crashes + 1
    /\ flush' = [f \in Flushes |-> NoFlush]
    /\ flushing' = FALSE /\ again' = FALSE /\ owed' = FALSE
    /\ UNCHANGED <<written, state, topic, fails>>

Next ==
    \/ Insert \/ Tick \/ Crash
    \/ \E f \in Flushes :
         Appends(f) \/ Marks(f) \/ Fails(f) \/ Refused(f) \/ DrainEnds(f) \/ Clear(f)

Spec == Init /\ [][Next]_vars

\* The event loop runs what is ready, an append settles, and the scheduler
\* keeps ticking while the process is up.
Fairness ==
    /\ \A f \in Flushes :
         /\ WF_vars(Appends(f) \/ Fails(f) \/ Refused(f))
         /\ WF_vars(Marks(f)) /\ WF_vars(DrainEnds(f)) /\ WF_vars(Clear(f))
    /\ WF_vars(Tick)

FairSpec == Spec /\ Fairness

----------------------------------------------------------------------------
(* Properties *)

\* Every row, topic entry and flush keeps its type; at most one flush runs, and it
\* runs exactly while `flushing` is set.
TypeOK ==
    /\ written \in 0 .. N
    /\ state \in [Rows -> {"none", "pending", "published"}]
    /\ \A m \in Meshes : \A i \in DOMAIN topic[m] : MeshOf[topic[m][i]] = m
    /\ \A f \in Flushes :
         /\ flush[f].pc \in {"none", "publishing", "appended", "left", "returned"}
         /\ flush[f].pc \in {"publishing", "appended"} => flush[f].at \in flush[f].rows
    /\ flushing = (\E f \in Flushes : flush[f].pc # "none")
    /\ \A f, g \in Flushes : flush[f].pc # "none" /\ flush[g].pc # "none" => f = g

\* A topic receives the rows of its mesh in write order: when a row has reached the
\* topic, every earlier row of the mesh has reached it before, unless it was parked or
\* has no entry.  (drain: per-mesh head of line, "cannot reorder".)
InWriteOrder ==
    \A m \in Meshes : \A i \in DOMAIN topic[m] : \A r \in 1 .. topic[m][i] - 1 :
        MeshOf[r] = m /\ r \notin Bare \cup Invalid => \E j \in 1 .. i : topic[m][j] = r

\* The places of the topics that hold a row for a second time.
Repeats ==
    {p \in UNION {{m} \X DOMAIN topic[m] : m \in Meshes} :
        \E j \in 1 .. p[2] - 1 : topic[p[1]][j] = topic[p[1]][p[2]]}

\* A row is appended again only for a crash: each crash can repeat one append, the one
\* whose mark it lost; the single flight and the marks exclude every other repeat.
RepeatedOnlyByCrash == Cardinality(Repeats) <= crashes

\* A request for a flush is not lost: when no flush runs, the rows have been read since
\* the last request (the comment in flushPublish).
FlushKept == ~flushing => ~owed

\* Every committed row whose topic accepts appends is eventually published or parked,
\* also while another mesh's topic is sealed (the comment in drain).
EveryRowPublishes ==
    \A r \in Rows :
        written >= r /\ r \notin Bare /\ MeshOf[r] \notin Sealed ~> state[r] # "pending"
=============================================================================
