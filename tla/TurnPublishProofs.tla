------------------------- MODULE TurnPublishProofs -------------------------
(***************************************************************************)
(* The publisher keeps the order of each mesh's rows and repeats a row     *)
(* only for a crash, for any number of rows and meshes, any batch size,    *)
(* any rows that have no entry or an invalid one, and any pattern of       *)
(* failed appends, crashes and flushes.                                    *)
(***************************************************************************)
EXTENDS TurnPublish, FiniteSetTheorems, WellFoundedInduction, TLAPS

\* The row has been appended to the topic of its mesh.
Reached(r) == \E j \in 1 .. Len(topic[MeshOf[r]]) : topic[MeshOf[r]][j] = r

\* The rows whose order matters.
Due == Rows \ (Bare \cup Invalid)

FlushTypes ==
    [ pc : {"none", "publishing", "appended", "left", "returned"}, rows : SUBSET Rows, at : Nat,
      blocked : SUBSET Meshes, progressed : BOOLEAN ]

Types ==
    /\ written \in 0 .. N
    /\ state \in [Rows -> {"none", "pending", "published"}]
    /\ topic \in [Meshes -> Seq(Rows)]
    /\ flush \in [Flushes -> FlushTypes]

\* Rows appear in write order, and a row that is not pending any more is in its topic.
Settled(w, st) ==
    /\ \A r \in Rows : st[r] = "pending" => r <= w
    /\ \A r \in Due : r <= w /\ st[r] # "pending" => Reached(r)

\* Ahead of a row of the batch whose mesh is not blocked, every row of the mesh has been
\* appended or is in the batch, at or after the place of the loop.
BatchInv(d, at) ==
    \A q \in d.rows : MeshOf[q] \notin d.blocked =>
        \A r \in Due : r < q /\ MeshOf[r] = MeshOf[q] => Reached(r) \/ (r \in d.rows /\ r >= at)

FlushInv(d) ==
    d.pc \in {"publishing", "appended"} =>
        /\ d.at \in d.rows /\ MeshOf[d.at] \notin d.blocked
        /\ BatchInv(d, d.at)
        /\ d.pc = "appended" => Reached(d.at)

OrderInv ==
    /\ Types /\ Settled(written, state) /\ InWriteOrder
    /\ \A f \in Flushes : FlushInv(flush[f])

----------------------------------------------------------------------------
\* A nonempty set of naturals has a minimum, which Min picks.
LEMMA MinIsLeast ==
    ASSUME NEW S \in SUBSET Nat, S # {}
    PROVE  Min(S) \in S /\ \A y \in S : Min(S) <= y
  <1> DEFINE Less == {ss \in Nat \X Nat : ss[1] < ss[2]}
  <1>1. OpToRel(<, Nat) = Less
    BY Zenon DEF OpToRel
  <1>2. IsWellFoundedOn(Less, Nat)
    BY <1>1, NatLessThanWellFounded, Zenon
  <1>3. PICK x \in S : \A y \in S : ~(<<y, x>> \in Less)
    <2> HIDE DEF Less
    <2> QED BY <1>2, WFMin
  <1>4. ASSUME NEW y \in S
        PROVE  x <= y
    <2>1. x \in Nat /\ y \in Nat
      OBVIOUS
    <2>2. y < x => <<y, x>> \in Less
      BY <2>1
    <2>3. ~(y < x)
      BY <1>3, <2>2, Zenon
    <2> QED
      BY <2>1, <2>3
  <1> QED
    BY <1>4 DEF Min

\* A batch is an initial part of the pending rows (pendingPublish: ORDER BY ... LIMIT).
LEMMA BatchIsPrefix ==
    ASSUME NEW st, NEW q \in PendingPublish(st), NEW r \in PendingRows(st), r < q
    PROVE  r \in PendingPublish(st)
  <1> DEFINE P == PendingRows(st)
             R == {k \in P : k < r}
             Q == {k \in P : k < q}
  <1>1. P \subseteq Nat /\ r \in Nat /\ q \in Nat /\ \A k \in P : k <= N
    BY PublishAssumption DEF PendingRows, PendingPublish, Rows
  <1>2. IsFiniteSet(P)
    BY <1>1, PublishAssumption, FS_BoundedSetOfNaturals
  <1>3. Q \in SUBSET P /\ IsFiniteSet(Q)
    BY <1>2, FS_Subset
  <1>4. R \in SUBSET Q
    BY <1>1
  <1>5. Cardinality(R) <= Cardinality(Q) /\ IsFiniteSet(R)
    BY <1>3, <1>4, FS_Subset
  <1>6. Cardinality(R) \in Nat /\ Cardinality(Q) \in Nat
    BY <1>3, <1>5, FS_CardinalityType
  <1>7. Cardinality(Q) < Batch
    BY DEF PendingPublish
  <1>8. Cardinality(R) < Batch
    BY <1>5, <1>6, <1>7, PublishAssumption
  <1> QED
    BY <1>8 DEF PendingPublish

\* Going to the next row to publish keeps the batch's order, if the current one has been dealt with.
LEMMA NextRow ==
    ASSUME NEW d \in FlushTypes, NEW from \in Nat, Eligible(d, from) # {}, BatchInv(d, from)
    PROVE  Publishing(d, from) \in FlushTypes /\ FlushInv(Publishing(d, from))
  <1> DEFINE E == Eligible(d, from)
             a == Min(E)
             p == Publishing(d, from)
  <1>1. E \in SUBSET Nat /\ E # {}
    BY DEF Eligible, FlushTypes, Rows
  <1>2. a \in E /\ \A y \in E : a <= y
    BY <1>1, MinIsLeast
  <1>3. a \in Nat /\ a \in d.rows /\ MeshOf[a] \notin d.blocked
    BY <1>1, <1>2 DEF Eligible
  <1> HIDE DEF a
  <1>4. p = [d EXCEPT !.pc = "publishing", !.at = a]
    BY DEF Publishing, a
  <1>5. /\ p \in FlushTypes /\ p.pc = "publishing" /\ p.at = a /\ p.rows = d.rows /\ p.blocked = d.blocked
    BY <1>3, <1>4 DEF FlushTypes
  <1>6. ASSUME NEW q \in d.rows, MeshOf[q] \notin d.blocked, NEW r \in Due, r < q, MeshOf[r] = MeshOf[q],
               ~Reached(r)
        PROVE  r \in d.rows /\ r >= a
    <2>1. r \in d.rows /\ r >= from
      BY <1>6 DEF BatchInv
    <2>2. r \in E
      BY <1>6, <2>1 DEF Eligible, Due
    <2>3. r \in Nat
      BY DEF Due, Rows
    <2> QED
      BY <1>2, <1>3, <2>1, <2>2, <2>3
  <1> QED
    BY <1>3, <1>5, <1>6 DEF FlushInv, BatchInv

\* A round starts with a batch in order.
LEMMA RoundInv ==
    ASSUME NEW d \in FlushTypes, NEW st, NEW w \in 0 .. N, Settled(w, st)
    PROVE  Round(d, st) \in FlushTypes /\ FlushInv(Round(d, st))
  <1> DEFINE b == [d EXCEPT !.rows = PendingPublish(st), !.progressed = FALSE]
  <1>1. b \in FlushTypes /\ b.rows = PendingPublish(st) /\ b.blocked = d.blocked
    BY DEF FlushTypes, PendingPublish, PendingRows
  <1>2. ASSUME NEW q \in b.rows, NEW r \in Due, r < q, ~Reached(r)
        PROVE  r \in b.rows /\ r >= 1
    <2>1. q \in PendingRows(st) /\ r \in Rows
      BY <1>1, <1>2 DEF PendingPublish, Due
    <2>2. q \in Nat /\ r \in Nat /\ r >= 1 /\ q <= w /\ w \in Nat
      BY <2>1 DEF PendingRows, Rows, Settled
    <2>3. r <= w
      BY <1>2, <2>2
    <2>4. r \in PendingRows(st)
      BY <1>2, <2>1, <2>3 DEF Settled, PendingRows
    <2> QED
      BY <1>1, <1>2, <2>2, <2>4, BatchIsPrefix
  <1>3. BatchInv(b, 1)
    BY <1>2 DEF BatchInv
  <1>4. CASE Eligible(b, 1) # {}
    <2>1. Round(d, st) = Publishing(b, 1)
      BY <1>4 DEF Round
    <2> HIDE DEF b
    <2> QED
      BY <1>1, <1>3, <1>4, <2>1, NextRow
  <1>5. CASE Eligible(b, 1) = {}
    <2>1. Round(d, st) = [b EXCEPT !.pc = "left"]
      BY <1>5 DEF Round
    <2> HIDE DEF b
    <2> QED
      BY <1>1, <2>1 DEF FlushTypes, FlushInv
  <1> QED
    BY <1>4, <1>5

----------------------------------------------------------------------------
\* What follows a row: the loop goes on with the batch, reads the next one, or is left.  The
\* current row has been dealt with: it is appended, its mesh is blocked, or it is not due.
LEMMA ProceedInv ==
    ASSUME Types, NEW f \in Flushes, NEW d \in FlushTypes, NEW st, NEW w \in 0 .. N, Settled(w, st),
           d.at \in d.rows, BatchInv(d, d.at),
           d.at \in Due => Reached(d.at) \/ MeshOf[d.at] \in d.blocked,
           \A g \in Flushes : g # f => FlushInv(flush[g]),
           Proceed(f, d, st)
    PROVE  flush' \in [Flushes -> FlushTypes] /\ \A g \in Flushes : FlushInv(flush'[g])
  <1>1. PICK n \in FlushTypes : flush' = [flush EXCEPT ![f] = n] /\ FlushInv(n)
    <2>1. CASE Eligible(d, d.at + 1) # {}
      <3>1. d.at + 1 \in Nat /\ d.at \in Nat
        BY DEF FlushTypes
      <3>2. ASSUME NEW q \in d.rows, MeshOf[q] \notin d.blocked, NEW r \in Due, r < q, MeshOf[r] = MeshOf[q],
                   ~Reached(r)
            PROVE  r \in d.rows /\ r >= d.at + 1
        <4>1. r \in d.rows /\ r >= d.at
          BY <3>2 DEF BatchInv
        <4>2. r # d.at
          BY <3>2
        <4> QED
          BY <3>1, <4>1, <4>2 DEF Due, Rows
      <3>3. BatchInv(d, d.at + 1)
        BY <3>2 DEF BatchInv
      <3>4. flush' = [flush EXCEPT ![f] = Publishing(d, d.at + 1)]
        BY <2>1 DEF Proceed
      <3> QED
        BY <2>1, <3>1, <3>3, <3>4, NextRow
    <2>2. CASE Eligible(d, d.at + 1) = {} /\ More(d)
      <3>1. flush' = [flush EXCEPT ![f] = Round(d, st)]
        BY <2>2 DEF Proceed
      <3> QED
        BY <3>1, RoundInv
    <2>3. CASE Eligible(d, d.at + 1) = {} /\ ~More(d)
      <3>1. flush' = [flush EXCEPT ![f].pc = "left"]
        BY <2>3 DEF Proceed
      <3> DEFINE n == [flush[f] EXCEPT !.pc = "left"]
      <3>2. n \in FlushTypes /\ n.pc = "left"
        BY DEF Types, FlushTypes
      <3>3. flush' = [flush EXCEPT ![f] = n]
        BY <3>1 DEF Types
      <3>4. FlushInv(n)
        BY <3>2 DEF FlushInv
      <3> QED
        BY <3>2, <3>3, <3>4
    <2> QED
      BY <2>1, <2>2, <2>3
  <1>2. flush \in [Flushes -> FlushTypes]
    BY DEF Types
  <1> QED
    BY <1>1, <1>2

----------------------------------------------------------------------------
\* Initially nothing is written.
LEMMA OrderInit == Init => OrderInv
  <1> SUFFICES ASSUME Init PROVE OrderInv
    OBVIOUS
  <1>1. Types
    BY PublishAssumption DEF Init, Types, FlushTypes, NoFlush
  <1>2. Settled(written, state)
    BY PublishAssumption DEF Init, Settled, Due, Rows
  <1>3. InWriteOrder
    BY DEF Init, InWriteOrder
  <1>4. \A f \in Flushes : FlushInv(flush[f])
    BY DEF Init, FlushInv, NoFlush
  <1> QED
    BY <1>1, <1>2, <1>3, <1>4 DEF OrderInv

\* An append keeps the order: what is ahead of the row in its mesh has been appended.
LEMMA AppendsStep == ASSUME OrderInv, NEW f \in Flushes, Appends(f) PROVE OrderInv'
  <1>1. Types /\ Settled(written, state) /\ InWriteOrder /\ \A g \in Flushes : FlushInv(flush[g])
    BY DEF OrderInv
  <1>2. flush[f] \in FlushTypes /\ flush[f].pc = "publishing"
    BY <1>1 DEF Types, Appends
  <1>a. PICK a \in Rows : a = flush[f].at
    BY <1>1, <1>2 DEF FlushInv, FlushTypes
  <1>m. PICK m \in Meshes : m = MeshOf[a]
    BY PublishAssumption
  <1>t. PICK t \in Seq(Rows) : t = topic[m]
    BY <1>1 DEF Types
  <1>3. a \in flush[f].rows /\ m \notin flush[f].blocked /\ BatchInv(flush[f], a)
    BY <1>1, <1>2, <1>a, <1>m DEF FlushInv
  <1>4. a \in Rows /\ a \in Nat /\ m \in Meshes /\ t \in Seq(Rows) /\ t = topic[m] /\ topic \in [Meshes -> Seq(Rows)]
    BY <1>1, <1>t DEF Types, Rows
  <1>5. topic' = [topic EXCEPT ![m] = Append(t, a)]
    BY <1>a, <1>m, <1>t DEF Appends, RowOf
  <1>6. flush' = [flush EXCEPT ![f] = [flush[f] EXCEPT !.pc = "appended"]] /\ UNCHANGED <<written, state>>
    BY <1>1 DEF Appends, Types
  <1>7. topic' \in [Meshes -> Seq(Rows)]
    BY <1>4, <1>5
  <1>8. Types'
    <2>1. [flush[f] EXCEPT !.pc = "appended"] \in FlushTypes
      BY <1>2 DEF FlushTypes
    <2> QED
      BY <1>1, <1>6, <1>7, <2>1 DEF Types
  <1>9. \A r \in Rows : Reached(r) => Reached(r)'
    <2> SUFFICES ASSUME NEW r \in Rows, Reached(r) PROVE Reached(r)'
      OBVIOUS
    <2>1. PICK j \in 1 .. Len(topic[MeshOf[r]]) : topic[MeshOf[r]][j] = r
      BY DEF Reached
    <2>2. MeshOf[r] \in Meshes /\ topic[MeshOf[r]] \in Seq(Rows)
      BY <1>4, PublishAssumption
    <2>3. j \in 1 .. Len(topic'[MeshOf[r]]) /\ topic'[MeshOf[r]][j] = r
      BY <1>4, <1>5, <2>1, <2>2
    <2> QED
      BY <2>3 DEF Reached
  <1>10. Reached(a)'
    <2>1. topic'[m] = Append(t, a)
      BY <1>4, <1>5
    <2>2. Len(t) + 1 \in 1 .. Len(topic'[m]) /\ topic'[m][Len(t) + 1] = a
      BY <1>4, <2>1
    <2> QED
      BY <1>m, <2>2 DEF Reached
  <1>11. Settled(written, state)'
    BY <1>1, <1>6, <1>9 DEF Settled, Due
  <1>12. \A g \in Flushes : FlushInv(flush[g])'
    <2> SUFFICES ASSUME NEW g \in Flushes PROVE FlushInv(flush[g])'
      OBVIOUS
    <2>1. flush[g] \in FlushTypes /\ FlushInv(flush[g])
      BY <1>1 DEF Types
    <2>2. PICK d \in FlushTypes : d = flush[g]
      BY <2>1
    <2>3. \A at : BatchInv(d, at) => BatchInv(d, at)'
      BY <1>9 DEF BatchInv, Due
    <2>4. CASE g # f
      <3>1. flush'[g] = d
        BY <1>1, <1>6, <2>2, <2>4 DEF Types
      <3>2. FlushInv(d)'
        BY <1>9, <2>1, <2>2, <2>3 DEF FlushInv, FlushTypes
      <3> QED
        BY <3>1, <3>2 DEF FlushInv, BatchInv
    <2>5. CASE g = f
      <3>1. PICK e \in FlushTypes : e = [d EXCEPT !.pc = "appended"]
        BY DEF FlushTypes
      <3>2. flush'[g] = e /\ d.at = a /\ e.at = a /\ e.rows = d.rows /\ e.blocked = d.blocked
        BY <1>1, <1>6, <1>a, <2>2, <2>5, <3>1 DEF Types, FlushTypes
      <3>3. BatchInv(d, a)'
        BY <1>3, <2>2, <2>3, <2>5
      <3>4. BatchInv(e, a)'
        BY <3>2, <3>3 DEF BatchInv
      <3>5. FlushInv(e)'
        BY <1>3, <1>10, <1>m, <2>2, <2>5, <3>2, <3>4 DEF FlushInv
      <3> QED
        BY <3>2, <3>5 DEF FlushInv, BatchInv
    <2> QED
      BY <2>4, <2>5
  <1>13. InWriteOrder'
    <2> SUFFICES ASSUME NEW k \in Meshes, NEW i \in DOMAIN topic'[k], NEW r \in 1 .. topic'[k][i] - 1,
                        MeshOf[r] = k, r \notin Bare \cup Invalid
                 PROVE  \E j \in 1 .. i : topic'[k][j] = r
      BY DEF InWriteOrder
    <2>1. topic[k] \in Seq(Rows) /\ topic'[k] \in Seq(Rows)
      BY <1>4, <1>7
    <2>2. topic'[k][i] \in Rows /\ i \in Nat /\ i >= 1
      BY <2>1
    <2>3. r \in Due /\ r \in Nat /\ r < topic'[k][i]
      BY <2>2, PublishAssumption DEF Due, Rows
    <2>4. CASE i \in DOMAIN topic[k]
      <3>1. \A j \in 1 .. i : topic'[k][j] = topic[k][j]
        BY <1>4, <1>5, <2>1, <2>4
      <3>2. i \in 1 .. i
        BY <2>2
      <3>3. \E j \in 1 .. i : topic[k][j] = r
        BY <1>1, <2>4, <3>1, <3>2 DEF InWriteOrder
      <3> QED
        BY <3>1, <3>3
    <2>5. CASE i \notin DOMAIN topic[k]
      <3>1. k = m /\ i = Len(t) + 1 /\ topic'[k] = Append(t, a) /\ topic'[k][i] = a
        BY <1>4, <1>5, <2>1, <2>5
      <3>2. Reached(r)
        BY <1>3, <1>4, <1>m, <2>3, <3>1 DEF BatchInv
      <3>3. PICK j \in 1 .. Len(t) : t[j] = r
        BY <1>t, <3>1, <3>2 DEF Reached
      <3>4. j \in 1 .. i /\ topic'[k][j] = r
        BY <1>4, <3>1, <3>3
      <3> QED
        BY <3>4
    <2> QED
      BY <2>4, <2>5
  <1> QED
    BY <1>8, <1>11, <1>12, <1>13 DEF OrderInv

\* A step that leaves the topics alone leaves what has been appended.
LEMMA SameTopic == ASSUME UNCHANGED topic
                   PROVE  /\ \A r : Reached(r) <=> Reached(r)'
                          /\ \A w, st : Settled(w, st) => Settled(w, st)'
                          /\ \A d : FlushInv(d) => FlushInv(d)'
                          /\ InWriteOrder => InWriteOrder'
  <1>1. \A r : Reached(r) <=> Reached(r)'
    BY DEF Reached
  <1>2. \A w, st : Settled(w, st) => Settled(w, st)'
    BY <1>1 DEF Settled
  <1>3. \A d : FlushInv(d) => FlushInv(d)'
    BY <1>1 DEF FlushInv, BatchInv
  <1>4. InWriteOrder => InWriteOrder'
    BY DEF InWriteOrder
  <1> QED
    BY <1>1, <1>2, <1>3, <1>4

\* What the other steps of a flush have to show.
LEMMA OrderKept ==
    ASSUME OrderInv, UNCHANGED topic,
           NEW w \in 0 .. N, w = written', NEW st \in [Rows -> {"none", "pending", "published"}], st = state',
           Settled(w, st),
           flush' \in [Flushes -> FlushTypes] /\ \A g \in Flushes : FlushInv(flush'[g])
    PROVE  OrderInv'
  <1>1. Types'
    BY DEF OrderInv, Types
  <1>2. Settled(written, state)'
    <2>1. Settled(w, st)'
      BY SameTopic
    <2> QED
      BY <2>1 DEF Settled, Reached
  <1>3. InWriteOrder'
    BY SameTopic DEF OrderInv
  <1>4. \A g \in Flushes : FlushInv(flush[g])'
    <2> SUFFICES ASSUME NEW g \in Flushes PROVE FlushInv(flush[g])'
      OBVIOUS
    <2>1. PICK d : d = flush'[g]
      OBVIOUS
    <2>2. FlushInv(d)
      BY <2>1
    <2>3. FlushInv(d)'
      BY <2>2, SameTopic
    <2> QED
      BY <2>1, <2>3 DEF FlushInv, BatchInv
  <1> QED
    BY <1>1, <1>2, <1>3, <1>4 DEF OrderInv

\* A row may leave "pending" when it is appended, or when it is not due.
LEMMA SettledAfter ==
    ASSUME NEW w \in 0 .. N, NEW st \in [Rows -> {"none", "pending", "published"}], Settled(w, st),
           NEW a \in Rows, a \in Due => Reached(a), NEW v \in {"none", "published"},
           NEW s, s = [st EXCEPT ![a] = IF st[a] = "pending" THEN v ELSE st[a]]
    PROVE  s \in [Rows -> {"none", "pending", "published"}] /\ Settled(w, s)
  BY DEF Settled, Due

----------------------------------------------------------------------------
\* After an append the row is marked and the loop goes on.
LEMMA MarksStep == ASSUME OrderInv, NEW f \in Flushes, Marks(f) PROVE OrderInv'
  <1>1. Types /\ Settled(written, state) /\ \A g \in Flushes : FlushInv(flush[g])
    BY DEF OrderInv
  <1>2. PICK d \in FlushTypes : d = [flush[f] EXCEPT !.progressed = TRUE]
    BY <1>1 DEF Types, FlushTypes
  <1>3. /\ flush[f] \in FlushTypes /\ flush[f].pc = "appended"
        /\ d.at = flush[f].at /\ d.rows = flush[f].rows /\ d.blocked = flush[f].blocked
    BY <1>1, <1>2 DEF Types, FlushTypes, Marks
  <1>4. d.at \in d.rows /\ BatchInv(d, d.at) /\ Reached(d.at) /\ d.at \in Rows
    BY <1>1, <1>3 DEF FlushInv, BatchInv, FlushTypes
  <1>5. PICK w \in 0 .. N : w = written /\ w = written'
    BY <1>1 DEF Types, Marks
  <1>6. PICK st : st = [state EXCEPT ![d.at] = IF state[d.at] = "pending" THEN "published" ELSE state[d.at]]
    OBVIOUS
  <1>7. st \in [Rows -> {"none", "pending", "published"}] /\ Settled(w, st)
    <2>1. state \in [Rows -> {"none", "pending", "published"}] /\ Settled(w, state)
      BY <1>1, <1>5 DEF Types
    <2> QED
      BY <1>4, <1>6, <2>1, SettledAfter, Zenon
  <1>8. Proceed(f, d, st) /\ st = state' /\ UNCHANGED topic
    BY <1>2, <1>3, <1>6 DEF Marks, RowOf
  <1>9. flush' \in [Flushes -> FlushTypes] /\ \A g \in Flushes : FlushInv(flush'[g])
    BY <1>1, <1>4, <1>5, <1>7, <1>8, ProceedInv
  <1> QED
    BY <1>5, <1>7, <1>8, <1>9, OrderKept

\* A failed append blocks its mesh, so nothing of the mesh overtakes the row.
LEMMA FailsStep == ASSUME OrderInv, NEW f \in Flushes, Fails(f) PROVE OrderInv'
  <1>1. Types /\ Settled(written, state) /\ \A g \in Flushes : FlushInv(flush[g])
    BY DEF OrderInv
  <1>2. flush[f] \in FlushTypes /\ flush[f].pc = "publishing"
    BY <1>1 DEF Types, Fails
  <1>3. flush[f].at \in flush[f].rows /\ flush[f].at \in Rows /\ MeshOf[flush[f].at] \in Meshes
    BY <1>1, <1>2, PublishAssumption DEF FlushInv, FlushTypes
  <1>4. PICK d \in FlushTypes : d = [flush[f] EXCEPT !.blocked = @ \cup {MeshOf[RowOf(f)]}]
    BY <1>2, <1>3 DEF FlushTypes, RowOf
  <1>5. /\ d.at = flush[f].at /\ d.rows = flush[f].rows
        /\ d.blocked = flush[f].blocked \cup {MeshOf[flush[f].at]}
    BY <1>2, <1>4 DEF FlushTypes, RowOf
  <1>6. d.at \in d.rows /\ MeshOf[d.at] \in d.blocked
    BY <1>3, <1>5
  <1>7. BatchInv(d, d.at)
    <2>1. BatchInv(flush[f], flush[f].at)
      BY <1>1, <1>2 DEF FlushInv
    <2> QED
      BY <1>5, <2>1 DEF BatchInv
  <1>8. PICK w \in 0 .. N : w = written /\ w = written'
    BY <1>1 DEF Types, Fails
  <1>9. PICK st \in [Rows -> {"none", "pending", "published"}] : st = state /\ st = state'
    BY <1>1 DEF Types, Fails
  <1>10. Proceed(f, d, st) /\ UNCHANGED topic /\ Settled(w, st)
    BY <1>1, <1>4, <1>8, <1>9 DEF Fails
  <1>11. flush' \in [Flushes -> FlushTypes] /\ \A g \in Flushes : FlushInv(flush'[g])
    BY <1>1, <1>6, <1>7, <1>10, ProceedInv
  <1> QED
    BY <1>8, <1>9, <1>10, <1>11, OrderKept

\* An invalid row is parked; its order does not matter.
LEMMA RefusedStep == ASSUME OrderInv, NEW f \in Flushes, Refused(f) PROVE OrderInv'
  <1>1. Types /\ Settled(written, state) /\ \A g \in Flushes : FlushInv(flush[g])
    BY DEF OrderInv
  <1>2. PICK d \in FlushTypes : d = flush[f]
    BY <1>1 DEF Types
  <1>3. d.at \in d.rows /\ BatchInv(d, d.at) /\ d.at \in Rows /\ d.at \notin Due
    BY <1>1, <1>2 DEF FlushInv, FlushTypes, Refused, RowOf, Due
  <1>4. PICK w \in 0 .. N : w = written /\ w = written'
    BY <1>1 DEF Types, Refused
  <1>5. PICK st : st = [state EXCEPT ![d.at] = IF state[d.at] = "pending" THEN "none" ELSE state[d.at]]
    OBVIOUS
  <1>6. st \in [Rows -> {"none", "pending", "published"}] /\ Settled(w, st)
    <2>1. state \in [Rows -> {"none", "pending", "published"}] /\ Settled(w, state)
      BY <1>1, <1>4 DEF Types
    <2> QED
      BY <1>3, <1>5, <2>1, SettledAfter, Zenon
  <1>7. Proceed(f, d, st) /\ st = state' /\ UNCHANGED topic
    BY <1>2, <1>5 DEF Refused, RowOf
  <1>8. flush' \in [Flushes -> FlushTypes] /\ \A g \in Flushes : FlushInv(flush'[g])
    BY <1>1, <1>3, <1>4, <1>6, <1>7, ProceedInv
  <1> QED
    BY <1>4, <1>6, <1>7, <1>8, OrderKept

\* A request joins the running flush or starts one with a fresh batch.
LEMMA FlushPublishInv ==
    ASSUME OrderInv, NEW st, NEW w \in 0 .. N, Settled(w, st), FlushPublish(st)
    PROVE  flush' \in [Flushes -> FlushTypes] /\ \A g \in Flushes : FlushInv(flush'[g])
  <1>1. flush \in [Flushes -> FlushTypes] /\ \A g \in Flushes : FlushInv(flush[g])
    BY DEF OrderInv, Types
  <1>2. NoFlush \in FlushTypes
    BY DEF NoFlush, FlushTypes
  <1>3. Drain(st) \in FlushTypes /\ FlushInv(Drain(st))
    BY <1>2, RoundInv DEF Drain
  <1>4. flush' = flush \/ \E f \in Flushes : flush' = [flush EXCEPT ![f] = Drain(st)]
    BY DEF FlushPublish
  <1> QED
    BY <1>1, <1>3, <1>4

\* A new row is the last in write order.
LEMMA InsertStep == ASSUME OrderInv, Insert PROVE OrderInv'
  <1>1. Types /\ Settled(written, state)
    BY DEF OrderInv
  <1>2. PICK w \in 0 .. N : w = written' /\ w = written + 1
    BY <1>1, PublishAssumption DEF Types, Insert
  <1>3. w \in Rows
    BY <1>1, <1>2 DEF Types, Rows
  <1>4. PICK st : st = [state EXCEPT ![w] = "pending"]
    OBVIOUS
  <1>5. st \in [Rows -> {"none", "pending", "published"}]
    BY <1>1, <1>4 DEF Types
  <1>6. Settled(w, st)
    <2>1. state \in [Rows -> {"none", "pending", "published"}] /\ written \in Nat /\ w = written + 1
      BY <1>1, <1>2 DEF Types
    <2>2. \A r \in Rows : r \in Nat
      BY DEF Rows
    <2> QED
      BY <1>1, <1>4, <2>1, <2>2 DEF Settled, Due
  <1>7. FlushPublish(st) /\ st = state' /\ UNCHANGED topic
    BY <1>2, <1>4 DEF Insert
  <1>8. flush' \in [Flushes -> FlushTypes] /\ \A g \in Flushes : FlushInv(flush'[g])
    BY <1>6, <1>7, FlushPublishInv
  <1> QED
    BY <1>2, <1>5, <1>6, <1>7, <1>8, OrderKept

\* The steps that change neither rows nor topics.
LEMMA OtherSteps ==
    ASSUME OrderInv,
           Tick \/ Crash \/ (\E f \in Flushes : DrainEnds(f) \/ Clear(f))
             \/ UNCHANGED vars
    PROVE  OrderInv'
  <1> DEFINE Kept == flush' \in [Flushes -> FlushTypes] /\ \A g \in Flushes : FlushInv(flush'[g])
  <1>1. /\ Types /\ Settled(written, state)
        /\ flush \in [Flushes -> FlushTypes] /\ \A g \in Flushes : FlushInv(flush[g])
    BY DEF OrderInv, Types
  <1>2. UNCHANGED <<written, state, topic>>
    BY DEF Tick, Crash, DrainEnds, Clear, vars
  <1>3. PICK w \in 0 .. N : w = written /\ w = written'
    BY <1>1, <1>2 DEF Types
  <1>4. PICK st \in [Rows -> {"none", "pending", "published"}] : st = state /\ st = state'
    BY <1>1, <1>2 DEF Types
  <1>5. NoFlush \in FlushTypes /\ FlushInv(NoFlush)
    BY DEF NoFlush, FlushTypes, FlushInv
  <1>6. Kept
    <2>1. CASE Tick
      BY <1>1, <1>3, <2>1, FlushPublishInv DEF Tick
    <2>2. CASE Crash
      BY <1>5, <2>2 DEF Crash
    <2>3. ASSUME NEW f \in Flushes, DrainEnds(f) PROVE Kept
      <3>1. Drain(state) \in FlushTypes /\ FlushInv(Drain(state))
        BY <1>1, <1>3, <1>5, RoundInv DEF Drain
      <3>2. PICK n \in FlushTypes : n = [flush[f] EXCEPT !.pc = "returned"]
        BY <1>1 DEF FlushTypes
      <3>3. FlushInv(n)
        BY <1>1, <3>2 DEF FlushInv, FlushTypes
      <3>4. flush' = [flush EXCEPT ![f] = Drain(state)] \/ flush' = [flush EXCEPT ![f] = n]
        BY <1>1, <2>3, <3>2 DEF DrainEnds
      <3> QED
        BY <1>1, <3>1, <3>3, <3>4
    <2>4. ASSUME NEW f \in Flushes, Clear(f) PROVE Kept
      BY <1>1, <1>5, <2>4 DEF Clear
    <2>5. CASE UNCHANGED vars
      BY <1>1, <2>5 DEF vars
    <2> QED
      BY <2>1, <2>2, <2>3, <2>4, <2>5
  <1> QED
    BY <1>1, <1>2, <1>3, <1>4, <1>6, OrderKept

\* Every step of the publisher keeps the invariant (flushPublish, kickFlush, the append's answer).
LEMMA OrderStep == OrderInv /\ [Next]_vars => OrderInv'
  <1> SUFFICES ASSUME OrderInv, [Next]_vars PROVE OrderInv'
    OBVIOUS
  <1> QED
    BY AppendsStep, MarksStep, FailsStep, RefusedStep, InsertStep, OtherSteps DEF Next

\* A topic receives the rows of its mesh in write order (drain: a failed append blocks its mesh for the
\* pass, and pendingPublish reads the oldest rows first), for any number of rows, meshes and
\* requests, any batch size, and whatever fails, is refused or crashes.
THEOREM WriteOrderKept == Spec => []InWriteOrder
  <1>1. OrderInv => InWriteOrder
    BY DEF OrderInv
  <1> QED
    BY OrderInit, OrderStep, <1>1, PTL DEF Spec

----------------------------------------------------------------------------
(* Repeats: a row is appended a second time only for a crash.              *)

Running(f) == flush[f].pc # "none"

\* The row whose append has returned and whose mark has not been made.
Unmarked == {r \in Rows : \E f \in Flushes : flush[f].pc = "appended" /\ flush[f].at = r}

\* The rows that will be appended again: a crash took the mark of their append.
AtRisk == {r \in Rows : state[r] = "pending" /\ Reached(r)} \ Unmarked

\* From the place of the loop on, the rows of the batch are still pending.
AheadPending(d, st) ==
    d.pc \in {"publishing", "appended"} =>
        d.at \in d.rows /\ \A r \in d.rows : r >= d.at => st[r] = "pending"

\* At most one flush runs, while `flushing` is set.
OneFlight ==
    /\ \A f \in Flushes : Running(f) => flushing
    /\ \A f, g \in Flushes : Running(f) /\ Running(g) => f = g

\* Each repeat so far, and each row that will be repeated, has its crash.
RepeatInv ==
    /\ OneFlight
    /\ \A f \in Flushes : AheadPending(flush[f], state)
    /\ \A r \in Rows : Reached(r) => r <= written
    /\ crashes \in Nat /\ IsFiniteSet(Repeats)
    /\ Cardinality(Repeats) + Cardinality(AtRisk) <= crashes

\* There are finitely many rows.
LEMMA RowsFinite == ASSUME NEW S \in SUBSET Rows PROVE IsFiniteSet(S) /\ Cardinality(S) \in Nat
  <1>1. S \in SUBSET Nat /\ \A r \in S : r <= N
    BY PublishAssumption DEF Rows
  <1>2. IsFiniteSet(S)
    BY <1>1, PublishAssumption, FS_BoundedSetOfNaturals
  <1> QED
    BY <1>2, FS_CardinalityType

\* A round starts at a row of its batch, and the batch is pending.
LEMMA RoundAhead ==
    ASSUME NEW d \in FlushTypes, NEW st
    PROVE  \E n \in FlushTypes : n = Round(d, st) /\ n.pc \in {"publishing", "left"} /\ AheadPending(n, st)
  <1> DEFINE b == [d EXCEPT !.rows = PendingPublish(st), !.progressed = FALSE]
             E == Eligible(b, 1)
  <1>1. b \in FlushTypes /\ b.rows = PendingPublish(st)
    BY DEF FlushTypes, PendingPublish, PendingRows
  <1>2. \A r \in b.rows : st[r] = "pending"
    BY <1>1 DEF PendingPublish, PendingRows
  <1>3. CASE E = {}
    <2>1. Round(d, st) = [b EXCEPT !.pc = "left"]
      BY <1>3 DEF Round
    <2> HIDE DEF b
    <2> QED
      BY <1>1, <2>1 DEF FlushTypes, AheadPending
  <1>4. CASE E # {}
    <2>1. Round(d, st) = [b EXCEPT !.pc = "publishing", !.at = Min(E)]
      BY <1>4 DEF Round, Publishing
    <2> HIDE DEF b
    <2>2. E \in SUBSET Nat /\ E \in SUBSET b.rows
      BY <1>1 DEF Eligible, FlushTypes, Rows
    <2>3. Min(E) \in E
      BY <1>4, <2>2, MinIsLeast
    <2>4. Min(E) \in b.rows /\ Min(E) \in Nat
      BY <2>2, <2>3
    <2> HIDE DEF E
    <2> QED
      BY <1>1, <1>2, <2>1, <2>4 DEF FlushTypes, AheadPending
  <1> QED
    BY <1>3, <1>4

\* So does going on after a row: the rows after it are pending.
LEMMA ProceedAhead ==
    ASSUME Types, NEW f \in Flushes, NEW d \in FlushTypes, NEW st,
           \A r \in d.rows : r > d.at => st[r] = "pending",
           Proceed(f, d, st)
    PROVE  \E n \in FlushTypes :
             flush' = [flush EXCEPT ![f] = n] /\ n.pc \in {"publishing", "left"} /\ AheadPending(n, st)
  <1> DEFINE E == Eligible(d, d.at + 1)
  <1>1. CASE E # {}
    <2>1. E \in SUBSET Nat
      BY DEF Eligible, FlushTypes, Rows
    <2>2. Min(E) \in E
      BY <1>1, <2>1, MinIsLeast
    <2>3. Min(E) \in d.rows /\ Min(E) \in Nat /\ Min(E) >= d.at + 1 /\ d.at \in Nat /\ d.rows \in SUBSET Rows
      BY <2>1, <2>2 DEF Eligible, FlushTypes
    <2>4. \A r \in d.rows : r \in Nat /\ (r >= Min(E) => st[r] = "pending")
      BY <2>3 DEF Rows
    <2>5. flush' = [flush EXCEPT ![f] = [d EXCEPT !.pc = "publishing", !.at = Min(E)]]
      BY <1>1 DEF Proceed, Publishing
    <2>6. PICK n \in FlushTypes : n = [d EXCEPT !.pc = "publishing", !.at = Min(E)]
      BY <2>3 DEF FlushTypes
    <2> HIDE DEF E
    <2>7. AheadPending(n, st) /\ n.pc = "publishing"
      BY <2>3, <2>4, <2>6 DEF FlushTypes, AheadPending
    <2> QED
      BY <2>5, <2>6, <2>7
  <1>2. CASE E = {} /\ More(d)
    <2>1. flush' = [flush EXCEPT ![f] = Round(d, st)]
      BY <1>2 DEF Proceed
    <2> QED
      BY <2>1, RoundAhead
  <1>3. CASE E = {} /\ ~More(d)
    <2>1. PICK n \in FlushTypes : n = [flush[f] EXCEPT !.pc = "left"]
      BY DEF Types, FlushTypes
    <2>2. flush' = [flush EXCEPT ![f] = n]
      BY <1>3, <2>1 DEF Proceed, Types
    <2>3. n.pc = "left"
      BY <2>1 DEF Types, FlushTypes
    <2> QED
      BY <2>2, <2>3 DEF AheadPending
  <1> QED
    BY <1>1, <1>2, <1>3

\* The count holds when neither topics nor crashes change and no row comes to be at risk.
LEMMA CountKept ==
    ASSUME RepeatInv, UNCHANGED <<topic, crashes>>, AtRisk' \subseteq AtRisk
    PROVE  /\ crashes' \in Nat /\ IsFiniteSet(Repeats')
           /\ Cardinality(Repeats') + Cardinality(AtRisk') <= crashes'
  <1>1. Repeats' = Repeats
    BY DEF Repeats
  <1>2. AtRisk \in SUBSET Rows
    BY DEF AtRisk
  <1>3. IsFiniteSet(AtRisk) /\ Cardinality(AtRisk) \in Nat
    BY <1>2, RowsFinite
  <1>4. Cardinality(AtRisk') <= Cardinality(AtRisk) /\ Cardinality(AtRisk') \in Nat
    BY <1>3, FS_Subset, FS_CardinalityType
  <1>5. Cardinality(Repeats) \in Nat
    BY FS_CardinalityType DEF RepeatInv
  <1> QED
    BY <1>1, <1>3, <1>4, <1>5 DEF RepeatInv

\* A step of one flush that appends nothing: the rows it makes pending have not been appended,
\* and a row that was waiting for its mark is not pending any more.
LEMMA FlightStep ==
    ASSUME Types, RepeatInv, UNCHANGED <<topic, crashes>>,
           NEW f \in Flushes, NEW n \in FlushTypes, flush' = [flush EXCEPT ![f] = n],
           n.pc # "appended", n.pc # "none" => flushing', AheadPending(n, state'),
           \A g \in Flushes : g # f => ~Running(g),
           \A r \in Rows : state'[r] = "pending" => state[r] = "pending" \/ ~Reached(r),
           flush[f].pc = "appended" => state'[flush[f].at] # "pending",
           \A r \in Rows : r <= written => r <= written'
    PROVE  RepeatInv'
  <1>1. \A g \in Flushes : flush'[g] = IF g = f THEN n ELSE flush[g]
    BY DEF Types
  <1>2. \A r : Reached(r)' <=> Reached(r)
    BY DEF Reached
  <1>3. OneFlight'
    BY <1>1 DEF OneFlight, Running
  <1>4. \A g \in Flushes : AheadPending(flush[g], state)'
    BY <1>1 DEF AheadPending, Running
  <1>5. AtRisk' \subseteq AtRisk
    <2> SUFFICES ASSUME NEW r \in Rows, state'[r] = "pending", Reached(r)'
                 PROVE  r \in AtRisk
      BY DEF AtRisk
    <2>1. state[r] = "pending" /\ Reached(r)
      BY <1>2
    <2>2. r \notin Unmarked
      BY DEF Unmarked, Running
    <2> QED
      BY <2>1, <2>2 DEF AtRisk
  <1>6. \A r \in Rows : Reached(r)' => r <= written'
    BY <1>2 DEF RepeatInv
  <1> QED
    BY <1>3, <1>4, <1>5, <1>6, CountKept DEF RepeatInv

----------------------------------------------------------------------------
\* Initially nothing is appended.
LEMMA RepeatInit == Init => RepeatInv
  <1> SUFFICES ASSUME Init PROVE RepeatInv
    OBVIOUS
  <1>1. \A f \in Flushes : flush[f].pc = "none"
    BY DEF Init, NoFlush
  <1>2. \A r \in Rows : ~Reached(r)
    BY PublishAssumption DEF Init, Reached
  <1>3. Repeats = {}
    BY DEF Init, Repeats
  <1>4. AtRisk = {}
    BY <1>2 DEF AtRisk
  <1>5. OneFlight /\ \A f \in Flushes : AheadPending(flush[f], state)
    BY <1>1 DEF OneFlight, Running, AheadPending
  <1>6. Cardinality(Repeats) = 0 /\ Cardinality(AtRisk) = 0 /\ IsFiniteSet(Repeats)
    BY <1>3, <1>4, FS_EmptySet
  <1> QED
    BY <1>2, <1>5, <1>6 DEF RepeatInv, Init

\* An append repeats a row only if the row was at risk, and then it is not any more.
LEMMA AppendsRepeat ==
    ASSUME OrderInv, RepeatInv, NEW f \in Flushes, Appends(f)
    PROVE  RepeatInv'
  <1>1. Types /\ Settled(written, state) /\ flush[f] \in FlushTypes /\ flush[f].pc = "publishing"
    BY DEF OrderInv, Types, Appends
  <1>2. PICK a \in Rows : a = flush[f].at /\ a \in flush[f].rows /\ state[a] = "pending"
    BY <1>1 DEF RepeatInv, AheadPending, FlushTypes
  <1>3. PICK m \in Meshes : m = MeshOf[a]
    BY PublishAssumption
  <1>4. PICK t \in Seq(Rows) : t = topic[m]
    BY <1>1 DEF Types
  <1>5. /\ topic' = [topic EXCEPT ![m] = Append(t, a)] /\ topic \in [Meshes -> Seq(Rows)]
        /\ UNCHANGED <<written, state, flushing, crashes>>
    BY <1>1, <1>2, <1>3, <1>4 DEF Appends, RowOf, Types
  <1>6. PICK e \in FlushTypes : e = [flush[f] EXCEPT !.pc = "appended"]
    BY <1>1 DEF FlushTypes
  <1>7. /\ \A g \in Flushes : flush'[g] = IF g = f THEN e ELSE flush[g]
        /\ e.pc = "appended" /\ e.at = a /\ e.rows = flush[f].rows
    BY <1>1, <1>2, <1>6 DEF Appends, Types, FlushTypes
  <1>8. \A g \in Flushes : g # f => flush[g].pc = "none"
    BY <1>1 DEF RepeatInv, OneFlight, Running
  <1>9. flushing
    BY <1>1 DEF RepeatInv, OneFlight, Running
  <1>10. OneFlight'
    BY <1>5, <1>7, <1>8, <1>9 DEF OneFlight, Running
  <1>11. \A g \in Flushes : AheadPending(flush[g], state)'
    <2>1. AheadPending(flush[f], state)
      BY DEF RepeatInv
    <2>2. AheadPending(e, state)
      BY <1>1, <1>2, <1>7, <2>1 DEF AheadPending
    <2>3. \A g \in Flushes : g # f => AheadPending(flush[g], state)'
      BY <1>5, <1>7, <1>8 DEF AheadPending
    <2>4. AheadPending(flush[f], state)'
      BY <1>5, <1>7, <2>2 DEF AheadPending
    <2> QED
      BY <2>3, <2>4
  <1>12. Unmarked = {} /\ Unmarked' = {a}
    BY <1>1, <1>7, <1>8 DEF Unmarked
  <1>13. \A r \in Rows : Reached(r)' <=> Reached(r) \/ r = a
    <2> SUFFICES ASSUME NEW r \in Rows PROVE Reached(r)' <=> Reached(r) \/ r = a
      OBVIOUS
    <2>1. PICK k \in Meshes : k = MeshOf[r]
      BY PublishAssumption
    <2>2. CASE k # m
      <3>1. topic'[k] = topic[k] /\ r # a
        BY <1>3, <1>5, <2>1, <2>2
      <3> QED
        BY <2>1, <3>1 DEF Reached
    <2>3. CASE k = m
      <3>1. topic'[k] = Append(t, a) /\ topic[k] = t
        BY <1>4, <1>5, <2>3
      <3>2. (\E j \in 1 .. Len(Append(t, a)) : Append(t, a)[j] = r) <=> (\E j \in 1 .. Len(t) : t[j] = r) \/ r = a
        <4>1. Len(Append(t, a)) = Len(t) + 1 /\ Len(t) \in Nat /\ Append(t, a)[Len(t) + 1] = a
          OBVIOUS
        <4>2. \A j \in 1 .. Len(t) : Append(t, a)[j] = t[j]
          OBVIOUS
        <4> HIDE DEF Reached
        <4> QED
          BY <4>1, <4>2
      <3> QED
        BY <2>1, <3>1, <3>2 DEF Reached
    <2> QED
      BY <2>2, <2>3
  <1>14. \A r \in Rows : Reached(r)' => r <= written'
    BY <1>1, <1>2, <1>5, <1>13 DEF RepeatInv, Settled
  <1>15. AtRisk' = AtRisk \ {a} /\ (a \in AtRisk <=> Reached(a))
    BY <1>2, <1>5, <1>12, <1>13 DEF AtRisk
  <1>16. Repeats' = IF Reached(a) THEN Repeats \cup {<<m, Len(t) + 1>>} ELSE Repeats
    <2>1. Reached(a) <=> \E j \in 1 .. Len(t) : t[j] = a
      BY <1>3, <1>4 DEF Reached
    <2>2. ASSUME NEW p
          PROVE  p \in Repeats' <=> p \in Repeats \/ (Reached(a) /\ p = <<m, Len(t) + 1>>)
      <3>1. p \in Repeats <=> \E k \in Meshes : \E i \in DOMAIN topic[k] :
                p = <<k, i>> /\ \E j \in 1 .. i - 1 : topic[k][j] = topic[k][i]
        BY DEF Repeats
      <3>2. p \in Repeats' <=> \E k \in Meshes : \E i \in DOMAIN topic'[k] :
                p = <<k, i>> /\ \E j \in 1 .. i - 1 : topic'[k][j] = topic'[k][i]
        BY DEF Repeats
      <3>3. \A k \in Meshes : k # m => topic'[k] = topic[k]
        BY <1>5
      <3>4. /\ topic'[m] = Append(t, a) /\ Len(t) \in Nat
            /\ DOMAIN topic'[m] = 1 .. Len(t) + 1 /\ DOMAIN t = 1 .. Len(t)
            /\ topic'[m][Len(t) + 1] = a
            /\ \A j \in 1 .. Len(t) : topic'[m][j] = t[j]
        <4> DEFINE u == Append(t, a)
        <4>1. topic'[m] = u
          BY <1>4, <1>5
        <4>2. Len(t) \in Nat /\ DOMAIN t = 1 .. Len(t) /\ DOMAIN u = 1 .. Len(t) + 1
          BY <1>4
        <4>3. u[Len(t) + 1] = a /\ \A j \in 1 .. Len(t) : u[j] = t[j]
          BY <1>4
        <4> HIDE DEF u
        <4> QED
          BY <4>1, <4>2, <4>3 DEF u
      <3>5. \A i \in 1 .. Len(t) : (\E j \in 1 .. i - 1 : topic'[m][j] = topic'[m][i]) <=> (\E j \in 1 .. i - 1 : t[j] = t[i])
        BY <3>4
      <3>6. (\E j \in 1 .. (Len(t) + 1) - 1 : topic'[m][j] = topic'[m][Len(t) + 1]) <=> Reached(a)
        BY <2>1, <3>4
      <3>7. ASSUME p \in Repeats' PROVE p \in Repeats \/ (Reached(a) /\ p = <<m, Len(t) + 1>>)
        <4>0. PICK k \in Meshes : \E i \in DOMAIN topic'[k] :
                  p = <<k, i>> /\ \E j \in 1 .. i - 1 : topic'[k][j] = topic'[k][i]
          BY <3>2, <3>7
        <4>1. PICK i \in DOMAIN topic'[k] :
                  p = <<k, i>> /\ \E j \in 1 .. i - 1 : topic'[k][j] = topic'[k][i]
          BY <4>0
        <4>2. CASE k # m
          BY <3>1, <3>3, <4>1, <4>2
        <4>3. CASE k = m /\ i \in 1 .. Len(t)
          <5>1. i \in DOMAIN topic[k] /\ \E j \in 1 .. i - 1 : topic[k][j] = topic[k][i]
            BY <1>4, <3>4, <3>5, <4>1, <4>3
          <5> QED
            BY <3>1, <4>1, <5>1
        <4>4. CASE k = m /\ i = Len(t) + 1
          BY <3>6, <4>1, <4>4
        <4> QED
          BY <3>4, <4>1, <4>2, <4>3, <4>4
      <3>8. ASSUME p \in Repeats PROVE p \in Repeats'
        <4>0. PICK k \in Meshes : \E i \in DOMAIN topic[k] :
                  p = <<k, i>> /\ \E j \in 1 .. i - 1 : topic[k][j] = topic[k][i]
          BY <3>1, <3>8
        <4>1. PICK i \in DOMAIN topic[k] :
                  p = <<k, i>> /\ \E j \in 1 .. i - 1 : topic[k][j] = topic[k][i]
          BY <4>0
        <4>2. CASE k # m
          BY <3>2, <3>3, <4>1, <4>2
        <4>3. CASE k = m
          <5>1. i \in 1 .. Len(t) /\ i \in DOMAIN topic'[m]
            BY <1>4, <3>4, <4>1, <4>3
          <5> QED
            BY <1>4, <3>2, <3>5, <4>1, <4>3, <5>1
        <4> QED
          BY <4>2, <4>3
      <3>9. ASSUME Reached(a), p = <<m, Len(t) + 1>> PROVE p \in Repeats'
        <4>1. Len(t) + 1 \in DOMAIN topic'[m]
          BY <3>4
        <4> QED
          BY <3>2, <3>6, <3>9, <4>1
      <3> QED
        BY <3>7, <3>8, <3>9
    <2> QED
      BY <2>2
  <1>17. /\ IsFiniteSet(Repeats) /\ Cardinality(Repeats) \in Nat
         /\ IsFiniteSet(AtRisk) /\ Cardinality(AtRisk) \in Nat
    BY RowsFinite, FS_CardinalityType DEF RepeatInv, AtRisk
  <1>18. IsFiniteSet(Repeats') /\ Cardinality(Repeats') + Cardinality(AtRisk') <= crashes'
    <2>1. CASE Reached(a)
      <3>1. Cardinality(AtRisk') = Cardinality(AtRisk) - 1
        BY <1>15, <1>17, <2>1, FS_RemoveElement
      <3>2. IsFiniteSet(Repeats') /\ Cardinality(Repeats') \in {Cardinality(Repeats), Cardinality(Repeats) + 1}
        BY <1>16, <1>17, <2>1, FS_AddElement
      <3> QED
        BY <1>5, <1>17, <3>1, <3>2 DEF RepeatInv
    <2>2. CASE ~Reached(a)
      <3>1. AtRisk' = AtRisk /\ Repeats' = Repeats
        BY <1>15, <1>16, <2>2
      <3> QED
        BY <1>5, <1>17, <3>1 DEF RepeatInv
    <2> QED
      BY <2>1, <2>2
  <1> QED
    BY <1>5, <1>10, <1>11, <1>14, <1>18 DEF RepeatInv

\* The mark takes the row out of the pending ones before the loop goes on.
LEMMA MarksRepeat ==
    ASSUME OrderInv, RepeatInv, NEW f \in Flushes, Marks(f)
    PROVE  RepeatInv'
  <1>1. Types /\ flush[f] \in FlushTypes /\ flush[f].pc = "appended"
    BY DEF OrderInv, Types, Marks
  <1>2. PICK d \in FlushTypes : d = [flush[f] EXCEPT !.progressed = TRUE]
    BY <1>1 DEF FlushTypes
  <1>3. PICK a \in Rows : a = flush[f].at /\ d.at = a /\ d.rows = flush[f].rows /\ a \in d.rows
    BY <1>1, <1>2 DEF RepeatInv, AheadPending, FlushTypes
  <1>4. PICK st : st = [state EXCEPT ![a] = IF state[a] = "pending" THEN "published" ELSE state[a]]
    OBVIOUS
  <1>5. Proceed(f, d, st) /\ st = state' /\ UNCHANGED <<topic, crashes, written, flushing>>
    BY <1>1, <1>2, <1>3, <1>4 DEF Marks, RowOf
  <1>6. state \in [Rows -> {"none", "pending", "published"}]
    BY <1>1 DEF Types
  <1>7. \A r \in d.rows : r > d.at => st[r] = "pending"
    <2>1. \A r \in d.rows : r \in Rows /\ (r >= a => state[r] = "pending") /\ r \in Nat /\ a \in Nat
      BY <1>1, <1>3 DEF RepeatInv, AheadPending, FlushTypes, Rows
    <2> QED
      BY <1>3, <1>4, <1>6, <2>1
  <1>8. PICK n \in FlushTypes :
            flush' = [flush EXCEPT ![f] = n] /\ n.pc \in {"publishing", "left"} /\ AheadPending(n, st)
    BY <1>1, <1>5, <1>7, ProceedAhead
  <1>9. \A r \in Rows : state'[r] = "pending" => state[r] = "pending" /\ r # a
    BY <1>4, <1>5, <1>6
  <1>10. flushing /\ \A g \in Flushes : g # f => ~Running(g)
    BY <1>1 DEF RepeatInv, OneFlight, Running
  <1> QED
    BY <1>1, <1>3, <1>5, <1>8, <1>9, <1>10, FlightStep

\* A failed or refused append, and the end of a drain or of a flush, append nothing.
LEMMA EndsRepeat ==
    ASSUME OrderInv, RepeatInv, NEW f \in Flushes, Fails(f) \/ Refused(f) \/ DrainEnds(f) \/ Clear(f)
    PROVE  RepeatInv'
  <1>1. /\ Types /\ flush[f] \in FlushTypes /\ state \in [Rows -> {"none", "pending", "published"}]
        /\ NoFlush \in FlushTypes
    BY DEF OrderInv, Types, NoFlush, FlushTypes
  <1>2. flush[f].pc # "none" /\ flush[f].pc # "appended" /\ UNCHANGED <<topic, crashes, written>>
    BY DEF Fails, Refused, DrainEnds, Clear
  <1>3. flushing /\ \A g \in Flushes : g # f => ~Running(g)
    BY <1>2 DEF RepeatInv, OneFlight, Running
  <1>4. \A r \in flush[f].rows : r \in Rows /\ r \in Nat /\ flush[f].at \in Nat
    BY <1>1 DEF FlushTypes, Rows
  <1>5. CASE Fails(f)
    <2>1. flush[f].pc = "publishing" /\ UNCHANGED <<state, flushing>>
      BY <1>5 DEF Fails
    <2>2. flush[f].at \in Rows /\ \A r \in flush[f].rows : r > flush[f].at => state[r] = "pending"
      BY <1>1, <1>4, <2>1 DEF RepeatInv, AheadPending, FlushTypes
    <2>3. PICK d \in FlushTypes : d = [flush[f] EXCEPT !.blocked = @ \cup {MeshOf[RowOf(f)]}]
      <3>1. MeshOf[flush[f].at] \in Meshes
        BY <2>2, PublishAssumption
      <3> QED
        BY <1>1, <3>1 DEF FlushTypes, RowOf
    <2>4. d.at = flush[f].at /\ d.rows = flush[f].rows /\ Proceed(f, d, state)
      BY <1>1, <1>5, <2>3 DEF FlushTypes, Fails
    <2>5. PICK n \in FlushTypes :
              flush' = [flush EXCEPT ![f] = n] /\ n.pc \in {"publishing", "left"} /\ AheadPending(n, state)
      BY <1>1, <2>2, <2>4, ProceedAhead
    <2>6. AheadPending(n, state')
      BY <2>1, <2>5
    <2> QED
      BY <1>1, <1>2, <1>3, <2>1, <2>5, <2>6, FlightStep
  <1>6. CASE Refused(f)
    <2>1. flush[f].pc = "publishing" /\ UNCHANGED flushing
      BY <1>6 DEF Refused
    <2>2. PICK a \in Rows : a = flush[f].at
      BY <1>1, <2>1 DEF RepeatInv, AheadPending, FlushTypes
    <2>3. PICK st : st = [state EXCEPT ![a] = IF state[a] = "pending" THEN "none" ELSE state[a]]
      OBVIOUS
    <2>4. Proceed(f, flush[f], st) /\ st = state'
      BY <1>6, <2>2, <2>3 DEF Refused, RowOf
    <2>5. \A r \in flush[f].rows : r > flush[f].at => st[r] = "pending"
      <3>1. \A r \in flush[f].rows : r >= a => state[r] = "pending"
        BY <2>1, <2>2 DEF RepeatInv, AheadPending
      <3> QED
        BY <1>1, <1>4, <2>2, <2>3, <3>1
    <2>6. PICK n \in FlushTypes :
              flush' = [flush EXCEPT ![f] = n] /\ n.pc \in {"publishing", "left"} /\ AheadPending(n, st)
      BY <1>1, <2>4, <2>5, ProceedAhead
    <2>7. \A r \in Rows : state'[r] = "pending" => state[r] = "pending"
      BY <1>1, <2>3, <2>4
    <2> QED
      BY <1>1, <1>2, <1>3, <2>1, <2>4, <2>6, <2>7, FlightStep
  <1>7. CASE DrainEnds(f)
    <2>1. UNCHANGED <<state, flushing>> /\ flush[f].pc = "left"
      BY <1>7 DEF DrainEnds
    <2>2. PICK n \in FlushTypes : flush' = [flush EXCEPT ![f] = n] /\ n.pc # "appended" /\ AheadPending(n, state)
      <3>1. CASE again
        BY <1>1, <1>7, <3>1, RoundAhead DEF DrainEnds, Drain
      <3>2. CASE ~again
        <4>1. PICK n \in FlushTypes : n = [flush[f] EXCEPT !.pc = "returned"]
          BY <1>1 DEF FlushTypes
        <4>2. n.pc = "returned" /\ flush' = [flush EXCEPT ![f] = n]
          BY <1>1, <1>7, <3>2, <4>1 DEF DrainEnds, Types, FlushTypes
        <4> QED
          BY <4>2 DEF AheadPending
      <3> QED
        BY <3>1, <3>2
    <2>3. AheadPending(n, state')
      BY <2>1, <2>2
    <2> QED
      BY <1>1, <1>2, <1>3, <2>1, <2>2, <2>3, FlightStep
  <1>8. CASE Clear(f)
    <2>1. UNCHANGED state /\ flush' = [flush EXCEPT ![f] = NoFlush]
      BY <1>8 DEF Clear
    <2>2. NoFlush.pc = "none" /\ AheadPending(NoFlush, state')
      BY DEF NoFlush, AheadPending
    <2> QED
      BY <1>1, <1>2, <1>3, <2>1, <2>2, FlightStep
  <1> QED
    BY <1>5, <1>6, <1>7, <1>8

\* A request joins the flush under way, or starts one when none runs; a row that has just been
\* written has not been appended.
LEMMA RequestRepeat ==
    ASSUME Types, RepeatInv, UNCHANGED <<topic, crashes>>, NEW st, st = state', FlushPublish(st),
           \A r \in Rows : state[r] = "pending" => st[r] = "pending",
           \A r \in Rows : st[r] = "pending" => state[r] = "pending" \/ ~Reached(r),
           \A r \in Rows : r <= written => r <= written'
    PROVE  RepeatInv'
  <1>1. CASE flushing
    <2>1. UNCHANGED <<flush, flushing>>
      BY <1>1 DEF FlushPublish
    <2>2. \A r : Reached(r)' <=> Reached(r)
      BY DEF Reached
    <2>3. OneFlight'
      BY <2>1 DEF OneFlight, Running, RepeatInv
    <2>4. \A g \in Flushes : AheadPending(flush[g], state)'
      BY <2>1 DEF AheadPending, RepeatInv, Types, FlushTypes
    <2>5. AtRisk' \subseteq AtRisk
      BY <2>1, <2>2 DEF AtRisk, Unmarked
    <2>6. \A r \in Rows : Reached(r)' => r <= written'
      BY <2>2 DEF RepeatInv
    <2> QED
      BY <2>3, <2>4, <2>5, <2>6, CountKept DEF RepeatInv
  <1>2. CASE ~flushing
    <2>1. PICK f \in Flushes : flush[f].pc = "none" /\ flush' = [flush EXCEPT ![f] = Drain(st)] /\ flushing'
      BY <1>2 DEF FlushPublish
    <2>2. NoFlush \in FlushTypes
      BY DEF NoFlush, FlushTypes
    <2>3. PICK n \in FlushTypes : n = Drain(st) /\ n.pc \in {"publishing", "left"} /\ AheadPending(n, st)
      BY <2>2, RoundAhead DEF Drain
    <2>4. \A g \in Flushes : ~Running(g)
      BY <1>2 DEF RepeatInv, OneFlight
    <2> QED
      BY <2>1, <2>3, <2>4, FlightStep
  <1> QED
    BY <1>1, <1>2

\* A crash leaves at most one row appended and unmarked, and is counted.
LEMMA CrashRepeat == ASSUME OrderInv, RepeatInv, Crash PROVE RepeatInv'
  <1>1. UNCHANGED <<written, state, topic>> /\ crashes' = crashes + 1 /\ \A f \in Flushes : flush'[f].pc = "none"
    BY DEF Crash, NoFlush
  <1>2. \A r : Reached(r)' <=> Reached(r)
    BY <1>1 DEF Reached
  <1>3. OneFlight' /\ \A f \in Flushes : AheadPending(flush[f], state)'
    BY <1>1 DEF OneFlight, Running, AheadPending
  <1>4. Repeats' = Repeats
    BY <1>1 DEF Repeats
  <1>5. AtRisk' \subseteq AtRisk \cup Unmarked
    BY <1>1, <1>2 DEF AtRisk, Unmarked
  <1>6. \E a : Unmarked \subseteq {a}
    BY DEF Unmarked, RepeatInv, OneFlight, Running
  <1>7. PICK a : AtRisk' \subseteq AtRisk \cup {a}
    BY <1>5, <1>6
  <1>8. /\ IsFiniteSet(Repeats) /\ Cardinality(Repeats) \in Nat
        /\ IsFiniteSet(AtRisk) /\ Cardinality(AtRisk) \in Nat
    BY RowsFinite, FS_CardinalityType DEF RepeatInv, AtRisk
  <1>9. /\ IsFiniteSet(AtRisk \cup {a})
        /\ Cardinality(AtRisk \cup {a}) \in {Cardinality(AtRisk), Cardinality(AtRisk) + 1}
    BY <1>8, FS_AddElement
  <1>10. Cardinality(AtRisk') <= Cardinality(AtRisk \cup {a}) /\ Cardinality(AtRisk') \in Nat
    BY <1>7, <1>9, FS_Subset, FS_CardinalityType
  <1>11. crashes' \in Nat /\ Cardinality(Repeats') + Cardinality(AtRisk') <= crashes'
    BY <1>1, <1>4, <1>8, <1>9, <1>10 DEF RepeatInv
  <1>12. \A r \in Rows : Reached(r)' => r <= written'
    BY <1>1, <1>2 DEF RepeatInv
  <1> QED
    BY <1>3, <1>4, <1>8, <1>11, <1>12 DEF RepeatInv

\* Every step of the publisher keeps the count of repeats.
LEMMA RepeatStep == OrderInv /\ RepeatInv /\ [Next]_vars => RepeatInv'
  <1> SUFFICES ASSUME OrderInv, RepeatInv, [Next]_vars PROVE RepeatInv'
    OBVIOUS
  <1>1. Types /\ state \in [Rows -> {"none", "pending", "published"}] /\ written \in Nat
    BY DEF OrderInv, Types
  <1>2. CASE Insert
    <2>1. written + 1 \in Rows /\ written' = written + 1 /\ UNCHANGED <<topic, crashes>>
      BY <1>1, <1>2, PublishAssumption DEF Insert, Rows
    <2>2. PICK st : st = [state EXCEPT ![written + 1] = "pending"]
      OBVIOUS
    <2>3. st = state' /\ FlushPublish(st)
      BY <1>2, <2>2 DEF Insert
    <2>4. ~Reached(written + 1)
      BY <1>1, <2>1 DEF RepeatInv
    <2>5. \A r \in Rows : st[r] = IF r = written + 1 THEN "pending" ELSE state[r]
      BY <1>1, <2>2
    <2>6. \A r \in Rows : r <= written => r <= written'
      BY <1>1, <2>1 DEF Rows
    <2> QED
      BY <1>1, <2>1, <2>3, <2>4, <2>5, <2>6, RequestRepeat
  <1>3. CASE Tick
    BY <1>1, <1>3, RequestRepeat DEF Tick
  <1>4. CASE UNCHANGED vars
    <2>1. UNCHANGED <<written, state, topic, flush, flushing, crashes>>
      BY <1>4 DEF vars
    <2>2. AtRisk' = AtRisk /\ Repeats' = Repeats
      BY <2>1 DEF AtRisk, Unmarked, Reached, Repeats
    <2> QED
      BY <2>1, <2>2 DEF RepeatInv, OneFlight, Running, AheadPending, Reached
  <1> QED
    BY <1>2, <1>3, <1>4, CrashRepeat, AppendsRepeat, MarksRepeat, EndsRepeat DEF Next

\* The topics hold at most one repeated entry per crash (flushPublish's single flight, markPublished after
\* each append): for any rows, meshes and batch size, and however appends fail, overlap
\* with requests and with new rows, nothing but a crash makes the publisher append a row again.
THEOREM RepeatsBounded == Spec => []RepeatedOnlyByCrash
  <1>1. OrderInv /\ RepeatInv => RepeatedOnlyByCrash
    <2> SUFFICES ASSUME RepeatInv PROVE RepeatedOnlyByCrash
      OBVIOUS
    <2>1. Cardinality(Repeats) \in Nat /\ Cardinality(AtRisk) \in Nat
      BY RowsFinite, FS_CardinalityType DEF RepeatInv, AtRisk
    <2> QED
      BY <2>1 DEF RepeatInv, RepeatedOnlyByCrash
  <1>2. Init => OrderInv /\ RepeatInv
    BY OrderInit, RepeatInit
  <1>3. OrderInv /\ RepeatInv /\ [Next]_vars => (OrderInv /\ RepeatInv)'
    BY OrderStep, RepeatStep
  <1> QED
    BY <1>1, <1>2, <1>3, PTL DEF Spec
=============================================================================
