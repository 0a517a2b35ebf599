------------------------- MODULE NewWorkHoldProofs -------------------------
(***************************************************************************)
(* The writers of the hold file are serialised, for any number of          *)
(* processes, commands, crashes and write errors, as long as no process    *)
(* takes a lock file for stale (older than STALE_LOCK_MS).                 *)
(*                                                                         *)
(* With one process, and no such hypothesis: a sealed hold means that no   *)
(* task is assigned, and a hold ends only as it may.                       *)
(***************************************************************************)
EXTENDS NewWorkHold, TLAPS

Phases == {"inactive", "draining", "sealed"}

Records ==
    [active : BOOLEAN, phase : Phases, hold : Holds, rev : Int,
     expires : Int, count : Int, extended : Int, warned : BOOLEAN]

Reqs == Requests \cup {NoRun.req}

Runs ==
    [req : Reqs, stage : {"none", "reconcile", "apply", "tick"}, at : Int, base : Int,
     draft : Records, tries : Int, result : {"none", "conflict", "written", "error"}]

\* No process takes a lock for stale.
NoStale == \A p \in Procs : pc[p] # "stale"

\* The types of the state, and no time stamp ahead of the clock.
Shape ==
    /\ now \in Nat /\ now <= MaxTime
    /\ file \in Records
    /\ lock \in [by : SUBSET Procs, at : Int] /\ 0 <= lock.at
    /\ cache \in [Procs -> Records]
    /\ pc \in [Procs -> PCs]
    /\ run \in [Procs -> Runs]
    /\ \A p \in Procs : run[p].at <= now

IInv == Shape /\ SerialInv

----------------------------------------------------------------------------
\* Renewing a record keeps its shape and its revision.
LEMMA RenewedShape ==
    ASSUME NEW s \in Records, NEW t \in Int
    PROVE  Renewed(s, t) \in Records /\ Renewed(s, t).rev = s.rev
  <1> DEFINE g == Grant(s)
             e == t + g
             c == s.count + 1
             x == s.extended + g
             n == [s EXCEPT !.expires = e, !.count = c, !.extended = x]
  <1>1. g \in Int
    BY HoldAssumption DEF Grant, Least, Records
  <1>2. e \in Int /\ c \in Int /\ x \in Int
    BY <1>1 DEF Records
  <1>3. n \in Records /\ n.rev = s.rev
    <2> HIDE DEF e, c, x
    <2> QED BY <1>2 DEF Records
  <1>4. Renewed(s, t) = s \/ Renewed(s, t) = n
    BY DEF Renewed
  <1> QED
    BY <1>3, <1>4

\* So does reconciling it.
LEMMA FollowedShape ==
    ASSUME NEW s \in Records, NEW t \in Int
    PROVE  Followed(s, t) \in Records /\ Followed(s, t).rev = s.rev
  <1>1. Phase \in Phases
    BY DEF Phase, Phases
  <1> QED
    BY <1>1, RenewedShape DEF Followed, Records, Phases

\* What a command writes is the successor of the revision it started from.
LEMMA CommandShape ==
    ASSUME NEW s \in Records, NEW t \in Int, NEW r \in Reqs
    PROVE  /\ Command(r, s, t) \in Records
           /\ Command(r, s, t) # s => Command(r, s, t).rev = s.rev + 1
  <1>1. r.hold \in Holds
    BY DEF Reqs, NoRun, Holds
  <1>2. Phase \in Phases
    BY DEF Phase, Phases
  <1> DEFINE e == t + Ttl
             h == r.hold
             v == s.rev + 1
             ph == Phase
             begun == [s EXCEPT !.active = TRUE, !.phase = ph, !.hold = h, !.rev = v,
                                !.expires = e, !.count = 0, !.extended = 0]
             longer == [s EXCEPT !.expires = e, !.rev = v]
             ended == [s EXCEPT !.active = FALSE, !.phase = "inactive", !.rev = v]
  <1>3. e \in Int /\ v \in Int /\ h \in Holds /\ ph \in Phases
    BY HoldAssumption, <1>1, <1>2 DEF Records
  <1>4. begun \in Records /\ begun.rev = v
    <2> DEFINE s1 == [s EXCEPT !.active = TRUE, !.phase = ph, !.hold = h]
               s2 == [s1 EXCEPT !.rev = v, !.expires = e]
               z == 0
               s3 == [s2 EXCEPT !.count = z, !.extended = z]
    <2>1. begun = s3
      BY Zenon
    <2> HIDE DEF e, h, v, ph
    <2>2. s1 \in Records
      BY <1>3 DEF Records
    <2> HIDE DEF s1
    <2>3. s2 \in Records /\ s2.rev = v
      BY <1>3, <2>2 DEF Records
    <2> HIDE DEF s2
    <2>4. z \in Int
      OBVIOUS
    <2> HIDE DEF z
    <2>5. s3 \in Records /\ s3.rev = v
      BY <2>3, <2>4 DEF Records
    <2> QED
      BY <2>1, <2>5
  <1>5. longer \in Records /\ longer.rev = v
    <2> HIDE DEF e, v
    <2> QED BY <1>3 DEF Records
  <1>6. ended \in Records /\ ended.rev = v
    <2> HIDE DEF v
    <2> QED BY <1>3 DEF Records, Phases
  <1>7. Command(r, s, t) \in {begun, longer, ended, s}
    BY Zenon DEF Command, SetHold, ExtendHold, ReleaseHold
  <1> HIDE DEF begun, longer, ended
  <1> QED
    BY <1>4, <1>5, <1>6, <1>7

\* The initial records have their shape.
LEMMA RestShape == Inactive \in Records /\ Absent \in Records /\ NoRun \in Runs
  <1>1. Inactive \in Records
    BY DEF Inactive, Records, Phases, Holds
  <1>2. Absent \in Records
    BY <1>1 DEF Absent, Records
  <1>3. NoRun.req \in Reqs
    BY DEF Reqs
  <1>4. NoRun \in Runs
    <2> DEFINE q == [op |-> "none", hold |-> NoHold, force |-> FALSE]
    <2>1. q \in Reqs
      BY <1>3 DEF NoRun
    <2> HIDE DEF q
    <2> QED BY <1>1, <2>1 DEF NoRun, Runs, q
  <1> QED
    BY <1>1, <1>2, <1>4

----------------------------------------------------------------------------
\* What a process may start: nothing, or a write of the successor of its base.
Begun(p, x, y) ==
    /\ x \in {"try", "idle"} /\ y \in Runs /\ y.at <= now
    /\ x = "try" => y.draft.rev = y.base + 1
    /\ pc' = Put(pc, p, x) /\ run' = Put(run, p, y)

\* A write that is started is of the successor of its base.
LEMMA WritingBegins ==
    ASSUME Shape, NEW p \in Procs, NEW r \in Reqs, NEW g \in {"reconcile", "apply", "tick"},
           NEW t \in Int, t <= now, NEW s \in Records, NEW d \in Records,
           d.rev = s.rev + 1,
           run' = Put(run, p, Writing(r, g, t, s, d)), pc' = Put(pc, p, "try")
    PROVE  \E x, y : Begun(p, x, y)
  <1> DEFINE y == Writing(r, g, t, s, d)
  <1>1. y \in Runs /\ y.at = t /\ y.base = s.rev /\ y.draft = d
    BY HoldAssumption DEF Writing, Runs, Records
  <1> HIDE DEF y
  <1>2. Begun(p, "try", y)
    BY <1>1 DEF Begun, y
  <1> QED
    BY <1>2

\* A process goes back to idle.
LEMMA NothingBegins ==
    ASSUME Shape, NEW p \in Procs, run' = Put(run, p, NoRun), pc' = Put(pc, p, "idle")
    PROVE  \E x, y : Begun(p, x, y)
  <1>1. NoRun.at <= now
    BY DEF NoRun, Shape
  <1>2. Begun(p, "idle", NoRun)
    BY <1>1, RestShape DEF Begun
  <1> QED
    BY <1>2

\* The command of set, extend or release.
LEMMA ApplyBegins ==
    ASSUME Shape, NEW p \in Procs, NEW r \in Reqs, NEW t \in Int, t <= now,
           NEW s \in Records, Apply(p, r, t, s)
    PROVE  \E x, y : Begun(p, x, y)
  <1>1. CASE Command(r, s, t) # s
    <2>1. /\ run' = Put(run, p, Writing(r, "apply", t, s, Command(r, s, t)))
          /\ pc' = Put(pc, p, "try")
      BY <1>1 DEF Apply
    <2> QED
      BY <1>1, <2>1, CommandShape, WritingBegins
  <1>2. CASE Command(r, s, t) = s
    BY <1>2, NothingBegins DEF Apply
  <1> QED
    BY <1>1, <1>2

\* The write of a reconciled record.
LEMMA ReconcileBegins ==
    ASSUME Shape, NEW p \in Procs, NEW r \in Reqs, NEW g \in {"reconcile", "tick"},
           NEW s \in Records,
           run' = Put(run, p, Writing(r, g, now, s, Reconciled(s, now))),
           pc' = Put(pc, p, "try")
    PROVE  \E x, y : Begun(p, x, y)
  <1> DEFINE f == Followed(s, now)
             v == s.rev + 1
             d == [f EXCEPT !.rev = v]
  <1>1. now \in Int /\ f \in Records /\ v \in Int
    BY FollowedShape DEF Shape, Records
  <1>2. d \in Records /\ d.rev = v
    <2> HIDE DEF f, v
    <2> QED BY <1>1 DEF Records
  <1>3. Reconciled(s, now) = d
    BY DEF Reconciled
  <1> HIDE DEF d
  <1> QED
    BY <1>1, <1>2, <1>3, WritingBegins

\* What follows a write.
LEMMA ContinueBegins ==
    ASSUME Shape, NEW p \in Procs, NEW s \in Records, Continue(p, s)
    PROVE  \E x, y : Begun(p, x, y)
  <1>1. run[p].req \in Reqs /\ run[p].at \in Int /\ run[p].at <= now
    BY DEF Shape, Runs
  <1>2. Apply(p, run[p].req, run[p].at, s) \/ (run' = Put(run, p, NoRun) /\ pc' = Put(pc, p, "idle"))
    BY DEF Continue
  <1> QED
    BY <1>1, <1>2, ApplyBegins, NothingBegins

----------------------------------------------------------------------------
\* A step of process p keeps the invariant if it leaves p well placed and neither takes
\* the lock from another process nor replaces the file another has compared.
LEMMA OwnStep ==
    ASSUME IInv, NEW p \in Procs, NEW x \in PCs, NEW y \in Runs,
           pc' = Put(pc, p, x), run' = Put(run, p, y), y.at <= now, now' = now,
           file' \in Records, cache' \in [Procs -> Records],
           lock' \in [by : SUBSET Procs, at : Int], 0 <= lock'.at,
           x # "stale",
           x \in {"locked", "checked", "unlock"} => lock'.by = {p},
           x = "checked" => file' = Absent \/ file'.rev = y.base,
           x \in {"try", "locked", "checked"} => y.draft.rev = y.base + 1,
           \A q \in Procs \ {p} : pc[q] \in {"locked", "checked", "unlock"} =>
               lock' = lock /\ file' = file
    PROVE  IInv'
  <1>1. /\ pc' \in [Procs -> PCs] /\ run' \in [Procs -> Runs]
        /\ pc'[p] = x /\ run'[p] = y
        /\ \A q \in Procs \ {p} : pc'[q] = pc[q] /\ run'[q] = run[q]
    BY DEF IInv, Shape, Put
  <1>2. Shape'
    BY <1>1 DEF IInv, Shape
  <1>3. SerialInv'
    <2> SUFFICES ASSUME NEW q \in Procs
                 PROVE  /\ pc'[q] # "stale"
                        /\ pc'[q] \in {"locked", "checked", "unlock"} => lock'.by = {q}
                        /\ pc'[q] = "checked" => file' = Absent \/ file'.rev = run'[q].base
                        /\ pc'[q] \in {"try", "locked", "checked"} =>
                              run'[q].draft.rev = run'[q].base + 1
      BY DEF SerialInv
    <2>1. CASE q = p
      BY <1>1, <2>1
    <2>2. CASE q # p
      BY <1>1, <2>2 DEF IInv, SerialInv
    <2> QED
      BY <2>1, <2>2
  <1> QED
    BY <1>2, <1>3 DEF IInv

\* A process that begins, from a step that leaves the lock and the file alone.
LEMMA BeginStep ==
    ASSUME IInv, NEW p \in Procs, \E x, y : Begun(p, x, y), now' = now, file' = file,
           cache' \in [Procs -> Records],
           \/ lock' = lock
           \/ lock' = NoLock /\ lock.by = {p}
    PROVE  IInv'
  <1>1. PICK x, y : Begun(p, x, y)
    OBVIOUS
  <1>2. lock' \in [by : SUBSET Procs, at : Int] /\ 0 <= lock'.at /\ file' \in Records
    BY DEF IInv, Shape, NoLock
  <1>3. \A q \in Procs \ {p} : pc[q] \in {"locked", "checked", "unlock"} =>
            lock' = lock /\ file' = file
    BY DEF IInv, SerialInv
  <1> QED
    BY <1>1, <1>2, <1>3, OwnStep DEF Begun, PCs

----------------------------------------------------------------------------
\* The copies keep their shape.
LEMMA PutShape ==
    ASSUME Shape, NEW p \in Procs, NEW s \in Records
    PROVE  Put(cache, p, s) \in [Procs -> Records]
  BY DEF Put, Shape

\* So does the local copy of a failed set.
LEMMA FencedShape ==
    ASSUME Shape, NEW p \in Procs
    PROVE  FencedLocally(p) \in [Procs -> Records]
  <1> DEFINE d == run[p].draft
  <1>1. d \in Records /\ cache \in [Procs -> Records]
    BY DEF Shape, Runs
  <1>2. [d EXCEPT !.warned = TRUE] \in Records
    <2> HIDE DEF d
    <2> QED BY <1>1 DEF Records
  <1> QED
    BY <1>1, <1>2, PutShape DEF FencedLocally

\* And what readState returns.
LEMMA ReadShape ==
    ASSUME Shape, NEW p \in Procs
    PROVE  Read(p) \in Records /\ ReadForMutation(p) \in Records
  BY RestShape DEF Read, ReadForMutation, Shape

\* The operations begin.
LEMMA StartKeeps ==
    ASSUME IInv, NEW p \in Procs, NEW r \in Requests, Start(p, r)
    PROVE  IInv'
  <1> DEFINE s == ReadForMutation(p)
  <1>1. s \in Records /\ Shape /\ r \in Reqs /\ now \in Int /\ now <= now
    BY ReadShape DEF IInv, Shape, Reqs
  <1>2. /\ cache' = Put(cache, p, s) /\ now' = now /\ file' = file /\ lock' = lock
        /\ \/ /\ run' = Put(run, p, Writing(r, "reconcile", now, s, Reconciled(s, now)))
              /\ pc' = Put(pc, p, "try")
           \/ Apply(p, r, now, s)
    BY DEF Start
  <1> HIDE DEF s
  <1>3. \E x, y : Begun(p, x, y)
    BY <1>1, <1>2, ReconcileBegins, ApplyBegins
  <1> QED
    BY <1>1, <1>2, <1>3, PutShape, BeginStep

\* The lifecycle tick.
LEMMA TickKeeps ==
    ASSUME IInv, NEW p \in Procs, Tick(p)
    PROVE  IInv'
  <1> DEFINE s == Read(p)
             r == NoRun.req
  <1>1. s \in Records /\ Shape /\ r \in Reqs
    BY ReadShape DEF IInv, Reqs
  <1>2. /\ cache' = Put(cache, p, s) /\ now' = now /\ file' = file /\ lock' = lock
        /\ run' = Put(run, p, Writing(r, "tick", now, s, Reconciled(s, now)))
        /\ pc' = Put(pc, p, "try")
    BY DEF Tick
  <1> HIDE DEF s, r
  <1>3. \E x, y : Begun(p, x, y)
    BY <1>1, <1>2, ReconcileBegins
  <1> QED
    BY <1>1, <1>2, <1>3, PutShape, BeginStep

\* The lock is taken, waited for, or given up.
LEMMA TryLockKeeps ==
    ASSUME IInv, NEW p \in Procs, TryLock(p), NoStale'
    PROVE  IInv'
  <1>1. pc[p] = "try" /\ now' = now /\ file' = file
    BY DEF TryLock
  <1>2. /\ Shape /\ file \in Records /\ cache \in [Procs -> Records] /\ run[p] \in Runs
        /\ run[p].at <= now /\ run[p].draft.rev = run[p].base + 1
        /\ run[p].draft \in Records /\ run[p].tries \in Int
    BY <1>1 DEF IInv, Shape, SerialInv, Runs
  <1>3. CASE lock = NoLock /\ lock' = [by |-> {p}, at |-> now] /\ pc' = Put(pc, p, "locked")
             /\ UNCHANGED <<cache, run, failed>>
    <2>1. lock' \in [by : SUBSET Procs, at : Int] /\ 0 <= lock'.at /\ lock'.by = {p}
      BY <1>3 DEF IInv, Shape
    <2>2. run' = Put(run, p, run[p])
      BY <1>3 DEF Put, IInv, Shape
    <2>3. \A q \in Procs \ {p} : pc[q] \notin {"locked", "checked", "unlock"}
      BY <1>3 DEF IInv, SerialInv, NoLock
    <2> QED
      BY <1>1, <1>2, <1>3, <2>1, <2>2, <2>3, OwnStep DEF PCs
  <1>4. pc' # Put(pc, p, "stale")
    BY DEF NoStale, Put
  <1>5. CASE run' = Put(run, p, [run[p] EXCEPT !.tries = @ - 1])
             /\ UNCHANGED <<lock, cache, pc, failed>>
    <2> DEFINE n == run[p].tries - 1
               y == [run[p] EXCEPT !.tries = n]
    <2>1. n \in Int
      BY <1>2
    <2>2. y \in Runs /\ y.at <= now /\ y.draft.rev = y.base + 1
      <3> HIDE DEF n
      <3> QED BY <1>2, <2>1 DEF Runs
    <2>3. pc' = Put(pc, p, "try") /\ run' = Put(run, p, y)
      BY <1>1, <1>5 DEF Put, IInv, Shape
    <2>4. lock' \in [by : SUBSET Procs, at : Int] /\ 0 <= lock'.at
      BY <1>5 DEF IInv, Shape
    <2> HIDE DEF y
    <2> QED
      BY <1>1, <1>2, <1>5, <2>2, <2>3, <2>4, OwnStep DEF PCs
  <1>6. CASE cache' = FencedLocally(p) /\ Continue(p, run[p].draft) /\ UNCHANGED lock
    BY <1>1, <1>2, <1>6, FencedShape, ContinueBegins, BeginStep
  <1> QED
    BY <1>3, <1>4, <1>5, <1>6 DEF TryLock

\* The file is compared, replaced and unlocked by the process that owns the lock.
LEMMA CheckKeeps ==
    ASSUME IInv, NEW p \in Procs, Check(p)
    PROVE  IInv'
  <1>1. pc[p] = "locked" /\ now' = now /\ file' = file /\ lock' = lock
    BY DEF Check
  <1>2. /\ Shape /\ file \in Records /\ cache \in [Procs -> Records] /\ run[p] \in Runs
        /\ run[p].at <= now /\ run[p].draft.rev = run[p].base + 1 /\ lock.by = {p}
        /\ lock \in [by : SUBSET Procs, at : Int] /\ 0 <= lock.at
    BY <1>1 DEF IInv, Shape, SerialInv
  <1>3. CASE file # Absent /\ file.rev # run[p].base
    <2> DEFINE y == [run[p] EXCEPT !.result = "conflict"]
    <2>1. y \in Runs /\ y.at <= now
      BY <1>2 DEF Runs
    <2>2. pc' = Put(pc, p, "unlock") /\ run' = Put(run, p, y) /\ cache' = Put(cache, p, file)
      BY <1>3 DEF Check
    <2> HIDE DEF y
    <2>3. cache' \in [Procs -> Records]
      BY <1>2, <2>2, PutShape
    <2> QED
      BY <1>1, <1>2, <2>1, <2>2, <2>3, OwnStep DEF PCs
  <1>4. CASE ~(file # Absent /\ file.rev # run[p].base)
    <2>1. pc' = Put(pc, p, "checked") /\ cache' = cache /\ run' = run
      BY <1>4 DEF Check
    <2>2. run' = Put(run, p, run[p])
      BY <2>1 DEF Put, IInv, Shape
    <2> QED
      BY <1>1, <1>2, <1>4, <2>1, <2>2, OwnStep DEF PCs
  <1> QED
    BY <1>3, <1>4

\* The replacement of the file: the only step that changes it.
LEMMA RenameKeeps ==
    ASSUME IInv, NEW p \in Procs, Rename(p)
    PROVE  IInv' /\ (file # Absent => file'.rev = file.rev + 1)
  <1> DEFINE d == run[p].draft
             s == [d EXCEPT !.warned = FALSE]
             y == [run[p] EXCEPT !.result = "written"]
  <1>1. /\ pc[p] = "checked" /\ now' = now /\ lock' = lock
        /\ file' = s /\ cache' = Put(cache, p, s)
        /\ run' = Put(run, p, y) /\ pc' = Put(pc, p, "unlock")
    BY DEF Rename
  <1>2. /\ Shape /\ run[p] \in Runs /\ d \in Records
        /\ run[p].at <= now /\ d.rev = run[p].base + 1 /\ lock.by = {p}
        /\ lock \in [by : SUBSET Procs, at : Int] /\ 0 <= lock.at
        /\ file = Absent \/ file.rev = run[p].base
    BY <1>1 DEF IInv, Shape, SerialInv, Runs
  <1>3. s \in Records /\ s.rev = d.rev
    <2> HIDE DEF d
    <2> QED BY <1>2 DEF Records
  <1>4. y \in Runs /\ y.at <= now
    BY <1>2 DEF Runs
  <1>5. \A q \in Procs \ {p} : pc[q] \notin {"locked", "checked", "unlock"}
    BY <1>2 DEF IInv, SerialInv
  <1> HIDE DEF s, y
  <1>6. cache' \in [Procs -> Records]
    BY <1>1, <1>2, <1>3, PutShape
  <1>7. IInv'
    BY <1>1, <1>2, <1>3, <1>4, <1>5, <1>6, OwnStep DEF PCs
  <1> QED
    BY <1>1, <1>2, <1>3, <1>7

\* A failed write.
LEMMA WriteErrorKeeps ==
    ASSUME IInv, NEW p \in Procs, WriteError(p)
    PROVE  IInv'
  <1> DEFINE y == [run[p] EXCEPT !.result = "error"]
  <1>1. /\ pc[p] = "checked" /\ now' = now /\ lock' = lock /\ file' = file
        /\ cache' = FencedLocally(p)
        /\ run' = Put(run, p, y) /\ pc' = Put(pc, p, "unlock")
    BY DEF WriteError
  <1>2. /\ Shape /\ run[p] \in Runs /\ run[p].at <= now /\ lock.by = {p} /\ file \in Records
        /\ lock \in [by : SUBSET Procs, at : Int] /\ 0 <= lock.at
    BY <1>1 DEF IInv, Shape, SerialInv
  <1>3. y \in Runs /\ y.at <= now
    BY <1>2 DEF Runs
  <1> HIDE DEF y
  <1>4. cache' \in [Procs -> Records]
    BY <1>1, <1>2, FencedShape
  <1> QED
    BY <1>1, <1>2, <1>3, <1>4, OwnStep DEF PCs

\* The lock is removed by the process that owns it.
LEMMA UnlockKeeps ==
    ASSUME IInv, NEW p \in Procs, Unlock(p)
    PROVE  IInv'
  <1> DEFINE s == IF run[p].result = "conflict" THEN cache[p] ELSE run[p].draft
  <1>1. /\ pc[p] = "unlock" /\ now' = now /\ lock' = NoLock /\ file' = file /\ cache' = cache
        /\ Continue(p, s)
    BY DEF Unlock
  <1>2. Shape /\ s \in Records /\ lock.by = {p} /\ cache' \in [Procs -> Records]
    BY <1>1 DEF IInv, Shape, SerialInv, Runs
  <1> HIDE DEF s
  <1> QED
    BY <1>1, <1>2, ContinueBegins, BeginStep

\* The steps that do not write the file.
LEMMA ClaimKeeps ==
    ASSUME IInv, NEW p \in Procs,
           ClaimAsks(p) \/ ClaimCommits(p) \/ ChatBegins(p) \/ WorkEnds(p)
    PROVE  IInv'
  <1>1. /\ pc[p] \in {"idle", "claiming"} /\ now' = now /\ lock' = lock /\ file' = file
        /\ run' = run /\ cache' \in {cache, Put(cache, p, Read(p))}
        /\ pc' = pc \/ pc' = Put(pc, p, "claiming") \/ pc' = Put(pc, p, "idle")
    BY DEF ClaimAsks, ClaimCommits, ChatBegins, WorkEnds
  <1>2. Shape /\ file \in Records /\ cache \in [Procs -> Records]
        /\ lock \in [by : SUBSET Procs, at : Int] /\ 0 <= lock.at
        /\ run[p] \in Runs /\ run[p].at <= now
    BY DEF IInv, Shape
  <1>3. cache' \in [Procs -> Records]
    <2>1. CASE cache' = cache
      BY ONLY <1>2, <2>1
    <2>2. CASE cache' = Put(cache, p, Read(p))
      <3>1. Put(cache, p, Read(p)) \in [Procs -> Records]
        BY ONLY <1>2, p \in Procs, ReadShape, PutShape
      <3> QED
        BY ONLY <2>2, <3>1
    <2> QED
      BY ONLY <1>1, <2>1, <2>2
  <1>4. run' = Put(run, p, run[p])
    BY <1>1 DEF IInv, Shape, Put
  <1>5. PICK z \in {"claiming", "idle"} : pc' = Put(pc, p, z)
    BY <1>1 DEF IInv, Shape, Put
  <1> QED
    BY <1>1, <1>2, <1>3, <1>4, <1>5, OwnStep DEF PCs

\* A process dies; its lock stays and excludes the others.
LEMMA CrashKeeps ==
    ASSUME IInv, NEW p \in Procs, Crash(p)
    PROVE  IInv'
  <1>1. /\ now' = now /\ lock' = lock /\ file' = file /\ cache' = Put(cache, p, Inactive)
        /\ pc' = Put(pc, p, "idle") /\ run' = Put(run, p, NoRun)
    BY DEF Crash
  <1>2. Shape
    BY DEF IInv
  <1>3. \E x, y : Begun(p, x, y)
    BY <1>1, <1>2, NothingBegins
  <1>4. cache' \in [Procs -> Records]
    BY <1>1, <1>2, RestShape, PutShape
  <1> QED
    BY <1>1, <1>3, <1>4, BeginStep

\* The clock.
LEMMA PassesKeeps == ASSUME IInv, Passes PROVE IInv'
  <1>1. Shape'
    BY HoldAssumption DEF IInv, Shape, Passes, Runs
  <1>2. SerialInv'
    BY DEF IInv, SerialInv, Passes
  <1> QED
    BY <1>1, <1>2 DEF IInv

\* Every step keeps the invariant and replaces only the revision it was made from.
LEMMA NextKeeps ==
    ASSUME IInv, [Next]_vars, NoStale'
    PROVE  IInv' /\ (file # Absent /\ file' # file => file'.rev = file.rev + 1)
  <1>1. CASE UNCHANGED vars
    BY <1>1 DEF IInv, Shape, SerialInv, vars
  <1>2. CASE Passes
    BY <1>2, PassesKeeps DEF Passes
  <1>3. ASSUME NEW p \in Procs, NEW r \in Requests, Start(p, r) PROVE IInv' /\ file' = file
    BY <1>3, StartKeeps DEF Start
  <1>4. ASSUME NEW p \in Procs, Tick(p) PROVE IInv' /\ file' = file
    BY <1>4, TickKeeps DEF Tick
  <1>5. ASSUME NEW p \in Procs, TryLock(p) PROVE IInv' /\ file' = file
    BY <1>5, TryLockKeeps DEF TryLock
  <1>6. ASSUME NEW p \in Procs, RemoveStale(p) PROVE FALSE
    BY <1>6 DEF RemoveStale, IInv, SerialInv
  <1>7. ASSUME NEW p \in Procs, Check(p) PROVE IInv' /\ file' = file
    BY <1>7, CheckKeeps DEF Check
  <1>8. ASSUME NEW p \in Procs, WriteError(p) PROVE IInv' /\ file' = file
    BY <1>8, WriteErrorKeeps DEF WriteError
  <1>9. ASSUME NEW p \in Procs, Unlock(p) PROVE IInv' /\ file' = file
    BY <1>9, UnlockKeeps DEF Unlock
  <1>10. ASSUME NEW p \in Procs,
                ClaimAsks(p) \/ ClaimCommits(p) \/ ChatBegins(p) \/ WorkEnds(p)
         PROVE  IInv' /\ file' = file
    BY <1>10, ClaimKeeps DEF ClaimAsks, ClaimCommits, ChatBegins, WorkEnds
  <1>11. ASSUME NEW p \in Procs, Crash(p) PROVE IInv' /\ file' = file
    BY <1>11, CrashKeeps DEF Crash
  <1> QED
    BY <1>1, <1>2, <1>3, <1>4, <1>5, <1>6, <1>7, <1>8, <1>9, <1>10, <1>11, RenameKeeps
    DEF Next

\* The invariant holds at the start.
LEMMA InitHolds == Init => IInv
  <1> SUFFICES ASSUME Init PROVE IInv
    OBVIOUS
  <1>1. Shape
    <2>1. now \in Nat /\ now <= MaxTime /\ file \in Records
      BY RestShape, HoldAssumption DEF Init
    <2>2. lock \in [by : SUBSET Procs, at : Int] /\ 0 <= lock.at
      BY DEF Init, NoLock
    <2>3. cache \in [Procs -> Records] /\ run \in [Procs -> Runs]
      BY RestShape, Zenon DEF Init
    <2>4. pc \in [Procs -> PCs]
      BY DEF Init, PCs
    <2>5. \A p \in Procs : run[p].at <= now
      BY DEF Init, NoRun
    <2> QED
      BY <2>1, <2>2, <2>3, <2>4, <2>5 DEF Shape
  <1>2. SerialInv
    BY DEF Init, SerialInv
  <1> QED
    BY <1>1, <1>2 DEF IInv

\* A process past openSync owns the lock file, and one past the comparison of revisions
\* still sees the revision it compared (acquireHoldLock, writeState), for any number of
\* processes, commands, crashes and write errors, as long as no lock is judged
\* stale (the remaining way, HoldStaleLock.cfg shows, loses an update).
THEOREM LockExcludes ==
    Spec /\ []NoStale => []SerialInv
  <1>1. IInv /\ [Next]_vars /\ NoStale' => IInv'
    BY NextKeeps
  <1>2. IInv => SerialInv
    BY DEF IInv
  <1> QED
    BY InitHolds, <1>1, <1>2, PTL DEF Spec

\* No update of the hold file is lost: every replacement is made from the very revision it
\* replaces (writeState), as long as no lock is judged
\* stale.
THEOREM WritersSerialised ==
    Spec /\ []NoStale => Serialised
  <1>1. IInv /\ [Next]_vars /\ NoStale' => IInv'
    BY NextKeeps
  <1>2. IInv /\ [Next]_vars /\ NoStale' =>
            [file # Absent /\ file' # file => file'.rev = file.rev + 1]_vars
    BY NextKeeps
  <1> QED
    BY InitHolds, <1>1, <1>2, PTL DEF Spec, Serialised


----------------------------------------------------------------------------
(* A process on its own: no other writer, whatever locks its own crashes   *)
(* leave behind and however old they grow.                                 *)

\* Only one process writes the hold file.
OneProcess == \A p, q \in Procs : p = q

Writes == {"try", "stale", "locked", "checked"}

\* A hold that admission may rely on to be sealed.
SealHolds == file.active /\ file.phase = "sealed" /\ now < file.expires

\* A record says sealed only of an empty census.
SealFits(s) == s.active /\ s.phase = "sealed" => work = {}

\* The draft is made from the file as it is, of the census and the time as they are.
Made(p) ==
    /\ run[p].stage \in {"tick", "reconcile"} => run[p].draft = Reconciled(file, now)
    /\ run[p].stage = "apply" => run[p].draft = Command(run[p].req, file, now)

\* The copy is the file, but for that of a failed set.
Behind(p) == file = Absent \/ cache[p] = file \/ cache[p].warned

\* The copy of a failed set stands in front of an inactive file it is ahead of.
CopyOK(p) ==
    /\ ~file.warned
    /\ cache[p].warned =>
         /\ cache[p].active /\ ~file.active
         /\ file = Absent \/ file.rev < cache[p].rev

\* A write that passes the comparison of revisions was made from the file.
WriteOK(p) ==
    /\ run[p].at = now /\ run[p].stage \in {"tick", "reconcile", "apply"}
    /\ run[p].draft.rev = run[p].base + 1
    /\ Behind(p) /\ SealFits(run[p].draft)
    /\ file = Absent \/ file.rev <= run[p].base
    /\ file # Absent /\ file.rev = run[p].base => Made(p)
    /\ run[p].stage = "reconcile" =>
         ~run[p].draft.warned /\ (file = Absent \/ file.rev = run[p].base)
    /\ pc[p] = "checked" => file = Absent \/ file.rev = run[p].base

\* A reconcile that is over left its draft in the file, or ahead of it.
EndOK(p) ==
    /\ run[p].at = now /\ run[p].result \in {"written", "error"}
    /\ Behind(p) /\ SealFits(run[p].draft) /\ ~run[p].draft.warned
    /\ run[p].result = "written" => file = run[p].draft
    /\ run[p].result = "error" => file = Absent \/ file.rev < run[p].draft.rev

AloneInv ==
    /\ OneProcess
    /\ SealedQuiet
    /\ \A p \in Procs :
         /\ CopyOK(p)
         /\ pc[p] = "claiming" => ~SealHolds
         /\ pc[p] \in Writes => WriteOK(p)
         /\ pc[p] = "unlock" /\ run[p].stage = "reconcile" => EndOK(p)

----------------------------------------------------------------------------
\* What reconciling a record makes of it: the successor, sealed only of an empty census,
\* and ended only once it has expired with no renewal left.
LEMMA ReconciledFits ==
    ASSUME NEW s \in Records, NEW t \in Int
    PROVE  LET d == Reconciled(s, t) IN
           /\ d \in Records /\ d.rev = s.rev + 1 /\ d.warned = s.warned /\ d.hold = s.hold
           /\ SealFits(d)
           /\ s.active /\ ~d.active => t >= s.expires /\ ~Renewable(s, t)
  <1> DEFINE f == Followed(s, t)
             n == Renewed(s, t)
             v == s.rev + 1
             d == [f EXCEPT !.rev = v]
  <1>0. f \in Records
    BY FollowedShape
  <1>1. v \in Int
    BY DEF Records
  <1>2. d \in Records /\ d.rev = v /\ d.warned = f.warned /\ d.hold = f.hold
        /\ d.active = f.active /\ d.phase = f.phase
    <2> HIDE DEF f, v
    <2> QED BY <1>0, <1>1 DEF Records
  <1>3. /\ n.warned = s.warned /\ n.hold = s.hold /\ n.active = s.active
        /\ Renewable(s, t) => n.expires = t + Grant(s)
        /\ ~Renewable(s, t) => n = s
    BY DEF Renewed, Records
  <1>4. DOMAIN n = DOMAIN s
    BY DEF Renewed, Records
  <1>5. Renewable(s, t) => Grant(s) \in Int /\ Grant(s) > 0
    BY HoldAssumption DEF Renewable, Grant, Least, Records
  <1>6. /\ f.warned = s.warned /\ f.hold = s.hold
        /\ t >= n.expires => ~f.active /\ f.phase = "inactive"
        /\ ~(t >= n.expires) => f.phase = Phase
        /\ ~f.active => t >= n.expires \/ ~n.active
    <2> HIDE DEF n
    <2> QED BY <1>3, <1>4 DEF Followed, n, Records
  <1>7. s.active /\ ~f.active => t >= s.expires /\ ~Renewable(s, t)
    BY <1>3, <1>5, <1>6
  <1>8. SealFits(d)
    BY <1>2, <1>6 DEF SealFits, Phase
  <1>9. Reconciled(s, t) = d
    BY DEF Reconciled
  <1> HIDE DEF d
  <1> QED
    BY <1>2, <1>6, <1>7, <1>8, <1>9

\* A record that needs no reconciling is sealed only of an empty census.
LEMMA CleanFits ==
    ASSUME NEW s \in Records, NEW t \in Int, ~Dirty(s, t)
    PROVE  SealFits(s)
  <1> SUFFICES ASSUME s.active, s.phase = "sealed" PROVE work = {}
    BY DEF SealFits
  <1>1. Followed(s, t) = s
    BY DEF Dirty
  <1> DEFINE n == Renewed(s, t)
             over == t >= n.expires
  <1>2. n \in Records
    BY RenewedShape
  <1>3. ~over
    <2> SUFFICES ASSUME over PROVE FALSE
      OBVIOUS
    <2>1. Followed(s, t) = [n EXCEPT !.active = FALSE, !.phase = "inactive"]
      BY DEF Followed
    <2> HIDE DEF n, over
    <2>2. Followed(s, t).phase = "inactive"
      BY <1>2, <2>1 DEF Records
    <2> QED
      BY <1>1, <2>2
  <1>4. Followed(s, t) = [n EXCEPT !.phase = Phase]
    BY <1>3 DEF Followed
  <1> HIDE DEF n
  <1>5. Followed(s, t).phase = Phase
    BY <1>2, <1>4 DEF Records
  <1> QED
    BY <1>1, <1>5 DEF Phase

\* A command seals only of an empty census, and ends the active hold, or puts another in
\* its place, only as a release of it or by force.
LEMMA CommandFits ==
    ASSUME NEW s \in Records, NEW t \in Int, NEW r \in Reqs
    PROVE  LET d == Command(r, s, t) IN
           /\ SealFits(s) => SealFits(d)
           /\ s.active /\ (~d.active \/ d.hold # s.hold) =>
                (r.op = "release" /\ r.hold = s.hold) \/ r.force
  <1> DEFINE d == Command(r, s, t)
  <1>2. SetHold(r, s, t) # s =>
             /\ SetHold(r, s, t).phase = Phase /\ (~s.active \/ r.force)
    BY DEF SetHold, Records
  <1>3. ExtendHold(r, s, t).active = s.active /\ ExtendHold(r, s, t).phase = s.phase
        /\ ExtendHold(r, s, t).hold = s.hold
    BY DEF ExtendHold, Records
  <1>4. /\ ReleaseHold(r, s) # s => ~ReleaseHold(r, s).active /\ r.hold = s.hold
        /\ ReleaseHold(r, s) = s \/ r.hold = s.hold
    BY DEF ReleaseHold, Records
  <1>5. CASE r.op = "set"
    <2>1. d = SetHold(r, s, t)
      BY <1>5 DEF Command
    <2> HIDE DEF d
    <2> QED BY <1>2, <2>1 DEF SealFits, Phase, d
  <1>6. CASE r.op = "extend"
    <2>1. d = ExtendHold(r, s, t)
      BY <1>6 DEF Command
    <2> HIDE DEF d
    <2> QED BY <1>3, <2>1 DEF SealFits, d
  <1>7. CASE r.op = "release"
    <2>1. d = ReleaseHold(r, s)
      BY <1>7 DEF Command
    <2> HIDE DEF d
    <2> QED BY <1>4, <1>7, <2>1 DEF SealFits, d
  <1>8. CASE r.op \notin {"set", "extend", "release"}
    <2>1. d = s
      BY <1>8 DEF Command
    <2> HIDE DEF d
    <2> QED BY <2>1 DEF SealFits, d
  <1> QED
    BY <1>5, <1>6, <1>7, <1>8


----------------------------------------------------------------------------
\* A step of process p keeps the types if it leaves p's own part well typed.
LEMMA ShapeOwn ==
    ASSUME Shape, NEW p \in Procs, NEW x \in PCs, NEW y \in Runs,
           pc' = Put(pc, p, x), run' = Put(run, p, y), y.at <= now, now' = now,
           file' \in Records, cache' \in [Procs -> Records],
           lock' \in [by : SUBSET Procs, at : Int], 0 <= lock'.at
    PROVE  Shape'
  <1>1. /\ pc' \in [Procs -> PCs] /\ run' \in [Procs -> Runs]
        /\ run'[p] = y /\ \A q \in Procs \ {p} : run'[q] = run[q]
    BY DEF Shape, Put
  <1> QED
    BY <1>1 DEF Shape

\* A process that begins, or ends, an operation keeps the types.
LEMMA ShapeBegin ==
    ASSUME Shape, NEW p \in Procs, \E x, y : Begun(p, x, y), now' = now, file' = file,
           cache' \in [Procs -> Records], lock' \in {lock, NoLock}
    PROVE  Shape'
  <1>1. PICK x, y : Begun(p, x, y)
    OBVIOUS
  <1>2. lock' \in [by : SUBSET Procs, at : Int] /\ 0 <= lock'.at /\ file' \in Records
    BY DEF Shape, NoLock
  <1> QED
    BY <1>1, <1>2, ShapeOwn DEF Begun, PCs

\* The operation a process is in, as a step inside a write leaves it.
Onward(p, y) == y \in Runs /\ y.at <= now /\ run' = Put(run, p, y)

\* Those steps change at most the tries left or the result.
LEMMA OnwardRun ==
    ASSUME Shape, NEW p \in Procs,
           \/ run' = run
           \/ run' = Put(run, p, [run[p] EXCEPT !.tries = run[p].tries - 1])
           \/ \E o \in {"conflict", "written", "error"} :
                run' = Put(run, p, [run[p] EXCEPT !.result = o])
    PROVE  \E y : Onward(p, y)
  <1>1. run[p] \in Runs /\ run[p].at <= now /\ run = Put(run, p, run[p])
    BY DEF Shape, Put
  <1>2. run[p].tries - 1 \in Int
    BY <1>1 DEF Runs
  <1>3. ASSUME NEW n \in Int
        PROVE  [run[p] EXCEPT !.tries = n] \in Runs /\ [run[p] EXCEPT !.tries = n].at = run[p].at
    BY <1>1 DEF Runs
  <1>4. ASSUME NEW o \in {"conflict", "written", "error"}
        PROVE  [run[p] EXCEPT !.result = o] \in Runs /\ [run[p] EXCEPT !.result = o].at = run[p].at
    BY <1>1 DEF Runs
  <1>5. CASE run' = run
    BY <1>1, <1>5 DEF Onward
  <1>6. CASE run' = Put(run, p, [run[p] EXCEPT !.tries = run[p].tries - 1])
    BY <1>1, <1>2, <1>3, <1>6 DEF Onward
  <1>7. ASSUME NEW o \in {"conflict", "written", "error"},
               run' = Put(run, p, [run[p] EXCEPT !.result = o])
        PROVE  \E y : Onward(p, y)
    BY <1>1, <1>4, <1>7 DEF Onward
  <1> QED
    BY <1>5, <1>6, <1>7

\* And keep the types.
LEMMA ShapeWrite ==
    ASSUME Shape, NEW p \in Procs, NEW x \in PCs, \E y : Onward(p, y), pc' = Put(pc, p, x),
           now' = now, file' \in Records, cache' \in [Procs -> Records],
           lock' \in {lock, NoLock, [by |-> {p}, at |-> now]}
    PROVE  Shape'
  <1>1. lock' \in [by : SUBSET Procs, at : Int] /\ 0 <= lock'.at
    BY DEF Shape, NoLock
  <1>2. PICK y : Onward(p, y)
    OBVIOUS
  <1> QED
    BY <1>1, <1>2, ShapeOwn DEF Onward

\* The types are kept by every step, stale locks included.
LEMMA ShapeKeeps == ASSUME Shape, [Next]_vars PROVE Shape'
  <1>1. CASE UNCHANGED vars
    BY <1>1 DEF Shape, vars
  <1>2. CASE Passes
    BY <1>2, HoldAssumption DEF Shape, Passes, Runs
  <1>3. ASSUME NEW p \in Procs, NEW r \in Requests, Start(p, r) PROVE Shape'
    <2> DEFINE s == ReadForMutation(p)
    <2>1. s \in Records /\ r \in Reqs /\ now \in Int /\ now <= now
      BY ReadShape DEF Shape, Reqs
    <2>2. /\ cache' = Put(cache, p, s) /\ now' = now /\ file' = file /\ lock' = lock
          /\ \/ /\ run' = Put(run, p, Writing(r, "reconcile", now, s, Reconciled(s, now)))
                /\ pc' = Put(pc, p, "try")
             \/ Apply(p, r, now, s)
      BY <1>3 DEF Start
    <2> HIDE DEF s
    <2>3. \E x, y : Begun(p, x, y)
      BY <2>1, <2>2, ReconcileBegins, ApplyBegins
    <2> QED
      BY <2>1, <2>2, <2>3, PutShape, ShapeBegin
  <1>4. ASSUME NEW p \in Procs, Tick(p) PROVE Shape'
    <2> DEFINE s == Read(p)
               r == NoRun.req
    <2>1. s \in Records /\ r \in Reqs
      BY ReadShape DEF Reqs
    <2>2. /\ cache' = Put(cache, p, s) /\ now' = now /\ file' = file /\ lock' = lock
          /\ run' = Put(run, p, Writing(r, "tick", now, s, Reconciled(s, now)))
          /\ pc' = Put(pc, p, "try")
      BY <1>4 DEF Tick
    <2> HIDE DEF s, r
    <2>3. \E x, y : Begun(p, x, y)
      BY <2>1, <2>2, ReconcileBegins
    <2> QED
      BY <2>1, <2>2, <2>3, PutShape, ShapeBegin
  <1>5. ASSUME NEW p \in Procs, TryLock(p) \/ RemoveStale(p) PROVE Shape'
    <2>1. now' = now /\ file' = file /\ run[p].draft \in Records
          /\ file \in Records /\ cache \in [Procs -> Records]
      BY <1>5 DEF TryLock, RemoveStale, Shape, Runs
    <2>2. CASE cache' = FencedLocally(p) /\ Continue(p, run[p].draft) /\ lock' \in {lock, NoLock}
      BY <2>1, <2>2, FencedShape, ContinueBegins, ShapeBegin
    <2>3. ASSUME NEW x \in PCs, pc' = Put(pc, p, x), cache' = cache,
                 run' = run \/ run' = Put(run, p, [run[p] EXCEPT !.tries = run[p].tries - 1]),
                 lock' \in {lock, NoLock, [by |-> {p}, at |-> now]}
          PROVE  Shape'
      BY <2>1, <2>3, OnwardRun, ShapeWrite
    <2>4. pc[p] \in PCs /\ pc = Put(pc, p, pc[p])
      BY DEF Shape, Put
    <2>5. {"locked", "stale", "try"} \subseteq PCs
      BY DEF PCs
    <2> QED
      BY <1>5, <2>2, <2>3, <2>4, <2>5 DEF TryLock, RemoveStale
  <1>6. ASSUME NEW p \in Procs, Check(p) \/ Rename(p) \/ WriteError(p) PROVE Shape'
    <2> DEFINE d == run[p].draft
               s == [d EXCEPT !.warned = FALSE]
    <2>1. now' = now /\ lock' = lock /\ file \in Records /\ cache \in [Procs -> Records]
      BY <1>6 DEF Check, Rename, WriteError, Shape
    <2>2. d \in Records
      BY DEF Shape, Runs
    <2>3. s \in Records
      <3> HIDE DEF d
      <3> QED BY <2>2 DEF Records
    <2>4. /\ file' \in {file, s}
          /\ cache' \in {cache, Put(cache, p, file), Put(cache, p, s), FencedLocally(p)}
          /\ \E x \in {"unlock", "checked"} : pc' = Put(pc, p, x)
          /\ run' = run \/ \E o \in {"conflict", "written", "error"} :
                             run' = Put(run, p, [run[p] EXCEPT !.result = o])
      BY <1>6, Zenon DEF Check, Rename, WriteError
    <2> HIDE DEF s
    <2>5. cache' \in [Procs -> Records] /\ file' \in Records
      BY <2>1, <2>3, <2>4, PutShape, FencedShape
    <2>6. PICK x \in PCs : pc' = Put(pc, p, x)
      BY <2>4 DEF PCs
    <2>7. \E y : Onward(p, y)
      BY <2>4, OnwardRun
    <2> QED
      BY <2>1, <2>5, <2>6, <2>7, ShapeWrite
  <1>7. ASSUME NEW p \in Procs, Unlock(p) PROVE Shape'
    <2>1. /\ now' = now /\ file' = file /\ lock' = NoLock /\ cache' = cache
          /\ cache \in [Procs -> Records] /\ run[p].draft \in Records
      BY <1>7 DEF Unlock, Shape, Runs
    <2>2. \E s \in Records : Continue(p, s)
      BY <1>7, <2>1 DEF Unlock
    <2> QED
      BY <2>1, <2>2, ContinueBegins, ShapeBegin
  <1>8. ASSUME NEW p \in Procs,
               ClaimAsks(p) \/ ClaimCommits(p) \/ ChatBegins(p) \/ WorkEnds(p)
        PROVE  Shape'
    <2>1. /\ now' = now /\ file' = file /\ lock' = lock /\ run' = run
          /\ cache' = cache \/ cache' = Put(cache, p, Read(p))
          /\ pc' = pc \/ pc' = Put(pc, p, "claiming") \/ pc' = Put(pc, p, "idle")
      BY <1>8 DEF ClaimAsks, ClaimCommits, ChatBegins, WorkEnds
    <2>2. cache' \in [Procs -> Records]
      BY <2>1, ReadShape, PutShape DEF Shape
    <2>3. pc' \in [Procs -> PCs]
      BY <2>1 DEF Shape, Put, PCs
    <2> QED
      BY <2>1, <2>2, <2>3 DEF Shape
  <1>9. ASSUME NEW p \in Procs, Crash(p) PROVE Shape'
    <2>1. /\ now' = now /\ lock' = lock /\ file' = file /\ cache' = Put(cache, p, Inactive)
          /\ pc' = Put(pc, p, "idle") /\ run' = Put(run, p, NoRun)
      BY <1>9 DEF Crash
    <2> QED
      BY <2>1, NothingBegins, RestShape, PutShape, ShapeBegin
  <1> QED
    BY <1>1, <1>2, <1>3, <1>4, <1>5, <1>6, <1>7, <1>8, <1>9 DEF Next


----------------------------------------------------------------------------
\* What Put puts.
LEMMA PutAt == ASSUME NEW f, NEW p \in Procs, NEW v PROVE Put(f, p, v)[p] = v
  BY DEF Put

\* What the sole process has to show of a step.
LEMMA AloneAt ==
    ASSUME OneProcess, NEW p \in Procs, SealedQuiet', CopyOK(p)',
           pc'[p] = "claiming" => ~SealHolds',
           pc'[p] \in Writes => WriteOK(p)',
           pc'[p] = "unlock" /\ run'[p].stage = "reconcile" => EndOK(p)'
    PROVE  AloneInv'
  <1>1. \A q \in Procs : q = p
    BY DEF OneProcess
  <1> QED
    BY <1>1 DEF AloneInv, OneProcess

\* A command made from the file, or ahead of it, is a sound write.
LEMMA ApplyAlone ==
    ASSUME Shape, NEW p \in Procs, NEW r \in Reqs, NEW s \in Records, Apply(p, r, now, s),
           now' = now, file' = file, work' = work, Behind(p)', SealFits(s),
           file = Absent \/ file.rev <= s.rev,
           file # Absent /\ file.rev = s.rev => s = file
    PROVE  pc'[p] = "idle" \/ (pc'[p] = "try" /\ WriteOK(p)')
  <1>1. PICK d : d = Command(r, s, now)
    OBVIOUS
  <1>2. PICK y : y = Writing(r, "apply", now, s, d)
    OBVIOUS
  <1>3. CASE d = s
    BY <1>1, <1>3, PutAt DEF Apply
  <1>4. CASE d # s
    <2>1. pc'[p] = "try" /\ run'[p] = y
      BY <1>1, <1>2, <1>4, PutAt DEF Apply
    <2>2. now \in Int /\ d.rev = s.rev + 1 /\ SealFits(d)
      BY <1>1, <1>4, CommandShape, CommandFits DEF Shape
    <2>3. y.at = now /\ y.stage = "apply" /\ y.base = s.rev /\ y.draft = d /\ y.req = r
      BY <1>2 DEF Writing
    <2>4. SealFits(d)'
      BY <2>2 DEF SealFits
    <2>5. s = file => d = Command(r, file, now)'
      BY <1>1, Zenon DEF Command, SetHold, ExtendHold, ReleaseHold, Phase
    <2>6. file # Absent /\ file.rev = s.rev => Made(p)'
      BY <2>1, <2>3, <2>5, Zenon DEF Made
    <2>7. SealFits(run[p].draft)'
      BY <2>1, <2>3, <2>4 DEF SealFits
    <2> QED
      BY <2>1, <2>2, <2>3, <2>6, <2>7 DEF WriteOK
  <1> QED
    BY <1>3, <1>4

\* So is a reconciled record made from the file, or ahead of it.
LEMMA ReconcileAlone ==
    ASSUME Shape, NEW p \in Procs, NEW r \in Reqs, NEW g \in {"reconcile", "tick"},
           NEW s \in Records,
           run' = Put(run, p, Writing(r, g, now, s, Reconciled(s, now))),
           pc' = Put(pc, p, "try"),
           now' = now, file' = file, work' = work, Behind(p)',
           file = Absent \/ file.rev <= s.rev,
           file # Absent /\ file.rev = s.rev => s = file,
           g = "reconcile" => ~s.warned /\ (file = Absent \/ file.rev = s.rev)
    PROVE  pc'[p] = "try" /\ WriteOK(p)'
  <1>1. PICK d : d = Reconciled(s, now)
    OBVIOUS
  <1>2. PICK y : y = Writing(r, g, now, s, d)
    OBVIOUS
  <1>3. pc'[p] = "try" /\ run'[p] = y
    BY <1>1, <1>2, PutAt
  <1>0. now \in Int
    BY DEF Shape
  <1>4. d.rev = s.rev + 1 /\ d.warned = s.warned /\ SealFits(d)
    BY <1>0, <1>1, ReconciledFits
  <1>5. y.at = now /\ y.stage = g /\ y.base = s.rev /\ y.draft = d
    BY <1>2 DEF Writing
  <1>6. SealFits(run[p].draft)'
    BY <1>3, <1>4, <1>5 DEF SealFits
  <1>7. s = file => d = Reconciled(file, now)'
    BY <1>1, Zenon DEF Reconciled, Followed, Renewed, Renewable, Grant, Phase
  <1>8. file # Absent /\ file.rev = s.rev => Made(p)'
    BY <1>3, <1>5, <1>7 DEF Made
  <1> QED
    BY <1>0, <1>3, <1>4, <1>5, <1>6, <1>8 DEF WriteOK

\* What follows a write of the sole process: its end, or a sound write.
LEMMA ContinueAlone ==
    ASSUME Shape, NEW p \in Procs, NEW s \in Records, Continue(p, s), run[p].at = now,
           now' = now, file' = file, work' = work,
           run[p].stage = "reconcile" =>
             /\ Behind(p)' /\ SealFits(s)
             /\ file = Absent \/ file.rev <= s.rev
             /\ file # Absent /\ file.rev = s.rev => s = file
    PROVE  pc'[p] = "idle" \/ (pc'[p] = "try" /\ WriteOK(p)')
  <1>1. run[p].req \in Reqs
    BY DEF Shape, Runs
  <1>2. CASE run[p].stage = "reconcile"
    <2>1. PICK r \in Reqs : r = run[p].req
      BY <1>1
    <2>2. Apply(p, r, now, s)
      BY <1>2, <2>1 DEF Continue
    <2> QED
      BY <1>2, <2>2, ApplyAlone
  <1>3. CASE run[p].stage # "reconcile"
    BY <1>3, PutAt DEF Continue
  <1> QED
    BY <1>2, <1>3

\* A failed write leaves a copy that is the file, or the failed set in front of it.
LEMMA FencedAlone ==
    ASSUME Shape, NEW p \in Procs, WriteOK(p), CopyOK(p), cache' = FencedLocally(p),
           file' = file
    PROVE  CopyOK(p)' /\ Behind(p)'
  <1>1. PICK d \in Records : d = run[p].draft
    BY DEF Shape, Runs
  <1>2. CASE d.active /\ ~cache[p].active
    <2>1. PICK c : c = [d EXCEPT !.warned = TRUE]
      OBVIOUS
    <2>2. cache'[p] = c
      BY <1>1, <1>2, <2>1, PutAt DEF FencedLocally
    <2>3. c.warned /\ c.active /\ c.rev = d.rev
      BY <1>2, <2>1 DEF Records
    <2>4. ~file.active
      BY <1>2 DEF WriteOK, Behind, CopyOK, Absent, Inactive
    <2>5. file = Absent \/ file.rev < d.rev
      BY <1>1 DEF WriteOK, Shape, Runs, Records
    <2> QED
      BY <2>2, <2>3, <2>4, <2>5 DEF CopyOK, Behind
  <1>3. CASE ~(d.active /\ ~cache[p].active)
    <2>1. cache' = cache
      BY <1>1, <1>3 DEF FencedLocally
    <2> QED
      BY <2>1 DEF CopyOK, Behind, WriteOK
  <1> QED
    BY <1>2, <1>3

\* Giving up a write, its lock not taken, goes on from a draft that is ahead of the file.
LEMMA GiveUpAlone ==
    ASSUME Shape, AloneInv, NEW p \in Procs, pc[p] \in Writes, cache' = FencedLocally(p),
           Continue(p, run[p].draft), now' = now, file' = file, work' = work
    PROVE  AloneInv'
  <1>1. WriteOK(p) /\ CopyOK(p) /\ OneProcess /\ SealedQuiet
    BY DEF AloneInv
  <1>2. CopyOK(p)' /\ Behind(p)'
    BY <1>1, FencedAlone
  <1>3. PICK s \in Records : s = run[p].draft
    BY DEF Shape, Runs
  <1>4. run[p].at = now /\ SealFits(s) /\ (file = Absent \/ file.rev < s.rev)
    BY <1>1, <1>3 DEF WriteOK, Shape, Runs, Records
  <1>5. file = Absent \/ (file.rev <= s.rev /\ file.rev # s.rev)
    BY <1>4 DEF Shape, Records
  <1>6. pc'[p] = "idle" \/ (pc'[p] = "try" /\ WriteOK(p)')
    BY <1>2, <1>3, <1>4, <1>5, ContinueAlone
  <1>7. SealedQuiet'
    BY <1>1 DEF SealedQuiet
  <1> QED
    BY <1>1, <1>2, <1>6, <1>7, AloneAt DEF Writes


----------------------------------------------------------------------------
\* The sole process begins a command.
LEMMA StartAlone ==
    ASSUME Shape, AloneInv, NEW p \in Procs, NEW r \in Requests, Start(p, r)
    PROVE  AloneInv'
  <1>1. PICK s \in Records : s = ReadForMutation(p)
    BY ReadShape
  <1>2. /\ cache' = Put(cache, p, s) /\ now' = now /\ file' = file /\ work' = work
        /\ \/ /\ run' = Put(run, p, Writing(r, "reconcile", now, s, Reconciled(s, now)))
              /\ pc' = Put(pc, p, "try")
           \/ ~Dirty(s, now) /\ Apply(p, r, now, s)
    BY <1>1 DEF Start
  <1>3. r \in Reqs /\ now \in Int /\ (file = Absent \/ s = file)
    BY <1>1 DEF Shape, Reqs, ReadForMutation
  <1>4. OneProcess /\ SealedQuiet /\ CopyOK(p)
    BY DEF AloneInv
  <1>5. ~s.warned /\ cache'[p] = s
    <2>1. cache'[p] = s
      BY <1>2, PutAt
    <2>2. ~s.warned
      BY <1>1, <1>4 DEF ReadForMutation, CopyOK, Inactive
    <2> QED
      BY ONLY <2>1, <2>2
  <1>6. CopyOK(p)' /\ Behind(p)' /\ SealedQuiet'
    BY <1>2, <1>3, <1>4, <1>5 DEF CopyOK, Behind, SealedQuiet
  <1>7. file = Absent \/ (file.rev <= s.rev /\ file.rev = s.rev)
    BY <1>3 DEF Records
  <1>8. pc'[p] = "idle" \/ (pc'[p] = "try" /\ WriteOK(p)')
    <2>1. CASE ~Dirty(s, now) /\ Apply(p, r, now, s)
      BY <1>2, <1>3, <1>6, <1>7, <2>1, CleanFits, ApplyAlone
    <2>2. CASE /\ run' = Put(run, p, Writing(r, "reconcile", now, s, Reconciled(s, now)))
               /\ pc' = Put(pc, p, "try")
      BY <1>2, <1>3, <1>5, <1>6, <1>7, <2>2, ReconcileAlone
    <2> QED
      BY <1>2, <2>1, <2>2
  <1> QED
    BY <1>4, <1>6, <1>8, AloneAt DEF Writes

\* Its lifecycle tick: a copy in front of the file is ahead of it.
LEMMA TickAlone ==
    ASSUME Shape, AloneInv, NEW p \in Procs, Tick(p)
    PROVE  AloneInv'
  <1>1. PICK s \in Records : s = Read(p)
    BY ReadShape
  <1>2. PICK r \in Reqs : r = NoRun.req
    BY DEF Reqs
  <1>3. /\ cache' = Put(cache, p, s) /\ now' = now /\ file' = file /\ work' = work
        /\ run' = Put(run, p, Writing(r, "tick", now, s, Reconciled(s, now)))
        /\ pc' = Put(pc, p, "try")
    BY <1>1, <1>2 DEF Tick
  <1>4. OneProcess /\ SealedQuiet /\ CopyOK(p) /\ cache'[p] = s
    BY <1>3, PutAt DEF AloneInv
  <1>5. \/ s = cache[p] /\ (file = Absent \/ (cache[p].warned /\ file.rev < s.rev))
        \/ s = file
    BY <1>1, <1>4 DEF Read, CopyOK
  <1>6. CopyOK(p)' /\ Behind(p)' /\ SealedQuiet'
    BY <1>3, <1>4, <1>5 DEF CopyOK, Behind, SealedQuiet
  <1>7. /\ file = Absent \/ file.rev <= s.rev
        /\ file # Absent /\ file.rev = s.rev => s = file
    BY <1>5 DEF Shape, Records
  <1>8. pc'[p] = "try" /\ WriteOK(p)'
    BY <1>3, <1>6, <1>7, ReconcileAlone
  <1> QED
    BY <1>4, <1>6, <1>8, AloneAt DEF Writes

\* A step inside a write that changes neither the record to write nor the file.
LEMMA WriteAlone ==
    ASSUME Shape, AloneInv, NEW p \in Procs, pc[p] \in Writes, NEW x \in Writes,
           pc' = Put(pc, p, x),
           x = "checked" => file = Absent \/ file.rev = run[p].base,
           run' = run \/ run' = Put(run, p, [run[p] EXCEPT !.tries = run[p].tries - 1]),
           cache' = cache, now' = now, file' = file, work' = work
    PROVE  AloneInv'
  <1>1. WriteOK(p) /\ CopyOK(p) /\ OneProcess /\ SealedQuiet
    BY DEF AloneInv
  <1>2. pc'[p] = x
    BY PutAt
  <1>3. /\ run'[p].at = run[p].at /\ run'[p].stage = run[p].stage /\ run'[p].req = run[p].req
        /\ run'[p].draft = run[p].draft /\ run'[p].base = run[p].base
    BY PutAt DEF Shape, Runs
  <1>4. WriteOK(p)'
    <2>1. SealFits(run[p].draft)'
      BY <1>1, <1>3 DEF WriteOK, SealFits
    <2>2. Made(p) => Made(p)'
      BY <1>3, Zenon DEF Made, Command, SetHold, ExtendHold, ReleaseHold, Phase,
         Reconciled, Followed, Renewed, Renewable, Grant
    <2> QED
      BY <1>1, <1>2, <1>3, <2>1, <2>2 DEF WriteOK, Behind
  <1>5. CopyOK(p)' /\ SealedQuiet'
    BY <1>1 DEF CopyOK, SealedQuiet
  <1> QED
    BY <1>1, <1>2, <1>4, <1>5, AloneAt DEF Writes

\* The lock is taken, waited for, judged stale, removed, or given up.
LEMMA LockAlone ==
    ASSUME Shape, AloneInv, NEW p \in Procs, TryLock(p) \/ RemoveStale(p)
    PROVE  AloneInv'
  <1>1. pc[p] \in Writes /\ now' = now /\ file' = file /\ work' = work
    BY DEF TryLock, RemoveStale, Writes
  <1>2. CASE cache' = FencedLocally(p) /\ Continue(p, run[p].draft)
    BY <1>1, <1>2, GiveUpAlone
  <1>3. ASSUME NEW x \in {"locked", "stale", "try"}, pc' = Put(pc, p, x), cache' = cache,
               run' = run \/ run' = Put(run, p, [run[p] EXCEPT !.tries = run[p].tries - 1])
        PROVE  AloneInv'
    <2>1. x \in Writes /\ x # "checked"
      BY DEF Writes
    <2> QED
      BY <1>1, <1>3, <2>1, WriteAlone
  <1>4. pc[p] = "try" => pc = Put(pc, p, "try")
    BY DEF Shape, Put
  <1> QED
    BY <1>2, <1>3, <1>4 DEF TryLock, RemoveStale

\* The comparison of revisions; a reconcile of the sole process never meets a conflict.
LEMMA CheckAlone ==
    ASSUME Shape, AloneInv, NEW p \in Procs, Check(p)
    PROVE  AloneInv'
  <1>1. pc[p] = "locked" /\ pc[p] \in Writes /\ now' = now /\ file' = file /\ work' = work
    BY DEF Check, Writes
  <1>2. WriteOK(p) /\ CopyOK(p) /\ OneProcess /\ SealedQuiet
    BY <1>1 DEF AloneInv
  <1>3. CASE file # Absent /\ file.rev # run[p].base
    <2>1. pc'[p] = "unlock" /\ cache'[p] = file /\ run'[p].stage = run[p].stage
      BY <1>3, PutAt DEF Check, Shape, Runs
    <2>2. run[p].stage # "reconcile"
      BY <1>2, <1>3 DEF WriteOK
    <2>3. CopyOK(p)' /\ SealedQuiet'
      BY <1>1, <1>2, <2>1 DEF CopyOK, SealedQuiet
    <2> QED
      BY <1>2, <2>1, <2>2, <2>3, AloneAt DEF Writes
  <1>4. CASE ~(file # Absent /\ file.rev # run[p].base)
    <2>1. pc' = Put(pc, p, "checked") /\ cache' = cache /\ run' = run /\ "checked" \in Writes
      BY <1>4 DEF Check, Writes
    <2> QED
      BY <1>1, <1>4, <2>1, WriteAlone
  <1> QED
    BY <1>3, <1>4

\* A write that fails under the lock.
LEMMA WriteErrorAlone ==
    ASSUME Shape, AloneInv, NEW p \in Procs, WriteError(p)
    PROVE  AloneInv'
  <1>1. /\ pc[p] = "checked" /\ pc[p] \in Writes /\ now' = now /\ file' = file /\ work' = work
        /\ cache' = FencedLocally(p) /\ pc'[p] = "unlock"
    BY PutAt DEF WriteError, Writes
  <1>2. WriteOK(p) /\ CopyOK(p) /\ OneProcess /\ SealedQuiet
    BY <1>1 DEF AloneInv
  <1>3. CopyOK(p)' /\ Behind(p)' /\ SealedQuiet'
    BY <1>1, <1>2, FencedAlone DEF SealedQuiet
  <1>4. PICK d \in Records : d = run[p].draft
    BY DEF Shape, Runs
  <1>5. /\ run'[p].at = now' /\ run'[p].stage = run[p].stage /\ run'[p].result = "error"
        /\ run'[p].draft = d
    BY <1>1, <1>2, <1>4, PutAt DEF WriteError, Shape, Runs, WriteOK
  <1>6. SealFits(run[p].draft)' /\ (run[p].stage = "reconcile" => ~d.warned)
    BY <1>1, <1>2, <1>4, <1>5 DEF WriteOK, SealFits
  <1>7. file = Absent \/ file.rev < d.rev
    BY <1>2, <1>4 DEF WriteOK, Shape, Runs, Records
  <1>8. run'[p].stage = "reconcile" => EndOK(p)'
    BY <1>1, <1>3, <1>5, <1>6, <1>7 DEF EndOK
  <1> QED
    BY <1>1, <1>2, <1>3, <1>8, AloneAt DEF Writes

\* The replacement of the file: what is written was made from what it replaces.
LEMMA RenameAlone ==
    ASSUME Shape, AloneInv, NEW p \in Procs, Rename(p)
    PROVE  /\ AloneInv'
           /\ Ended(file) =>
                \/ /\ pc[p] = "checked" /\ run[p].stage = "apply"
                   /\ \/ run[p].req.op = "release" /\ run[p].req.hold = file.hold
                      \/ run[p].req.force
                \/ now >= file.expires /\ ~Renewable(file, now)
  <1>1. PICK d \in Records : d = run[p].draft
    BY DEF Shape, Runs
  <1>2. PICK s : s = [d EXCEPT !.warned = FALSE]
    OBVIOUS
  <1>3. /\ s \in Records /\ ~s.warned /\ s.active = d.active /\ s.phase = d.phase
        /\ s.hold = d.hold /\ (~d.warned => s = d)
    BY <1>2 DEF Records
  <1>4. /\ pc[p] = "checked" /\ pc[p] \in Writes /\ now' = now /\ work' = work
        /\ file' = s /\ cache'[p] = s /\ pc'[p] = "unlock"
    BY <1>1, <1>2, PutAt DEF Rename, Writes
  <1>5. WriteOK(p) /\ CopyOK(p) /\ OneProcess /\ SealedQuiet
    BY <1>4 DEF AloneInv
  <1>6. /\ run'[p].at = now' /\ run'[p].stage = run[p].stage /\ run'[p].result = "written"
        /\ run'[p].draft = d
    BY <1>1, <1>4, <1>5, PutAt DEF Rename, Shape, Runs, WriteOK
  <1>7. SealedQuiet' /\ CopyOK(p)' /\ Behind(p)' /\ SealFits(run[p].draft)'
    BY <1>1, <1>3, <1>4, <1>5, <1>6 DEF SealedQuiet, CopyOK, Behind, SealFits, WriteOK
  <1>8. run'[p].stage = "reconcile" => EndOK(p)'
    BY <1>1, <1>3, <1>4, <1>5, <1>6, <1>7 DEF EndOK, WriteOK
  <1>9. AloneInv'
    BY <1>4, <1>5, <1>7, <1>8, AloneAt DEF Writes
  <1>10. ASSUME Ended(file)
         PROVE  \/ /\ run[p].stage = "apply"
                   /\ \/ run[p].req.op = "release" /\ run[p].req.hold = file.hold
                      \/ run[p].req.force
                \/ now >= file.expires /\ ~Renewable(file, now)
    <2>1. file.active /\ (~d.active \/ d.hold # file.hold) /\ file \in Records /\ now \in Int
          /\ run[p].req \in Reqs
      BY <1>3, <1>4, <1>10 DEF Ended, Shape, Runs
    <2>2. file # Absent
      BY <2>1 DEF Absent, Inactive
    <2>3. Made(p) /\ run[p].stage \in {"tick", "reconcile", "apply"}
      BY <1>4, <1>5, <2>2 DEF WriteOK
    <2>4. CASE run[p].stage \in {"tick", "reconcile"}
      <3>1. d = Reconciled(file, now)
        BY <1>1, <2>3, <2>4 DEF Made
      <3> QED
        BY <2>1, <3>1, ReconciledFits
    <2>5. CASE run[p].stage = "apply"
      <3>1. d = Command(run[p].req, file, now)
        BY <1>1, <2>3, <2>5 DEF Made
      <3> QED
        BY <2>1, <2>5, <3>1, CommandFits
    <2> QED
      BY <2>3, <2>4, <2>5
  <1> QED
    BY <1>4, <1>9, <1>10

\* The end of a write: the command after its reconcile is made from what was written.
LEMMA UnlockAlone ==
    ASSUME Shape, AloneInv, NEW p \in Procs, Unlock(p)
    PROVE  AloneInv'
  <1>1. /\ pc[p] = "unlock" /\ now' = now /\ file' = file /\ work' = work /\ cache' = cache
        /\ Continue(p, IF run[p].result = "conflict" THEN cache[p] ELSE run[p].draft)
    BY DEF Unlock
  <1>2. CopyOK(p) /\ OneProcess /\ SealedQuiet /\ (run[p].stage = "reconcile" => EndOK(p))
    BY <1>1 DEF AloneInv
  <1>3. CopyOK(p)' /\ SealedQuiet'
    BY <1>1, <1>2 DEF CopyOK, SealedQuiet
  <1>4. pc'[p] = "idle" \/ (pc'[p] = "try" /\ WriteOK(p)')
    <2>1. CASE run[p].stage = "reconcile"
      <3>1. EndOK(p)
        BY <1>2, <2>1
      <3>2. PICK s \in Records : s = run[p].draft
        BY DEF Shape, Runs
      <3>3. Continue(p, s)
        BY <1>1, <3>1, <3>2 DEF EndOK
      <3>4. run[p].at = now /\ SealFits(s) /\ Behind(p)'
        BY <1>1, <3>1, <3>2 DEF EndOK, Behind
      <3>5. file = Absent \/ file = s \/ file.rev < s.rev
        BY <3>1, <3>2 DEF EndOK
      <3>6. /\ file = Absent \/ file.rev <= s.rev
            /\ file # Absent /\ file.rev = s.rev => s = file
        BY <3>5 DEF Shape, Records
      <3> QED
        BY <1>1, <3>3, <3>4, <3>6, ContinueAlone
    <2>2. CASE run[p].stage # "reconcile"
      BY <1>1, <2>2, PutAt DEF Continue
    <2> QED
      BY <2>1, <2>2
  <1> QED
    BY <1>2, <1>3, <1>4, AloneAt DEF Writes

\* A claim asks: it is admitted only while no sealed hold is in force.
LEMMA ClaimAlone ==
    ASSUME Shape, AloneInv, NEW p \in Procs, ClaimAsks(p)
    PROVE  AloneInv'
  <1>1. PICK s \in Records : s = Read(p)
    BY ReadShape
  <1>2. /\ cache'[p] = s /\ pc'[p] = "claiming" /\ ~Held(p)
        /\ now' = now /\ file' = file /\ work' = work /\ run' = run
    BY <1>1, PutAt DEF ClaimAsks
  <1>3. OneProcess /\ SealedQuiet /\ CopyOK(p)
    BY DEF AloneInv
  <1>4. s = file \/ (s = cache[p] /\ ~file.active)
    BY <1>1, <1>3 DEF Read, CopyOK, Absent, Inactive
  <1>5. ~(s.active /\ now < s.expires)
    BY <1>1, <1>2 DEF Held
  <1>6. ~SealHolds'
    BY <1>2, <1>4, <1>5 DEF SealHolds
  <1>7. CopyOK(p)' /\ SealedQuiet'
    BY <1>2, <1>3, <1>4 DEF CopyOK, SealedQuiet
  <1> QED
    BY <1>2, <1>3, <1>6, <1>7, AloneAt DEF Writes

\* Work comes and goes.
LEMMA WorkAlone ==
    ASSUME Shape, AloneInv, NEW p \in Procs, ClaimCommits(p) \/ ChatBegins(p) \/ WorkEnds(p)
    PROVE  AloneInv'
  <1>1. now' = now /\ file' = file /\ cache' = cache /\ pc'[p] = "idle"
    BY PutAt DEF ClaimCommits, ChatBegins, WorkEnds
  <1>2. OneProcess /\ SealedQuiet /\ CopyOK(p) /\ (pc[p] = "claiming" => ~SealHolds)
    BY DEF AloneInv
  <1>3. SealedQuiet'
    BY <1>1, <1>2 DEF SealedQuiet, SealHolds, ClaimCommits, ChatBegins, WorkEnds
  <1>4. CopyOK(p)'
    BY <1>1, <1>2 DEF CopyOK
  <1> QED
    BY <1>1, <1>2, <1>3, <1>4, AloneAt DEF Writes

\* The process dies, or time passes.
LEMMA RestAlone ==
    ASSUME Shape, AloneInv, NEW p \in Procs, Crash(p) \/ Passes
    PROVE  AloneInv'
  <1>1. OneProcess /\ SealedQuiet /\ CopyOK(p)
    BY DEF AloneInv
  <1>2. /\ file' = file /\ work' = work /\ pc'[p] = "idle"
        /\ cache'[p] = cache[p] \/ cache'[p] = Inactive
        /\ now' = now \/ now' = now + 1
    BY PutAt DEF Crash, Passes
  <1>3. CopyOK(p)'
    BY <1>1, <1>2 DEF CopyOK, Inactive
  <1>4. SealedQuiet'
    BY <1>1, <1>2 DEF SealedQuiet, Shape, Records
  <1> QED
    BY <1>1, <1>2, <1>3, <1>4, AloneAt DEF Writes

\* An active hold ends as it should in a step that replaces the file.
EndsProperly ==
    Ended(file) =>
      \/ \E p \in Procs : pc[p] = "checked" /\ run[p].stage = "apply"
           /\ \/ run[p].req.op = "release" /\ run[p].req.hold = file.hold
              \/ run[p].req.force
      \/ now >= file.expires /\ ~Renewable(file, now)

\* Every step of the sole process.
LEMMA NextAlone ==
    ASSUME Shape, AloneInv, [Next]_vars
    PROVE  AloneInv' /\ EndsProperly
  <1>1. ASSUME file' = file PROVE EndsProperly
    BY <1>1 DEF EndsProperly, Ended
  <1>2. CASE UNCHANGED vars
    <2>1. /\ now' = now /\ file' = file /\ cache' = cache /\ pc' = pc /\ run' = run
          /\ work' = work
      BY <1>2 DEF vars
    <2>2. SealedQuiet'
      BY <2>1 DEF AloneInv, SealedQuiet
    <2>3. ASSUME NEW p \in Procs
          PROVE  CopyOK(p)' /\ (pc'[p] = "claiming" => ~SealHolds')
      BY <2>1 DEF AloneInv, CopyOK, SealHolds
    <2>4. ASSUME NEW p \in Procs, pc'[p] \in Writes PROVE WriteOK(p)'
      <3>1. WriteOK(p)
        BY <2>1, <2>4 DEF AloneInv
      <3>2. Made(p) => Made(p)'
        BY ONLY <2>1, ZenonT(40) DEF Made, Command, SetHold, ExtendHold, ReleaseHold, Phase,
           Reconciled, Followed, Renewed, Renewable, Grant
      <3> QED
        BY <2>1, <3>1, <3>2 DEF WriteOK, Behind, SealFits
    <2>5. ASSUME NEW p \in Procs, pc'[p] = "unlock", run'[p].stage = "reconcile" PROVE EndOK(p)'
      BY <2>1, <2>5 DEF AloneInv, EndOK, Behind, SealFits
    <2> QED
      BY <1>1, <2>1, <2>2, <2>3, <2>4, <2>5 DEF AloneInv, OneProcess
  <1>3. CASE Passes
    <2>1. file' = file /\ now' = now + 1 /\ work' = work
      BY <1>3 DEF Passes
    <2>2. SealedQuiet'
      BY <2>1 DEF AloneInv, SealedQuiet, Shape, Records
    <2>3. Procs = {} => AloneInv'
      BY <2>2 DEF AloneInv, OneProcess
    <2>4. Procs # {} => AloneInv'
      BY <1>3, RestAlone
    <2> QED
      BY <1>1, <2>1, <2>3, <2>4
  <1>4. ASSUME NEW p \in Procs, Rename(p) PROVE AloneInv' /\ EndsProperly
    BY <1>4, RenameAlone DEF EndsProperly
  <1>5. ASSUME NEW p \in Procs, NEW r \in Requests, Start(p, r) PROVE AloneInv' /\ file' = file
    BY <1>5, StartAlone DEF Start
  <1>6. ASSUME NEW p \in Procs, Tick(p) PROVE AloneInv' /\ file' = file
    BY <1>6, TickAlone DEF Tick
  <1>7. ASSUME NEW p \in Procs, TryLock(p) \/ RemoveStale(p) PROVE AloneInv' /\ file' = file
    BY <1>7, LockAlone DEF TryLock, RemoveStale
  <1>8. ASSUME NEW p \in Procs, Check(p) PROVE AloneInv' /\ file' = file
    BY <1>8, CheckAlone DEF Check
  <1>9. ASSUME NEW p \in Procs, WriteError(p) PROVE AloneInv' /\ file' = file
    BY <1>9, WriteErrorAlone DEF WriteError
  <1>10. ASSUME NEW p \in Procs, Unlock(p) PROVE AloneInv' /\ file' = file
    BY <1>10, UnlockAlone DEF Unlock
  <1>11. ASSUME NEW p \in Procs, ClaimAsks(p) PROVE AloneInv' /\ file' = file
    BY <1>11, ClaimAlone DEF ClaimAsks
  <1>12. ASSUME NEW p \in Procs, ClaimCommits(p) \/ ChatBegins(p) \/ WorkEnds(p)
         PROVE  AloneInv' /\ file' = file
    BY <1>12, WorkAlone DEF ClaimCommits, ChatBegins, WorkEnds
  <1>13. ASSUME NEW p \in Procs, Crash(p) PROVE AloneInv' /\ file' = file
    BY <1>13, RestAlone DEF Crash
  <1> QED
    BY <1>1, <1>2, <1>3, <1>4, <1>5, <1>6, <1>7, <1>8, <1>9, <1>10, <1>11, <1>12, <1>13
    DEF Next

\* The invariant of the sole process holds at the start.
LEMMA InitAlone == Init /\ OneProcess => Shape /\ AloneInv
  <1> SUFFICES ASSUME Init, OneProcess PROVE Shape /\ AloneInv
    OBVIOUS
  <1>1. Shape
    BY InitHolds DEF IInv
  <1>2. AloneInv
    BY DEF Init, AloneInv, CopyOK, SealedQuiet, Writes, Absent, Inactive
  <1> QED
    BY <1>1, <1>2

\* While an unexpired hold is sealed no task is assigned (the queue claim against
\* evaluateNewWorkHold), when one process writes the hold file: for any commands, times,
\* renewal budget, crashes and write errors, locks judged stale included.
THEOREM SealedMeansQuiet ==
    Spec /\ OneProcess => []SealedQuiet
  <1>1. Shape /\ AloneInv /\ [Next]_vars => Shape' /\ AloneInv'
    BY ShapeKeeps, NextAlone
  <1>2. AloneInv => SealedQuiet
    BY DEF AloneInv
  <1> QED
    BY InitAlone, <1>1, <1>2, PTL DEF Spec

\* An active hold ends only by its release, by a forced set, or by an expiry that no
\* renewal could put off (reconcileHoldLifecycle and the commands), when one process
\* writes the hold file.
THEOREM HoldsEndProperly ==
    Spec /\ OneProcess => HoldEndsProperly
  <1>1. Shape /\ AloneInv /\ [Next]_vars => Shape' /\ AloneInv'
    BY ShapeKeeps, NextAlone
  <1>2. Shape /\ AloneInv /\ [Next]_vars =>
          [Ended(file) =>
             \/ \E p \in Procs : pc[p] = "checked" /\ run[p].stage = "apply"
                  /\ \/ run[p].req.op = "release" /\ run[p].req.hold = file.hold
                     \/ run[p].req.force
             \/ now >= file.expires /\ ~Renewable(file, now)]_vars
    BY NextAlone DEF EndsProperly
  <1> QED
    BY InitAlone, <1>1, <1>2, PTL DEF Spec, HoldEndsProperly
=============================================================================
