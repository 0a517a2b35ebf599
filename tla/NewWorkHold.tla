---------------------------- MODULE NewWorkHold ----------------------------
(***************************************************************************)
(* The new-work hold (maintenance/new-work-hold*.ts): a record in one file *)
(* of the config directory that closes a daemon to new work for a while.   *)
(* The file is replaced under a lock file, by comparing revisions; each    *)
(* process keeps a copy in memory.  The daemon's tick renews the hold      *)
(* while work is in flight, within a budget, and expires it.               *)
(*                                                                         *)
(* Every operation of one process runs to its end without an await, but    *)
(* its file operations interleave with those of other processes, and a     *)
(* process may die between any two of them.  The actions of a write are    *)
(* therefore TryLock, RemoveStale, Check, Rename or WriteError, Unlock.    *)
(*                                                                         *)
(* Time is counted in units of the least TTL, one second.                  *)
(***************************************************************************)
EXTENDS Integers, FiniteSets

CONSTANTS Procs,
          Requests,       \* the owner's commands: records with op, hold and force
          NoHold,
          Ttl,            \* ttlMs of every set and extend
          MaxGrants,      \* maxAutoExtendCount
          MaxExtension,   \* maxTotalExtensionMs
          StaleAfter,     \* STALE_LOCK_MS
          Tries,          \* attempts of acquireHoldLock
          MaxTime, MaxRev, MaxCrashes, MaxErrors,
          Claims          \* whether queue claims are made

Holds == {r.hold : r \in Requests} \cup {NoHold}

ASSUME HoldAssumption ==
    /\ Ttl \in Nat \ {0} /\ MaxGrants \in Nat /\ MaxExtension \in Nat
    /\ StaleAfter \in Nat /\ Tries \in Nat \ {0}
    /\ MaxTime \in Nat /\ MaxRev \in Nat /\ MaxCrashes \in Nat /\ MaxErrors \in Nat
    /\ \A r \in Requests : r.op \in {"set", "extend", "release"} /\ r.force \in BOOLEAN

VARIABLES now,
          file,     \* new-work-hold.json
          lock,     \* new-work-hold.lock: who made it and when
          cache,    \* stateByDir of each process
          pc,       \* where each process stands in writeState
          run,      \* the operation it is in
          work,     \* what the drain census finds in flight
          failed,   \* holds whose latest set was answered with an error
          crashes, errors

vars == <<now, file, lock, cache, pc, run, work, failed, crashes, errors>>

Inactive == [active |-> FALSE, phase |-> "inactive", hold |-> NoHold, rev |-> 0,
             expires |-> 0, count |-> 0, extended |-> 0, warned |-> FALSE]

Absent == [Inactive EXCEPT !.rev = -1]       \* there is no file yet
NoLock == [by |-> {}, at |-> 0]
NoRun == [req |-> [op |-> "none", hold |-> NoHold, force |-> FALSE], stage |-> "none",
          at |-> 0, base |-> 0, draft |-> Inactive, tries |-> 0, result |-> "none"]

Init ==
    /\ now = 0
    /\ file = Absent /\ lock = NoLock
    /\ cache = [p \in Procs |-> Inactive]
    /\ pc = [p \in Procs |-> "idle"]
    /\ run = [p \in Procs |-> NoRun]
    /\ work \in SUBSET {"task"}
    /\ failed = {}
    /\ crashes = 0 /\ errors = 0

Put(f, p, v) == [q \in Procs |-> IF q = p THEN v ELSE f[q]]

Least(a, b) == IF a < b THEN a ELSE b

----------------------------------------------------------------------------
(* readState.  The copy of a failed set, marked by its warning, stands in  *)
(* front of the file until the file has passed its revision; a mutation    *)
(* ignores it.                                                             *)

Read(p) ==
    IF file = Absent \/ (cache[p].warned /\ cache[p].rev >= file.rev)
    THEN cache[p] ELSE file

ReadForMutation(p) ==
    IF file # Absent THEN file
    ELSE IF cache[p].warned THEN Inactive ELSE cache[p]

----------------------------------------------------------------------------
(* reconcileHoldLifecycle: renew, else expire, else follow the census.     *)

Window == IF Ttl \div 3 > 1 THEN Ttl \div 3 ELSE 1

Renewable(s, t) ==
    /\ work # {}
    /\ s.expires - t <= Window
    /\ s.count < MaxGrants
    /\ s.extended < MaxExtension

Grant(s) == Least(Ttl, MaxExtension - s.extended)

Renewed(s, t) ==
    IF Renewable(s, t)
    THEN [s EXCEPT !.expires = t + Grant(s), !.count = @ + 1, !.extended = @ + Grant(s)]
    ELSE s

Phase == IF work = {} THEN "sealed" ELSE "draining"

\* Mutant: expiry is decided before the renewal.
FollowedExpiryFirst(s, t) ==
    IF t >= s.expires THEN [s EXCEPT !.active = FALSE, !.phase = "inactive"]
    ELSE [Renewed(s, t) EXCEPT !.phase = Phase]

\* The hold as the census and the clock have it, under the old revision.
Followed(s, t) ==
    IF t >= Renewed(s, t).expires
    THEN [Renewed(s, t) EXCEPT !.active = FALSE, !.phase = "inactive"]
    ELSE [Renewed(s, t) EXCEPT !.phase = Phase]

Dirty(s, t) == s.active /\ Followed(s, t) # s

Reconciled(s, t) == [Followed(s, t) EXCEPT !.rev = s.rev + 1]

\* evaluateNewWorkHold: the admission question; nothing is written.
Held(p) ==
    LET s == Read(p) IN s.active /\ (now < s.expires \/ Followed(s, now).active)

----------------------------------------------------------------------------
(* The commands, once the state has been reconciled *)

\* setNewWorkHold: refused while a hold is active, unless forced.
SetHold(r, s, t) ==
    IF ~s.active \/ r.force
    THEN [s EXCEPT !.active = TRUE, !.phase = Phase, !.hold = r.hold, !.rev = @ + 1,
                   !.expires = t + Ttl, !.count = 0, !.extended = 0]
    ELSE s

\* extendNewWorkHold, of the active hold only.  Its one caller never sets
\* autoExtend, so an extension by command does not count as a renewal.
ExtendHold(r, s, t) ==
    IF s.active /\ s.hold = r.hold
    THEN [s EXCEPT !.expires = t + Ttl, !.rev = @ + 1]
    ELSE s

\* releaseNewWorkHold, of the active hold only.
ReleaseHold(r, s) ==
    IF s.active /\ s.hold = r.hold
    THEN [s EXCEPT !.active = FALSE, !.phase = "inactive", !.rev = @ + 1]
    ELSE s

\* The state a command writes; the same state when it refuses or has nothing to do.
Command(r, s, t) ==
    CASE r.op = "set"     -> SetHold(r, s, t)
      [] r.op = "extend"  -> ExtendHold(r, s, t)
      [] r.op = "release" -> ReleaseHold(r, s)
      [] OTHER            -> s

Writing(r, stage, t, s, draft) ==
    [req |-> r, stage |-> stage, at |-> t, base |-> s.rev, draft |-> draft,
     tries |-> Tries, result |-> "none"]

\* The command itself, on the state the process now holds for current.
Apply(p, r, t, s) ==
    IF Command(r, s, t) # s
    THEN /\ run' = Put(run, p, Writing(r, "apply", t, s, Command(r, s, t)))
         /\ pc' = Put(pc, p, "try")
    ELSE /\ run' = Put(run, p, NoRun)
         /\ pc' = Put(pc, p, "idle")

\* Mutant: the command acts on the state as it was read.
StartUnreconciled(p, r) ==
    LET s == ReadForMutation(p) IN
    /\ pc[p] = "idle" /\ s.rev + 2 <= MaxRev
    /\ cache' = Put(cache, p, s)
    /\ Apply(p, r, now, s)
    /\ UNCHANGED <<now, file, lock, work, failed, crashes, errors>>

\* set, extend and release: read, reconcile, then the command.
Start(p, r) ==
    LET s == ReadForMutation(p) IN
    /\ pc[p] = "idle" /\ s.rev + 2 <= MaxRev
    /\ cache' = Put(cache, p, s)
    /\ IF Dirty(s, now)
       THEN /\ run' = Put(run, p, Writing(r, "reconcile", now, s, Reconciled(s, now)))
            /\ pc' = Put(pc, p, "try")
       ELSE Apply(p, r, now, s)
    /\ UNCHANGED <<now, file, lock, work, failed, crashes, errors>>

\* The lifecycle tick of every 250 ms, and a status request.
Tick(p) ==
    LET s == Read(p) IN
    /\ pc[p] = "idle" /\ s.rev + 1 <= MaxRev
    /\ Dirty(s, now)
    /\ cache' = Put(cache, p, s)
    /\ run' = Put(run, p, Writing(NoRun.req, "tick", now, s, Reconciled(s, now)))
    /\ pc' = Put(pc, p, "try")
    /\ UNCHANGED <<now, file, lock, work, failed, crashes, errors>>

----------------------------------------------------------------------------
(* writeState *)

\* A set that could not be written closes this process all the same.
FencedLocally(p) ==
    IF run[p].draft.active /\ ~cache[p].active
    THEN Put(cache, p, [run[p].draft EXCEPT !.warned = TRUE])
    ELSE cache

\* What follows a write: the command after its reconcile, else the answer.
Continue(p, s) ==
    IF run[p].stage = "reconcile"
    THEN Apply(p, run[p].req, run[p].at, s) /\ UNCHANGED failed
    ELSE /\ run' = Put(run, p, NoRun)
         /\ pc' = Put(pc, p, "idle")
         /\ failed' = IF run[p].req.op = "set" /\ run[p].result # "written"
                       THEN failed \cup {run[p].req.hold} ELSE failed

TryLock(p) ==
    /\ pc[p] = "try"
    /\ \/ /\ lock = NoLock                          \* openSync(wx)
          /\ lock' = [by |-> {p}, at |-> now]
          /\ pc' = Put(pc, p, "locked")
          /\ UNCHANGED <<cache, run, failed>>
       \/ /\ lock # NoLock                          \* a lock left behind
          /\ run[p].at - lock.at > StaleAfter
          /\ pc' = Put(pc, p, "stale")
          /\ UNCHANGED <<lock, cache, run, failed>>
       \/ /\ lock # NoLock /\ run[p].at - lock.at <= StaleAfter /\ run[p].tries > 1
          /\ run' = Put(run, p, [run[p] EXCEPT !.tries = @ - 1])
          /\ UNCHANGED <<lock, cache, pc, failed>>
       \/ /\ lock # NoLock /\ run[p].at - lock.at <= StaleAfter /\ run[p].tries = 1
          /\ cache' = FencedLocally(p)              \* concurrent writer in progress
          /\ Continue(p, run[p].draft)
          /\ UNCHANGED lock
    /\ UNCHANGED <<now, file, work, crashes, errors>>

\* unlinkSync of the lock judged stale, whoever owns it by now.
RemoveStale(p) ==
    /\ pc[p] = "stale"
    /\ lock' = NoLock
    /\ IF run[p].tries > 1
       THEN /\ run' = Put(run, p, [run[p] EXCEPT !.tries = @ - 1])
            /\ pc' = Put(pc, p, "try")
            /\ UNCHANGED <<cache, failed>>
       ELSE /\ cache' = FencedLocally(p)
            /\ Continue(p, run[p].draft)
    /\ UNCHANGED <<now, file, work, crashes, errors>>

\* Mutant: only a file newer than the draft is a conflict.
CheckNewer(p) ==
    /\ pc[p] = "locked"
    /\ IF file # Absent /\ file.rev > run[p].draft.rev
       THEN /\ cache' = Put(cache, p, file)
            /\ run' = Put(run, p, [run[p] EXCEPT !.result = "conflict"])
            /\ pc' = Put(pc, p, "unlock")
       ELSE /\ pc' = Put(pc, p, "checked")
            /\ UNCHANGED <<cache, run>>
    /\ UNCHANGED <<now, file, lock, work, failed, crashes, errors>>

\* The file is read again under the lock and its revision compared.
Check(p) ==
    /\ pc[p] = "locked"
    /\ IF file # Absent /\ file.rev # run[p].base
       THEN /\ cache' = Put(cache, p, file)
            /\ run' = Put(run, p, [run[p] EXCEPT !.result = "conflict"])
            /\ pc' = Put(pc, p, "unlock")
       ELSE /\ pc' = Put(pc, p, "checked")
            /\ UNCHANGED <<cache, run>>
    /\ UNCHANGED <<now, file, lock, work, failed, crashes, errors>>

\* The temporary file is renamed over the record.
Rename(p) ==
    LET s == [run[p].draft EXCEPT !.warned = FALSE] IN
    /\ pc[p] = "checked"
    /\ file' = s
    /\ cache' = Put(cache, p, s)
    /\ run' = Put(run, p, [run[p] EXCEPT !.result = "written"])
    /\ pc' = Put(pc, p, "unlock")
    /\ LET anew == IF run[p].stage = "apply" /\ run[p].req.op = "set"
                   THEN {run[p].req.hold} ELSE {}
       IN  failed' = failed \ anew
    /\ UNCHANGED <<now, lock, work, crashes, errors>>

\* Any file operation under the lock throws: disk full, read-only, ...
WriteError(p) ==
    /\ pc[p] = "checked"
    /\ errors < MaxErrors
    /\ errors' = errors + 1
    /\ cache' = FencedLocally(p)
    /\ run' = Put(run, p, [run[p] EXCEPT !.result = "error"])
    /\ pc' = Put(pc, p, "unlock")
    /\ UNCHANGED <<now, file, lock, work, failed, crashes>>

\* finally: unlink the lock path, whoever's lock is there, and go on.
Unlock(p) ==
    /\ pc[p] = "unlock"
    /\ lock' = NoLock
    /\ Continue(p, IF run[p].result = "conflict" THEN cache[p] ELSE run[p].draft)
    /\ UNCHANGED <<now, file, cache, work, crashes, errors>>

----------------------------------------------------------------------------
(* The work the hold is about.  A queue claim asks and then commits, inside *)
(* one synchronous transaction of its process.                             *)

ClaimAsks(p) ==
    /\ Claims /\ pc[p] = "idle" /\ "task" \notin work /\ ~Held(p)
    /\ cache' = Put(cache, p, Read(p))
    /\ pc' = Put(pc, p, "claiming")
    /\ UNCHANGED <<now, file, lock, run, work, failed, crashes, errors>>

ClaimCommits(p) ==
    /\ pc[p] = "claiming"
    /\ work' = work \cup {"task"}
    /\ pc' = Put(pc, p, "idle")
    /\ UNCHANGED <<now, file, lock, cache, run, failed, crashes, errors>>

\* Owner chat and coordinator notices are exempt from the hold.
ChatBegins(p) ==
    /\ Claims /\ pc[p] = "idle" /\ "chat" \notin work
    /\ work' = work \cup {"chat"}
    /\ UNCHANGED <<now, file, lock, cache, pc, run, failed, crashes, errors>>

WorkEnds(p) ==
    /\ pc[p] = "idle"
    /\ \E w \in work : work' = work \ {w}
    /\ UNCHANGED <<now, file, lock, cache, pc, run, failed, crashes, errors>>

\* A process dies; its lock file stays.
Crash(p) ==
    /\ crashes < MaxCrashes
    /\ crashes' = crashes + 1
    /\ cache' = Put(cache, p, Inactive)
    /\ pc' = Put(pc, p, "idle")
    /\ run' = Put(run, p, NoRun)
    /\ UNCHANGED <<now, file, lock, work, failed, errors>>

\* A file operation takes no time on the scale of the clock.
Passes ==
    /\ now < MaxTime
    /\ \A p \in Procs : pc[p] = "idle"
    /\ now' = now + 1
    /\ UNCHANGED <<file, lock, cache, pc, run, work, failed, crashes, errors>>

Next ==
    \/ Passes
    \/ \E p \in Procs :
         \/ \E r \in Requests : Start(p, r)
         \/ Tick(p)
         \/ TryLock(p) \/ RemoveStale(p) \/ Check(p) \/ Rename(p) \/ WriteError(p) \/ Unlock(p)
         \/ ClaimAsks(p) \/ ClaimCommits(p) \/ ChatBegins(p) \/ WorkEnds(p)
         \/ Crash(p)

Spec == Init /\ [][Next]_vars

----------------------------------------------------------------------------
(* Properties *)

PCs == {"idle", "claiming", "try", "stale", "locked", "checked", "unlock"}

\* The record keeps its shape, and the renewals stay within their budget: no more
\* grants and no more granted time than the hold allows.
TypeOK ==
    /\ now \in 0 .. MaxTime
    /\ pc \in [Procs -> PCs]
    /\ \A s \in {file} \cup {cache[p] : p \in Procs} :
         /\ s.active \in BOOLEAN /\ s.hold \in Holds /\ s.rev \in -1 .. MaxRev
         /\ s.phase \in {"inactive", "draining", "sealed"}
         /\ s.active <=> s.phase # "inactive"
         /\ s.count \in 0 .. MaxGrants /\ s.extended \in 0 .. MaxExtension

\* The writers of the file are serialised: once there is a file, every replacement is
\* made from the very revision it replaces, so no update is lost (writeState: the lock
\* and the comparison of revisions).
Serialised == [][file # Absent /\ file' # file => file'.rev = file.rev + 1]_vars

\* Why they are: as long as no lock grows old enough to be taken for stale, a process
\* past openSync owns the lock, a process past the comparison still sees the revision it
\* compared, and what it is about to write is that revision's successor.
SerialInv ==
    \A p \in Procs :
        /\ pc[p] # "stale"
        /\ pc[p] \in {"locked", "checked", "unlock"} => lock.by = {p}
        /\ pc[p] = "checked" => file = Absent \/ file.rev = run[p].base
        /\ pc[p] \in {"try", "locked", "checked"} => run[p].draft.rev = run[p].base + 1

Ended(s) == s.active /\ (~file'.active \/ file'.hold # s.hold)

\* An active hold ends, or gives way to another, only by a release of that hold, by a
\* forced set, or by its expiry, and expiry waits for work in flight as long as the
\* renewal budget lasts (reconcileHoldLifecycle and the commands of new-work-hold.ts).
HoldEndsProperly ==
    [][Ended(file) =>
         \/ \E p \in Procs : pc[p] = "checked" /\ run[p].stage = "apply"
              /\ \/ run[p].req.op = "release" /\ run[p].req.hold = file.hold
                 \/ run[p].req.force
         \/ now >= file.expires /\ ~Renewable(file, now)]_vars

\* The sealed phase can be relied upon: while an unexpired hold is sealed, no task is
\* assigned, whatever was claimed around its expiry.
SealedQuiet ==
    file.active /\ file.phase = "sealed" /\ now < file.expires => "task" \notin work

\* A set that was answered with an error is not in force later on: its record does not
\* become the file.
FailedStaysFailed == file.active => file.hold \notin failed
=============================================================================
