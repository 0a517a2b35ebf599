----------------------------- MODULE HostHandoff -----------------------------
(***************************************************************************)
(* The host handoff of one project (mesh): the canonical host role moves   *)
(* from a source daemon to a target daemon behind a verified snapshot, a   *)
(* positive ACK and a signed certificate that the source has stopped.      *)
(*                                                                         *)
(*   source   mesh/host-handoff/source-machine.ts   (class HostHandoffSource)*)
(*   target   mesh/host-handoff/target-machine.ts   (class HostHandoffTarget)*)
(*   ports    live-env.ts, write-fence.ts, admission.ts, certificate.ts,   *)
(*            member-adopt.ts                                              *)
(*                                                                         *)
(* A handler runs without interruption up to its next await, so an action  *)
(* is one such stretch.  The one thing that can come between two durable   *)
(* writes of a stretch is the death of the process: where that matters the *)
(* stretch is cut into one action per durable write, and sStep / tStep     *)
(* name the write that is next.  Until it is done the daemon takes no      *)
(* other step (Free); it may only crash.                                   *)
(*                                                                         *)
(* Abstractions.  A snapshot is whole or refused (no rows, no hashes); its *)
(* chunks are one message.  Time is absent: a deadline, a TTL or a backoff *)
(* may pass at any moment.  A request, once sent, may be delivered at any  *)
(* later moment and more than once (the owner's retries and the probes     *)
(* send the same bytes again) or never; a reply reaches only a call that   *)
(* is still waiting, and the caller may give up first.  setFence writes    *)
(* two stores (the config file and SQLite) back to back: one step here.    *)
(***************************************************************************)
EXTENDS Integers, FiniteSets

CONSTANTS
    Daemons,      \* the daemons of the mesh
    FirstHost,    \* the daemon that is host at the start
    Handoffs,     \* handoff ids; every id is used by at most one start
    Src, Dst,     \* source and target daemon of each handoff
    Probers,      \* status calls of one handoff that can be outstanding at once
    NoHandoff,    \* "undefined" where a handoff id is expected
    MaxCrashes    \* bound: process deaths in a behaviour

ASSUME HandoffAssumption ==
    /\ FirstHost \in Daemons
    /\ Src \in [Handoffs -> Daemons]
    /\ Dst \in [Handoffs -> Daemons]
    /\ \A h \in Handoffs : Src[h] # Dst[h]
    /\ NoHandoff \notin Handoffs
    /\ MaxCrashes \in Nat

SourcePhases == {"none", "preflight", "freezing", "frozen", "exporting", "exported",
                 "awaiting_ack", "acked", "activating", "uncertain", "committed", "aborted"}
TargetPhases == {"none", "importing", "staged", "verified", "acked", "activating",
                 "active", "discarded"}
SourceTerminal == {"committed", "aborted"}
TargetTerminal == {"active", "discarded"}
\* target phases in which the snapshot is only staged
Staged == {"importing", "staged", "verified", "acked"}
\* target phases in which a verified copy is kept
Verified == {"verified", "acked", "activating"}
\* source phases that durableHandoffAdmissionFailure takes for a held authority intent
CutPhases == {"frozen", "exporting", "exported", "awaiting_ack", "acked", "activating",
              "uncertain", "committed"}

VARIABLES
    \* durable: the source's journal
    sPhase, intent, cert, epoch,
    \* durable: the target's journal, and the snapshots in it that the running build refuses
    tPhase, outdated,
    \* durable: the mesh record of each daemon and its write fence
    role, host, held, handedTo, fence, wfence,
    \* the coordinator process (owned by the session host, it outlives the daemon)
    coord,
    \* volatile: launch / stop under way, and the engines' in-memory state
    trans, sStep, run, sent, act, probe, restoring, owed, tStep, tAct, tAck, tOwed,
    \* requests in transit, and the crash counter
    req, crashes

sJournal == <<sPhase, intent, cert, epoch>>
sCalls   == <<run, sent, act, probe>>
source   == <<sJournal, sStep, sCalls, restoring, owed>>
tJournal == <<tPhase, outdated>>
tVol     == <<tAct, tAck, tOwed>>
target   == <<tJournal, tStep, tVol>>
config   == <<role, host, held, handedTo>>
fences   == <<fence, wfence>>
runtime  == <<coord, trans>>
daemon   == <<config, fences, runtime>>
net      == <<req, crashes>>
vars     == <<source, target, daemon, net>>

NoFence == [h |-> NoHandoff, mode |-> "none"]
MaybeHandoff == Handoffs \cup {NoHandoff}
NoProbe == [rec |-> "idle", rep |-> "wait"]

Verbs == {"manifest", "chunk", "seal", "ack", "activate", "discard", "certificate"}

SourceSteps == {"idle", "hold", "check", "fence", "certify", "exporting", "export", "send",
                "activate", "committed", "unfence", "abort", "aborted"}
SourceRuns == {"idle", "preflight", "capable", "stop", "manifest", "chunk", "seal"}
Activations == {"idle", "sent", "applied", "tombstone"}
Probes == [rec : {"idle", "abort", "activating", "uncertain"}, rep : TargetPhases \cup {"wait"}]

TargetSteps == {"idle", "verify", "apply", "adopt", "rollback", "tombstone", "unfence"}
TargetActs == {"idle", "first", "again", "ready", "launch"}
Acks == {"idle", "sent", "ok", "refused"}

WriteFences == [h : MaybeHandoff, mode : {"none", "transfer", "history"}]

PerHandoff(T) == [Handoffs -> T]
PerDaemon(T) == [Daemons -> T]

SourceTypes ==
    /\ sPhase \in PerHandoff(SourcePhases)
    /\ intent \in PerHandoff(BOOLEAN)
    /\ cert \in PerHandoff(BOOLEAN)
    /\ epoch \in PerHandoff(Nat)
    /\ sStep \in PerHandoff(SourceSteps)
    /\ run \in PerHandoff(SourceRuns)
    /\ sent \in PerHandoff(BOOLEAN)
    /\ act \in PerHandoff(Activations)
    /\ probe \in PerHandoff([Probers -> Probes])
    /\ restoring \in SUBSET Handoffs
    /\ owed \in PerHandoff(BOOLEAN)

TargetTypes ==
    /\ tPhase \in PerHandoff(TargetPhases)
    /\ outdated \in SUBSET Handoffs
    /\ tStep \in PerHandoff(TargetSteps)
    /\ tAct \in PerHandoff(TargetActs)
    /\ tAck \in PerHandoff(Acks)
    /\ tOwed \in PerHandoff(BOOLEAN)

DaemonTypes ==
    /\ role \in PerDaemon({"host", "member"})
    /\ host \in PerDaemon(Daemons)
    /\ held \in PerDaemon(Nat)
    /\ handedTo \in PerDaemon(MaybeHandoff)
    /\ fence \in PerDaemon(MaybeHandoff)
    /\ wfence \in PerDaemon(WriteFences)
    /\ coord \in PerDaemon(BOOLEAN)
    /\ trans \in PerDaemon({"none", "launch", "stop"})

NetTypes ==
    /\ req \in SUBSET (Verbs \X Handoffs)
    /\ crashes \in 0..MaxCrashes

\* Every journal column, mesh record field, call slot and engine step holds one of the values
\* the engines write into it.
TypeOK == SourceTypes /\ TargetTypes /\ DaemonTypes /\ NetTypes

Init ==
    /\ sPhase = [h \in Handoffs |-> "none"]
    /\ intent = [h \in Handoffs |-> FALSE]
    /\ cert = [h \in Handoffs |-> FALSE]
    /\ epoch = [h \in Handoffs |-> 0]
    /\ tPhase = [h \in Handoffs |-> "none"]
    /\ outdated = {}
    /\ role = [d \in Daemons |-> IF d = FirstHost THEN "host" ELSE "member"]
    /\ host = [d \in Daemons |-> FirstHost]
    /\ held = [d \in Daemons |-> 0]
    /\ handedTo = [d \in Daemons |-> NoHandoff]
    /\ fence = [d \in Daemons |-> NoHandoff]
    /\ wfence = [d \in Daemons |-> NoFence]
    /\ coord = [d \in Daemons |-> FALSE]
    /\ trans = [d \in Daemons |-> "none"]
    /\ sStep = [h \in Handoffs |-> "idle"]
    /\ run = [h \in Handoffs |-> "idle"]
    /\ sent = [h \in Handoffs |-> FALSE]
    /\ act = [h \in Handoffs |-> "idle"]
    /\ probe = [h \in Handoffs |-> [p \in Probers |-> NoProbe]]
    /\ restoring = {}
    /\ owed = [h \in Handoffs |-> FALSE]
    /\ tStep = [h \in Handoffs |-> "idle"]
    /\ tAct = [h \in Handoffs |-> "idle"]
    /\ tAck = [h \in Handoffs |-> "idle"]
    /\ tOwed = [h \in Handoffs |-> FALSE]
    /\ req = {}
    /\ crashes = 0

-----------------------------------------------------------------------------
(* The mesh record, the fences and admission.                              *)

\* The event loop of d is not inside a stretch of durable writes.
Free(d) == \A h \in Handoffs : /\ Src[h] = d => sStep[h] = "idle"
                               /\ Dst[h] = d => tStep[h] = "idle"

Put(f, x, v) == [f EXCEPT ![x] = v]

\* resolveMeshHostStatus: a fenced daemon reads as a member.
ViewRole(d) == IF fence[d] # NoHandoff THEN "member" ELSE role[d]

\* findActive(mesh, role) finds nothing
NoActiveSource(d) == \A h \in Handoffs : Src[h] = d => sPhase[h] \in SourceTerminal \cup {"none"}
NoActiveTarget(d) == \A h \in Handoffs : Dst[h] = d => tPhase[h] \in TargetTerminal \cup {"none"}

\* A variant of WriteHost that clears the epoch of a daemon that hands off.
WriteHostDropsEpoch(d, r, newHost, e, to) ==
    /\ role' = Put(role, d, r)
    /\ host' = Put(host, d, newHost)
    /\ held' = Put(held, d, IF to # NoHandoff THEN 0 ELSE e)
    /\ handedTo' = Put(handedTo, d, to)

\* A variant of WriteHost that leaves the old host pointer in place.
WriteHostKeepsPointer(d, r, newHost, e, to) ==
    /\ role' = Put(role, d, r)
    /\ held' = Put(held, d, e)
    /\ handedTo' = Put(handedTo, d, to)
    /\ UNCHANGED host

\* writeHost: the role, the host followed, the epoch and the handed-off mark.
WriteHost(d, r, newHost, e, to) ==
    /\ role' = Put(role, d, r)
    /\ host' = Put(host, d, newHost)
    /\ held' = Put(held, d, e)
    /\ handedTo' = Put(handedTo, d, to)

\* setFence(mesh, {handoffId: h}) throws while another handoff holds the fence.
CanFence(d, h) == fence[d] \in {h, NoHandoff}

\* setFence(mesh, null, h) throws on the fence, or the write fence, of another handoff.
CanUnfence(d, h) == fence[d] \in {h, NoHandoff} /\ wfence[d].h \in {h, NoHandoff}

\* releaseHandoffWriteFence: the daemon that handed off under h keeps its history read-only.
ReleasedFence(d, h) ==
    IF wfence[d].h = h /\ role[d] = "member" /\ handedTo[d] = h
    THEN [h |-> h, mode |-> "history"]
    ELSE NoFence

Unfence(d, h) == /\ fence' = Put(fence, d, NoHandoff)
                 /\ wfence' = Put(wfence, d, ReleasedFence(d, h))

\* acquireHandoffWriteFence refuses the fence of another handoff, unless it is
\* the history of an earlier epoch.
CanFreeze(d, h) ==
    LET w == wfence[d]
    IN  \/ w.h \in {h, NoHandoff}
        \/ w.mode = "history" /\ epoch[h] > epoch[w.h]

\* durableHandoffAdmissionFailure reads one source record of the highest epoch; SQLite
\* picks any when an aborted start and the next one share it.
SourceIntentFree(d) ==
    LET mine == {h \in Handoffs : Src[h] = d /\ sPhase[h] # "none"}
        top == {h \in mine : \A g \in mine : epoch[g] <= epoch[h]}
    IN  mine = {} \/ \E h \in top : sPhase[h] \notin CutPhases \/ held[d] > epoch[h]

\* A variant of Admitted that trusts the recorded role and forgets the cut.
AdmittedByRole(d) == role[d] = "host"

\* What launch_mesh_coordinator and every host-owned mutation ask before they act.
Admitted(d) ==
    /\ role[d] = "host"
    /\ fence[d] = NoHandoff
    /\ handedTo[d] = NoHandoff
    /\ wfence[d].h = NoHandoff
    /\ SourceIntentFree(d)

-----------------------------------------------------------------------------
(* Source: start, freeze, stop and export (start, advance).                *)

Busy(h) == run[h] \in {"stop", "manifest", "chunk", "seal"}

\* start: only one start of a project checks at a time, and none over an unfinished handoff.
Preflight(h) ==
    LET d == Src[h]
    IN  /\ Free(d)
        /\ sPhase[h] = "none" /\ run[h] = "idle"
        /\ \A g \in Handoffs : Src[g] = d => run[g] \notin {"preflight", "capable"}
        /\ ViewRole(d) = "host" /\ handedTo[d] = NoHandoff /\ host[d] = d
        /\ NoActiveSource(d)
        /\ run' = Put(run, h, "preflight")
        /\ UNCHANGED <<sJournal, sStep, sent, act, probe, restoring, owed, target, daemon,
                       net>>

\* The target's capability answer.
Capability(h) ==
    LET d == Dst[h]
    IN  /\ Free(d)
        /\ run[h] = "preflight"
        /\ ViewRole(d) = "member" /\ host[d] = Src[h]
        /\ NoActiveTarget(d)
        /\ run' = Put(run, h, "capable")
        /\ UNCHANGED <<sJournal, sStep, sent, act, probe, restoring, owed, target, daemon,
                       net>>

\* Any failed check ends the start before anything is journalled.
PreflightFails(h) ==
    /\ Free(Src[h])
    /\ run[h] \in {"preflight", "capable"}
    /\ run' = Put(run, h, "idle")
    /\ UNCHANGED <<sJournal, sStep, sent, act, probe, restoring, owed, target, daemon, net>>

StartPut(h) ==
    /\ Free(Src[h])
    /\ run[h] = "capable"
    /\ run' = Put(run, h, "idle")
    /\ sPhase' = Put(sPhase, h, "preflight")
    /\ epoch' = Put(epoch, h, held[Src[h]] + 1)
    /\ sStep' = Put(sStep, h, "hold")
    /\ UNCHANGED <<intent, cert, sent, act, probe, restoring, owed, target, daemon, net>>

\* hold.acquire answers: the handoff freezes, or ends with hold_failed.
StartHold(h) ==
    /\ sStep[h] = "hold"
    /\ \/ /\ sPhase' = Put(sPhase, h, "freezing")
          /\ sStep' = Put(sStep, h, "check")
       \/ /\ sPhase' = Put(sPhase, h, "aborted")
          /\ sStep' = Put(sStep, h, "idle")
    /\ UNCHANGED <<intent, cert, epoch, sCalls, restoring, owed, target, daemon, net>>

\* A variant of AbortAllowed without the commit-intent guard.
AbortAllowedAnytime(h) == sPhase[h] \notin SourceTerminal

\* abortInternal does something without a proof of the target's discard: the handoff is not
\* finished, and activate was never sent and is not being prepared.
AbortAllowed(h) == sPhase[h] \notin SourceTerminal /\ ~intent[h] /\ act[h] = "idle"

\* The next step of a stretch that ends in abortInternal, without that proof and with it.
AbortStep(h) == IF AbortAllowed(h) THEN "abort" ELSE "idle"
AbortDiscarded(h) == IF sPhase[h] \notin SourceTerminal THEN "abort" ELSE "idle"

\* freezing: wait for a quiescent project, give up on an open writer checkpoint
\* or after the freeze timeout.
FreezeCheck(h) ==
    /\ sStep[h] = "check"
    /\ \/ /\ sPhase' = Put(sPhase, h, "frozen")
          /\ sStep' = Put(sStep, h, "fence")
       \/ /\ sStep' = Put(sStep, h, AbortStep(h))
          /\ UNCHANGED sPhase
       \/ /\ sStep' = Put(sStep, h, "idle")
          /\ UNCHANGED sPhase
    /\ UNCHANGED <<intent, cert, epoch, sCalls, restoring, owed, target, daemon, net>>

\* What advance does first: nothing while an earlier advance of the handoff is under way.
AdvanceStep(h) ==
    IF Busy(h) THEN "idle"
    ELSE IF sPhase[h] = "freezing" THEN "check"
    ELSE IF sPhase[h] = "frozen" THEN "fence"
    ELSE "idle"

\* tick or the owner's retry
Advance(h) ==
    /\ Free(Src[h])
    /\ AdvanceStep(h) # "idle"
    /\ sStep' = Put(sStep, h, AdvanceStep(h))
    /\ UNCHANGED <<sJournal, sCalls, restoring, owed, target, daemon, net>>

\* frozen: fence the project, then stop the coordinator unless that is already certified.
\* The stop is refused while a launch or stop is under way (withCoordinatorTransition).
FenceSource(h) ==
    LET d == Src[h]
    IN  /\ sStep[h] = "fence"
        /\ IF CanFence(d, h)
           THEN /\ fence' = Put(fence, d, h)
                /\ IF cert[h]
                   THEN /\ sStep' = Put(sStep, h, "exporting")
                        /\ UNCHANGED <<run, trans>>
                   ELSE /\ sStep' = Put(sStep, h, "idle")
                        /\ IF trans[d] = "none"
                           THEN trans' = Put(trans, d, "stop") /\ run' = Put(run, h, "stop")
                           ELSE UNCHANGED <<run, trans>>
           ELSE /\ sStep' = Put(sStep, h, "idle")
                /\ UNCHANGED <<fence, run, trans>>
        /\ UNCHANGED <<sJournal, sent, act, probe, restoring, owed, target, config, wfence,
                       coord, net>>

\* stopProjectCoordinators ends: unconfirmed (what was asked to stop may have stopped),
\* or proved by a census, after which freezeWrites takes the write fence or throws.
StopSource(h) ==
    LET d == Src[h]
    IN  /\ Free(d)
        /\ run[h] = "stop"
        /\ run' = Put(run, h, "idle")
        /\ trans' = Put(trans, d, "none")
        /\ \/ /\ coord' \in {coord, Put(coord, d, FALSE)}
              /\ UNCHANGED <<wfence, sStep>>
           \/ /\ coord' = Put(coord, d, FALSE)
              /\ IF CanFreeze(d, h)
                 THEN /\ wfence' = Put(wfence, d, [h |-> h, mode |-> "transfer"])
                      /\ sStep' = Put(sStep, h, "certify")
                 ELSE UNCHANGED <<wfence, sStep>>
        /\ UNCHANGED <<sJournal, sent, act, probe, restoring, owed, target, config, fence,
                       net>>

\* putCertificate
Certify(h) ==
    /\ sStep[h] = "certify"
    /\ cert' = Put(cert, h, TRUE)
    /\ sStep' = Put(sStep, h, "exporting")
    /\ UNCHANGED <<sPhase, intent, epoch, sCalls, restoring, owed, target, daemon, net>>

MoveExporting(h) ==
    /\ sStep[h] = "exporting"
    /\ sPhase' = Put(sPhase, h, "exporting")
    /\ sStep' = Put(sStep, h, "export")
    /\ UNCHANGED <<intent, cert, epoch, sCalls, restoring, owed, target, daemon, net>>

Export(h) ==
    /\ sStep[h] = "export"
    /\ \/ /\ sPhase' = Put(sPhase, h, "exported")
          /\ sStep' = Put(sStep, h, "send")
       \/ /\ sStep' = Put(sStep, h, AbortStep(h))
          /\ UNCHANGED sPhase
    /\ UNCHANGED <<intent, cert, epoch, sCalls, restoring, owed, target, daemon, net>>

\* awaiting_ack is journalled before the first byte of the transfer leaves.
Send(h) ==
    /\ sStep[h] = "send"
    /\ sPhase' = Put(sPhase, h, "awaiting_ack")
    /\ sStep' = Put(sStep, h, "idle")
    /\ run' = Put(run, h, "manifest")
    /\ sent' = Put(sent, h, FALSE)
    /\ req' = req \cup {<<"manifest", h>>}
    /\ UNCHANGED <<intent, cert, epoch, act, probe, restoring, owed, target, daemon, crashes>>

-----------------------------------------------------------------------------
(* Source: transfer and ACK (transfer, retry, onAck).                      *)

\* The call of the transfer succeeded: the next one leaves, or the copy is complete.
TransferReply(h) ==
    /\ Free(Src[h])
    /\ sent[h]
    /\ sent' = Put(sent, h, FALSE)
    /\ \/ /\ run[h] = "manifest"
          /\ run' = Put(run, h, "chunk")
          /\ req' = req \cup {<<"chunk", h>>}
       \/ /\ run[h] = "chunk"
          /\ run' = Put(run, h, "seal")
          /\ req' = req \cup {<<"seal", h>>}
       \/ /\ run[h] = "seal"
          /\ run' = Put(run, h, "idle")
          /\ UNCHANGED req
    /\ UNCHANGED <<sJournal, sStep, act, probe, restoring, owed, target, daemon, crashes>>

\* The call was refused, or its reply was lost or late: the handoff is aborted, unless the
\* ACK overtook the seal's own reply and activate has already left.
TransferFails(h) ==
    /\ Free(Src[h])
    /\ run[h] \in {"manifest", "chunk", "seal"}
    /\ run' = Put(run, h, "idle")
    /\ sent' = Put(sent, h, FALSE)
    /\ sStep' = Put(sStep, h, AbortStep(h))
    /\ UNCHANGED <<sJournal, act, probe, restoring, owed, target, daemon, net>>

\* The owner's retry of an unacknowledged snapshot.
RetryTransfer(h) ==
    /\ Free(Src[h])
    /\ sPhase[h] = "awaiting_ack" /\ ~Busy(h)
    /\ run' = Put(run, h, "manifest")
    /\ sent' = Put(sent, h, FALSE)
    /\ req' = req \cup {<<"manifest", h>>}
    /\ UNCHANGED <<sJournal, sStep, act, probe, restoring, owed, target, daemon, crashes>>

\* tick: no ACK within HOST_HANDOFF_ACK_TIMEOUT_MS.
AckTimeout(h) ==
    /\ Free(Src[h])
    /\ sPhase[h] = "awaiting_ack" /\ ~Busy(h)
    /\ sStep' = Put(sStep, h, AbortStep(h))
    /\ UNCHANGED <<sJournal, sCalls, restoring, owed, target, daemon, net>>

AnswerAck(h, answer) ==
    tAck' = IF tAck[h] = "sent" THEN Put(tAck, h, answer) ELSE tAck

\* onAck: only an exact ACK that is awaited moves the handoff; a repeat is acknowledged.
OnAck(h) ==
    /\ Free(Src[h])
    /\ <<"ack", h>> \in req
    /\ \/ /\ sPhase[h] = "awaiting_ack"
          /\ sPhase' = Put(sPhase, h, "acked")
          /\ sStep' = Put(sStep, h, "activate")
          /\ AnswerAck(h, "ok")
       \/ /\ sPhase[h] = "awaiting_ack"   \* digest, epoch, row counts or readiness differ
          /\ sStep' = Put(sStep, h, AbortStep(h))
          /\ AnswerAck(h, "refused")
          /\ UNCHANGED sPhase
       \/ /\ sPhase[h] \in {"acked", "activating", "uncertain", "committed"}
          /\ AnswerAck(h, "ok")
          /\ UNCHANGED <<sPhase, sStep>>
       \/ /\ sPhase[h] \notin {"awaiting_ack", "acked", "activating", "uncertain", "committed"}
          /\ AnswerAck(h, "refused")
          /\ UNCHANGED <<sPhase, sStep>>
    /\ UNCHANGED <<intent, cert, epoch, sCalls, restoring, owed, tJournal, tStep, tAct, tOwed,
                   daemon, net>>

-----------------------------------------------------------------------------
(* Source: activate, commit, abort.                                        *)

\* The owner's retry of an acknowledged handoff whose activate never left.
RetryActivate(h) ==
    /\ Free(Src[h])
    /\ sPhase[h] = "acked" /\ act[h] = "idle"
    /\ sStep' = Put(sStep, h, "activate")
    /\ UNCHANGED <<sJournal, sCalls, restoring, owed, target, daemon, net>>

\* activateLocked up to its await: fence, durable commit intent, then the request.
ActivateSend(h) ==
    LET d == Src[h]
    IN  /\ sStep[h] = "activate"
        /\ sStep' = Put(sStep, h, "idle")
        /\ IF sPhase[h] \in {"acked", "uncertain"} /\ CanFence(d, h)
           THEN /\ fence' = Put(fence, d, h)
                /\ sPhase' = Put(sPhase, h, "activating")
                /\ intent' = Put(intent, h, TRUE)
                /\ req' = req \cup {<<"activate", h>>}
                /\ act' = Put(act, h, "sent")
           ELSE UNCHANGED <<sPhase, intent, act, fence, req>>
        /\ UNCHANGED <<cert, epoch, run, sent, probe, restoring, owed, target, config, wfence,
                       runtime, crashes>>

\* commit does nothing on a committed record; else the mesh record is written first.
CommitStep(h) ==
    LET d == Src[h]
    IN  IF sPhase[h] = "committed"
        THEN UNCHANGED <<config, sStep>>
        ELSE /\ WriteHost(d, "member", Dst[h], epoch[h], h)
             /\ sStep' = Put(sStep, h, "committed")

\* The activate call ends.  A lost reply and a plain refusal prove nothing; the move to
\* uncertain does not look at the phase the record has by now.
ActivateReply(h) ==
    /\ Free(Src[h])
    /\ act' = Put(act, h, "idle")
    /\ \/ /\ act[h] = "applied"
          /\ CommitStep(h)
          /\ UNCHANGED sPhase
       \/ /\ act[h] = "tombstone"
          /\ sStep' = Put(sStep, h, AbortDiscarded(h))
          /\ UNCHANGED <<config, sPhase>>
       \/ /\ act[h] # "idle"       \* refused, or the reply is lost
          /\ sPhase' = Put(sPhase, h, "uncertain")
          /\ UNCHANGED <<config, sStep>>
    /\ UNCHANGED <<intent, cert, epoch, run, sent, probe, restoring, owed, target, fences,
                   runtime, net>>

CommitJournal(h) ==
    /\ sStep[h] = "committed"
    /\ sPhase' = Put(sPhase, h, "committed")
    /\ sStep' = Put(sStep, h, "unfence")
    /\ UNCHANGED <<intent, cert, epoch, sCalls, restoring, owed, target, daemon, net>>

\* The fence goes, the write fence turns into read-only history, members are told.
CommitUnfence(h) ==
    /\ sStep[h] = "unfence"
    /\ sStep' = Put(sStep, h, "idle")
    /\ IF CanUnfence(Src[h], h)
       THEN Unfence(Src[h], h) /\ req' = req \cup {<<"certificate", h>>}
       ELSE UNCHANGED <<fences, req>>
    /\ UNCHANGED <<sJournal, sCalls, restoring, owed, target, config, runtime, crashes>>

\* tick: the transfer is offered again to the members while the source retains it.
Advertise(h) ==
    /\ Free(Src[h])
    /\ sPhase[h] = "committed"
    /\ req' = req \cup {<<"certificate", h>>}
    /\ UNCHANGED <<source, target, daemon, crashes>>

\* abortInternal releases the fence first; a fence of another handoff makes it throw.
AbortUnfence(h) ==
    /\ sStep[h] = "abort"
    /\ IF CanUnfence(Src[h], h)
       THEN Unfence(Src[h], h) /\ sStep' = Put(sStep, h, "aborted")
       ELSE UNCHANGED fences /\ sStep' = Put(sStep, h, "idle")
    /\ UNCHANGED <<sJournal, sCalls, restoring, owed, target, config, runtime, net>>

\* Then it journals, relaunches what it stopped, and tells a target that may still be staged.
AbortJournal(h) ==
    /\ sStep[h] = "aborted"
    /\ sPhase' = Put(sPhase, h, "aborted")
    /\ sStep' = Put(sStep, h, "idle")
    /\ \/ UNCHANGED restoring
       \/ cert[h] /\ restoring' = restoring \cup {h}
    /\ req' = IF intent[h] THEN req ELSE req \cup {<<"discard", h>>}
    /\ UNCHANGED <<intent, cert, epoch, sCalls, owed, target, daemon, crashes>>

\* The owner aborts a handoff whose activate was never sent.
OwnerAbort(h) ==
    /\ Free(Src[h])
    /\ act[h] = "idle" /\ ~Busy(h)
    /\ sPhase[h] \notin SourceTerminal \cup {"none", "activating", "uncertain"}
    /\ sStep' = Put(sStep, h, AbortStep(h))
    /\ UNCHANGED <<sJournal, sCalls, restoring, owed, target, daemon, net>>

-----------------------------------------------------------------------------
(* Source: probes, resume.                                                 *)

SetProbe(h, p, value) == [probe EXCEPT ![h][p] = value]

\* A variant of Probe that forgets the records that are already uncertain.
ProbeFirstOnly(h, p) ==
    /\ Free(Src[h])
    /\ sPhase[h] = "activating"
    /\ probe[h][p] = NoProbe
    /\ probe' = SetProbe(h, p, [rec |-> sPhase[h], rep |-> "wait"])
    /\ UNCHANGED <<sJournal, sStep, run, sent, act, restoring, owed, target, daemon, net>>

\* tick, or the owner's retry: ask the target about an unconfirmed activation.
Probe(h, p) ==
    /\ Free(Src[h])
    /\ sPhase[h] \in {"uncertain", "activating"}
    /\ probe[h][p] = NoProbe
    /\ probe' = SetProbe(h, p, [rec |-> sPhase[h], rep |-> "wait"])
    /\ UNCHANGED <<sJournal, sStep, run, sent, act, restoring, owed, target, daemon, net>>

\* The owner aborts after activate was sent: the target has to prove the discard.
OwnerAbortAsk(h, p) ==
    /\ Free(Src[h])
    /\ act[h] = "idle" /\ ~Busy(h)
    /\ sPhase[h] \in {"uncertain", "activating"}
    /\ probe[h][p] = NoProbe
    /\ probe' = SetProbe(h, p, [rec |-> "abort", rep |-> "wait"])
    /\ UNCHANGED <<sJournal, sStep, run, sent, act, restoring, owed, target, daemon, net>>

\* The status answer.  A target that is still staged or activating gets activate again.
ProbeReply(h, p) ==
    /\ Free(Src[h])
    /\ probe' = SetProbe(h, p, NoProbe)
    /\ \/ /\ probe[h][p].rep = "active"
          /\ CommitStep(h)
          /\ UNCHANGED sPhase
       \/ /\ probe[h][p].rep = "discarded"
          /\ sStep' = Put(sStep, h, AbortDiscarded(h))
          /\ UNCHANGED <<config, sPhase>>
       \/ /\ probe[h][p].rep \in Staged \cup {"activating"}
          /\ probe[h][p].rec # "abort"
          /\ sPhase' = IF probe[h][p].rec = "activating" THEN Put(sPhase, h, "uncertain")
                       ELSE sPhase
          /\ sStep' = IF act[h] = "idle" THEN Put(sStep, h, "activate") ELSE sStep
          /\ UNCHANGED config
       \/ /\ probe[h][p] # NoProbe   \* no record, a refused abort, or the reply is lost
          /\ UNCHANGED <<config, sPhase, sStep>>
    /\ UNCHANGED <<intent, cert, epoch, run, sent, act, restoring, owed, target, fences,
                   runtime, net>>

\* resume's treatment of one record.
ResumeRecord(h) ==
    \/ /\ sPhase[h] = "frozen"
       /\ sStep' = Put(sStep, h, AdvanceStep(h))
       /\ UNCHANGED <<sPhase, probe>>
    \/ /\ sPhase[h] = "acked"
       /\ sStep' = IF act[h] = "idle" THEN Put(sStep, h, "activate") ELSE sStep
       /\ UNCHANGED <<sPhase, probe>>
    \/ /\ sPhase[h] \in {"activating", "uncertain"}
       /\ sPhase' = Put(sPhase, h, "uncertain")
       /\ \E p \in Probers :
             /\ probe[h][p] = NoProbe
             /\ probe' = SetProbe(h, p, [rec |-> "uncertain", rep |-> "wait"])
       /\ UNCHANGED sStep
    \/ /\ sPhase[h] \in SourceTerminal \cup {"none"}
       /\ UNCHANGED <<sPhase, probe, sStep>>
    \/ /\ sPhase[h] \notin SourceTerminal \cup {"none", "frozen", "acked", "activating", "uncertain"}
       /\ sStep' = Put(sStep, h, AbortStep(h))
       /\ UNCHANGED <<sPhase, probe>>

\* resume works through the unfinished records of the journal, one at a time.
Resume(h) ==
    /\ Free(Src[h])
    /\ owed[h]
    /\ owed' = Put(owed, h, FALSE)
    /\ ResumeRecord(h)
    /\ UNCHANGED <<intent, cert, epoch, run, sent, act, restoring, target, daemon, net>>

-----------------------------------------------------------------------------
(* Target: staging (manifest, chunk, seal, sendAck, discard, tick, status). *)

\* A reply reaches the transfer only while that call waits.  A refusal ends the transfer
\* as a lost reply does (TransferFails).
Accept(h, call) == sent' = Put(sent, h, sent[h] \/ run[h] = call)

TManifest(h) ==
    LET d == Dst[h]
        known == /\ ViewRole(d) = "member" /\ host[d] = Src[h]
                 /\ held[d] + 1 = epoch[h]
    IN  /\ Free(d)
        /\ <<"manifest", h>> \in req
        /\ \/ /\ known /\ tPhase[h] = "none" /\ NoActiveTarget(d)
              /\ tPhase' = Put(tPhase, h, "importing")
           \/ /\ known /\ tPhase[h] \in Staged \cup {"activating"}
              /\ UNCHANGED tPhase
        /\ Accept(h, "manifest")
        /\ UNCHANGED <<sJournal, sStep, run, act, probe, restoring, owed, outdated, tStep,
                       tVol, daemon, net>>

TChunk(h) ==
    /\ Free(Dst[h])
    /\ <<"chunk", h>> \in req
    /\ tPhase[h] \notin {"none", "discarded"}
    /\ Accept(h, "chunk")
    /\ UNCHANGED <<sJournal, sStep, run, act, probe, restoring, owed, target, daemon, net>>

\* sendAck: the ACK leaves.
SendAck(h) ==
    /\ req' = req \cup {<<"ack", h>>}
    /\ tAck' = Put(tAck, h, "sent")

\* seal: verify the staged copy and rehearse the import; staged, then verified, then ACK.
TSeal(h) ==
    /\ Free(Dst[h])
    /\ <<"seal", h>> \in req
    /\ \/ /\ tPhase[h] = "importing"
          /\ tPhase' = Put(tPhase, h, "staged")
          /\ tStep' = Put(tStep, h, "verify")
          /\ UNCHANGED <<sent, req, tAck>>
       \/ /\ tPhase[h] = "importing"
          /\ tPhase' = Put(tPhase, h, "discarded")
          /\ UNCHANGED <<sent, tStep, tAck, req>>
       \/ /\ tPhase[h] = "verified"
          /\ SendAck(h)
          /\ Accept(h, "seal")
          /\ UNCHANGED <<tPhase, tStep>>
       \/ /\ tPhase[h] \notin {"importing", "verified", "none", "discarded"}
          /\ Accept(h, "seal")
          /\ UNCHANGED <<tPhase, tStep, tAck, req>>
    /\ UNCHANGED <<sJournal, sStep, run, act, probe, restoring, owed, outdated, tAct, tOwed,
                   daemon, crashes>>

TVerified(h) ==
    /\ tStep[h] = "verify"
    /\ tPhase' = Put(tPhase, h, "verified")
    /\ tStep' = Put(tStep, h, "idle")
    /\ SendAck(h)
    /\ Accept(h, "seal")
    /\ UNCHANGED <<sJournal, sStep, run, act, probe, restoring, owed, outdated, tAct, tOwed,
                   daemon, crashes>>

\* The answer to the ACK, or none: a refused copy is dropped.
TAckReply(h) ==
    /\ Free(Dst[h])
    /\ tAck[h] # "idle"
    /\ tAck' = Put(tAck, h, "idle")
    /\ \/ /\ tAck[h] \in {"ok", "refused"} /\ tPhase[h] = "verified"
          /\ tPhase' = Put(tPhase, h, IF tAck[h] = "ok" THEN "acked" ELSE "discarded")
       \/ UNCHANGED tPhase
    /\ UNCHANGED <<source, outdated, tStep, tAct, tOwed, daemon, net>>

\* discard from the source, or the stage TTL: never while an activation is under way.
TDiscard(h) ==
    /\ Free(Dst[h])
    /\ <<"discard", h>> \in req
    /\ tAct[h] = "idle" /\ tPhase[h] \in Staged
    /\ tPhase' = Put(tPhase, h, "discarded")
    /\ UNCHANGED <<source, outdated, tStep, tVol, daemon, net>>

\* A variant of TStageTTL that does not look at the phase.
TStageTTLAnyPhase(h) ==
    /\ Free(Dst[h])
    /\ tAct[h] = "idle" /\ tPhase[h] # "none"
    /\ tPhase' = Put(tPhase, h, "discarded")
    /\ UNCHANGED <<source, outdated, tStep, tVol, daemon, net>>

TStageTTL(h) ==
    /\ Free(Dst[h])
    /\ tAct[h] = "idle" /\ tPhase[h] \in Staged
    /\ tPhase' = Put(tPhase, h, "discarded")
    /\ UNCHANGED <<source, outdated, tStep, tVol, daemon, net>>

TStatus(h, p) ==
    /\ Free(Dst[h])
    /\ probe[h][p] # NoProbe /\ probe[h][p].rep = "wait" /\ tPhase[h] # "none"
    /\ probe' = SetProbe(h, p, [rec |-> probe[h][p].rec, rep |-> tPhase[h]])
    /\ UNCHANGED <<sJournal, sStep, run, sent, act, restoring, owed, target, daemon, net>>

-----------------------------------------------------------------------------
(* Target: activation (activate, activateLocked, finishActivation, resume). *)

\* The reply to activate, if the source's call still waits.  A plain refusal is what a
\* lost reply is to the source (ActivateReply): no reply here.
Reply(h, answer) == act' = IF act[h] = "sent" THEN Put(act, h, answer) ELSE act

\* The certificate names this member's host and an epoch above the one it holds.
CertificateValid(h) == host[Dst[h]] = Src[h] /\ epoch[h] > held[Dst[h]]

\* The staged copy is verified again before anything is applied.
Reverify(h) ==
    \/ /\ h \notin outdated
       /\ tAct' = Put(tAct, h, IF tPhase[h] = "activating" THEN "again" ELSE "first")
       /\ UNCHANGED <<tPhase, act>>
    \/ /\ h \in outdated
       /\ tPhase' = Put(tPhase, h, "discarded")
       /\ Reply(h, "tombstone")
       /\ UNCHANGED tAct

TActivate(h) ==
    /\ Free(Dst[h])
    /\ <<"activate", h>> \in req
    /\ tAct[h] = "idle"
    /\ \/ /\ tPhase[h] = "active"
          /\ Reply(h, "applied")
          /\ UNCHANGED <<tPhase, tAct>>
       \/ /\ tPhase[h] = "discarded" /\ CertificateValid(h)
          /\ Reply(h, "tombstone")
          /\ UNCHANGED <<tPhase, tAct>>
       \/ /\ \/ tPhase[h] \in {"verified", "acked"} /\ CertificateValid(h)
             \/ tPhase[h] = "activating"
          /\ Reverify(h)
    /\ UNCHANGED <<sJournal, sStep, run, sent, probe, restoring, owed, outdated, tStep, tAck,
                   tOwed, daemon, net>>

\* The readiness check answers.  The record may have moved during it.
TReadiness(h) ==
    LET same == tPhase[h] \in IF tAct[h] = "again" THEN {"activating"} ELSE {"verified", "acked"}
    IN  /\ Free(Dst[h])
        /\ tAct[h] \in {"first", "again"}
        /\ \/ /\ ~same \/ tAct[h] = "again"      \* moved on, or not ready and still fenced
              /\ tAct' = Put(tAct, h, "idle")
              /\ UNCHANGED <<tPhase, tStep, act>>
           \/ /\ same /\ tAct[h] = "first"       \* not ready
              /\ tPhase' = Put(tPhase, h, "discarded")
              /\ Reply(h, "tombstone")
              /\ tAct' = Put(tAct, h, "idle")
              /\ UNCHANGED tStep
           \/ /\ same                            \* ready
              /\ tPhase' = Put(tPhase, h, "activating")
              /\ tStep' = Put(tStep, h, "apply")
              /\ UNCHANGED <<act, tAct>>
        /\ UNCHANGED <<sJournal, sStep, run, sent, probe, restoring, owed, outdated, tAck,
                       tOwed, daemon, net>>

\* Fence, write fence, then the import in one transaction.  The first attempt may prove that
\* it rolled back; after any other failure only going forward is safe.
TApply(h) ==
    LET d == Dst[h]
        Fail == tStep' = Put(tStep, h, "idle") /\ tAct' = Put(tAct, h, "idle")
    IN  /\ tStep[h] = "apply"
        /\ fence' = IF CanFence(d, h) THEN Put(fence, d, h) ELSE fence
        /\ IF CanFence(d, h) /\ CanFreeze(d, h)
           THEN /\ wfence' = Put(wfence, d, [h |-> h, mode |-> "transfer"])
                /\ \/ tStep' = Put(tStep, h, "adopt") /\ UNCHANGED tAct
                   \/ tAct[h] = "first" /\ tStep' = Put(tStep, h, "rollback") /\ UNCHANGED tAct
                   \/ Fail
           ELSE Fail /\ UNCHANGED wfence
        /\ UNCHANGED <<source, tJournal, tAck, tOwed, config, runtime, net>>

TRollback(h) ==
    /\ tStep[h] = "rollback"
    /\ Unfence(Dst[h], h)
    /\ tStep' = Put(tStep, h, "tombstone")
    /\ UNCHANGED <<source, tJournal, tVol, config, runtime, net>>

TTombstone(h) ==
    /\ tStep[h] = "tombstone"
    /\ tPhase' = Put(tPhase, h, "discarded")
    /\ tStep' = Put(tStep, h, "idle")
    /\ tAct' = Put(tAct, h, "idle")
    /\ Reply(h, "tombstone")
    /\ UNCHANGED <<sJournal, sStep, run, sent, probe, restoring, owed, outdated, tAck, tOwed,
                   daemon, net>>

\* applyConfig and writeHost: this daemon holds the role at the new epoch, still fenced.
TAdopt(h) ==
    LET d == Dst[h]
    IN  /\ tStep[h] = "adopt"
        /\ tStep' = Put(tStep, h, "idle")
        /\ \/ /\ WriteHost(d, "host", d, epoch[h], NoHandoff)
              /\ tAct' = Put(tAct, h, "ready")
           \/ /\ tAct' = Put(tAct, h, "idle")
              /\ UNCHANGED config
        /\ UNCHANGED <<source, tJournal, tAck, tOwed, fences, runtime, net>>

\* finishActivation: a second readiness check stands between the applied and the active record.
TActive(h) ==
    /\ Free(Dst[h])
    /\ tAct[h] = "ready"
    /\ \/ /\ tPhase' = Put(tPhase, h, "active")
          /\ tStep' = Put(tStep, h, "unfence")
          /\ UNCHANGED tAct
       \/ /\ tAct' = Put(tAct, h, "idle")
          /\ UNCHANGED <<tPhase, tStep>>
    /\ UNCHANGED <<source, outdated, tAck, tOwed, daemon, net>>

TUnfence(h) ==
    /\ tStep[h] = "unfence"
    /\ tStep' = Put(tStep, h, "idle")
    /\ IF CanUnfence(Dst[h], h)
       THEN Unfence(Dst[h], h) /\ tAct' = Put(tAct, h, "launch")
       ELSE UNCHANGED fences /\ tAct' = Put(tAct, h, "idle")
    /\ UNCHANGED <<source, tJournal, tAck, tOwed, config, runtime, net>>

\* launchOnce ends, with a coordinator or without; the source and the members are told.
TLaunched(h) ==
    LET d == Dst[h]
    IN  /\ Free(d)
        /\ tAct[h] = "launch"
        /\ tAct' = Put(tAct, h, "idle")
        /\ \/ Admitted(d) /\ trans[d] = "none" /\ coord' = Put(coord, d, TRUE)
           \/ UNCHANGED coord
        /\ Reply(h, "applied")
        /\ req' = req \cup {<<"certificate", h>>}
        /\ UNCHANGED <<sJournal, sStep, run, sent, probe, restoring, owed, tJournal, tStep,
                       tAck, tOwed, config, fences, trans, crashes>>

\* resume: an active record whose fence was left behind is unfenced, an interrupted
\* activation is finished.
TResume(h) ==
    LET d == Dst[h]
        left == tPhase[h] = "active" /\ fence[d] = h /\ held[d] = epoch[h] /\ host[d] = d
    IN  /\ Free(d)
        /\ tOwed[h]
        /\ tOwed' = Put(tOwed, h, FALSE)
        /\ \/ /\ left
              /\ IF CanUnfence(d, h) THEN Unfence(d, h) ELSE UNCHANGED fences
              /\ UNCHANGED <<tPhase, tAct, act>>
           \/ /\ tPhase[h] = "activating" /\ tAct[h] = "idle"
              /\ Reverify(h)
              /\ UNCHANGED fences
           \/ /\ ~left
              /\ tPhase[h] # "activating" \/ tAct[h] # "idle"
              /\ UNCHANGED <<act, tPhase, tAct, fences>>
        /\ UNCHANGED <<sJournal, sStep, run, sent, probe, restoring, owed, outdated, tStep,
                       tAck, config, runtime, net>>

-----------------------------------------------------------------------------
(* Members, coordinator launches, crashes.                                 *)

\* applyHostTransferToMember: follow the host already trusted, to a higher epoch only.
Adopt(d, h) ==
    /\ Free(d)
    /\ <<"certificate", h>> \in req
    /\ d \notin {Src[h], Dst[h]}
    /\ ViewRole(d) = "member" /\ host[d] = Src[h] /\ epoch[h] > held[d]
    /\ WriteHost(d, "member", Dst[h], epoch[h], handedTo[d])
    /\ UNCHANGED <<source, target, fences, runtime, net>>

\* launch_mesh_coordinator: admission is asked when the launch starts, not when it ends.
LaunchBegin(d) ==
    /\ Free(d)
    /\ trans[d] = "none" /\ Admitted(d)
    /\ trans' = Put(trans, d, "launch")
    /\ UNCHANGED <<source, target, config, fences, coord, net>>

LaunchEnd(d) ==
    /\ Free(d)
    /\ trans[d] = "launch"
    /\ trans' = Put(trans, d, "none")
    /\ coord' \in {coord, Put(coord, d, TRUE)}
    /\ UNCHANGED <<source, target, config, fences, net>>

\* restore: the relaunch after an abort goes through the same admission.
Restore(h) ==
    LET d == Src[h]
    IN  /\ Free(d)
        /\ h \in restoring
        /\ restoring' = restoring \ {h}
        /\ trans' = IF trans[d] = "none" /\ Admitted(d) THEN Put(trans, d, "launch") ELSE trans
        /\ UNCHANGED <<sJournal, sStep, sCalls, owed, target, config, fences, coord, net>>

\* The daemon process dies and comes back: calls, slots and half-done stretches are gone,
\* the stores and the session host's coordinator remain, resume is owed again.  It may come
\* back as another build, with other snapshot tables than a staged copy has.
Crash(d) ==
    /\ crashes < MaxCrashes
    /\ crashes' = crashes + 1
    /\ trans' = Put(trans, d, "none")
    /\ \/ UNCHANGED coord
       \/ trans[d] # "none" /\ coord' = Put(coord, d, trans[d] = "launch")
    /\ \/ UNCHANGED outdated
       \/ outdated' = outdated \cup {h \in Handoffs : Dst[h] = d /\ tPhase[h] \in Verified}
    /\ sStep' = [h \in Handoffs |-> IF Src[h] = d THEN "idle" ELSE sStep[h]]
    /\ run' = [h \in Handoffs |-> IF Src[h] = d THEN "idle" ELSE run[h]]
    /\ sent' = [h \in Handoffs |-> IF Src[h] = d THEN FALSE ELSE sent[h]]
    /\ act' = [h \in Handoffs |-> IF Src[h] = d THEN "idle" ELSE act[h]]
    /\ probe' = [h \in Handoffs |-> IF Src[h] = d THEN [p \in Probers |-> NoProbe] ELSE probe[h]]
    /\ restoring' = {h \in restoring : Src[h] # d}
    /\ owed' = [h \in Handoffs |-> IF Src[h] = d THEN TRUE ELSE owed[h]]
    /\ tStep' = [h \in Handoffs |-> IF Dst[h] = d THEN "idle" ELSE tStep[h]]
    /\ tAct' = [h \in Handoffs |-> IF Dst[h] = d THEN "idle" ELSE tAct[h]]
    /\ tAck' = [h \in Handoffs |-> IF Dst[h] = d THEN "idle" ELSE tAck[h]]
    /\ tOwed' = [h \in Handoffs |-> IF Dst[h] = d THEN TRUE ELSE tOwed[h]]
    /\ UNCHANGED <<sJournal, tPhase, config, fences, req>>

-----------------------------------------------------------------------------
SourceStart(h) ==
    \/ Preflight(h) \/ Capability(h) \/ PreflightFails(h) \/ StartPut(h) \/ StartHold(h)
    \/ FreezeCheck(h) \/ Advance(h) \/ FenceSource(h) \/ StopSource(h) \/ Certify(h)
    \/ MoveExporting(h) \/ Export(h) \/ Send(h)

SourceTransfer(h) ==
    \/ TransferReply(h) \/ TransferFails(h) \/ RetryTransfer(h) \/ AckTimeout(h)
    \/ OnAck(h)

SourceFinish(h) ==
    \/ RetryActivate(h) \/ ActivateSend(h) \/ ActivateReply(h) \/ CommitJournal(h)
    \/ CommitUnfence(h) \/ Advertise(h) \/ AbortUnfence(h) \/ AbortJournal(h) \/ OwnerAbort(h)
    \/ Restore(h) \/ Resume(h)
    \/ \E p \in Probers : Probe(h, p) \/ OwnerAbortAsk(h, p) \/ ProbeReply(h, p)

TargetStep(h) ==
    \/ TManifest(h) \/ TChunk(h) \/ TSeal(h) \/ TVerified(h) \/ TAckReply(h) \/ TDiscard(h)
    \/ TStageTTL(h) \/ TActivate(h) \/ TReadiness(h) \/ TApply(h) \/ TRollback(h)
    \/ TTombstone(h) \/ TAdopt(h) \/ TActive(h) \/ TUnfence(h) \/ TLaunched(h) \/ TResume(h)
    \/ \E p \in Probers : TStatus(h, p)

DaemonStep(d) ==
    \/ LaunchBegin(d) \/ LaunchEnd(d) \/ Crash(d)
    \/ \E h \in Handoffs : Adopt(d, h)

Next ==
    \/ \E h \in Handoffs : SourceStart(h) \/ SourceTransfer(h) \/ SourceFinish(h) \/ TargetStep(h)
    \/ \E d \in Daemons : DaemonStep(d)

Spec == Init /\ [][Next]_vars

-----------------------------------------------------------------------------
(* What the handoff promises.                                              *)

\* Both sides agree on the outcome: a target that took, or is taking, the authority never
\* belongs to a source that went back to being host, and a source that gave up after
\* sending activate did so on a retained tombstone.
Agreement ==
    \A h \in Handoffs :
        /\ tPhase[h] \in {"activating", "active"}
              => intent[h] /\ sPhase[h] \in {"activating", "uncertain", "committed"}
        /\ sPhase[h] = "aborted" /\ intent[h] => tPhase[h] = "discarded"
        /\ sPhase[h] = "committed" => tPhase[h] = "active"

\* At most one daemon is admitted to host-owned work.
SingleAuthority == \A d, e \in Daemons : Admitted(d) /\ Admitted(e) => d = e

\* At most one coordinator of the project runs.
SingleCoordinator == \A d, e \in Daemons : coord[d] /\ coord[e] => d = e

\* Source stop precedes target admission: from the moment the target takes the authority
\* the source is fenced or handed off and its coordinator is gone, until a later handoff
\* brings the authority back to it.
StopBeforeActivate ==
    \A h \in Handoffs :
        LET returned == \E g \in Handoffs : /\ Dst[g] = Src[h] /\ epoch[g] > epoch[h]
                                            /\ tPhase[g] \in {"activating", "active"}
        IN  tPhase[h] \in {"activating", "active"} /\ ~returned
                => /\ cert[h]
                   /\ h \in {fence[Src[h]], handedTo[Src[h]]}
                   /\ ~coord[Src[h]] /\ trans[Src[h]] = "none"

\* What a member believes is true: the host it follows at an epoch is the target that became
\* active at that epoch (commit, applyHostTransferToMember).
MembersFollowActive ==
    \A d \in Daemons : role[d] = "member" /\ held[d] > 0
        => \E h \in Handoffs : epoch[h] = held[d] /\ Dst[h] = host[d] /\ tPhase[h] = "active"

\* No daemon ever falls back to an earlier host epoch (writeHost, markHandedOff,
\* applyHostTransferToMember).
EpochNeverFalls == [][\A d \in Daemons : held'[d] >= held[d]]_vars

\* A finished target record stays as it is: a late manifest, activate, discard or TTL
\* neither revives a tombstone nor drops an active record.
TargetOutcomeFinal ==
    [][\A h \in Handoffs : tPhase[h] \in TargetTerminal => tPhase'[h] = tPhase[h]]_vars

-----------------------------------------------------------------------------
(* What comments and tests say and the code does not keep.                 *)

\* types.ts: "Phases after which nothing may change any more", said of committed and aborted.
SourceOutcomeFinal ==
    [][\A h \in Handoffs : sPhase[h] \in SourceTerminal => sPhase'[h] = sPhase[h]]_vars

\* journal.ts: "a crash at any point resumes from the last journalled phase".  Once a restarted
\* daemon has resumed a committed handoff, the fence that commit releases last is released.
CommitResumed ==
    \A h \in Handoffs : sPhase[h] = "committed" /\ sStep[h] = "idle" /\ ~owed[h]
        => fence[Src[h]] # h

\* advance: "Stop admission and the coordinator BEFORE cutting data", a cut that write-fence.ts
\* keeps until the handoff ends: an acknowledged snapshot is still cut.
SnapshotCutHeld ==
    \A h \in Handoffs : sPhase[h] \in {"acked", "activating", "uncertain"}
        => wfence[Src[h]] = [h |-> h, mode |-> "transfer"]

\* discardActivation: the discard of an activating record has as "its only effect ... a
\* transaction that rolled back": nothing of the handoff stays on the target.
DiscardLeavesNothing ==
    \A h \in Handoffs : tPhase[h] = "discarded"
        => fence[Dst[h]] # h /\ ~(role[Dst[h]] = "host" /\ held[Dst[h]] = epoch[h])

\* types.ts: "Source data stays read-only this long after commit".
HistoryReadOnly ==
    \A h \in Handoffs : sPhase[h] = "committed" /\ handedTo[Src[h]] = h
        => wfence[Src[h]] # NoFence
=============================================================================
