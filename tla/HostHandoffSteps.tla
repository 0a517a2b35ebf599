-------------------------- MODULE HostHandoffSteps --------------------------
(***************************************************************************)
(* The steps of a handoff preserve the invariant of that handoff, and what *)
(* they do to the three columns the abstract handoff sees of it.           *)
(* Every case has two parts: what the action makes of the columns of its   *)
(* handoff, and why the invariant survives that.  Then type correctness,   *)
(* for any daemons, handoffs, probes and number of crashes.                *)
(***************************************************************************)
EXTENDS HostHandoffInv, TLAPS

USE DEF source, target, daemon, net, config, fences, runtime, sJournal, sCalls, tJournal, tVol
USE DEF Put, SetProbe

\* A step of the source: the intent may be journalled, and an abort without it stands.
SourceLocal(h) ==
    /\ tPhase'[h] = tPhase[h]
    /\ \/ intent'[h] = intent[h]
       \/ intent'[h] = TRUE /\ sPhase[h] \notin SourceTerminal /\ sPhase'[h] = "activating"
    /\ sPhase[h] = "aborted" /\ ~intent[h] => sPhase'[h] = "aborted"

\* A step of the target: a final record stands.
TargetLocal(h) ==
    /\ sPhase'[h] = sPhase[h] /\ intent'[h] = intent[h]
    /\ tPhase[h] \in TargetTerminal => tPhase'[h] = tPhase[h]

\* The columns of h after a step of the source; what is the target's stands, activate is
\* requested and the target is asked only once the intent is there.
SMoved(h, sp, in, ss, rn, ac) ==
    /\ sPhase'[h] = sp /\ intent'[h] = in /\ sStep'[h] = ss /\ run'[h] = rn /\ act'[h] = ac
    /\ tPhase'[h] = tPhase[h] /\ tStep'[h] = tStep[h] /\ tAct'[h] = tAct[h]
    /\ <<"activate", h>> \in req' => <<"activate", h>> \in req \/ in
    /\ \A q \in Probers : \/ probe'[h][q] = probe[h][q]
                          \/ /\ probe'[h][q].rep = "wait"
                             /\ probe'[h][q] = NoProbe \/ sPhase[h] \in {"activating", "uncertain"}

\* The same where a stretch ends in abortInternal, which does nothing after the intent.
GivenUp(h, rn) ==
    \/ SMoved(h, sPhase[h], intent[h], "idle", rn, act[h])
    \/ /\ ~intent[h] /\ sPhase[h] \notin SourceTerminal
       /\ SMoved(h, sPhase[h], intent[h], "abort", rn, act[h])

\* The columns of h after a step of the target; what is the source's stands, and a probe is
\* answered with the target's record.
TMoved(h, ac, tp, ts, ta) ==
    /\ sPhase'[h] = sPhase[h] /\ intent'[h] = intent[h] /\ sStep'[h] = sStep[h]
    /\ run'[h] = run[h] /\ act'[h] = ac
    /\ tPhase'[h] = tp /\ tStep'[h] = ts /\ tAct'[h] = ta
    /\ <<"activate", h>> \in req' => <<"activate", h>> \in req
    /\ \A q \in Probers : \/ probe'[h][q] = probe[h][q]
                          \/ /\ probe[h][q] # NoProbe
                             /\ probe'[h][q].rep = tPhase[h] /\ tp = tPhase[h]

\* The same with an answer to activate, which the source takes if its call still waits.
Replied(h, answer, tp, ts, ta) == TMoved(h, answer, tp, ts, ta) \/ TMoved(h, act[h], tp, ts, ta)

\* A step that leaves the columns of h alone leaves its story true.
LEMMA SourceQuiet ==
    ASSUME NEW h, HandoffInv(h), SMoved(h, sPhase[h], intent[h], sStep[h], run[h], act[h])
    PROVE  HandoffInv(h)' /\ SourceLocal(h)
  BY DEF SMoved, HandoffInv, SourceStepPhase, TargetStepPhase, IntentFirst, AnswerTrue,
     ConclusionTrue, AfterIntent, NoProbe, SourceTerminal, SourceLocal

\* A step that leaves the columns of h alone leaves its story true.
LEMMA TargetQuiet ==
    ASSUME NEW h, HandoffInv(h), TMoved(h, act[h], tPhase[h], tStep[h], tAct[h])
    PROVE  HandoffInv(h)' /\ TargetLocal(h)
  BY DEF TMoved, HandoffInv, SourceStepPhase, TargetStepPhase, IntentFirst, AnswerTrue,
     ConclusionTrue, AfterIntent, NoProbe, TargetTerminal, TargetLocal

\* Start, freeze, stop and export keep the story of their own handoff true, and leave the
\* target's record and the intent alone (start, advance).
LEMMA SourceStartOwn ==
    ASSUME Domains, NEW h \in Handoffs, HandoffInv(h), SourceStart(h)
    PROVE  HandoffInv(h)' /\ SourceLocal(h)
  <1>1. CASE Preflight(h)
    <2>1. /\ sPhase[h] = "none"
          /\ SMoved(h, sPhase[h], intent[h], sStep[h], "preflight", act[h])
      BY <1>1 DEF Preflight, SMoved, Domains
    <2> QED
      BY <2>1, Zenon DEF SMoved, HandoffInv, SourceStepPhase, TargetStepPhase, IntentFirst,
         AnswerTrue, ConclusionTrue, AfterIntent, NoProbe, SourceTerminal, SourceLocal
  <1>2. CASE Capability(h)
    <2>1. /\ run[h] = "preflight"
          /\ SMoved(h, sPhase[h], intent[h], sStep[h], "capable", act[h])
      BY <1>2 DEF Capability, SMoved, Domains
    <2> QED
      BY <2>1, Zenon DEF SMoved, HandoffInv, SourceStepPhase, TargetStepPhase, IntentFirst,
         AnswerTrue, ConclusionTrue, AfterIntent, NoProbe, SourceTerminal, SourceLocal
  <1>3. CASE PreflightFails(h)
    <2>1. /\ run[h] \in {"preflight", "capable"}
          /\ SMoved(h, sPhase[h], intent[h], sStep[h], "idle", act[h])
      BY <1>3 DEF PreflightFails, SMoved, Domains
    <2> QED
      BY <2>1, Zenon DEF SMoved, HandoffInv, SourceStepPhase, TargetStepPhase, IntentFirst,
         AnswerTrue, ConclusionTrue, AfterIntent, NoProbe, SourceTerminal, SourceLocal
  <1>4. CASE StartPut(h)
    <2>1. /\ run[h] = "capable"
          /\ SMoved(h, "preflight", intent[h], "hold", "idle", act[h])
      BY <1>4 DEF StartPut, SMoved, Domains
    <2> QED
      BY <2>1, Zenon DEF SMoved, HandoffInv, SourceStepPhase, TargetStepPhase, IntentFirst,
         AnswerTrue, ConclusionTrue, AfterIntent, NoProbe, SourceTerminal, SourceLocal
  <1>5. CASE StartHold(h)
    <2>1. /\ sStep[h] = "hold"
          /\ \/ SMoved(h, "freezing", intent[h], "check", run[h], act[h])
             \/ SMoved(h, "aborted", intent[h], "idle", run[h], act[h])
      BY <1>5 DEF StartHold, SMoved, Domains
    <2> QED
      BY <2>1, Zenon DEF SMoved, HandoffInv, SourceStepPhase, TargetStepPhase, IntentFirst,
         AnswerTrue, ConclusionTrue, AfterIntent, NoProbe, SourceTerminal, SourceLocal
  <1>6. CASE FreezeCheck(h)
    <2>1. /\ sStep[h] = "check"
          /\ \/ SMoved(h, "frozen", intent[h], "fence", run[h], act[h])
             \/ GivenUp(h, run[h])
      BY <1>6 DEF FreezeCheck, GivenUp, AbortStep, AbortAllowed, SourceTerminal, SMoved, Domains
    <2> QED
      BY <2>1, Zenon DEF SMoved, HandoffInv, SourceStepPhase, TargetStepPhase, IntentFirst,
         AnswerTrue, ConclusionTrue, AfterIntent, NoProbe, SourceTerminal, SourceLocal, GivenUp
  <1>7. CASE Advance(h)
    <2>1. /\ run[h] # "stop"
          /\ \/ sPhase[h] = "freezing" /\ SMoved(h, sPhase[h], intent[h], "check", run[h], act[h])
             \/ sPhase[h] = "frozen" /\ SMoved(h, sPhase[h], intent[h], "fence", run[h], act[h])
      BY <1>7 DEF Advance, AdvanceStep, Busy, SMoved, Domains
    <2> QED
      BY <2>1, Zenon DEF SMoved, HandoffInv, SourceStepPhase, TargetStepPhase, IntentFirst,
         AnswerTrue, ConclusionTrue, AfterIntent, NoProbe, SourceTerminal, SourceLocal
  <1>8. CASE FenceSource(h)
    <2>1. /\ sStep[h] = "fence"
          /\ \/ SMoved(h, sPhase[h], intent[h], "exporting", run[h], act[h])
             \/ SMoved(h, sPhase[h], intent[h], "idle", run[h], act[h])
             \/ SMoved(h, sPhase[h], intent[h], "idle", "stop", act[h])
      BY <1>8 DEF FenceSource, SMoved, Domains
    <2>2. CASE SMoved(h, sPhase[h], intent[h], "exporting", run[h], act[h])
      BY <2>1, <2>2, Zenon DEF SMoved, HandoffInv, SourceStepPhase, TargetStepPhase, IntentFirst,
         AnswerTrue, ConclusionTrue, AfterIntent, NoProbe, SourceTerminal, SourceLocal
    <2>3. CASE SMoved(h, sPhase[h], intent[h], "idle", run[h], act[h])
      BY <2>1, <2>3, Zenon DEF SMoved, HandoffInv, SourceStepPhase, TargetStepPhase, IntentFirst,
         AnswerTrue, ConclusionTrue, AfterIntent, NoProbe, SourceTerminal, SourceLocal
    <2>4. CASE SMoved(h, sPhase[h], intent[h], "idle", "stop", act[h])
      BY <2>1, <2>4, Zenon DEF SMoved, HandoffInv, SourceStepPhase, TargetStepPhase, IntentFirst,
         AnswerTrue, ConclusionTrue, AfterIntent, NoProbe, SourceTerminal, SourceLocal
    <2> QED
      BY ONLY <2>1, <2>2, <2>3, <2>4
  <1>9. CASE StopSource(h)
    <2>1. /\ run[h] = "stop"
          /\ \/ SMoved(h, sPhase[h], intent[h], sStep[h], "idle", act[h])
             \/ SMoved(h, sPhase[h], intent[h], "certify", "idle", act[h])
      BY <1>9 DEF StopSource, SMoved, Domains
    <2> QED
      BY <2>1, Zenon DEF SMoved, HandoffInv, SourceStepPhase, TargetStepPhase, IntentFirst,
         AnswerTrue, ConclusionTrue, AfterIntent, NoProbe, SourceTerminal, SourceLocal
  <1>10. CASE Certify(h)
    <2>1. /\ sStep[h] = "certify"
          /\ SMoved(h, sPhase[h], intent[h], "exporting", run[h], act[h])
      BY <1>10 DEF Certify, SMoved, Domains
    <2> QED
      BY <2>1, Zenon DEF SMoved, HandoffInv, SourceStepPhase, TargetStepPhase, IntentFirst,
         AnswerTrue, ConclusionTrue, AfterIntent, NoProbe, SourceTerminal, SourceLocal
  <1>11. CASE MoveExporting(h)
    <2>1. /\ sStep[h] = "exporting"
          /\ SMoved(h, "exporting", intent[h], "export", run[h], act[h])
      BY <1>11 DEF MoveExporting, SMoved, Domains
    <2> QED
      BY <2>1, Zenon DEF SMoved, HandoffInv, SourceStepPhase, TargetStepPhase, IntentFirst,
         AnswerTrue, ConclusionTrue, AfterIntent, NoProbe, SourceTerminal, SourceLocal
  <1>12. CASE Export(h)
    <2>1. /\ sStep[h] = "export"
          /\ \/ SMoved(h, "exported", intent[h], "send", run[h], act[h])
             \/ GivenUp(h, run[h])
      BY <1>12 DEF Export, GivenUp, AbortStep, AbortAllowed, SourceTerminal, SMoved, Domains
    <2> QED
      BY <2>1, Zenon DEF SMoved, HandoffInv, SourceStepPhase, TargetStepPhase, IntentFirst,
         AnswerTrue, ConclusionTrue, AfterIntent, NoProbe, SourceTerminal, SourceLocal, GivenUp
  <1>13. CASE Send(h)
    <2>1. /\ sStep[h] = "send"
          /\ SMoved(h, "awaiting_ack", intent[h], "idle", "manifest", act[h])
      BY <1>13 DEF Send, SMoved, Domains
    <2> QED
      BY <2>1, Zenon DEF SMoved, HandoffInv, SourceStepPhase, TargetStepPhase, IntentFirst,
         AnswerTrue, ConclusionTrue, AfterIntent, NoProbe, SourceTerminal, SourceLocal
  <1> QED
    BY ONLY <1>1, <1>2, <1>3, <1>4, <1>5, <1>6, <1>7, <1>8, <1>9, <1>10, <1>11, <1>12, <1>13,
       SourceStart(h) DEF SourceStart

\* So do the transfer and the ACK: an abort here needs that no intent is journalled (transfer,
\* onAck, abortInternal).
LEMMA SourceTransferOwn ==
    ASSUME Domains, NEW h \in Handoffs, HandoffInv(h), SourceTransfer(h)
    PROVE  HandoffInv(h)' /\ SourceLocal(h)
  <1>1. CASE TransferReply(h)
    <2>1. /\ run[h] \in {"manifest", "chunk", "seal"}
          /\ \/ SMoved(h, sPhase[h], intent[h], sStep[h], "chunk", act[h])
             \/ SMoved(h, sPhase[h], intent[h], sStep[h], "seal", act[h])
             \/ SMoved(h, sPhase[h], intent[h], sStep[h], "idle", act[h])
      BY <1>1 DEF TransferReply, SMoved, Domains
    <2>2. CASE SMoved(h, sPhase[h], intent[h], sStep[h], "chunk", act[h])
      BY ONLY <2>1, <2>2, HandoffInv(h) DEF SMoved, HandoffInv, SourceStepPhase, TargetStepPhase, IntentFirst,
         AnswerTrue, ConclusionTrue, AfterIntent, NoProbe, SourceTerminal, SourceLocal
    <2>3. CASE SMoved(h, sPhase[h], intent[h], sStep[h], "seal", act[h])
      BY ONLY <2>1, <2>3, HandoffInv(h) DEF SMoved, HandoffInv, SourceStepPhase, TargetStepPhase, IntentFirst,
         AnswerTrue, ConclusionTrue, AfterIntent, NoProbe, SourceTerminal, SourceLocal
    <2>4. CASE SMoved(h, sPhase[h], intent[h], sStep[h], "idle", act[h])
      BY ONLY <2>1, <2>4, HandoffInv(h) DEF SMoved, HandoffInv, SourceStepPhase, TargetStepPhase, IntentFirst,
         AnswerTrue, ConclusionTrue, AfterIntent, NoProbe, SourceTerminal, SourceLocal
    <2> QED
      BY ONLY <2>1, <2>2, <2>3, <2>4
  <1>2. CASE TransferFails(h)
    <2>1. /\ run[h] \in {"manifest", "chunk", "seal"}
          /\ GivenUp(h, "idle")
      BY <1>2 DEF TransferFails, GivenUp, AbortStep, AbortAllowed, SourceTerminal, SMoved, Domains
    <2> QED
      BY <2>1, Zenon DEF SMoved, HandoffInv, SourceStepPhase, TargetStepPhase, IntentFirst,
         AnswerTrue, ConclusionTrue, AfterIntent, NoProbe, SourceTerminal, SourceLocal, GivenUp
  <1>3. CASE RetryTransfer(h)
    <2>1. /\ sPhase[h] = "awaiting_ack"
          /\ SMoved(h, sPhase[h], intent[h], sStep[h], "manifest", act[h])
      BY <1>3 DEF RetryTransfer, SMoved, Domains
    <2> QED
      BY <2>1, Zenon DEF SMoved, HandoffInv, SourceStepPhase, TargetStepPhase, IntentFirst,
         AnswerTrue, ConclusionTrue, AfterIntent, NoProbe, SourceTerminal, SourceLocal
  <1>4. CASE AckTimeout(h)
    <2>1. /\ sPhase[h] = "awaiting_ack" /\ run[h] # "stop"
          /\ GivenUp(h, run[h])
      BY <1>4 DEF AckTimeout, Busy, GivenUp, AbortStep, AbortAllowed, SourceTerminal, SMoved,
         Domains
    <2> QED
      BY <2>1, Zenon DEF SMoved, HandoffInv, SourceStepPhase, TargetStepPhase, IntentFirst,
         AnswerTrue, ConclusionTrue, AfterIntent, NoProbe, SourceTerminal, SourceLocal, GivenUp
  <1>5. CASE OnAck(h)
    <2>1. \/ SMoved(h, sPhase[h], intent[h], sStep[h], run[h], act[h])
          \/ sPhase[h] = "awaiting_ack" /\ SMoved(h, "acked", intent[h], "activate", run[h], act[h])
          \/ sPhase[h] = "awaiting_ack" /\ GivenUp(h, run[h])
      BY <1>5 DEF OnAck, AnswerAck, GivenUp, AbortStep, AbortAllowed, SourceTerminal, SMoved,
         Domains
    <2>2. CASE SMoved(h, sPhase[h], intent[h], sStep[h], run[h], act[h])
      BY ONLY <2>2, HandoffInv(h), SourceQuiet
    <2>3. CASE sPhase[h] = "awaiting_ack" /\ SMoved(h, "acked", intent[h], "activate", run[h], act[h])
      BY <2>3, Zenon DEF SMoved, HandoffInv, SourceStepPhase, TargetStepPhase, IntentFirst,
         AnswerTrue, ConclusionTrue, AfterIntent, NoProbe, SourceTerminal, SourceLocal
    <2>4. CASE sPhase[h] = "awaiting_ack" /\ GivenUp(h, run[h])
      BY <2>4, Zenon DEF SMoved, HandoffInv, SourceStepPhase, TargetStepPhase, IntentFirst,
         AnswerTrue, ConclusionTrue, AfterIntent, NoProbe, SourceTerminal, SourceLocal, GivenUp
    <2> QED
      BY ONLY <2>1, <2>2, <2>3, <2>4
  <1> QED
    BY ONLY <1>1, <1>2, <1>3, <1>4, <1>5, SourceTransfer(h) DEF SourceTransfer

\* The source concludes from the target's final record only; only activate journals the intent,
\* and only a call that follows it reopens a record (activate, commit, abortInternal, probe,
\* resume).
LEMMA SourceFinishOwn ==
    ASSUME Domains, NEW h \in Handoffs, HandoffInv(h), SourceFinish(h)
    PROVE  HandoffInv(h)' /\ SourceLocal(h)
  <1>1. CASE RetryActivate(h)
    <2>1. /\ sPhase[h] = "acked"
          /\ SMoved(h, sPhase[h], intent[h], "activate", run[h], act[h])
      BY <1>1 DEF RetryActivate, SMoved, Domains
    <2> QED
      BY <2>1, Zenon DEF SMoved, HandoffInv, SourceStepPhase, TargetStepPhase, IntentFirst,
         AnswerTrue, ConclusionTrue, AfterIntent, NoProbe, SourceTerminal, SourceLocal
  <1>2. CASE ActivateSend(h)
    <2>1. \/ SMoved(h, sPhase[h], intent[h], "idle", run[h], act[h])
          \/ sPhase[h] \in {"acked", "uncertain"} /\ SMoved(h, "activating", TRUE, "idle", run[h], "sent")
      BY <1>2 DEF ActivateSend, SMoved, Domains
    <2> QED
      BY <2>1, Zenon DEF SMoved, HandoffInv, SourceStepPhase, TargetStepPhase, IntentFirst,
         AnswerTrue, ConclusionTrue, AfterIntent, NoProbe, SourceTerminal, SourceLocal
  <1>3. CASE ActivateReply(h)
    <2>1. \/ act[h] = "applied" /\ SMoved(h, sPhase[h], intent[h], "committed", run[h], "idle")
          \/ act[h] = "applied" /\ SMoved(h, sPhase[h], intent[h], sStep[h], run[h], "idle")
          \/ act[h] = "tombstone" /\ SMoved(h, sPhase[h], intent[h], "abort", run[h], "idle")
          \/ act[h] = "tombstone" /\ SMoved(h, sPhase[h], intent[h], "idle", run[h], "idle")
          \/ act[h] # "idle" /\ SMoved(h, "uncertain", intent[h], sStep[h], run[h], "idle")
      BY <1>3 DEF ActivateReply, CommitStep, AbortDiscarded, SourceTerminal, SMoved, Domains
    <2>2. CASE act[h] = "applied" /\ SMoved(h, sPhase[h], intent[h], "committed", run[h], "idle")
      BY <2>2, Zenon DEF SMoved, HandoffInv, SourceStepPhase, TargetStepPhase, IntentFirst,
         AnswerTrue, ConclusionTrue, AfterIntent, NoProbe, SourceTerminal, SourceLocal
    <2>3. CASE act[h] = "applied" /\ SMoved(h, sPhase[h], intent[h], sStep[h], run[h], "idle")
      BY <2>3, Zenon DEF SMoved, HandoffInv, SourceStepPhase, TargetStepPhase, IntentFirst,
         AnswerTrue, ConclusionTrue, AfterIntent, NoProbe, SourceTerminal, SourceLocal
    <2>4. CASE act[h] = "tombstone" /\ SMoved(h, sPhase[h], intent[h], "abort", run[h], "idle")
      BY <2>4, Zenon DEF SMoved, HandoffInv, SourceStepPhase, TargetStepPhase, IntentFirst,
         AnswerTrue, ConclusionTrue, AfterIntent, NoProbe, SourceTerminal, SourceLocal
    <2>5. CASE act[h] = "tombstone" /\ SMoved(h, sPhase[h], intent[h], "idle", run[h], "idle")
      BY <2>5, Zenon DEF SMoved, HandoffInv, SourceStepPhase, TargetStepPhase, IntentFirst,
         AnswerTrue, ConclusionTrue, AfterIntent, NoProbe, SourceTerminal, SourceLocal
    <2>6. CASE act[h] # "idle" /\ SMoved(h, "uncertain", intent[h], sStep[h], run[h], "idle")
      BY <2>6, Zenon DEF SMoved, HandoffInv, SourceStepPhase, TargetStepPhase, IntentFirst,
         AnswerTrue, ConclusionTrue, AfterIntent, NoProbe, SourceTerminal, SourceLocal
    <2> QED
      BY ONLY <2>1, <2>2, <2>3, <2>4, <2>5, <2>6
  <1>4. CASE CommitJournal(h)
    <2>1. /\ sStep[h] = "committed"
          /\ SMoved(h, "committed", intent[h], "unfence", run[h], act[h])
      BY <1>4 DEF CommitJournal, SMoved, Domains
    <2> QED
      BY <2>1, Zenon DEF SMoved, HandoffInv, SourceStepPhase, TargetStepPhase, IntentFirst,
         AnswerTrue, ConclusionTrue, AfterIntent, NoProbe, SourceTerminal, SourceLocal
  <1>5. CASE CommitUnfence(h)
    <2>1. /\ sStep[h] = "unfence"
          /\ SMoved(h, sPhase[h], intent[h], "idle", run[h], act[h])
      BY <1>5 DEF CommitUnfence, SMoved, Domains
    <2> QED
      BY <2>1, Zenon DEF SMoved, HandoffInv, SourceStepPhase, TargetStepPhase, IntentFirst,
         AnswerTrue, ConclusionTrue, AfterIntent, NoProbe, SourceTerminal, SourceLocal
  <1>6. CASE Advertise(h)
    <2>1. SMoved(h, sPhase[h], intent[h], sStep[h], run[h], act[h])
      BY <1>6 DEF Advertise, SMoved, Domains
    <2> QED
      BY ONLY <2>1, HandoffInv(h), SourceQuiet
  <1>7. CASE AbortUnfence(h)
    <2>1. /\ sStep[h] = "abort"
          /\ \/ SMoved(h, sPhase[h], intent[h], "aborted", run[h], act[h])
             \/ SMoved(h, sPhase[h], intent[h], "idle", run[h], act[h])
      BY <1>7 DEF AbortUnfence, SMoved, Domains
    <2> QED
      BY <2>1, Zenon DEF SMoved, HandoffInv, SourceStepPhase, TargetStepPhase, IntentFirst,
         AnswerTrue, ConclusionTrue, AfterIntent, NoProbe, SourceTerminal, SourceLocal
  <1>8. CASE AbortJournal(h)
    <2>1. /\ sStep[h] = "aborted"
          /\ SMoved(h, "aborted", intent[h], "idle", run[h], act[h])
      BY <1>8 DEF AbortJournal, SMoved, Domains
    <2> QED
      BY <2>1, Zenon DEF SMoved, HandoffInv, SourceStepPhase, TargetStepPhase, IntentFirst,
         AnswerTrue, ConclusionTrue, AfterIntent, NoProbe, SourceTerminal, SourceLocal
  <1>9. CASE OwnerAbort(h)
    <2>1. /\ sPhase[h] # "none" /\ run[h] # "stop"
          /\ GivenUp(h, run[h])
      BY <1>9 DEF OwnerAbort, Busy, GivenUp, AbortStep, AbortAllowed, SourceTerminal, SMoved,
         Domains
    <2> QED
      BY <2>1, Zenon DEF SMoved, HandoffInv, SourceStepPhase, TargetStepPhase, IntentFirst,
         AnswerTrue, ConclusionTrue, AfterIntent, NoProbe, SourceTerminal, SourceLocal, GivenUp
  <1>10. CASE Restore(h)
    <2>1. SMoved(h, sPhase[h], intent[h], sStep[h], run[h], act[h])
      BY <1>10 DEF Restore, SMoved, Domains
    <2> QED
      BY ONLY <2>1, HandoffInv(h), SourceQuiet
  <1>11. CASE Resume(h)
    <2>1. /\ sStep[h] = "idle"
          /\ \/ SMoved(h, sPhase[h], intent[h], sStep[h], run[h], act[h])
             \/ sPhase[h] = "frozen" /\ run[h] # "stop" /\ SMoved(h, sPhase[h], intent[h], "fence", run[h], act[h])
             \/ sPhase[h] = "acked" /\ SMoved(h, sPhase[h], intent[h], "activate", run[h], act[h])
             \/ sPhase[h] \in {"activating", "uncertain"} /\ SMoved(h, "uncertain", intent[h], sStep[h], run[h], act[h])
             \/ sPhase[h] \notin {"none", "frozen"} /\ GivenUp(h, run[h])
      BY <1>11 DEF Resume, Free, ResumeRecord, AdvanceStep, Busy, NoProbe, GivenUp, AbortStep,
         AbortAllowed, SourceTerminal, SMoved, Domains
    <2>2. CASE SMoved(h, sPhase[h], intent[h], sStep[h], run[h], act[h])
      BY ONLY <2>2, HandoffInv(h), SourceQuiet
    <2>3. CASE sPhase[h] = "frozen" /\ run[h] # "stop" /\ SMoved(h, sPhase[h], intent[h], "fence", run[h], act[h])
      BY <2>1, <2>3, Zenon DEF SMoved, HandoffInv, SourceStepPhase, TargetStepPhase, IntentFirst,
         AnswerTrue, ConclusionTrue, AfterIntent, NoProbe, SourceTerminal, SourceLocal
    <2>4. CASE sPhase[h] = "acked" /\ SMoved(h, sPhase[h], intent[h], "activate", run[h], act[h])
      BY <2>1, <2>4, Zenon DEF SMoved, HandoffInv, SourceStepPhase, TargetStepPhase, IntentFirst,
         AnswerTrue, ConclusionTrue, AfterIntent, NoProbe, SourceTerminal, SourceLocal
    <2>5. CASE sPhase[h] \in {"activating", "uncertain"} /\ SMoved(h, "uncertain", intent[h], sStep[h], run[h], act[h])
      BY <2>1, <2>5, Zenon DEF SMoved, HandoffInv, SourceStepPhase, TargetStepPhase, IntentFirst,
         AnswerTrue, ConclusionTrue, AfterIntent, NoProbe, SourceTerminal, SourceLocal
    <2>6. CASE sPhase[h] \notin {"none", "frozen"} /\ GivenUp(h, run[h])
      BY <2>1, <2>6, Zenon DEF SMoved, HandoffInv, SourceStepPhase, TargetStepPhase, IntentFirst,
         AnswerTrue, ConclusionTrue, AfterIntent, NoProbe, SourceTerminal, SourceLocal, GivenUp
    <2> QED
      BY ONLY <2>1, <2>2, <2>3, <2>4, <2>5, <2>6
  <1>12. ASSUME NEW p \in Probers, Probe(h, p) PROVE HandoffInv(h)' /\ SourceLocal(h)
    <2>1. /\ sPhase[h] \in {"uncertain", "activating"}
          /\ SMoved(h, sPhase[h], intent[h], sStep[h], run[h], act[h])
      BY <1>12 DEF Probe, NoProbe, SMoved, Domains
    <2> QED
      BY <2>1, Zenon DEF SMoved, HandoffInv, SourceStepPhase, TargetStepPhase, IntentFirst,
         AnswerTrue, ConclusionTrue, AfterIntent, NoProbe, SourceTerminal, SourceLocal
  <1>13. ASSUME NEW p \in Probers, OwnerAbortAsk(h, p) PROVE HandoffInv(h)' /\ SourceLocal(h)
    <2>1. /\ sPhase[h] \in {"uncertain", "activating"}
          /\ SMoved(h, sPhase[h], intent[h], sStep[h], run[h], act[h])
      BY <1>13 DEF OwnerAbortAsk, NoProbe, SMoved, Domains
    <2> QED
      BY <2>1, Zenon DEF SMoved, HandoffInv, SourceStepPhase, TargetStepPhase, IntentFirst,
         AnswerTrue, ConclusionTrue, AfterIntent, NoProbe, SourceTerminal, SourceLocal
  <1>14. ASSUME NEW p \in Probers, ProbeReply(h, p) PROVE HandoffInv(h)' /\ SourceLocal(h)
    <2>0. probe[h][p] # NoProbe => intent[h]
      BY Zenon DEF HandoffInv, IntentFirst
    <2>1. \/ probe[h][p].rep = "active" /\ SMoved(h, sPhase[h], intent[h], "committed", run[h], act[h])
          \/ SMoved(h, sPhase[h], intent[h], sStep[h], run[h], act[h])
          \/ intent[h] /\ probe[h][p].rep = "discarded" /\ SMoved(h, sPhase[h], intent[h], "abort", run[h], act[h])
          \/ intent[h] /\ probe[h][p].rep = "discarded" /\ SMoved(h, sPhase[h], intent[h], "idle", run[h], act[h])
          \/ intent[h] /\ SMoved(h, sPhase[h], intent[h], "activate", run[h], act[h])
          \/ intent[h] /\ SMoved(h, "uncertain", intent[h], sStep[h], run[h], act[h])
          \/ intent[h] /\ SMoved(h, "uncertain", intent[h], "activate", run[h], act[h])
      <3>1. /\ UNCHANGED <<intent, run, act, tPhase, tStep, tAct, req>>
            /\ probe' = [probe EXCEPT ![h][p] = NoProbe]
        BY <1>14, Zenon DEF ProbeReply
      <3>2. \/ /\ probe[h][p].rep = "active" /\ sPhase' = sPhase
               /\ sStep' \in {sStep, [sStep EXCEPT ![h] = "committed"]}
            \/ /\ probe[h][p].rep = "discarded" /\ sPhase' = sPhase
               /\ sStep' \in {[sStep EXCEPT ![h] = "abort"], [sStep EXCEPT ![h] = "idle"]}
            \/ /\ probe[h][p].rep \in Staged \cup {"activating"}
               /\ sPhase' \in {sPhase, [sPhase EXCEPT ![h] = "uncertain"]}
               /\ sStep' \in {sStep, [sStep EXCEPT ![h] = "activate"]}
            \/ UNCHANGED <<sPhase, sStep>>
        BY <1>14, Zenon DEF ProbeReply, CommitStep, AbortDiscarded
      <3>3. probe[h][p].rep \in Staged \cup {"activating", "discarded"} => intent[h]
        BY ONLY <2>0 DEF NoProbe, Staged
      <3>4. \A q \in Probers : \/ probe'[h][q] = probe[h][q]
                               \/ probe'[h][q].rep = "wait" /\ probe'[h][q] = NoProbe
        BY ONLY <3>1, Domains, h \in Handoffs, p \in Probers DEF Domains, NoProbe
      <3> QED
        BY ONLY <3>1, <3>2, <3>3, <3>4, Domains, h \in Handoffs DEF Domains, SMoved
    <2>2. CASE probe[h][p].rep = "active" /\ SMoved(h, sPhase[h], intent[h], "committed", run[h], act[h])
      BY <2>2, Zenon DEF SMoved, HandoffInv, SourceStepPhase, TargetStepPhase, IntentFirst,
         AnswerTrue, ConclusionTrue, AfterIntent, NoProbe, SourceTerminal, SourceLocal
    <2>3. CASE SMoved(h, sPhase[h], intent[h], sStep[h], run[h], act[h])
      BY ONLY <2>3, HandoffInv(h), SourceQuiet
    <2>4. CASE intent[h] /\ probe[h][p].rep = "discarded" /\ SMoved(h, sPhase[h], intent[h], "abort", run[h], act[h])
      BY <2>4, Zenon DEF SMoved, HandoffInv, SourceStepPhase, TargetStepPhase, IntentFirst,
         AnswerTrue, ConclusionTrue, AfterIntent, NoProbe, SourceTerminal, SourceLocal
    <2>5. CASE intent[h] /\ probe[h][p].rep = "discarded" /\ SMoved(h, sPhase[h], intent[h], "idle", run[h], act[h])
      BY <2>5, Zenon DEF SMoved, HandoffInv, SourceStepPhase, TargetStepPhase, IntentFirst,
         AnswerTrue, ConclusionTrue, AfterIntent, NoProbe, SourceTerminal, SourceLocal
    <2>6. CASE intent[h] /\ SMoved(h, sPhase[h], intent[h], "activate", run[h], act[h])
      BY <2>6, Zenon DEF SMoved, HandoffInv, SourceStepPhase, TargetStepPhase, IntentFirst,
         AnswerTrue, ConclusionTrue, AfterIntent, NoProbe, SourceTerminal, SourceLocal
    <2>7. CASE intent[h] /\ SMoved(h, "uncertain", intent[h], sStep[h], run[h], act[h])
      BY <2>7, Zenon DEF SMoved, HandoffInv, SourceStepPhase, TargetStepPhase, IntentFirst,
         AnswerTrue, ConclusionTrue, AfterIntent, NoProbe, SourceTerminal, SourceLocal
    <2>8. CASE intent[h] /\ SMoved(h, "uncertain", intent[h], "activate", run[h], act[h])
      BY <2>8, Zenon DEF SMoved, HandoffInv, SourceStepPhase, TargetStepPhase, IntentFirst,
         AnswerTrue, ConclusionTrue, AfterIntent, NoProbe, SourceTerminal, SourceLocal
    <2> QED
      BY ONLY <2>1, <2>2, <2>3, <2>4, <2>5, <2>6, <2>7, <2>8
  <1> QED
    BY ONLY <1>1, <1>2, <1>3, <1>4, <1>5, <1>6, <1>7, <1>8, <1>9, <1>10, <1>11, <1>12, <1>13,
       <1>14, SourceFinish(h) DEF SourceFinish

\* The target answers with its own final record, never writes the source's journal, and keeps
\* a final record (manifest, seal, discard, tick, activate, finishActivation, resume).
LEMMA TargetOwn ==
    ASSUME Domains, NEW h \in Handoffs, HandoffInv(h), TargetStep(h)
    PROVE  HandoffInv(h)' /\ TargetLocal(h)
  <1>1. CASE TManifest(h)
    <2>1. \/ TMoved(h, act[h], tPhase[h], tStep[h], tAct[h])
          \/ tPhase[h] = "none" /\ TMoved(h, act[h], "importing", tStep[h], tAct[h])
      BY <1>1 DEF TManifest, TMoved, Domains
    <2> QED
      BY <2>1, Zenon DEF TMoved, HandoffInv, SourceStepPhase, TargetStepPhase, IntentFirst,
         AnswerTrue, ConclusionTrue, AfterIntent, NoProbe, TargetTerminal, TargetLocal
  <1>2. CASE TChunk(h)
    <2>1. TMoved(h, act[h], tPhase[h], tStep[h], tAct[h])
      BY <1>2 DEF TChunk, TMoved, Domains
    <2> QED
      BY ONLY <2>1, HandoffInv(h), TargetQuiet
  <1>3. CASE TSeal(h)
    <2>1. \/ TMoved(h, act[h], tPhase[h], tStep[h], tAct[h])
          \/ tPhase[h] = "importing" /\ TMoved(h, act[h], "staged", "verify", tAct[h])
          \/ tPhase[h] = "importing" /\ TMoved(h, act[h], "discarded", tStep[h], tAct[h])
      <3>1. /\ UNCHANGED <<sPhase, intent, sStep, run, act, probe, tAct>>
            /\ req' = req \/ req' = req \cup {<<"ack", h>>}
        BY <1>3, Zenon DEF TSeal, SendAck
      <3>2. \/ UNCHANGED <<tPhase, tStep>>
            \/ /\ tPhase[h] = "importing" /\ tPhase' = [tPhase EXCEPT ![h] = "staged"]
               /\ tStep' = [tStep EXCEPT ![h] = "verify"]
            \/ /\ tPhase[h] = "importing" /\ tPhase' = [tPhase EXCEPT ![h] = "discarded"]
               /\ tStep' = tStep
        BY <1>3, Zenon DEF TSeal
      <3>3. <<"activate", h>> \in req' => <<"activate", h>> \in req
        BY ONLY <3>1
      <3> QED
        BY ONLY <3>1, <3>2, <3>3, Domains, h \in Handoffs DEF Domains, TMoved
    <2>2. CASE TMoved(h, act[h], tPhase[h], tStep[h], tAct[h])
      BY ONLY <2>2, HandoffInv(h), TargetQuiet
    <2>3. CASE tPhase[h] = "importing" /\ TMoved(h, act[h], "staged", "verify", tAct[h])
      BY <2>3, Zenon DEF TMoved, HandoffInv, SourceStepPhase, TargetStepPhase, IntentFirst,
         AnswerTrue, ConclusionTrue, AfterIntent, NoProbe, TargetTerminal, TargetLocal
    <2>4. CASE tPhase[h] = "importing" /\ TMoved(h, act[h], "discarded", tStep[h], tAct[h])
      BY <2>4, Zenon DEF TMoved, HandoffInv, SourceStepPhase, TargetStepPhase, IntentFirst,
         AnswerTrue, ConclusionTrue, AfterIntent, NoProbe, TargetTerminal, TargetLocal
    <2> QED
      BY ONLY <2>1, <2>2, <2>3, <2>4
  <1>4. CASE TVerified(h)
    <2>1. /\ tStep[h] = "verify"
          /\ TMoved(h, act[h], "verified", "idle", tAct[h])
      BY <1>4 DEF TVerified, SendAck, TMoved, Domains
    <2> QED
      BY <2>1, Zenon DEF TMoved, HandoffInv, SourceStepPhase, TargetStepPhase, IntentFirst,
         AnswerTrue, ConclusionTrue, AfterIntent, NoProbe, TargetTerminal, TargetLocal
  <1>5. CASE TAckReply(h)
    <2>1. \/ TMoved(h, act[h], tPhase[h], tStep[h], tAct[h])
          \/ tPhase[h] = "verified" /\ TMoved(h, act[h], "acked", tStep[h], tAct[h])
          \/ tPhase[h] = "verified" /\ TMoved(h, act[h], "discarded", tStep[h], tAct[h])
      BY <1>5 DEF TAckReply, TMoved, Domains
    <2>2. CASE TMoved(h, act[h], tPhase[h], tStep[h], tAct[h])
      BY ONLY <2>2, HandoffInv(h), TargetQuiet
    <2>3. CASE tPhase[h] = "verified" /\ TMoved(h, act[h], "acked", tStep[h], tAct[h])
      BY <2>3, Zenon DEF TMoved, HandoffInv, SourceStepPhase, TargetStepPhase, IntentFirst,
         AnswerTrue, ConclusionTrue, AfterIntent, NoProbe, TargetTerminal, TargetLocal
    <2>4. CASE tPhase[h] = "verified" /\ TMoved(h, act[h], "discarded", tStep[h], tAct[h])
      BY <2>4, Zenon DEF TMoved, HandoffInv, SourceStepPhase, TargetStepPhase, IntentFirst,
         AnswerTrue, ConclusionTrue, AfterIntent, NoProbe, TargetTerminal, TargetLocal
    <2> QED
      BY ONLY <2>1, <2>2, <2>3, <2>4
  <1>6. CASE TDiscard(h)
    <2>1. /\ tStep[h] = "idle" /\ tAct[h] = "idle" /\ tPhase[h] \in Staged
          /\ TMoved(h, act[h], "discarded", tStep[h], tAct[h])
      BY <1>6 DEF TDiscard, Free, TMoved, Domains
    <2> QED
      BY ONLY <2>1, HandoffInv(h) DEF TMoved, HandoffInv, SourceStepPhase, TargetStepPhase, IntentFirst,
         AnswerTrue, ConclusionTrue, AfterIntent, NoProbe, TargetTerminal, TargetLocal, Staged
  <1>7. CASE TStageTTL(h)
    <2>1. /\ tStep[h] = "idle" /\ tAct[h] = "idle" /\ tPhase[h] \in Staged
          /\ TMoved(h, act[h], "discarded", tStep[h], tAct[h])
      BY <1>7 DEF TStageTTL, Free, TMoved, Domains
    <2> QED
      BY <2>1, Zenon DEF TMoved, HandoffInv, SourceStepPhase, TargetStepPhase, IntentFirst,
         AnswerTrue, ConclusionTrue, AfterIntent, NoProbe, TargetTerminal, TargetLocal, Staged
  <1>8. CASE TActivate(h)
    <2>1. /\ tStep[h] = "idle" /\ tAct[h] = "idle" /\ <<"activate", h>> \in req
          /\ \/ tPhase[h] = "active" /\ Replied(h, "applied", tPhase[h], tStep[h], tAct[h])
             \/ tPhase[h] = "discarded" /\ Replied(h, "tombstone", tPhase[h], tStep[h], tAct[h])
             \/ tPhase[h] \in {"verified", "acked", "activating"} /\ TMoved(h, act[h], tPhase[h], tStep[h], "again")
             \/ tPhase[h] \in {"verified", "acked", "activating"} /\ TMoved(h, act[h], tPhase[h], tStep[h], "first")
             \/ tPhase[h] \in {"verified", "acked", "activating"} /\ Replied(h, "tombstone", "discarded", tStep[h], tAct[h])
      BY <1>8 DEF TActivate, Free, Reverify, Reply, Replied, TMoved, Domains
    <2>2. CASE tPhase[h] = "active" /\ Replied(h, "applied", tPhase[h], tStep[h], tAct[h])
      BY <2>1, <2>2, Zenon DEF TMoved, HandoffInv, SourceStepPhase, TargetStepPhase, IntentFirst,
         AnswerTrue, ConclusionTrue, AfterIntent, NoProbe, TargetTerminal, TargetLocal, Replied
    <2>3. CASE tPhase[h] = "discarded" /\ Replied(h, "tombstone", tPhase[h], tStep[h], tAct[h])
      BY <2>1, <2>3, Zenon DEF TMoved, HandoffInv, SourceStepPhase, TargetStepPhase, IntentFirst,
         AnswerTrue, ConclusionTrue, AfterIntent, NoProbe, TargetTerminal, TargetLocal, Replied
    <2>4. CASE tPhase[h] \in {"verified", "acked", "activating"} /\ TMoved(h, act[h], tPhase[h], tStep[h], "again")
      BY <2>1, <2>4, Zenon DEF TMoved, HandoffInv, SourceStepPhase, TargetStepPhase, IntentFirst,
         AnswerTrue, ConclusionTrue, AfterIntent, NoProbe, TargetTerminal, TargetLocal
    <2>5. CASE tPhase[h] \in {"verified", "acked", "activating"} /\ TMoved(h, act[h], tPhase[h], tStep[h], "first")
      BY <2>1, <2>5, Zenon DEF TMoved, HandoffInv, SourceStepPhase, TargetStepPhase, IntentFirst,
         AnswerTrue, ConclusionTrue, AfterIntent, NoProbe, TargetTerminal, TargetLocal
    <2>6. CASE tPhase[h] \in {"verified", "acked", "activating"} /\ Replied(h, "tombstone", "discarded", tStep[h], tAct[h])
      BY <2>1, <2>6, Zenon DEF TMoved, HandoffInv, SourceStepPhase, TargetStepPhase, IntentFirst,
         AnswerTrue, ConclusionTrue, AfterIntent, NoProbe, TargetTerminal, TargetLocal, Replied
    <2> QED
      BY ONLY <2>1, <2>2, <2>3, <2>4, <2>5, <2>6
  <1>9. CASE TReadiness(h)
    <2>1. /\ tStep[h] = "idle" /\ tAct[h] \in {"first", "again"}
          /\ \/ TMoved(h, act[h], tPhase[h], tStep[h], "idle")
             \/ tPhase[h] \in {"verified", "acked"} /\ Replied(h, "tombstone", "discarded", tStep[h], "idle")
             \/ tPhase[h] \in {"verified", "acked", "activating"} /\ TMoved(h, act[h], "activating", "apply", tAct[h])
      <3>1. /\ Free(Dst[h]) /\ tAct[h] \in {"first", "again"}
            /\ UNCHANGED <<sPhase, intent, sStep, run, probe, req>>
        BY <1>9, Zenon DEF TReadiness
      <3>2. \/ tAct' = [tAct EXCEPT ![h] = "idle"] /\ UNCHANGED <<tPhase, tStep, act>>
            \/ /\ tPhase[h] \in {"verified", "acked"} /\ tPhase' = [tPhase EXCEPT ![h] = "discarded"]
               /\ tAct' = [tAct EXCEPT ![h] = "idle"] /\ tStep' = tStep
               /\ act' \in {act, [act EXCEPT ![h] = "tombstone"]}
            \/ /\ tPhase[h] \in {"verified", "acked", "activating"}
               /\ tPhase' = [tPhase EXCEPT ![h] = "activating"]
               /\ tStep' = [tStep EXCEPT ![h] = "apply"] /\ UNCHANGED <<act, tAct>>
        BY <1>9, Zenon DEF TReadiness, Reply
      <3>3. tStep[h] = "idle"
        BY ONLY <3>1, h \in Handoffs, Zenon DEF Free
      <3> QED
        BY ONLY <3>1, <3>2, <3>3, Domains, h \in Handoffs DEF Domains, TMoved, Replied
    <2>2. CASE TMoved(h, act[h], tPhase[h], tStep[h], "idle")
      BY ONLY <2>1, <2>2, HandoffInv(h) DEF TMoved, HandoffInv, SourceStepPhase, TargetStepPhase, IntentFirst,
         AnswerTrue, ConclusionTrue, AfterIntent, NoProbe, TargetTerminal, TargetLocal
    <2>3. CASE tPhase[h] \in {"verified", "acked"} /\ Replied(h, "tombstone", "discarded", tStep[h], "idle")
      BY <2>1, <2>3, Zenon DEF TMoved, HandoffInv, SourceStepPhase, TargetStepPhase, IntentFirst,
         AnswerTrue, ConclusionTrue, AfterIntent, NoProbe, TargetTerminal, TargetLocal, Replied
    <2>4. CASE tPhase[h] \in {"verified", "acked", "activating"} /\ TMoved(h, act[h], "activating", "apply", tAct[h])
      BY <2>1, <2>4, Zenon DEF TMoved, HandoffInv, SourceStepPhase, TargetStepPhase, IntentFirst,
         AnswerTrue, ConclusionTrue, AfterIntent, NoProbe, TargetTerminal, TargetLocal
    <2> QED
      BY ONLY <2>1, <2>2, <2>3, <2>4
  <1>10. CASE TApply(h)
    <2>1. /\ tStep[h] = "apply"
          /\ \/ TMoved(h, act[h], tPhase[h], "adopt", tAct[h])
             \/ TMoved(h, act[h], tPhase[h], "rollback", tAct[h])
             \/ TMoved(h, act[h], tPhase[h], "idle", "idle")
      BY <1>10 DEF TApply, TMoved, Domains
    <2>2. CASE TMoved(h, act[h], tPhase[h], "adopt", tAct[h])
      BY <2>1, <2>2, Zenon DEF TMoved, HandoffInv, SourceStepPhase, TargetStepPhase, IntentFirst,
         AnswerTrue, ConclusionTrue, AfterIntent, NoProbe, TargetTerminal, TargetLocal
    <2>3. CASE TMoved(h, act[h], tPhase[h], "rollback", tAct[h])
      BY <2>1, <2>3, Zenon DEF TMoved, HandoffInv, SourceStepPhase, TargetStepPhase, IntentFirst,
         AnswerTrue, ConclusionTrue, AfterIntent, NoProbe, TargetTerminal, TargetLocal
    <2>4. CASE TMoved(h, act[h], tPhase[h], "idle", "idle")
      BY <2>1, <2>4, Zenon DEF TMoved, HandoffInv, SourceStepPhase, TargetStepPhase, IntentFirst,
         AnswerTrue, ConclusionTrue, AfterIntent, NoProbe, TargetTerminal, TargetLocal
    <2> QED
      BY ONLY <2>1, <2>2, <2>3, <2>4
  <1>11. CASE TRollback(h)
    <2>1. /\ tStep[h] = "rollback"
          /\ TMoved(h, act[h], tPhase[h], "tombstone", tAct[h])
      BY <1>11 DEF TRollback, TMoved, Domains
    <2> QED
      BY <2>1, Zenon DEF TMoved, HandoffInv, SourceStepPhase, TargetStepPhase, IntentFirst,
         AnswerTrue, ConclusionTrue, AfterIntent, NoProbe, TargetTerminal, TargetLocal
  <1>12. CASE TTombstone(h)
    <2>1. /\ tStep[h] = "tombstone"
          /\ Replied(h, "tombstone", "discarded", "idle", "idle")
      BY <1>12 DEF TTombstone, Reply, Replied, TMoved, Domains
    <2> QED
      BY <2>1, Zenon DEF TMoved, HandoffInv, SourceStepPhase, TargetStepPhase, IntentFirst,
         AnswerTrue, ConclusionTrue, AfterIntent, NoProbe, TargetTerminal, TargetLocal, Replied
  <1>13. CASE TAdopt(h)
    <2>1. /\ tStep[h] = "adopt"
          /\ \/ TMoved(h, act[h], tPhase[h], "idle", "ready")
             \/ TMoved(h, act[h], tPhase[h], "idle", "idle")
      BY <1>13 DEF TAdopt, TMoved, Domains
    <2> QED
      BY <2>1, Zenon DEF TMoved, HandoffInv, SourceStepPhase, TargetStepPhase, IntentFirst,
         AnswerTrue, ConclusionTrue, AfterIntent, NoProbe, TargetTerminal, TargetLocal
  <1>14. CASE TActive(h)
    <2>1. /\ tAct[h] = "ready" /\ tStep[h] = "idle"
          /\ \/ TMoved(h, act[h], "active", "unfence", tAct[h])
             \/ TMoved(h, act[h], tPhase[h], tStep[h], "idle")
      BY <1>14 DEF TActive, Free, TMoved, Domains
    <2> QED
      BY <2>1, Zenon DEF TMoved, HandoffInv, SourceStepPhase, TargetStepPhase, IntentFirst,
         AnswerTrue, ConclusionTrue, AfterIntent, NoProbe, TargetTerminal, TargetLocal
  <1>15. CASE TUnfence(h)
    <2>1. /\ tStep[h] = "unfence"
          /\ \/ TMoved(h, act[h], tPhase[h], "idle", "launch")
             \/ TMoved(h, act[h], tPhase[h], "idle", "idle")
      BY <1>15 DEF TUnfence, TMoved, Domains
    <2> QED
      BY <2>1, Zenon DEF TMoved, HandoffInv, SourceStepPhase, TargetStepPhase, IntentFirst,
         AnswerTrue, ConclusionTrue, AfterIntent, NoProbe, TargetTerminal, TargetLocal
  <1>16. CASE TLaunched(h)
    <2>1. /\ tAct[h] = "launch"
          /\ Replied(h, "applied", tPhase[h], tStep[h], "idle")
      BY <1>16 DEF TLaunched, Reply, Replied, TMoved, Domains
    <2> QED
      BY <2>1, Zenon DEF TMoved, HandoffInv, SourceStepPhase, TargetStepPhase, IntentFirst,
         AnswerTrue, ConclusionTrue, AfterIntent, NoProbe, TargetTerminal, TargetLocal, Replied
  <1>17. CASE TResume(h)
    <2>1. /\ tStep[h] = "idle"
          /\ \/ TMoved(h, act[h], tPhase[h], tStep[h], tAct[h])
             \/ tPhase[h] = "activating" /\ tAct[h] = "idle" /\ TMoved(h, act[h], tPhase[h], tStep[h], "again")
             \/ tPhase[h] = "activating" /\ tAct[h] = "idle" /\ TMoved(h, act[h], tPhase[h], tStep[h], "first")
             \/ tPhase[h] = "activating" /\ tAct[h] = "idle" /\ Replied(h, "tombstone", "discarded", tStep[h], tAct[h])
      BY <1>17 DEF TResume, Free, Reverify, Reply, Replied, TMoved, Domains
    <2>2. CASE TMoved(h, act[h], tPhase[h], tStep[h], tAct[h])
      BY ONLY <2>2, HandoffInv(h), TargetQuiet
    <2>3. CASE tPhase[h] = "activating" /\ tAct[h] = "idle" /\ TMoved(h, act[h], tPhase[h], tStep[h], "again")
      BY <2>1, <2>3, Zenon DEF TMoved, HandoffInv, SourceStepPhase, TargetStepPhase, IntentFirst,
         AnswerTrue, ConclusionTrue, AfterIntent, NoProbe, TargetTerminal, TargetLocal
    <2>4. CASE tPhase[h] = "activating" /\ tAct[h] = "idle" /\ TMoved(h, act[h], tPhase[h], tStep[h], "first")
      BY <2>1, <2>4, Zenon DEF TMoved, HandoffInv, SourceStepPhase, TargetStepPhase, IntentFirst,
         AnswerTrue, ConclusionTrue, AfterIntent, NoProbe, TargetTerminal, TargetLocal
    <2>5. CASE tPhase[h] = "activating" /\ tAct[h] = "idle" /\ Replied(h, "tombstone", "discarded", tStep[h], tAct[h])
      BY <2>1, <2>5, Zenon DEF TMoved, HandoffInv, SourceStepPhase, TargetStepPhase, IntentFirst,
         AnswerTrue, ConclusionTrue, AfterIntent, NoProbe, TargetTerminal, TargetLocal, Replied
    <2> QED
      BY ONLY <2>1, <2>2, <2>3, <2>4, <2>5
  <1>18. ASSUME NEW p \in Probers, TStatus(h, p) PROVE HandoffInv(h)' /\ TargetLocal(h)
    <2>1. TMoved(h, act[h], tPhase[h], tStep[h], tAct[h])
      BY <1>18 DEF TStatus, TMoved, Domains
    <2> QED
      BY ONLY <2>1, HandoffInv(h), TargetQuiet
  <1> QED
    BY ONLY <1>1, <1>2, <1>3, <1>4, <1>5, <1>6, <1>7, <1>8, <1>9, <1>10, <1>11, <1>12, <1>13,
       <1>14, <1>15, <1>16, <1>17, <1>18, TargetStep(h) DEF TargetStep

-----------------------------------------------------------------------------
(* Type correctness.                                                       *)

USE HandoffAssumption
HIDE DEF Put, SetProbe

\* The journals, records and engines start well typed.
LEMMA TypeInit == Init => TypeOK
  BY DEF Init, TypeOK, SourceTypes, TargetTypes, DaemonTypes, NetTypes, PerHandoff,
         PerDaemon, NoProbe, NoFence, MaybeHandoff, SourcePhases, TargetPhases, SourceSteps,
SourceRuns, Activations, Probes, TargetSteps, TargetActs, Acks, WriteFences

-----------------------------------------------------------------------------
(* What the operators that write the state return.  Put and the function   *)
(* sets stay opaque in the steps below.                                    *)

\* An assignment to one handoff's field keeps the field well typed (Put), on the source
LEMMA PutSource ==
    ASSUME TypeOK, NEW h \in Handoffs
    PROVE  /\ \A v \in SourcePhases : Put(sPhase, h, v) \in PerHandoff(SourcePhases)
           /\ \A v \in SourceSteps : Put(sStep, h, v) \in PerHandoff(SourceSteps)
           /\ \A v \in SourceRuns : Put(run, h, v) \in PerHandoff(SourceRuns)
           /\ \A v \in Activations : Put(act, h, v) \in PerHandoff(Activations)
           /\ \A v \in Nat : Put(epoch, h, v) \in PerHandoff(Nat)
  BY DEF TypeOK, SourceTypes, PerHandoff, Put

\* on the target
LEMMA PutTarget ==
    ASSUME TypeOK, NEW h \in Handoffs
    PROVE  /\ \A v \in TargetPhases : Put(tPhase, h, v) \in PerHandoff(TargetPhases)
           /\ \A v \in TargetSteps : Put(tStep, h, v) \in PerHandoff(TargetSteps)
           /\ \A v \in TargetActs : Put(tAct, h, v) \in PerHandoff(TargetActs)
           /\ \A v \in Acks : Put(tAck, h, v) \in PerHandoff(Acks)
  BY DEF TypeOK, TargetTypes, PerHandoff, Put

\* in the mesh record of a daemon
LEMMA PutDaemon ==
    ASSUME TypeOK, NEW d \in Daemons
    PROVE  /\ \A v \in {"host", "member"} : Put(role, d, v) \in PerDaemon({"host", "member"})
           /\ \A v \in Daemons : Put(host, d, v) \in PerDaemon(Daemons)
           /\ \A v \in Nat : Put(held, d, v) \in PerDaemon(Nat)
           /\ \A v \in MaybeHandoff : /\ Put(handedTo, d, v) \in PerDaemon(MaybeHandoff)
                                      /\ Put(fence, d, v) \in PerDaemon(MaybeHandoff)
           /\ \A v \in WriteFences : Put(wfence, d, v) \in PerDaemon(WriteFences)
           /\ \A v \in {"none", "launch", "stop"} :
                  Put(trans, d, v) \in PerDaemon({"none", "launch", "stop"})
  BY DEF TypeOK, DaemonTypes, PerDaemon, Put

\* and in the Boolean fields.
LEMMA PutFlag ==
    ASSUME TypeOK, NEW h \in Handoffs
    PROVE  /\ Put(intent, h, TRUE) \in PerHandoff(BOOLEAN)
           /\ Put(cert, h, TRUE) \in PerHandoff(BOOLEAN)
           /\ Put(sent, h, FALSE) \in PerHandoff(BOOLEAN)
           /\ Put(owed, h, FALSE) \in PerHandoff(BOOLEAN)
           /\ Put(tOwed, h, FALSE) \in PerHandoff(BOOLEAN)
  BY DEF TypeOK, SourceTypes, TargetTypes, PerHandoff, Put

\* A coordinator that is launched or stopped leaves the census well typed.
LEMMA PutCoord ==
    ASSUME TypeOK, NEW d \in Daemons
    PROVE  /\ Put(coord, d, TRUE) \in PerDaemon(BOOLEAN)
           /\ Put(coord, d, FALSE) \in PerDaemon(BOOLEAN)
  BY DEF TypeOK, DaemonTypes, PerDaemon, Put

\* The crash counter stays below its bound.
LEMMA CrashCount ==
    ASSUME TypeOK, crashes < MaxCrashes
    PROVE  crashes + 1 \in 0..MaxCrashes
  BY DEF TypeOK, NetTypes

\* The values the fences and the probe slots start from and are set to.
LEMMA Values ==
    /\ NoHandoff \in MaybeHandoff
    /\ \A h \in Handoffs : h \in MaybeHandoff
    /\ NoProbe \in Probes
    /\ \A h \in Handoffs : [h |-> h, mode |-> "transfer"] \in WriteFences
  BY DEF MaybeHandoff, NoProbe, Probes, WriteFences

\* Epochs are numbers, and so is the next one (start allocates held + 1).
LEMMA EpochType ==
    ASSUME TypeOK, NEW h \in Handoffs, NEW d \in Daemons
    PROVE  epoch[h] \in Nat /\ held[d] \in Nat /\ held[d] + 1 \in Nat
  BY DEF TypeOK, SourceTypes, DaemonTypes, PerDaemon, PerHandoff

\* A daemon's handed-off mark names a handoff or none (writeHost).
LEMMA HandedToType ==
    ASSUME TypeOK, NEW d \in Daemons
    PROVE  handedTo[d] \in MaybeHandoff
  BY DEF TypeOK, DaemonTypes, PerDaemon

\* A request for a handoff is a request (sendPeer).
LEMMA RequestType ==
    ASSUME TypeOK, NEW h \in Handoffs, NEW verb \in Verbs
    PROVE  req \cup {<<verb, h>>} \in SUBSET (Verbs \X Handoffs)
  BY DEF TypeOK, NetTypes

\* abortInternal and advance start a stretch, or none.
LEMMA StepType ==
    ASSUME NEW h
    PROVE  AbortStep(h) \in SourceSteps /\ AbortDiscarded(h) \in SourceSteps
           /\ AdvanceStep(h) \in SourceSteps
  BY DEF AbortStep, AbortDiscarded, AdvanceStep, SourceSteps

\* Beginning a stretch of source writes keeps sStep well typed (advance, abortInternal, activate).
LEMMA PutStep ==
    ASSUME TypeOK, NEW h \in Handoffs
    PROVE  /\ Put(sStep, h, AbortStep(h)) \in PerHandoff(SourceSteps)
           /\ Put(sStep, h, AdvanceStep(h)) \in PerHandoff(SourceSteps)
           /\ \A v \in {"idle", "fence", "send", "activate"} :
                  Put(sStep, h, v) \in PerHandoff(SourceSteps)
  BY PutSource, StepType DEF SourceSteps

\* So does taking the fence, the write fence and the coordinator slot (setFence, freezeWrites,
\* withCoordinatorTransition).
LEMMA PutFence ==
    ASSUME TypeOK, NEW h \in Handoffs, NEW d \in Daemons
    PROVE  /\ Put(fence, d, h) \in PerDaemon(MaybeHandoff)
           /\ Put(wfence, d, [h |-> h, mode |-> "transfer"]) \in PerDaemon(WriteFences)
           /\ Put(trans, d, "stop") \in PerDaemon({"none", "launch", "stop"})
  BY PutDaemon, Values

\* A reply to a transfer call only sets its flag (transfer).
LEMMA AcceptType ==
    ASSUME TypeOK, NEW h \in Handoffs, NEW call, Accept(h, call)
    PROVE  sent' \in PerHandoff(BOOLEAN)
  BY DEF TypeOK, SourceTypes, Accept, PerHandoff, Put

\* A reply to activate is one of the answers the source knows (activate).
LEMMA ReplyType ==
    ASSUME TypeOK, NEW h \in Handoffs, NEW answer \in Activations, Reply(h, answer)
    PROVE  act' \in PerHandoff(Activations)
  BY PutSource DEF TypeOK, SourceTypes, Reply

\* So is the answer to an ACK (onAck).
LEMMA AnswerAckType ==
    ASSUME TypeOK, NEW h \in Handoffs, NEW answer \in Acks, AnswerAck(h, answer)
    PROVE  tAck' \in PerHandoff(Acks)
  BY PutTarget DEF TypeOK, TargetTypes, AnswerAck

\* A status call occupies one slot (probe).
LEMMA SetProbeType ==
    ASSUME TypeOK, NEW h \in Handoffs, NEW p \in Probers, NEW value \in Probes
    PROVE  SetProbe(h, p, value) \in PerHandoff([Probers -> Probes])
  BY DEF TypeOK, SourceTypes, SetProbe, PerHandoff

\* The status answer fits the slot of its call (status).
LEMMA StatusType ==
    ASSUME TypeOK, NEW h \in Handoffs, NEW p \in Probers
    PROVE  [rec |-> probe[h][p].rec, rep |-> tPhase[h]] \in Probes
  BY DEF TypeOK, SourceTypes, TargetTypes, PerHandoff, Probes

\* Releasing the fence leaves no fence and a write fence of a known mode (setFence).
LEMMA UnfenceType ==
    ASSUME TypeOK, NEW h \in Handoffs, NEW d \in Daemons, Unfence(d, h)
    PROVE  fence' \in PerDaemon(MaybeHandoff) /\ wfence' \in PerDaemon(WriteFences)
  <1>1. ReleasedFence(d, h) \in WriteFences
    BY DEF ReleasedFence, WriteFences, NoFence, MaybeHandoff
  <1> QED
    BY <1>1, Values, PutDaemon DEF TypeOK, DaemonTypes, Unfence

\* writeHost leaves a well-typed mesh record.
LEMMA WriteHostType ==
    ASSUME TypeOK, NEW d \in Daemons, NEW r \in {"host", "member"}, NEW n \in Daemons,
           NEW e \in Nat, NEW to \in MaybeHandoff, WriteHost(d, r, n, e, to)
    PROVE  /\ role' \in PerDaemon({"host", "member"})
           /\ host' \in PerDaemon(Daemons)
           /\ held' \in PerDaemon(Nat)
           /\ handedTo' \in PerDaemon(MaybeHandoff)
  BY PutDaemon DEF TypeOK, DaemonTypes, WriteHost

\* commit writes the mesh record and starts its stretch, or does nothing.
LEMMA CommitStepType ==
    ASSUME TypeOK, NEW h \in Handoffs, CommitStep(h)
    PROVE  /\ role' \in PerDaemon({"host", "member"})
           /\ host' \in PerDaemon(Daemons)
           /\ held' \in PerDaemon(Nat)
           /\ handedTo' \in PerDaemon(MaybeHandoff)
           /\ sStep' \in PerHandoff(SourceSteps)
  <1>1. CASE sPhase[h] = "committed"
    BY <1>1 DEF CommitStep, TypeOK, SourceTypes, DaemonTypes
  <1>2. CASE sPhase[h] # "committed"
    <2>1. WriteHost(Src[h], "member", Dst[h], epoch[h], h)
      BY <1>2 DEF CommitStep
    <2>2. sStep' \in PerHandoff(SourceSteps)
      BY <1>2, PutSource DEF CommitStep, TypeOK, SourceTypes, SourceSteps
    <2> QED
      BY <2>1, <2>2, WriteHostType, EpochType, Values
  <1> QED
    BY <1>1, <1>2

-----------------------------------------------------------------------------
(* One step per action.                                                    *)

USE DEF TypeOK, SourceTypes, TargetTypes, DaemonTypes, NetTypes

\* The source's start, freeze, stop and export keep the types (start, advance).
LEMMA SourceStartTypes ==
    ASSUME TypeOK, NEW h \in Handoffs, SourceStart(h)
    PROVE  TypeOK'
  <1>1. CASE Preflight(h)
    BY <1>1, PutSource, Zenon DEF Preflight, SourceRuns
  <1>2. CASE Capability(h)
    BY <1>2, PutSource, Zenon DEF Capability, SourceRuns
  <1>3. CASE PreflightFails(h)
    BY <1>3, PutSource, Zenon DEF PreflightFails, SourceRuns
  <1>4. CASE StartPut(h)
    BY <1>4, PutSource, EpochType, Zenon DEF StartPut, SourceRuns, SourcePhases, SourceSteps
  <1>5. CASE StartHold(h)
    BY <1>5, PutSource, Zenon DEF StartHold, SourcePhases, SourceSteps
  <1>6. CASE FreezeCheck(h)
    <2>1. sPhase' \in PerHandoff(SourcePhases)
      BY <1>6, PutSource, Zenon DEF FreezeCheck, SourcePhases
    <2>2. sStep' \in PerHandoff(SourceSteps)
      <3>1. \E v \in {AbortStep(h), "fence", "idle"} : sStep' = Put(sStep, h, v)
        BY <1>6, Zenon DEF FreezeCheck
      <3> QED
        BY <3>1, PutStep, Zenon
    <2> QED
      BY <1>6, <2>1, <2>2, Zenon DEF FreezeCheck
  <1>7. CASE Advance(h)
    BY <1>7, PutSource, StepType, Zenon DEF Advance
  <1>8. CASE FenceSource(h)
    <2>1. sStep' \in PerHandoff(SourceSteps) /\ run' \in PerHandoff(SourceRuns)
      BY <1>8, PutSource, Zenon DEF FenceSource, SourceSteps, SourceRuns
    <2>2. fence' \in PerDaemon(MaybeHandoff) /\ trans' \in PerDaemon({"none", "launch", "stop"})
      <3>1. fence' = fence \/ fence' = Put(fence, Src[h], h)
        BY <1>8, Zenon DEF FenceSource
      <3>2. trans' = trans \/ trans' = Put(trans, Src[h], "stop")
        BY <1>8, Zenon DEF FenceSource
      <3>3. /\ Put(fence, Src[h], h) \in PerDaemon(MaybeHandoff)
            /\ Put(trans, Src[h], "stop") \in PerDaemon({"none", "launch", "stop"})
        BY PutFence, Zenon
      <3> QED
        BY ONLY <3>1, <3>2, <3>3, TypeOK, Zenon
    <2> QED
      BY <1>8, <2>1, <2>2, Zenon DEF FenceSource
  <1>9. CASE StopSource(h)
    <2>1. run' \in PerHandoff(SourceRuns)
      BY <1>9, PutSource, Zenon DEF StopSource, SourceRuns
    <2>2. trans' \in PerDaemon({"none", "launch", "stop"})
      BY <1>9, PutDaemon, Zenon DEF StopSource
    <2>3. CASE coord' \in {coord, Put(coord, Src[h], FALSE)} /\ UNCHANGED <<wfence, sStep>>
      <3>1. Put(coord, Src[h], FALSE) \in PerDaemon(BOOLEAN)
        BY PutCoord, Zenon
      <3>2. coord' \in PerDaemon(BOOLEAN)
        BY ONLY <2>3, <3>1, TypeOK, Zenon
      <3> QED
        BY <1>9, <2>1, <2>2, <2>3, <3>2, Zenon DEF StopSource
    <2>4. CASE /\ coord' = Put(coord, Src[h], FALSE)
               /\ wfence' = Put(wfence, Src[h], [h |-> h, mode |-> "transfer"])
               /\ sStep' = Put(sStep, h, "certify")
      <3>1. coord' \in PerDaemon(BOOLEAN) /\ wfence' \in PerDaemon(WriteFences)
        BY <2>4, PutCoord, PutDaemon, Values, Zenon
      <3>2. sStep' \in PerHandoff(SourceSteps)
        BY <2>4, PutSource, Zenon DEF SourceSteps
      <3> QED
        BY <1>9, <2>1, <2>2, <3>1, <3>2, Zenon DEF StopSource
    <2> QED
      BY <1>9, <2>3, <2>4, Zenon DEF StopSource
  <1>10. CASE Certify(h)
    BY <1>10, PutSource, PutFlag, Zenon DEF Certify, SourceSteps
  <1>11. CASE MoveExporting(h)
    BY <1>11, PutSource, Zenon DEF MoveExporting, SourcePhases, SourceSteps
  <1>12. CASE Export(h)
    <2>1. sPhase' \in PerHandoff(SourcePhases)
      BY <1>12, PutSource, Zenon DEF Export, SourcePhases
    <2>2. sStep' \in PerHandoff(SourceSteps)
      <3>1. \E v \in {AbortStep(h), "send"} : sStep' = Put(sStep, h, v)
        BY <1>12, Zenon DEF Export
      <3> QED
        BY <3>1, PutStep, Zenon
    <2> QED
      BY <1>12, <2>1, <2>2, Zenon DEF Export
  <1>13. CASE Send(h)
    BY <1>13, PutSource, PutFlag, RequestType, Zenon
       DEF Send, SourcePhases, SourceSteps, SourceRuns, Verbs
  <1> QED
    BY <1>1, <1>2, <1>3, <1>4, <1>5, <1>6, <1>7, <1>8, <1>9, <1>10, <1>11, <1>12, <1>13, Zenon
       DEF SourceStart

\* The source's transfer and the ACK keep the types (transfer, retry, onAck).
LEMMA SourceTransferTypes ==
    ASSUME TypeOK, NEW h \in Handoffs, SourceTransfer(h)
    PROVE  TypeOK'
  <1>1. CASE TransferReply(h)
    <2>1. run' \in PerHandoff(SourceRuns)
      BY <1>1, PutSource, Zenon DEF TransferReply, SourceRuns
    <2>2. sent' \in PerHandoff(BOOLEAN)
      BY <1>1, PutFlag, Zenon DEF TransferReply
    <2>3. req' \in SUBSET (Verbs \X Handoffs)
      BY <1>1, RequestType, Zenon DEF TransferReply, Verbs
    <2> QED
      BY <1>1, <2>1, <2>2, <2>3, Zenon DEF TransferReply
  <1>2. CASE TransferFails(h)
    BY <1>2, PutSource, PutFlag, StepType, Zenon DEF TransferFails, SourceRuns
  <1>3. CASE RetryTransfer(h)
    BY <1>3, PutSource, PutFlag, RequestType, Zenon DEF RetryTransfer, SourceRuns, Verbs
  <1>4. CASE AckTimeout(h)
    BY <1>4, PutSource, StepType, Zenon DEF AckTimeout
  <1>5. CASE OnAck(h)
    <2>1. sPhase' \in PerHandoff(SourcePhases)
      BY <1>5, PutSource, Zenon DEF OnAck, SourcePhases
    <2>2. sStep' \in PerHandoff(SourceSteps)
      <3>1. sStep' = sStep \/ \E v \in {"activate", AbortStep(h)} : sStep' = Put(sStep, h, v)
        BY <1>5, Zenon DEF OnAck
      <3> QED
        BY <3>1, PutStep, Zenon
    <2>3. tAck' \in PerHandoff(Acks)
      BY <1>5, AnswerAckType, Zenon DEF OnAck, Acks
    <2> QED
      BY <1>5, <2>1, <2>2, <2>3, Zenon DEF OnAck
  <1> QED
    BY <1>1, <1>2, <1>3, <1>4, <1>5, Zenon DEF SourceTransfer

\* Activation, commit and abort keep the types (activate, commit, abortInternal, restore).
LEMMA SourceFinishTypes ==
    ASSUME TypeOK, NEW h \in Handoffs,
           \/ RetryActivate(h) \/ ActivateSend(h) \/ ActivateReply(h) \/ CommitJournal(h)
           \/ CommitUnfence(h) \/ Advertise(h) \/ AbortUnfence(h) \/ AbortJournal(h)
           \/ OwnerAbort(h) \/ Restore(h)
    PROVE  TypeOK'
  <1>1. CASE RetryActivate(h)
    BY <1>1, PutSource, Zenon DEF RetryActivate, SourceSteps
  <1>2. CASE ActivateSend(h)
    <2>1. sStep' \in PerHandoff(SourceSteps)
      BY <1>2, PutSource, Zenon DEF ActivateSend, SourceSteps
    <2>2. CASE UNCHANGED <<sPhase, intent, act, fence, req>>
      BY <1>2, <2>1, <2>2, Zenon DEF ActivateSend
    <2>3. CASE /\ fence' = Put(fence, Src[h], h)
               /\ sPhase' = Put(sPhase, h, "activating")
               /\ intent' = Put(intent, h, TRUE)
               /\ req' = req \cup {<<"activate", h>>}
               /\ act' = Put(act, h, "sent")
      <3>1. fence' \in PerDaemon(MaybeHandoff) /\ intent' \in PerHandoff(BOOLEAN)
        BY <2>3, PutDaemon, PutFlag, Values, Zenon
      <3>2. sPhase' \in PerHandoff(SourcePhases) /\ act' \in PerHandoff(Activations)
        BY <2>3, PutSource, Zenon DEF SourcePhases, Activations
      <3>3. req' \in SUBSET (Verbs \X Handoffs)
        BY <2>3, RequestType, Zenon DEF Verbs
      <3> QED
        BY <1>2, <2>1, <3>1, <3>2, <3>3, Zenon DEF ActivateSend
    <2> QED
      BY <1>2, <2>2, <2>3, Zenon DEF ActivateSend
  <1>3. CASE ActivateReply(h)
    <2>1. act' \in PerHandoff(Activations)
      BY <1>3, PutSource, Zenon DEF ActivateReply, Activations
    <2>2. CASE CommitStep(h) /\ UNCHANGED sPhase
      BY <1>3, <2>1, <2>2, CommitStepType, Zenon DEF ActivateReply
    <2>3. CASE sStep' = Put(sStep, h, AbortDiscarded(h)) /\ UNCHANGED <<config, sPhase>>
      BY <1>3, <2>1, <2>3, PutSource, StepType, Zenon DEF ActivateReply
    <2>4. CASE sPhase' = Put(sPhase, h, "uncertain") /\ UNCHANGED <<config, sStep>>
      BY <1>3, <2>1, <2>4, PutSource, Zenon DEF ActivateReply, SourcePhases
    <2> QED
      BY <1>3, <2>2, <2>3, <2>4, Zenon DEF ActivateReply
  <1>4. CASE CommitJournal(h)
    BY <1>4, PutSource, Zenon DEF CommitJournal, SourcePhases, SourceSteps
  <1>5. CASE CommitUnfence(h)
    <2>1. sStep' \in PerHandoff(SourceSteps)
      BY <1>5, PutSource, Zenon DEF CommitUnfence, SourceSteps
    <2>2. fence' \in PerDaemon(MaybeHandoff) /\ wfence' \in PerDaemon(WriteFences)
      BY <1>5, UnfenceType, Zenon DEF CommitUnfence
    <2>3. req' \in SUBSET (Verbs \X Handoffs)
      <3>1. req' = req \/ req' = req \cup {<<"certificate", h>>}
        BY <1>5, Zenon DEF CommitUnfence
      <3> QED
        BY <3>1, RequestType, Zenon DEF Verbs
    <2> QED
      BY <1>5, <2>1, <2>2, <2>3, Zenon DEF CommitUnfence
  <1>6. CASE Advertise(h)
    BY <1>6, RequestType, Zenon DEF Advertise, Verbs
  <1>7. CASE AbortUnfence(h)
    BY <1>7, PutSource, UnfenceType, Zenon DEF AbortUnfence, SourceSteps
  <1>8. CASE AbortJournal(h)
    BY <1>8, PutSource, RequestType, Zenon DEF AbortJournal, SourcePhases, SourceSteps, Verbs
  <1>9. CASE OwnerAbort(h)
    BY <1>9, PutSource, StepType, Zenon DEF OwnerAbort
  <1>10. CASE Restore(h)
    BY <1>10, PutDaemon, Zenon DEF Restore
  <1> QED
    BY <1>1, <1>2, <1>3, <1>4, <1>5, <1>6, <1>7, <1>8, <1>9, <1>10, Zenon

\* The status calls and the resume after a restart keep the types (probe, abort, resume).
LEMMA SourceProbeTypes ==
    ASSUME TypeOK, NEW h \in Handoffs,
           \/ Resume(h)
           \/ \E p \in Probers : Probe(h, p) \/ OwnerAbortAsk(h, p) \/ ProbeReply(h, p)
    PROVE  TypeOK'
  <1>1. ASSUME NEW p \in Probers, Probe(h, p) PROVE TypeOK'
    <2>1. [rec |-> sPhase[h], rep |-> "wait"] \in Probes
      BY <1>1, Zenon DEF Probe, Probes
    <2> QED
      BY <1>1, <2>1, SetProbeType, Zenon DEF Probe
  <1>2. ASSUME NEW p \in Probers, OwnerAbortAsk(h, p) PROVE TypeOK'
    <2>1. [rec |-> "abort", rep |-> "wait"] \in Probes
      BY Zenon DEF Probes
    <2> QED
      BY <1>2, <2>1, SetProbeType, Zenon DEF OwnerAbortAsk
  <1>3. ASSUME NEW p \in Probers, ProbeReply(h, p) PROVE TypeOK'
    <2>1. probe' \in PerHandoff([Probers -> Probes])
      BY <1>3, SetProbeType, Values, Zenon DEF ProbeReply
    <2>2. CASE CommitStep(h) /\ UNCHANGED sPhase
      BY <1>3, <2>1, <2>2, CommitStepType, Zenon DEF ProbeReply
    <2>3. CASE sStep' = Put(sStep, h, AbortDiscarded(h)) /\ UNCHANGED <<config, sPhase>>
      BY <1>3, <2>1, <2>3, PutSource, StepType, Zenon DEF ProbeReply
    <2>4. CASE /\ sPhase' \in {sPhase, Put(sPhase, h, "uncertain")}
               /\ sStep' \in {sStep, Put(sStep, h, "activate")}
               /\ UNCHANGED config
      <3>1. sPhase' \in PerHandoff(SourcePhases)
        BY <2>4, PutSource, Zenon DEF SourcePhases
      <3>2. sStep' \in PerHandoff(SourceSteps)
        BY <2>4, PutSource, Zenon DEF SourceSteps
      <3> QED
        BY <1>3, <2>1, <2>4, <3>1, <3>2, Zenon DEF ProbeReply
    <2>5. CASE UNCHANGED <<config, sPhase, sStep>>
      BY <1>3, <2>1, <2>5, Zenon DEF ProbeReply
    <2> QED
      BY <1>3, <2>2, <2>3, <2>4, <2>5, Zenon DEF ProbeReply
  <1>4. CASE Resume(h)
    <2>1. owed' \in PerHandoff(BOOLEAN)
      BY <1>4, PutFlag, Zenon DEF Resume
    <2>2. sPhase' \in PerHandoff(SourcePhases)
      <3>1. sPhase' = sPhase \/ sPhase' = Put(sPhase, h, "uncertain")
        BY <1>4, Zenon DEF Resume, ResumeRecord
      <3> QED
        BY <3>1, PutSource, Zenon DEF SourcePhases
    <2>3. sStep' \in PerHandoff(SourceSteps)
      <3>1. \/ sStep' = sStep
            \/ \E v \in {"activate", AdvanceStep(h), AbortStep(h)} : sStep' = Put(sStep, h, v)
        BY <1>4, Zenon DEF Resume, ResumeRecord
      <3> QED
        BY <3>1, PutStep, Zenon
    <2>4. probe' \in PerHandoff([Probers -> Probes])
      <3>1. [rec |-> "uncertain", rep |-> "wait"] \in Probes
        BY Zenon DEF Probes
      <3>2. \/ probe' = probe
            \/ \E p \in Probers : probe' = SetProbe(h, p, [rec |-> "uncertain", rep |-> "wait"])
        BY <1>4, Zenon DEF Resume, ResumeRecord
      <3>3. \A p \in Probers : SetProbe(h, p, [rec |-> "uncertain", rep |-> "wait"])
                                  \in PerHandoff([Probers -> Probes])
        BY <3>1, SetProbeType, Zenon
      <3> QED
        BY ONLY <3>2, <3>3, TypeOK, Zenon
    <2> QED
      BY <1>4, <2>1, <2>2, <2>3, <2>4, Zenon DEF Resume
  <1> QED
    BY <1>1, <1>2, <1>3, <1>4, Zenon

\* Staging on the target keeps the types (manifest, chunk, seal, sendAck, discard, status).
LEMMA TargetStageTypes ==
    ASSUME TypeOK, NEW h \in Handoffs,
           \/ TManifest(h) \/ TChunk(h) \/ TSeal(h) \/ TVerified(h) \/ TAckReply(h)
           \/ TDiscard(h) \/ TStageTTL(h) \/ \E p \in Probers : TStatus(h, p)
    PROVE  TypeOK'
  <1>1. CASE TManifest(h)
    <2>1. tPhase' = tPhase \/ tPhase' = Put(tPhase, h, "importing")
      BY <1>1, Zenon DEF TManifest
    <2>2. tPhase' \in PerHandoff(TargetPhases)
      BY <2>1, PutTarget, Zenon DEF TargetPhases
    <2>3. sent' \in PerHandoff(BOOLEAN)
      BY <1>1, AcceptType, Zenon DEF TManifest
    <2> QED
      BY <1>1, <2>2, <2>3, Zenon DEF TManifest
  <1>2. CASE TChunk(h)
    BY <1>2, AcceptType, Zenon DEF TChunk
  <1>3. CASE TSeal(h)
    <2>1. tPhase' \in PerHandoff(TargetPhases) /\ tStep' \in PerHandoff(TargetSteps)
      BY <1>3, PutTarget, Zenon DEF TSeal, TargetPhases, TargetSteps
    <2>2. sent' \in PerHandoff(BOOLEAN)
      BY <1>3, AcceptType, Zenon DEF TSeal
    <2>3. tAck' \in PerHandoff(Acks)
      BY <1>3, PutTarget, Zenon DEF TSeal, SendAck, Acks
    <2>4. req' \in SUBSET (Verbs \X Handoffs)
      BY <1>3, RequestType, Zenon DEF TSeal, SendAck, Verbs
    <2> QED
      BY <1>3, <2>1, <2>2, <2>3, <2>4, Zenon DEF TSeal
  <1>4. CASE TVerified(h)
    BY <1>4, PutTarget, AcceptType, RequestType, Zenon
       DEF TVerified, SendAck, TargetPhases, TargetSteps, Acks, Verbs
  <1>5. CASE TAckReply(h)
    BY <1>5, PutTarget, Zenon DEF TAckReply, TargetPhases, Acks
  <1>6. CASE TDiscard(h)
    BY <1>6, PutTarget, Zenon DEF TDiscard, TargetPhases
  <1>7. CASE TStageTTL(h)
    BY <1>7, PutTarget, Zenon DEF TStageTTL, TargetPhases
  <1>8. ASSUME NEW p \in Probers, TStatus(h, p) PROVE TypeOK'
    <2>1. [rec |-> probe[h][p].rec, rep |-> tPhase[h]] \in Probes
      BY StatusType, Zenon
    <2> QED
      BY <1>8, <2>1, SetProbeType, Zenon DEF TStatus
  <1> QED
    BY <1>1, <1>2, <1>3, <1>4, <1>5, <1>6, <1>7, <1>8, Zenon

\* Activation on the target keeps the types (activate, finishActivation, resume).
LEMMA TargetActivateTypes ==
    ASSUME TypeOK, NEW h \in Handoffs,
           \/ TActivate(h) \/ TReadiness(h) \/ TApply(h) \/ TRollback(h) \/ TTombstone(h)
           \/ TAdopt(h) \/ TActive(h) \/ TUnfence(h) \/ TLaunched(h) \/ TResume(h)
    PROVE  TypeOK'
  <1>1. ASSUME Reverify(h)
        PROVE  /\ tPhase' \in PerHandoff(TargetPhases)
               /\ tAct' \in PerHandoff(TargetActs)
               /\ act' \in PerHandoff(Activations)
    BY <1>1, PutTarget, ReplyType, Zenon DEF Reverify, TargetPhases, TargetActs, Activations
  <1>2. CASE TActivate(h)
    <2>1. CASE Reverify(h)
      BY <1>1, <1>2, <2>1, Zenon DEF TActivate
    <2>2. CASE (Reply(h, "applied") \/ Reply(h, "tombstone")) /\ UNCHANGED <<tPhase, tAct>>
      BY <1>2, <2>2, ReplyType, Zenon DEF TActivate, Activations
    <2> QED
      BY <1>2, <2>1, <2>2, Zenon DEF TActivate
  <1>3. CASE TReadiness(h)
    <2>1. tPhase' \in PerHandoff(TargetPhases) /\ tAct' \in PerHandoff(TargetActs)
      BY <1>3, PutTarget, Zenon DEF TReadiness, TargetPhases, TargetActs
    <2>2. tStep' \in PerHandoff(TargetSteps)
      BY <1>3, PutTarget, Zenon DEF TReadiness, TargetSteps
    <2>3. act' \in PerHandoff(Activations)
      BY <1>3, ReplyType, Zenon DEF TReadiness, Activations
    <2> QED
      BY <1>3, <2>1, <2>2, <2>3, Zenon DEF TReadiness
  <1>4. CASE TApply(h)
    <2>1. tStep' \in PerHandoff(TargetSteps) /\ tAct' \in PerHandoff(TargetActs)
      BY <1>4, PutTarget, Zenon DEF TApply, TargetSteps, TargetActs
    <2>2. fence' \in PerDaemon(MaybeHandoff) /\ wfence' \in PerDaemon(WriteFences)
      <3>1. fence' = fence \/ fence' = Put(fence, Dst[h], h)
        BY <1>4, Zenon DEF TApply
      <3>2. \/ wfence' = wfence
            \/ wfence' = Put(wfence, Dst[h], [h |-> h, mode |-> "transfer"])
        BY <1>4, Zenon DEF TApply
      <3>3. /\ Put(fence, Dst[h], h) \in PerDaemon(MaybeHandoff)
            /\ Put(wfence, Dst[h], [h |-> h, mode |-> "transfer"]) \in PerDaemon(WriteFences)
        BY PutFence, Zenon
      <3> QED
        BY ONLY <3>1, <3>2, <3>3, TypeOK, Zenon
    <2> QED
      BY <1>4, <2>1, <2>2, Zenon DEF TApply
  <1>5. CASE TRollback(h)
    BY <1>5, PutTarget, UnfenceType, Zenon DEF TRollback, TargetSteps
  <1>6. CASE TTombstone(h)
    BY <1>6, PutTarget, ReplyType, Zenon DEF TTombstone, TargetPhases, TargetSteps, TargetActs, Activations
  <1>7. CASE TAdopt(h)
    <2>1. tStep' \in PerHandoff(TargetSteps) /\ tAct' \in PerHandoff(TargetActs)
      <3>1. tStep' = Put(tStep, h, "idle")
        BY <1>7, Zenon DEF TAdopt
      <3>2. tAct' = Put(tAct, h, "ready") \/ tAct' = Put(tAct, h, "idle")
        BY <1>7, Zenon DEF TAdopt
      <3> QED
        BY <3>1, <3>2, PutTarget, Zenon DEF TargetSteps, TargetActs
    <2>2. CASE WriteHost(Dst[h], "host", Dst[h], epoch[h], NoHandoff)
      BY <1>7, <2>1, <2>2, WriteHostType, EpochType, Values, Zenon DEF TAdopt
    <2>3. CASE UNCHANGED config
      BY <1>7, <2>1, <2>3, Zenon DEF TAdopt
    <2> QED
      BY <1>7, <2>2, <2>3, Zenon DEF TAdopt
  <1>8. CASE TActive(h)
    BY <1>8, PutTarget, Zenon DEF TActive, TargetPhases, TargetSteps, TargetActs
  <1>9. CASE TUnfence(h)
    <2>1. tStep' \in PerHandoff(TargetSteps) /\ tAct' \in PerHandoff(TargetActs)
      BY <1>9, PutTarget, Zenon DEF TUnfence, TargetSteps, TargetActs
    <2>2. fence' \in PerDaemon(MaybeHandoff) /\ wfence' \in PerDaemon(WriteFences)
      BY <1>9, UnfenceType, Zenon DEF TUnfence
    <2> QED
      BY <1>9, <2>1, <2>2, Zenon DEF TUnfence
  <1>10. CASE TLaunched(h)
    <2>1. Put(coord, Dst[h], TRUE) \in PerDaemon(BOOLEAN)
      BY PutCoord, Zenon
    <2>2. coord' = coord \/ coord' = Put(coord, Dst[h], TRUE)
      BY <1>10, Zenon DEF TLaunched
    <2>3. coord' \in PerDaemon(BOOLEAN)
      BY ONLY <2>1, <2>2, TypeOK, Zenon
    <2>4. tAct' \in PerHandoff(TargetActs)
      BY <1>10, PutTarget, Zenon DEF TLaunched, TargetActs
    <2>5. act' \in PerHandoff(Activations) /\ req' \in SUBSET (Verbs \X Handoffs)
      BY <1>10, ReplyType, RequestType, Zenon DEF TLaunched, Activations, Verbs
    <2> QED
      BY <1>10, <2>3, <2>4, <2>5, Zenon DEF TLaunched
  <1>11. CASE TResume(h)
    <2>1. tOwed' \in PerHandoff(BOOLEAN)
      BY <1>11, PutFlag, Zenon DEF TResume
    <2>2. CASE UNCHANGED <<tPhase, tAct, act>>
      BY <1>11, <2>1, <2>2, UnfenceType, Zenon DEF TResume
    <2>3. CASE Reverify(h) /\ UNCHANGED fences
      BY <1>1, <1>11, <2>1, <2>3, Zenon DEF TResume
    <2> QED
      BY <1>11, <2>2, <2>3, Zenon DEF TResume
  <1> QED
    BY <1>2, <1>3, <1>4, <1>5, <1>6, <1>7, <1>8, <1>9, <1>10, <1>11, Zenon

\* Members, coordinator launches and crashes keep the types (applyHostTransferToMember,
\* launch_mesh_coordinator, a restart of the daemon).
LEMMA DaemonTypesStep ==
    ASSUME TypeOK, NEW d \in Daemons, DaemonStep(d)
    PROVE  TypeOK'
  <1>1. CASE LaunchBegin(d)
    BY <1>1, PutDaemon, Zenon DEF LaunchBegin
  <1>2. CASE LaunchEnd(d)
    <2>1. Put(coord, d, TRUE) \in PerDaemon(BOOLEAN)
      BY PutCoord, Zenon
    <2>2. coord' \in {coord, Put(coord, d, TRUE)}
      BY <1>2, Zenon DEF LaunchEnd
    <2>3. coord' \in PerDaemon(BOOLEAN)
      BY ONLY <2>1, <2>2, TypeOK, Zenon
    <2>4. trans' \in PerDaemon({"none", "launch", "stop"})
      BY <1>2, PutDaemon, Zenon DEF LaunchEnd
    <2> QED
      BY <1>2, <2>3, <2>4, Zenon DEF LaunchEnd
  <1>3. CASE Crash(d)
    <2>1. /\ sStep' \in PerHandoff(SourceSteps) /\ run' \in PerHandoff(SourceRuns)
          /\ act' \in PerHandoff(Activations)
      BY <1>3, Zenon DEF Crash, PerHandoff, SourceSteps, SourceRuns, Activations
    <2>2. sent' \in PerHandoff(BOOLEAN) /\ owed' \in PerHandoff(BOOLEAN)
      BY <1>3, Zenon DEF Crash, PerHandoff
    <2>3. probe' \in PerHandoff([Probers -> Probes])
      BY <1>3, Values, Zenon DEF Crash, PerHandoff
    <2>4. restoring' \in SUBSET Handoffs /\ outdated' \in SUBSET Handoffs
      BY <1>3, Zenon DEF Crash
    <2>5. /\ tStep' \in PerHandoff(TargetSteps) /\ tAct' \in PerHandoff(TargetActs)
          /\ tAck' \in PerHandoff(Acks)
      BY <1>3, Zenon DEF Crash, PerHandoff, TargetSteps, TargetActs, Acks
    <2>6. tOwed' \in PerHandoff(BOOLEAN)
      BY <1>3, Zenon DEF Crash, PerHandoff
    <2>7. trans' \in PerDaemon({"none", "launch", "stop"})
      BY <1>3, PutDaemon, Zenon DEF Crash
    <2>8. coord' \in PerDaemon(BOOLEAN)
      <3>1. \/ coord' = coord
            \/ coord' = Put(coord, d, trans[d] = "launch")
        BY <1>3, Zenon DEF Crash
      <3>2. Put(coord, d, trans[d] = "launch") \in PerDaemon(BOOLEAN)
        BY Zenon DEF PerDaemon, Put
      <3> QED
        BY ONLY <3>1, <3>2, TypeOK, Zenon
    <2>9. crashes' \in 0..MaxCrashes
      BY <1>3, CrashCount, Zenon DEF Crash
    <2> QED
      BY <1>3, <2>1, <2>2, <2>3, <2>4, <2>5, <2>6, <2>7, <2>8, <2>9, Zenon DEF Crash
  <1>4. ASSUME NEW h \in Handoffs, Adopt(d, h) PROVE TypeOK'
    <2>1. WriteHost(d, "member", Dst[h], epoch[h], handedTo[d])
      BY <1>4, Zenon DEF Adopt
    <2>2. /\ role' \in PerDaemon({"host", "member"}) /\ host' \in PerDaemon(Daemons)
          /\ held' \in PerDaemon(Nat) /\ handedTo' \in PerDaemon(MaybeHandoff)
      BY <2>1, WriteHostType, EpochType, HandedToType, Zenon
    <2> QED
      BY <1>4, <2>2, Zenon DEF Adopt
  <1> QED
    BY <1>1, <1>2, <1>3, <1>4, Zenon DEF DaemonStep

\* Every step of every process keeps them so.
LEMMA TypeStep == TypeOK /\ [Next]_vars => TypeOK'
  <1> SUFFICES ASSUME TypeOK, [Next]_vars
               PROVE  TypeOK'
    OBVIOUS
  <1>1. ASSUME NEW h \in Handoffs, SourceStart(h) PROVE TypeOK'
    BY <1>1, SourceStartTypes, Zenon
  <1>2. ASSUME NEW h \in Handoffs, SourceTransfer(h) PROVE TypeOK'
    BY <1>2, SourceTransferTypes, Zenon
  <1>3. ASSUME NEW h \in Handoffs, SourceFinish(h) PROVE TypeOK'
    BY <1>3, SourceFinishTypes, SourceProbeTypes, Zenon DEF SourceFinish
  <1>4. ASSUME NEW h \in Handoffs, TargetStep(h) PROVE TypeOK'
    BY <1>4, TargetStageTypes, TargetActivateTypes, Zenon DEF TargetStep
  <1>5. ASSUME NEW d \in Daemons, DaemonStep(d) PROVE TypeOK'
    BY <1>5, DaemonTypesStep, Zenon
  <1>6. CASE UNCHANGED vars
    BY <1>6, Zenon DEF vars
  <1> QED
    BY <1>1, <1>2, <1>3, <1>4, <1>5, <1>6, Zenon DEF Next

\* The journals, mesh records, call slots and engine steps of source, target and members only
\* ever hold values the engines write, whatever the daemons, handoffs and crashes.
THEOREM TypeCorrect == Spec => []TypeOK
  <1>1. Init => TypeOK
    BY TypeInit, Zenon
  <1>2. TypeOK /\ [Next]_vars => TypeOK'
    BY TypeStep, Zenon
  <1> QED
    BY <1>1, <1>2, PTL DEF Spec

\* Every column and call slot exists for every handoff.
LEMMA TypesGiveDomains == TypeOK => Domains
  BY DEF TypeOK, SourceTypes, TargetTypes, PerHandoff, Domains
=============================================================================
