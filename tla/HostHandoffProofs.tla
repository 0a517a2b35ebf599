------------------------- MODULE HostHandoffProofs -------------------------
(***************************************************************************)
(* Both sides of a handoff agree on its outcome, and HostHandoff           *)
(* implements HandoffOutcome, for any daemons, handoffs, probes and number *)
(* of crashes.                                                             *)
(*                                                                         *)
(* Agreement is not inductive: it says nothing of an answer in flight or   *)
(* of a conclusion half written down.  AgreementInv does.  A step taken    *)
(* for handoff h leaves every other handoff as it was (Frame) and          *)
(* preserves the invariant of h (HostHandoffSteps).                        *)
(*                                                                         *)
(* A step of the source or of the target of handoff h touches one side's   *)
(* record (Local); with the inductive invariant before and after it, that  *)
(* is one abstract step of h or none (LocalStep), and the other handoffs   *)
(* do not move (Still).                                                    *)
(*                                                                         *)
(* Last, members: a certificate exists only for an active target, so a     *)
(* daemon that follows another one follows the target of that epoch.       *)
(***************************************************************************)
EXTENDS HostHandoffSteps, HostHandoffOutcome

USE HandoffAssumption
USE DEF source, target, daemon, net, config, fences, runtime, sJournal, sCalls, tJournal, tVol
USE DEF Put, SetProbe
HIDE DEF DaemonTypes, NetTypes, SourceTypes, TargetTypes, PerHandoff

-----------------------------------------------------------------------------
(* A step of one handoff leaves the others alone.                          *)

\* The step leaves the journals and the engines of g as they were, and sends nothing for g.
Same(g) ==
    /\ sPhase'[g] = sPhase[g] /\ intent'[g] = intent[g] /\ sStep'[g] = sStep[g]
    /\ cert'[g] = cert[g] /\ epoch'[g] = epoch[g]
    /\ run'[g] = run[g] /\ act'[g] = act[g] /\ probe'[g] = probe[g]
    /\ tPhase'[g] = tPhase[g] /\ tStep'[g] = tStep[g] /\ tAct'[g] = tAct[g]
    /\ \A v : <<v, g>> \in req' => <<v, g>> \in req

\* The invariant of a handoff whose state did not change still holds.
LEMMA Frame ==
    ASSUME NEW g \in Handoffs, HandoffInv(g), Same(g)
    PROVE  HandoffInv(g)'
  BY DEF HandoffInv, Same, SourceStepPhase, TargetStepPhase, IntentFirst, AnswerTrue,
         ConclusionTrue, AfterIntent, NoProbe

\* Other handoffs are left alone by start, freeze, stop and export (start, advance).
LEMMA SourceStartFrame ==
    ASSUME Domains, NEW h \in Handoffs, NEW g \in Handoffs, g # h,
           SourceStart(h)
    PROVE  Same(g)
  <1> USE DEF Same, Domains
  <1>1. CASE Preflight(h)
    BY <1>1, SMTT(30) DEF Preflight
  <1>2. CASE Capability(h)
    BY <1>2, SMTT(30) DEF Capability
  <1>3. CASE PreflightFails(h)
    BY <1>3, SMTT(30) DEF PreflightFails
  <1>4. CASE StartPut(h)
    BY <1>4, SMTT(30) DEF StartPut
  <1>5. CASE StartHold(h)
    BY <1>5, SMTT(30) DEF StartHold
  <1>6. CASE FreezeCheck(h)
    BY <1>6, SMTT(30) DEF FreezeCheck
  <1>7. CASE Advance(h)
    BY <1>7, SMTT(30) DEF Advance
  <1>8. CASE FenceSource(h)
    BY <1>8, SMTT(30) DEF FenceSource
  <1>9. CASE StopSource(h)
    BY <1>9, SMTT(30) DEF StopSource
  <1>10. CASE Certify(h)
    BY <1>10, SMTT(30) DEF Certify
  <1>11. CASE MoveExporting(h)
    BY <1>11, SMTT(30) DEF MoveExporting
  <1>12. CASE Export(h)
    BY <1>12, SMTT(30) DEF Export
  <1>13. CASE Send(h)
    BY <1>13, SMTT(30) DEF Send
  <1> HIDE DEF Same
  <1> QED
    BY ONLY <1>1, <1>2, <1>3, <1>4, <1>5, <1>6, <1>7, <1>8, <1>9, <1>10, <1>11, <1>12, <1>13,
            SourceStart(h) DEF SourceStart

\* Other handoffs are left alone by transfer and the ACK (transfer, onAck, abortInternal).
LEMMA SourceTransferFrame ==
    ASSUME Domains, NEW h \in Handoffs, NEW g \in Handoffs, g # h,
           SourceTransfer(h)
    PROVE  Same(g)
  <1> USE DEF Same, Domains
  <1>1. CASE TransferReply(h)
    BY <1>1, SMTT(30) DEF TransferReply
  <1>2. CASE TransferFails(h)
    BY <1>2, SMTT(30) DEF TransferFails
  <1>3. CASE RetryTransfer(h)
    BY <1>3, SMTT(30) DEF RetryTransfer
  <1>4. CASE AckTimeout(h)
    BY <1>4, SMTT(30) DEF AckTimeout
  <1>5. CASE OnAck(h)
    BY <1>5, SMTT(30) DEF OnAck, AnswerAck
  <1> HIDE DEF Same
  <1> QED
    BY ONLY <1>1, <1>2, <1>3, <1>4, <1>5, SourceTransfer(h) DEF SourceTransfer

\* Other handoffs are left alone by activation, commit, abort, probes and resume
\* (activate, commit, abortInternal, probe, resume).
LEMMA SourceFinishFrame ==
    ASSUME Domains, NEW h \in Handoffs, NEW g \in Handoffs, g # h,
           SourceFinish(h)
    PROVE  Same(g)
  <1> USE DEF Same, Domains
  <1>1. CASE RetryActivate(h)
    BY <1>1, SMTT(30) DEF RetryActivate
  <1>2. CASE ActivateSend(h)
    BY <1>2, SMTT(30) DEF ActivateSend
  <1>3. CASE ActivateReply(h)
    BY <1>3, SMTT(30) DEF ActivateReply, CommitStep
  <1>4. CASE CommitJournal(h)
    BY <1>4, SMTT(30) DEF CommitJournal
  <1>5. CASE CommitUnfence(h)
    BY <1>5, SMTT(30) DEF CommitUnfence
  <1>6. CASE Advertise(h)
    BY <1>6, SMTT(30) DEF Advertise
  <1>7. CASE AbortUnfence(h)
    BY <1>7, SMTT(30) DEF AbortUnfence
  <1>8. CASE AbortJournal(h)
    BY <1>8, SMTT(30) DEF AbortJournal
  <1>9. CASE OwnerAbort(h)
    BY <1>9, SMTT(30) DEF OwnerAbort
  <1>10. CASE Restore(h)
    BY <1>10, SMTT(30) DEF Restore
  <1>11. CASE Resume(h)
    BY <1>11, SMTT(30) DEF Resume, ResumeRecord
  <1>12. ASSUME NEW p \in Probers, Probe(h, p) PROVE Same(g)
    BY <1>12, SMTT(30) DEF Probe
  <1>13. ASSUME NEW p \in Probers, OwnerAbortAsk(h, p) PROVE Same(g)
    BY <1>13, SMTT(30) DEF OwnerAbortAsk
  <1>14. ASSUME NEW p \in Probers, ProbeReply(h, p) PROVE Same(g)
    BY <1>14, SMTT(30) DEF ProbeReply, CommitStep
  <1> HIDE DEF Same
  <1> QED
    BY ONLY <1>1, <1>2, <1>3, <1>4, <1>5, <1>6, <1>7, <1>8, <1>9, <1>10, <1>11, <1>12, <1>13,
            <1>14, SourceFinish(h) DEF SourceFinish

\* Other handoffs are left alone by the target
\* (manifest, seal, discard, tick, activate, finishActivation, resume).
LEMMA TargetFrame ==
    ASSUME Domains, NEW h \in Handoffs, NEW g \in Handoffs, g # h,
           TargetStep(h)
    PROVE  Same(g)
  <1> USE DEF Same, Domains
  <1>1. CASE TManifest(h)
    BY <1>1, SMTT(30) DEF TManifest, Accept
  <1>2. CASE TChunk(h)
    BY <1>2, SMTT(30) DEF TChunk, Accept
  <1>3. CASE TSeal(h)
    BY <1>3, SMTT(30) DEF TSeal, SendAck, Accept
  <1>4. CASE TVerified(h)
    BY <1>4, SMTT(30) DEF TVerified, SendAck, Accept
  <1>5. CASE TAckReply(h)
    BY <1>5, SMTT(30) DEF TAckReply
  <1>6. CASE TDiscard(h)
    BY <1>6, SMTT(30) DEF TDiscard
  <1>7. CASE TStageTTL(h)
    BY <1>7, SMTT(30) DEF TStageTTL
  <1>8. CASE TActivate(h)
    BY <1>8, SMTT(30) DEF TActivate, Reply, Reverify
  <1>9. CASE TReadiness(h)
    BY <1>9, SMTT(30) DEF TReadiness, Reply
  <1>10. CASE TApply(h)
    BY <1>10, SMTT(30) DEF TApply
  <1>11. CASE TRollback(h)
    BY <1>11, SMTT(30) DEF TRollback
  <1>12. CASE TTombstone(h)
    BY <1>12, SMTT(30) DEF TTombstone, Reply
  <1>13. CASE TAdopt(h)
    BY <1>13, SMTT(30) DEF TAdopt
  <1>14. CASE TActive(h)
    BY <1>14, SMTT(30) DEF TActive
  <1>15. CASE TUnfence(h)
    BY <1>15, SMTT(30) DEF TUnfence
  <1>16. CASE TLaunched(h)
    BY <1>16, SMTT(30) DEF TLaunched, Reply
  <1>17. CASE TResume(h)
    BY <1>17, SMTT(30) DEF TResume, Reverify, Reply
  <1>18. ASSUME NEW p \in Probers, TStatus(h, p) PROVE Same(g)
    BY <1>18, SMTT(30) DEF TStatus
  <1> HIDE DEF Same
  <1> QED
    BY ONLY <1>1, <1>2, <1>3, <1>4, <1>5, <1>6, <1>7, <1>8, <1>9, <1>10, <1>11, <1>12, <1>13,
            <1>14, <1>15, <1>16, <1>17, <1>18, TargetStep(h) DEF TargetStep

-----------------------------------------------------------------------------
(* Every step preserves the invariant.                                     *)

\* Nothing has happened yet.
LEMMA AgreementInit == Init => AgreementInv
  <1> SUFFICES ASSUME Init
               PROVE  AgreementInv
    OBVIOUS
  <1>1. TypeOK
    BY TypeInit
  <1>2. \A h \in Handoffs : HandoffInv(h)
    BY DEF Init, HandoffInv, SourceStepPhase, TargetStepPhase, IntentFirst, AnswerTrue,
           ConclusionTrue, AfterIntent, NoProbe
  <1> QED
    BY ONLY <1>1, <1>2 DEF AgreementInv

\* Members and launches do not touch the journals; a crash loses answers and half-written
\* conclusions and nothing durable (applyHostTransferToMember, a restart).
LEMMA DaemonAgreement ==
    ASSUME Domains, NEW d \in Daemons, NEW g \in Handoffs, HandoffInv(g),
           DaemonStep(d)
    PROVE  HandoffInv(g)'
  <1>1. CASE LaunchBegin(d)
    BY <1>1, Frame, Zenon DEF LaunchBegin, Same
  <1>2. CASE LaunchEnd(d)
    BY <1>2, Frame, Zenon DEF LaunchEnd, Same
  <1>3. CASE Crash(d)
    <2>1. /\ sPhase'[g] = sPhase[g] /\ intent'[g] = intent[g] /\ tPhase'[g] = tPhase[g]
          /\ req' = req
      BY <1>3, Zenon DEF Crash
    <2>2. /\ sStep'[g] \in {sStep[g], "idle"} /\ run'[g] \in {run[g], "idle"}
          /\ act'[g] \in {act[g], "idle"}
      BY <1>3 DEF Crash
    <2>3. /\ \/ tStep'[g] = tStep[g] /\ tAct'[g] = tAct[g]
             \/ tStep'[g] = "idle" /\ tAct'[g] = "idle"
          /\ \A p \in Probers : probe'[g][p] \in {probe[g][p], NoProbe}
      BY <1>3 DEF Crash
    <2>4. SourceStepPhase(g)' /\ TargetStepPhase(g)'
      BY ONLY <2>1, <2>2, <2>3, HandoffInv(g) DEF HandoffInv, SourceStepPhase, TargetStepPhase
    <2>5. IntentFirst(g)' /\ AnswerTrue(g)' /\ ConclusionTrue(g)'
      <3>1. IntentFirst(g) /\ AnswerTrue(g) /\ ConclusionTrue(g)
        BY ONLY HandoffInv(g), Zenon DEF HandoffInv
      <3>2. IntentFirst(g)'
        BY ONLY <2>1, <2>2, <2>3, <3>1 DEF IntentFirst
      <3>3. AnswerTrue(g)'
        BY ONLY <2>1, <2>2, <2>3, <3>1 DEF AnswerTrue, NoProbe
      <3>4. ConclusionTrue(g)'
        BY ONLY <2>1, <2>2, <3>1 DEF ConclusionTrue
      <3> QED
        BY ONLY <3>2, <3>3, <3>4
    <2> QED
      BY ONLY <2>4, <2>5 DEF HandoffInv
  <1>4. ASSUME NEW h \in Handoffs, Adopt(d, h) PROVE HandoffInv(g)'
    BY <1>4, Frame, Zenon DEF Adopt, Same
  <1> QED
    BY ONLY <1>1, <1>2, <1>3, <1>4, DaemonStep(d) DEF DaemonStep

\* AgreementInv is inductive.
LEMMA AgreementStep == AgreementInv /\ [Next]_vars => AgreementInv'
  <1> SUFFICES ASSUME AgreementInv, [Next]_vars
               PROVE  AgreementInv'
    OBVIOUS
  <1>1. TypeOK'
    BY ONLY AgreementInv, [Next]_vars, TypeStep DEF AgreementInv
  <1>2. Domains
    BY ONLY AgreementInv, TypesGiveDomains DEF AgreementInv
  <1>3. ASSUME NEW g \in Handoffs PROVE HandoffInv(g)'
    <2>1. HandoffInv(g)
      BY ONLY AgreementInv, g \in Handoffs DEF AgreementInv
    <2>2. CASE UNCHANGED vars
      BY <2>1, <2>2, Frame, Zenon DEF vars, Same
    <2>3. ASSUME NEW d \in Daemons, DaemonStep(d) PROVE HandoffInv(g)'
      BY ONLY <1>2, <2>1, <2>3, g \in Handoffs, DaemonAgreement
    <2>4. ASSUME NEW h \in Handoffs,
                 SourceStart(h) \/ SourceTransfer(h) \/ SourceFinish(h) \/ TargetStep(h)
          PROVE  HandoffInv(g)'
      <3>1. CASE g = h
        BY ONLY <1>2, <2>1, <2>4, <3>1, g \in Handoffs, SourceStartOwn, SourceTransferOwn,
                SourceFinishOwn, TargetOwn
      <3>2. CASE g # h
        BY ONLY <1>2, <2>1, <2>4, <3>2, g \in Handoffs, Frame, SourceStartFrame,
                SourceTransferFrame, SourceFinishFrame, TargetFrame
      <3> QED
        BY ONLY <3>1, <3>2
    <2> QED
      BY ONLY [Next]_vars, <2>2, <2>3, <2>4 DEF Next
  <1> QED
    BY ONLY <1>1, <1>3, Zenon DEF AgreementInv

\* A journalled outcome, an answer in flight and a conclusion half written all quote the
\* target's record, in every reachable state.
THEOREM AgreementInvariant == Spec => []AgreementInv
  BY AgreementInit, AgreementStep, PTL DEF Spec

\* Both sides agree: a target that took the authority never belongs to a source that went back
\* to being host, and a source that gave up after sending activate did so on a tombstone
\* (commit, abortInternal, activate, discard).
THEOREM AgreementHolds == Spec => []Agreement
  <1>1. AgreementInv => Agreement
    BY Zenon DEF AgreementInv, Agreement, HandoffInv, IntentFirst, ConclusionTrue, AfterIntent
  <1> QED
    BY <1>1, AgreementInvariant, PTL

\* Every writer of the target journal looks at the phase first: a final record stands
\* (manifest, seal, discard, tick, activate).
LEMMA TargetRecordStands ==
    ASSUME AgreementInv, Next, NEW g \in Handoffs, tPhase[g] \in TargetTerminal
    PROVE  tPhase'[g] = tPhase[g]
  <1>0. Domains /\ \A h \in Handoffs : HandoffInv(h)
    BY ONLY AgreementInv, TypesGiveDomains DEF AgreementInv
  <1>1. ASSUME NEW h \in Handoffs, SourceStart(h) PROVE tPhase'[g] = tPhase[g]
    BY <1>1, Zenon DEF SourceStart, Preflight, Capability, PreflightFails, StartPut, StartHold,
           FreezeCheck, Advance, FenceSource, StopSource, Certify, MoveExporting, Export, Send
  <1>2. ASSUME NEW h \in Handoffs, SourceTransfer(h) PROVE tPhase'[g] = tPhase[g]
    BY <1>2 DEF SourceTransfer, TransferReply, TransferFails, RetryTransfer, AckTimeout, OnAck
  <1>3. ASSUME NEW h \in Handoffs, SourceFinish(h) PROVE tPhase'[g] = tPhase[g]
    BY <1>3, Zenon DEF SourceFinish, RetryActivate, ActivateSend, ActivateReply, CommitJournal,
           CommitUnfence, Advertise, AbortUnfence, AbortJournal, OwnerAbort, Restore, Resume,
           Probe, OwnerAbortAsk, ProbeReply
  <1>4. ASSUME NEW d \in Daemons, DaemonStep(d) PROVE tPhase'[g] = tPhase[g]
    BY <1>4, Zenon DEF DaemonStep, LaunchBegin, LaunchEnd, Crash, Adopt
  <1>5. ASSUME NEW h \in Handoffs, TargetStep(h) PROVE tPhase'[g] = tPhase[g]
    <2>1. CASE g = h
      BY ONLY <1>0, <1>5, <2>1, tPhase[g] \in TargetTerminal, TargetOwn DEF TargetLocal
    <2>2. CASE g # h
      BY ONLY <1>0, <1>5, <2>2, g \in Handoffs, TargetFrame, Zenon DEF Same
    <2> QED
      BY ONLY <2>1, <2>2
  <1> QED
    BY ONLY Next, <1>1, <1>2, <1>3, <1>4, <1>5, Zenon DEF Next

\* An active or discarded target record never changes again, whatever is delivered late or
\* repeated (manifest, seal, discard, tick, activate).
THEOREM TargetFinal == Spec => TargetOutcomeFinal
  <1>1. AgreementInv /\ [Next]_vars
          => [\A h \in Handoffs : tPhase[h] \in TargetTerminal => tPhase'[h] = tPhase[h]]_vars
    BY TargetRecordStands
  <1> QED
    BY <1>1, AgreementInvariant, PTL DEF Spec, TargetOutcomeFinal

-----------------------------------------------------------------------------
(* Members follow the active host.                                         *)

\* A certificate in transit is the certificate of a handoff whose target is active.
CertificatesTrue == \A h \in Handoffs : <<"certificate", h>> \in req => tPhase[h] = "active"

\* What a step may do to the mesh record of d: nothing, the role taken by a target, or the host
\* and epoch of a handoff whose target is active.
RecordKept(d) == role'[d] = role[d] /\ host'[d] = host[d] /\ held'[d] = held[d]
Follows(d, h) == host'[d] = Dst[h] /\ held'[d] = epoch[h] /\ tPhase[h] = "active"
RecordStep(d) == RecordKept(d) \/ role'[d] = "host" \/ \E h \in Handoffs : Follows(d, h)

\* The functions of the mesh record, and the epochs, are defined where they are used.
RecordDomains ==
    /\ DOMAIN role = Daemons /\ DOMAIN host = Daemons /\ DOMAIN held = Daemons
    /\ DOMAIN epoch = Handoffs

\* What a step of handoff h does to the records, the epochs and the certificates.
Recorded(h) ==
    /\ \A d \in Daemons : RecordStep(d)
    /\ \A g \in Handoffs : tPhase[g] = "active" => epoch'[g] = epoch[g]
    /\ \A g : <<"certificate", g>> \in req' =>
             <<"certificate", g>> \in req \/ (g = h /\ tPhase[h] = "active")

\* A step that writes no record, no epoch and sends no certificate.
LEMMA Unrecorded ==
    ASSUME NEW h, UNCHANGED <<role, host, held, epoch>>,
           \A g : <<"certificate", g>> \in req' =>
             <<"certificate", g>> \in req \/ (g = h /\ tPhase[h] = "active")
    PROVE  Recorded(h)
  BY DEF Recorded, RecordStep, RecordKept

\* Start, freeze, stop and export write no mesh record; start gives a new handoff its epoch
\* (startLocked).
LEMMA StartRecords ==
    ASSUME RecordDomains, NEW h \in Handoffs, HandoffInv(h), SourceStart(h)
    PROVE  Recorded(h)
  <1>1. CASE StartPut(h)
    <2>1. tPhase[h] # "active"
      BY <1>1, Zenon DEF StartPut, HandoffInv, SourceStepPhase, IntentFirst, AfterIntent
    <2>2. \A g \in Handoffs : tPhase[g] = "active" => epoch'[g] = epoch[g]
      BY <1>1, <2>1 DEF StartPut, RecordDomains
    <2>3. UNCHANGED <<role, host, held, req>>
      BY <1>1, Zenon DEF StartPut
    <2> QED
      BY ONLY <2>2, <2>3, Zenon DEF Recorded, RecordStep, RecordKept
  <1>2. CASE Preflight(h) \/ Capability(h) \/ PreflightFails(h) \/ StartHold(h) \/ FreezeCheck(h)
               \/ Advance(h) \/ FenceSource(h) \/ StopSource(h) \/ Certify(h) \/ MoveExporting(h)
               \/ Export(h)
    BY <1>2, Unrecorded, Zenon DEF Preflight, Capability, PreflightFails, StartHold, FreezeCheck,
       Advance, FenceSource, StopSource, Certify, MoveExporting, Export
  <1>3. CASE Send(h)
    <2>1. UNCHANGED <<role, host, held, epoch>>
      BY <1>3, Zenon DEF Send
    <2>2. req' = req \cup {<<"manifest", h>>}
      BY <1>3, Zenon DEF Send
    <2> QED
      BY ONLY <2>1, <2>2, Unrecorded
  <1> QED
    BY ONLY <1>1, <1>2, <1>3, SourceStart(h) DEF SourceStart

\* Transfer and ACK write no mesh record (transfer, onAck).
LEMMA TransferRecords ==
    ASSUME NEW h \in Handoffs, SourceTransfer(h)
    PROVE  Recorded(h)
  <1>1. CASE TransferReply(h) \/ RetryTransfer(h)
    <2>1. UNCHANGED <<role, host, held, epoch>>
      BY <1>1, Zenon DEF TransferReply, RetryTransfer
    <2>2. req' \subseteq req \cup {<<"manifest", h>>, <<"chunk", h>>, <<"seal", h>>}
      BY <1>1 DEF TransferReply, RetryTransfer
    <2> QED
      BY ONLY <2>1, <2>2, Unrecorded
  <1>2. CASE TransferFails(h) \/ AckTimeout(h) \/ OnAck(h)
    BY <1>2, Unrecorded, Zenon DEF TransferFails, AckTimeout, OnAck
  <1> QED
    BY ONLY <1>1, <1>2, SourceTransfer(h) DEF SourceTransfer

\* commit writes the record of the source after the target's active record (commit).
LEMMA CommitRecords ==
    ASSUME RecordDomains, NEW h \in Handoffs, CommitStep(h), tPhase[h] = "active"
    PROVE  \A d \in Daemons : RecordStep(d)
  <1>1. CASE sPhase[h] = "committed"
    BY <1>1, Zenon DEF CommitStep, RecordStep, RecordKept
  <1>2. CASE sPhase[h] # "committed"
    <2>1. WriteHost(Src[h], "member", Dst[h], epoch[h], h)
      BY <1>2, Zenon DEF CommitStep
    <2>2. Follows(Src[h], h)
      BY <2>1 DEF WriteHost, Follows, RecordDomains
    <2>3. \A d \in Daemons : d # Src[h] => RecordKept(d)
      BY <2>1 DEF WriteHost, RecordKept, RecordDomains
    <2> QED
      BY <2>2, <2>3, Zenon DEF RecordStep
  <1> QED
    BY ONLY <1>1, <1>2

\* The source writes its record, and tells the members, only on the target's active record
\* (commit, advertise, probe).
LEMMA FinishRecords ==
    ASSUME RecordDomains, NEW h \in Handoffs, HandoffInv(h), SourceFinish(h)
    PROVE  Recorded(h)
  <1>1. CASE RetryActivate(h) \/ CommitJournal(h) \/ AbortUnfence(h) \/ OwnerAbort(h)
               \/ Restore(h) \/ Resume(h)
    BY <1>1, Unrecorded, Zenon DEF RetryActivate, CommitJournal, AbortUnfence, OwnerAbort,
       Restore, Resume
  <1>2. CASE ActivateSend(h) \/ AbortJournal(h)
    <2>1. UNCHANGED <<role, host, held, epoch>>
      BY <1>2, Zenon DEF ActivateSend, AbortJournal
    <2>2. req' \subseteq req \cup {<<"activate", h>>, <<"discard", h>>}
      BY <1>2 DEF ActivateSend, AbortJournal
    <2> QED
      BY ONLY <2>1, <2>2, Unrecorded
  <1>3. CASE CommitUnfence(h) \/ Advertise(h)
    <2>1. UNCHANGED <<role, host, held, epoch>>
      BY <1>3, Zenon DEF CommitUnfence, Advertise
    <2>2. req' \subseteq req \cup {<<"certificate", h>>}
      BY <1>3 DEF CommitUnfence, Advertise
    <2>3. tPhase[h] = "active"
      BY <1>3, Zenon DEF CommitUnfence, Advertise, HandoffInv, ConclusionTrue
    <2> QED
      BY ONLY <2>1, <2>2, <2>3, Unrecorded
  <1>4. ASSUME UNCHANGED <<epoch, req>>,
               UNCHANGED <<role, host, held>> \/ (CommitStep(h) /\ tPhase[h] = "active")
        PROVE  Recorded(h)
    <2>1. CASE UNCHANGED <<role, host, held>>
      BY <1>4, <2>1, Unrecorded
    <2>2. CASE CommitStep(h) /\ tPhase[h] = "active"
      BY <1>4, <2>2, CommitRecords, Zenon DEF Recorded
    <2> QED
      BY ONLY <1>4, <2>1, <2>2
  <1>5. CASE ActivateReply(h)
    <2>1. UNCHANGED <<role, host, held>> \/ (CommitStep(h) /\ tPhase[h] = "active")
      BY <1>5, Zenon DEF ActivateReply, HandoffInv, AnswerTrue
    <2>2. UNCHANGED <<epoch, req>>
      BY <1>5, Zenon DEF ActivateReply
    <2> QED
      BY ONLY <1>4, <2>1, <2>2
  <1>6. ASSUME NEW p \in Probers, Probe(h, p) \/ OwnerAbortAsk(h, p) PROVE Recorded(h)
    BY <1>6, Unrecorded, Zenon DEF Probe, OwnerAbortAsk
  <1>7. ASSUME NEW p \in Probers, ProbeReply(h, p) PROVE Recorded(h)
    <2>1. UNCHANGED <<role, host, held>> \/ (CommitStep(h) /\ tPhase[h] = "active")
      BY <1>7, Zenon DEF ProbeReply, HandoffInv, AnswerTrue
    <2>2. UNCHANGED <<epoch, req>>
      BY <1>7, Zenon DEF ProbeReply
    <2> QED
      BY ONLY <1>4, <2>1, <2>2
  <1> QED
    BY ONLY <1>1, <1>2, <1>3, <1>5, <1>6, <1>7, SourceFinish(h) DEF SourceFinish

\* The target takes the role when it adopts, and tells the members once it is active
\* (activateLocked, launchOnce).
LEMMA TargetRecords ==
    ASSUME RecordDomains, NEW h \in Handoffs, HandoffInv(h), TargetStep(h)
    PROVE  Recorded(h)
  <1>1. CASE TManifest(h) \/ TChunk(h) \/ TAckReply(h) \/ TDiscard(h) \/ TStageTTL(h)
               \/ TActivate(h) \/ TReadiness(h) \/ TApply(h) \/ TRollback(h) \/ TTombstone(h)
               \/ TActive(h) \/ TUnfence(h) \/ TResume(h)
    BY <1>1, Unrecorded, Zenon DEF TManifest, TChunk, TAckReply, TDiscard, TStageTTL, TActivate,
       TReadiness, TApply, TRollback, TTombstone, TActive, TUnfence, TResume
  <1>2. CASE TSeal(h) \/ TVerified(h)
    <2>1. UNCHANGED <<role, host, held, epoch>>
      BY <1>2, Zenon DEF TSeal, TVerified
    <2>2. req' \subseteq req \cup {<<"ack", h>>}
      BY <1>2 DEF TSeal, TVerified, SendAck
    <2> QED
      BY ONLY <2>1, <2>2, Unrecorded
  <1>3. CASE TAdopt(h)
    <2>1. UNCHANGED <<epoch, req>>
      BY <1>3, Zenon DEF TAdopt
    <2>2. \A d \in Daemons : RecordKept(d) \/ role'[d] = "host"
      BY <1>3 DEF TAdopt, WriteHost, RecordKept, RecordDomains
    <2> QED
      BY ONLY <2>1, <2>2, Zenon DEF Recorded, RecordStep
  <1>4. CASE TLaunched(h)
    <2>1. UNCHANGED <<role, host, held, epoch>>
      BY <1>4, Zenon DEF TLaunched
    <2>2. req' = req \cup {<<"certificate", h>>}
      BY <1>4, Zenon DEF TLaunched
    <2>3. tPhase[h] = "active"
      BY <1>4, Zenon DEF TLaunched, HandoffInv, TargetStepPhase
    <2> QED
      BY ONLY <2>1, <2>2, <2>3, Unrecorded
  <1>5. ASSUME NEW p \in Probers, TStatus(h, p) PROVE Recorded(h)
    BY <1>5, Unrecorded, Zenon DEF TStatus
  <1> QED
    BY ONLY <1>1, <1>2, <1>3, <1>4, <1>5, TargetStep(h) DEF TargetStep

\* A member adopts what a certificate says; nothing else of a daemon writes its record
\* (applyHostTransferToMember).
LEMMA DaemonRecords ==
    ASSUME RecordDomains, CertificatesTrue, NEW d \in Daemons, DaemonStep(d)
    PROVE  (\A e \in Daemons : RecordStep(e)) /\ UNCHANGED <<epoch, req, tPhase>>
  <1>1. CASE LaunchBegin(d) \/ LaunchEnd(d) \/ Crash(d)
    BY <1>1, Zenon DEF LaunchBegin, LaunchEnd, Crash, RecordStep, RecordKept
  <1>2. ASSUME NEW h \in Handoffs, Adopt(d, h)
        PROVE  (\A e \in Daemons : RecordStep(e)) /\ UNCHANGED <<epoch, req, tPhase>>
    <2>1. tPhase[h] = "active" /\ UNCHANGED <<epoch, req, tPhase>>
      BY <1>2, Zenon DEF Adopt, CertificatesTrue
    <2>2. WriteHost(d, "member", Dst[h], epoch[h], handedTo[d])
      BY <1>2, Zenon DEF Adopt
    <2>3. Follows(d, h)
      BY <2>1, <2>2 DEF WriteHost, Follows, RecordDomains
    <2>4. \A e \in Daemons : e # d => RecordKept(e)
      BY <2>2 DEF WriteHost, RecordKept, RecordDomains
    <2> QED
      BY <2>1, <2>3, <2>4, Zenon DEF RecordStep
  <1> QED
    BY ONLY <1>1, <1>2, DaemonStep(d) DEF DaemonStep

\* An active target record stays, in every step.
LEMMA ActiveStays ==
    ASSUME AgreementInv, [Next]_vars, NEW g \in Handoffs, tPhase[g] = "active"
    PROVE  tPhase'[g] = "active"
  <1>1. CASE UNCHANGED vars
    BY <1>1, Zenon DEF vars
  <1>2. CASE Next
    BY <1>2, TargetRecordStands DEF TargetTerminal
  <1> QED
    BY ONLY <1>1, <1>2, [Next]_vars

\* Records that change as RecordStep says keep following active targets.
LEMMA Followed ==
    ASSUME MembersFollowActive, \A d \in Daemons : RecordStep(d),
           \A g \in Handoffs : tPhase[g] = "active" => epoch'[g] = epoch[g] /\ tPhase'[g] = "active"
    PROVE  MembersFollowActive'
  <1> SUFFICES ASSUME NEW d \in Daemons, role'[d] = "member", held'[d] > 0
               PROVE  \E h \in Handoffs : epoch'[h] = held'[d] /\ Dst[h] = host'[d] /\ tPhase'[h] = "active"
    BY DEF MembersFollowActive
  <1>1. CASE RecordKept(d)
    <2>1. PICK h \in Handoffs : epoch[h] = held[d] /\ Dst[h] = host[d] /\ tPhase[h] = "active"
      BY <1>1 DEF RecordKept, MembersFollowActive
    <2> QED
      BY <1>1, <2>1 DEF RecordKept
  <1>2. ASSUME NEW h \in Handoffs, Follows(d, h)
        PROVE  \E g \in Handoffs : epoch'[g] = held'[d] /\ Dst[g] = host'[d] /\ tPhase'[g] = "active"
    BY <1>2 DEF Follows
  <1> QED
    BY <1>1, <1>2 DEF RecordStep

\* Certificates and the members' records stay true in every step.
LEMMA FollowStep ==
    ASSUME AgreementInv, CertificatesTrue, MembersFollowActive, [Next]_vars
    PROVE  CertificatesTrue' /\ MembersFollowActive'
  <1>1. \A g \in Handoffs : tPhase[g] = "active" => tPhase'[g] = "active"
    BY ONLY AgreementInv, [Next]_vars, ActiveStays
  <1>2. /\ RecordDomains
        /\ \A h \in Handoffs : HandoffInv(h)
    BY DEF AgreementInv, TypeOK, SourceTypes, DaemonTypes, PerHandoff, PerDaemon, RecordDomains
  <1>3. CASE UNCHANGED vars
    BY <1>3 DEF vars, CertificatesTrue, MembersFollowActive
  <1>4. ASSUME NEW d \in Daemons, DaemonStep(d) PROVE CertificatesTrue' /\ MembersFollowActive'
    <2>1. (\A e \in Daemons : RecordStep(e)) /\ UNCHANGED <<epoch, req, tPhase>>
      BY ONLY <1>2, <1>4, CertificatesTrue, DaemonRecords
    <2>2. MembersFollowActive'
      BY ONLY <1>1, <2>1, MembersFollowActive, Followed
    <2> QED
      BY <2>1, <2>2 DEF CertificatesTrue
  <1>5. ASSUME NEW h \in Handoffs,
               SourceStart(h) \/ SourceTransfer(h) \/ SourceFinish(h) \/ TargetStep(h)
        PROVE  CertificatesTrue' /\ MembersFollowActive'
    <2>1. Recorded(h)
      BY ONLY <1>2, <1>5, StartRecords, TransferRecords, FinishRecords, TargetRecords
    <2>2. MembersFollowActive'
      BY ONLY <1>1, <2>1, MembersFollowActive, Followed, Zenon DEF Recorded
    <2>3. CertificatesTrue'
      BY ONLY <1>1, <2>1, CertificatesTrue, Zenon DEF Recorded, CertificatesTrue
    <2> QED
      BY ONLY <2>2, <2>3
  <1> QED
    BY ONLY [Next]_vars, <1>3, <1>4, <1>5, Zenon DEF Next

\* What a member believes is true, for any daemons and handoffs: the host it follows at an epoch is
\* the target that became active at that epoch (commit, advertise, applyHostTransferToMember).
THEOREM MembersFollow == Spec => []MembersFollowActive
  <1>1. Init => CertificatesTrue /\ MembersFollowActive
    BY DEF Init, CertificatesTrue, MembersFollowActive
  <1>2. AgreementInv /\ (CertificatesTrue /\ MembersFollowActive) /\ [Next]_vars
          => (CertificatesTrue /\ MembersFollowActive)'
    BY FollowStep
  <1> QED
    BY <1>1, <1>2, AgreementInvariant, PTL DEF Spec

-----------------------------------------------------------------------------
(* The refinement.                                                         *)

\* The three columns the abstract handoff sees of g are as they were.
Still(g) == sPhase'[g] = sPhase[g] /\ intent'[g] = intent[g] /\ tPhase'[g] = tPhase[g]

\* What one abstract step does with h.
AbstractStep(h) ==
    LET out == OutcomeOf(h)'
        bel == BeliefOf(h)'
        same == intent'[h] = intent[h]
    IN  \/ same /\ out = OutcomeOf(h) /\ bel = BeliefOf(h)
        \/ BeliefOf(h) = "open" /\ intent'[h] = TRUE /\ out = OutcomeOf(h) /\ bel = "open"
        \/ same /\ intent[h] /\ OutcomeOf(h) = "undecided" /\ out = "moved" /\ bel = BeliefOf(h)
        \/ same /\ OutcomeOf(h) = "undecided" /\ out = "returned" /\ bel = BeliefOf(h)
        \/ same /\ ~intent[h] /\ out = "returned" /\ bel = "returned"
        \/ same /\ OutcomeOf(h) # "undecided" /\ out = OutcomeOf(h) /\ bel = OutcomeOf(h)
        \/ same /\ intent[h] /\ out = OutcomeOf(h) /\ bel = "open"

\* Outcome and belief as functions of the three columns.
OutcomeFrom(s, i, t) ==
    IF t = "active" THEN "moved" ELSE IF t = "discarded" \/ (s = "aborted" /\ ~i) THEN "returned" ELSE "undecided"
BeliefFrom(s) == IF s = "committed" THEN "moved" ELSE IF s = "aborted" THEN "returned" ELSE "open"

\* What the invariant says of them.
Columns(s, i, t) ==
    /\ i \in BOOLEAN
    /\ s = "committed" => t = "active"
    /\ s = "aborted" /\ i => t = "discarded"
    /\ t = "active" => i
    /\ s \in {"activating", "committed"} => i

AbstractColumns(s, i, t, s2, i2, t2) ==
    LET o == OutcomeFrom(s, i, t)
        o2 == OutcomeFrom(s2, i2, t2)
        b == BeliefFrom(s)
        b2 == BeliefFrom(s2)
        same == i2 = i
    IN  \/ same /\ o2 = o /\ b2 = b
        \/ b = "open" /\ i2 = TRUE /\ o2 = o /\ b2 = "open"
        \/ same /\ i /\ o = "undecided" /\ o2 = "moved" /\ b2 = b
        \/ same /\ o = "undecided" /\ o2 = "returned" /\ b2 = b
        \/ same /\ ~i /\ o2 = "returned" /\ b2 = "returned"
        \/ same /\ o # "undecided" /\ o2 = o /\ b2 = o
        \/ same /\ i /\ o2 = o /\ b2 = "open"

\* The source moves: the intent may be journalled, and an abort without it stands.
LEMMA SourceColumns ==
    ASSUME NEW s, NEW i, NEW t, NEW s2, NEW i2, Columns(s, i, t), Columns(s2, i2, t),
           i2 = i \/ (i2 = TRUE /\ s \notin {"committed", "aborted"} /\ s2 = "activating"),
           s = "aborted" /\ ~i => s2 = "aborted"
    PROVE  AbstractColumns(s, i, t, s2, i2, t)
  BY DEF Columns, AbstractColumns, OutcomeFrom, BeliefFrom

\* The target moves: a final record stands.
LEMMA TargetColumns ==
    ASSUME NEW s, NEW i, NEW t, NEW t2, Columns(s, i, t), Columns(s, i, t2),
           t \in {"active", "discarded"} => t2 = t
    PROVE  AbstractColumns(s, i, t, s, i, t2)
  BY DEF Columns, AbstractColumns, OutcomeFrom, BeliefFrom

\* With the invariant on both sides of it, a step of either side of h is an abstract step of h.
LEMMA LocalStep ==
    ASSUME NEW h \in Handoffs, HandoffInv(h), HandoffInv(h)', intent[h] \in BOOLEAN,
           SourceLocal(h) \/ TargetLocal(h)
    PROVE  AbstractStep(h)
  <1>1. Columns(sPhase[h], intent[h], tPhase[h])
    BY DEF HandoffInv, IntentFirst, ConclusionTrue, Columns
  <1>2. Columns(sPhase'[h], intent'[h], tPhase'[h])
    <2>1. intent'[h] \in BOOLEAN
      BY DEF SourceLocal, TargetLocal
    <2> QED
      BY <2>1 DEF HandoffInv, IntentFirst, ConclusionTrue, Columns
  <1>3. AbstractColumns(sPhase[h], intent[h], tPhase[h], sPhase'[h], intent'[h], tPhase'[h])
    <2>1. CASE SourceLocal(h)
      BY <1>1, <1>2, <2>1, SourceColumns DEF SourceLocal, SourceTerminal
    <2>2. CASE TargetLocal(h)
      BY <1>1, <1>2, <2>2, TargetColumns DEF TargetLocal, TargetTerminal
    <2> QED
      BY <2>1, <2>2
  <1>4. /\ OutcomeOf(h) = OutcomeFrom(sPhase[h], intent[h], tPhase[h])
        /\ OutcomeOf(h)' = OutcomeFrom(sPhase'[h], intent'[h], tPhase'[h])
        /\ BeliefOf(h) = BeliefFrom(sPhase[h]) /\ BeliefOf(h)' = BeliefFrom(sPhase'[h])
    BY DEF OutcomeOf, OutcomeFrom, BeliefOf, BeliefFrom
  <1> QED
    BY ONLY <1>3, <1>4 DEF AbstractStep, AbstractColumns

\* An abstract step of h while the other handoffs stand still is a step of HandoffOutcome.
LEMMA Lift ==
    ASSUME NEW h \in Handoffs, AbstractStep(h), \A g \in Handoffs : g # h => Still(g),
           intent \in [Handoffs -> BOOLEAN], intent' \in [Handoffs -> BOOLEAN]
    PROVE  Outcome!Next \/ UNCHANGED Outcome!vars
  <1>1. \A g \in Handoffs : g # h => /\ outcomeMap'[g] = outcomeMap[g]
                                     /\ beliefMap'[g] = beliefMap[g]
                                     /\ intent'[g] = intent[g]
    BY DEF Still, outcomeMap, beliefMap, OutcomeOf, BeliefOf
  <1>2. /\ outcomeMap[h] = OutcomeOf(h) /\ outcomeMap'[h] = OutcomeOf(h)'
        /\ beliefMap[h] = BeliefOf(h) /\ beliefMap'[h] = BeliefOf(h)'
    BY DEF outcomeMap, beliefMap
  <1>3. /\ DOMAIN outcomeMap = Handoffs /\ DOMAIN outcomeMap' = Handoffs
        /\ DOMAIN beliefMap = Handoffs /\ DOMAIN beliefMap' = Handoffs
        /\ outcomeMap = [g \in Handoffs |-> outcomeMap[g]]
        /\ outcomeMap' = [g \in Handoffs |-> outcomeMap'[g]]
        /\ beliefMap = [g \in Handoffs |-> beliefMap[g]]
        /\ beliefMap' = [g \in Handoffs |-> beliefMap'[g]]
    BY DEF outcomeMap, beliefMap
  <1> HIDE DEF outcomeMap, beliefMap
  <1>4. \A v : outcomeMap'[h] = v => outcomeMap' = [outcomeMap EXCEPT ![h] = v]
    BY <1>1, <1>3
  <1>5. \A v : beliefMap'[h] = v => beliefMap' = [beliefMap EXCEPT ![h] = v]
    BY <1>1, <1>3
  <1>6. /\ outcomeMap'[h] = outcomeMap[h] => outcomeMap' = outcomeMap
        /\ beliefMap'[h] = beliefMap[h] => beliefMap' = beliefMap
        /\ intent'[h] = intent[h] => intent' = intent
        /\ intent'[h] = TRUE => intent' = [intent EXCEPT ![h] = TRUE]
    BY <1>1, <1>3
  <1> QED
    BY <1>2, <1>4, <1>5, <1>6, SMTT(30) DEF AbstractStep, Outcome!Next, Outcome!vars, Outcome!Offer,
       Outcome!Move, Outcome!Decline, Outcome!Withdraw, Outcome!Learn, Outcome!Doubt

\* Launches, adoption by a member and a crash touch no journal column the outcome depends on.
LEMMA DaemonStill ==
    ASSUME NEW d \in Daemons, DaemonStep(d)
    PROVE  UNCHANGED Outcome!vars
  <1>1. UNCHANGED <<sPhase, intent, tPhase>>
    BY Zenon DEF DaemonStep, LaunchBegin, LaunchEnd, Crash, Adopt
  <1> QED
    BY <1>1 DEF Outcome!vars, outcomeMap, beliefMap, OutcomeOf, BeliefOf

\* Every step of the two engines is an abstract step or changes nothing the outcome depends on.
LEMMA OutcomeStep ==
    ASSUME AgreementInv, AgreementInv', [Next]_vars
    PROVE  [Outcome!Next]_(Outcome!vars)
  <1>1. Domains
    BY ONLY AgreementInv, TypesGiveDomains DEF AgreementInv
  <1>2. /\ \A h \in Handoffs : HandoffInv(h)
        /\ \A h \in Handoffs : HandoffInv(h)'
    BY ONLY AgreementInv, AgreementInv', Zenon DEF AgreementInv
  <1>3. intent \in [Handoffs -> BOOLEAN] /\ intent' \in [Handoffs -> BOOLEAN]
    BY ONLY AgreementInv, AgreementInv' DEF AgreementInv, TypeOK, SourceTypes, PerHandoff
  <1>4. CASE UNCHANGED vars
    BY ONLY <1>4 DEF vars, source, target, sJournal, tJournal, Outcome!vars, outcomeMap,
            beliefMap, OutcomeOf, BeliefOf
  <1>5. ASSUME NEW d \in Daemons, DaemonStep(d) PROVE UNCHANGED Outcome!vars
    BY ONLY <1>5, DaemonStill
  <1>6. ASSUME NEW h \in Handoffs,
               SourceStart(h) \/ SourceTransfer(h) \/ SourceFinish(h) \/ TargetStep(h)
        PROVE  Outcome!Next \/ UNCHANGED Outcome!vars
    <2>1. SourceLocal(h) \/ TargetLocal(h)
      BY ONLY <1>1, <1>2, <1>6, SourceStartOwn, SourceTransferOwn, SourceFinishOwn, TargetOwn
    <2>2. \A g \in Handoffs : g # h => Still(g)
      <3> SUFFICES ASSUME NEW g \in Handoffs, g # h PROVE Still(g)
        OBVIOUS
      <3>1. Same(g)
        BY ONLY <1>1, <1>6, g \in Handoffs, g # h, SourceStartFrame, SourceTransferFrame,
                SourceFinishFrame, TargetFrame
      <3> QED
        BY ONLY <3>1 DEF Same, Still
    <2>3. AbstractStep(h)
      BY ONLY <1>2, <1>3, <1>6, <2>1, LocalStep
    <2> QED
      BY ONLY <1>3, <1>6, <2>2, <2>3, Lift
  <1> QED
    BY ONLY [Next]_vars, <1>4, <1>5, <1>6, Zenon DEF Next

\* The host handoff implements the abstract handoff: one outcome, decided by the target's record
\* once activate may have been sent, never reversed, and nothing else concluded by the source
\* (commit, abortInternal, activate, discard, probe, resume).
THEOREM ImplementsOutcome == Spec => OneOutcome
  <1>1. Init => Outcome!Init
    BY DEF Init, Outcome!Init, outcomeMap, beliefMap, OutcomeOf, BeliefOf
  <1>2. AgreementInv /\ AgreementInv' /\ [Next]_vars => [Outcome!Next]_(Outcome!vars)
    BY OutcomeStep
  <1> QED
    BY <1>1, <1>2, AgreementInvariant, PTL DEF Spec, OneOutcome, Outcome!Spec
=============================================================================
