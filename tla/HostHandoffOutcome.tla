------------------------- MODULE HostHandoffOutcome -------------------------
(***************************************************************************)
(* HostHandoff implements HandoffOutcome, and a handoff comes to an end.   *)
(***************************************************************************)
EXTENDS HostHandoffInv

\* The target's final record decides; before the commit intent the source's abort does too.
OutcomeOf(h) ==
    IF tPhase[h] = "active" THEN "moved"
    ELSE IF tPhase[h] = "discarded" \/ (sPhase[h] = "aborted" /\ ~intent[h]) THEN "returned"
    ELSE "undecided"

BeliefOf(h) ==
    IF sPhase[h] = "committed" THEN "moved"
    ELSE IF sPhase[h] = "aborted" THEN "returned"
    ELSE "open"

outcomeMap == [h \in Handoffs |-> OutcomeOf(h)]
beliefMap == [h \in Handoffs |-> BeliefOf(h)]

Outcome == INSTANCE HandoffOutcome
              WITH offered <- intent, outcome <- outcomeMap, belief <- beliefMap

\* Every behaviour of the two engines is one of the abstract handoff: one outcome per handoff,
\* never reversed, and a source (commit, abortInternal) that concludes only that outcome, however
\* late or repeated the answers are that it concludes from and wherever a daemon dies.
OneOutcome == Outcome!Spec

-----------------------------------------------------------------------------
(* Fairness.  A stretch of durable writes runs to its end unless the       *)
(* process dies.  A started daemon resumes its records, tick asks about an *)
(* activation without an answer again and again, not every status call is *)
(* lost before the target answers it, every call ends (timeout), and not   *)
(* every final answer is lost.  Nothing is assumed of the success of       *)
(* activate, of the readiness checks, of the owner, or of the transfer.    *)

SourceStretch(h) ==
    \/ StartHold(h) \/ FreezeCheck(h) \/ FenceSource(h) \/ Certify(h) \/ MoveExporting(h)
    \/ Export(h) \/ Send(h) \/ ActivateSend(h) \/ CommitJournal(h) \/ CommitUnfence(h)
    \/ AbortUnfence(h) \/ AbortJournal(h)

TargetStretch(h) ==
    \/ TVerified(h) \/ TApply(h) \/ TRollback(h) \/ TTombstone(h) \/ TAdopt(h) \/ TUnfence(h)

\* The status call returns the target's final record to the source.
FinalAnswer(h, p) ==
    /\ probe[h][p].rep \in TargetTerminal
    /\ ProbeReply(h, p)
    /\ sStep' # sStep

Fairness ==
    \A h \in Handoffs :
        /\ WF_vars(SourceStretch(h)) /\ WF_vars(TargetStretch(h))
        /\ WF_vars(Resume(h)) /\ WF_vars(ActivateReply(h))
        /\ \A p \in Probers : /\ WF_vars(Probe(h, p)) /\ SF_vars(TStatus(h, p))
                              /\ WF_vars(ProbeReply(h, p)) /\ SF_vars(FinalAnswer(h, p))

FairSpec == Spec /\ Fairness

\* Once activate was sent and the target's record is final, the source reaches that conclusion
\* and keeps it (tick, probe, commit, abortInternal, resume): crashes, lost answers and the late
\* end of the activate call, which reopens a finished record, only delay it.
SourceConcludes ==
    \A h \in Handoffs :
        intent[h] /\ tPhase[h] \in TargetTerminal ~> [](sPhase[h] \in SourceTerminal)
=============================================================================
