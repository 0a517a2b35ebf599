------------------------------ MODULE TurnGuards ------------------------------
(***************************************************************************)
(* Turn attempts, the lanes and admission of evidence about them, and the  *)
(* guards of the transition table (turn-ledger/reducer.ts, admission.ts).  *)
(*                                                                         *)
(* Time is abstracted.  A hold is a timer that is set or not; "after the   *)
(* weak end", "past the deadline", "probe begun after the hold" are fields *)
(* of the evidence, whose values the environment chooses.  A report        *)
(* carries whether it was filed after the stop of its writer began.        *)
(***************************************************************************)
EXTENDS TurnRules, Integers

CONSTANTS
    ReclaimBudget,          \* RECLAIM_BUDGET
    MaxRedrives,            \* MAX_REDRIVES_PER_GENERATION
    FailStreakLimit,        \* LIVENESS_FAIL_STREAK_LIMIT
    MaxTaskRetries,         \* attempt.maxTaskRetries
    MaxDeferrals,           \* MAX_UNCONFIRMED_END_DEFERRALS
    MaxReminders,           \* MAX_SUSPENSION_REMINDERS
    WriterStopMaxTries      \* WRITER_STOP_MAX_TRIES

NoGen == -1
NoKey == "none"
NoSession == "none"

NoReport == [gen |-> NoGen, outcome |-> "none", duringStop |-> FALSE]
NoSuspension == [gen |-> NoGen, key |-> NoKey, setup |-> FALSE, open |-> FALSE, reminders |-> 0]
NoTerminal == [outcome |-> "none", strength |-> "none", source |-> "none", reason |-> "none"]
NoPending == [outcome |-> "none", strength |-> "none", source |-> "none", adopt |-> NoSession]
NoStop == [reason |-> "none", tries |-> 0, escalated |-> FALSE, confirmed |-> FALSE, terminal |-> NoPending]

\* A fresh attempt.  "suspended" is attempt.suspension, "susp" data.providerSuspension, "weak" weakSince,
\* "fresh" a liveness observation begun after the current end hold, "cut" livenessSessionCut.
NewAttempt(scope, sess) ==
    [ scope |-> scope, session |-> sess, gen |-> 0, prev |-> NoSession, state |-> A,
      suspended |-> FALSE, susp |-> NoSuspension, redrives |-> 0, reclaims |-> 0, hollow |-> 0,
      streak |-> 0, liveness |-> "none", fresh |-> FALSE, cut |-> NoGen, weak |-> FALSE, deferrals |-> 0,
      candidateGen |-> NoGen, stallTold |-> FALSE, report |-> NoReport, correction |-> NoGen,
      stop |-> NoStop, terminal |-> NoTerminal, notified |-> FALSE ]

NoAttempt == [NewAttempt("none", NoSession) EXCEPT !.state = NoState]

IsMeshScope(a) == a.scope # "plain"
IsOpen(a) == a.state \notin Terminal \cup {NoState}
HasStop(a) == a.stop.tries > 0

(***************************************************************************)
(* Lanes.                                                                  *)
(***************************************************************************)
SessionProducedKinds ==
    { "turn_started", "suspension", "suspension_resolved", "turn_end", "transcript_final",
      "transcript_activity", "no_progress", "process_exit", "session_error", "worker_report",
      "worker_progress", "liveness" }

\* The lane of a piece of evidence and the generation it is about.  Lane "rejected" is the session mismatch.
ClassifyLane(a, ev) ==
    LET In(lane, gen) == [lane |-> lane, gen |-> gen] IN
    CASE a.state = NoState -> In("none", NoGen)
      [] a.state # NoState /\ ev.kind = "hold_expired" ->
            IF ev.gen \notin {NoGen, a.gen} THEN In("stale", ev.gen) ELSE In("current", a.gen)
      [] a.state # NoState /\ ev.kind # "hold_expired" ->
            CASE ev.kind = "liveness" /\ ev.age = "precut" /\ a.cut = a.gen /\ ev.gen \in {NoGen, a.gen} ->
                    In("rejected", NoGen)
              [] OTHER ->
                    IF ev.gen \notin {NoGen, a.gen} THEN In("stale", ev.gen)
                    ELSE IF ev.kind \notin SessionProducedKinds \/ ev.sess = a.session THEN In("current", a.gen)
                    ELSE IF ev.gen = NoGen /\ a.prev # NoSession /\ ev.sess = a.prev THEN In("stale", a.gen - 1)
                    ELSE In("rejected", NoGen)

(***************************************************************************)
(* Admission (admission.ts): what an end signal is worth.  The verdict on  *)
(* the signal's content is its class; live state at the worker ("pending": *)
(* a modal, a busy adapter or a trailing tool call; "growing": the         *)
(* transcript still moves) holds it back first.  A turn_end is never       *)
(* declined.                                                               *)
(***************************************************************************)
EndClasses == {"genuine", "genuine_report_expected", "weak", "weak_after_timeout", "hollow", "failure"}
FinalClasses == {"native_marker", "self_attributing", "shape", "declined"}

Admission(ev) ==
    CASE ev.kind = "turn_end" ->
            IF ev.live # "clear" THEN "hold" ELSE IF ev.class \in {"weak", "weak_after_timeout"} THEN "weak" ELSE "strong"
      [] ev.kind = "transcript_final" ->
            CASE ev.live = "pending" -> "hold"
              [] ev.live # "pending" /\ ev.class \in {"native_marker", "self_attributing"} -> "strong"
              [] ev.live # "pending" /\ ev.class = "declined" -> "decline"
              [] ev.live # "pending" /\ ev.class = "shape" -> IF ev.live = "growing" THEN "hold" ELSE "weak"
      [] OTHER -> "none"

AdmissionHold(ev) == IF ev.live = "pending" THEN "live_pending" ELSE "transcript_quiet"

(***************************************************************************)
(* Guards.  c = [a, h, ev, gen]: the attempt, its holds, the evidence and  *)
(* the generation the evidence is about.  The holds of an attempt are a    *)
(* function from the reasons that are held to what the hold remembers.     *)
(***************************************************************************)
Reported(c) == c.a.report.gen = c.a.gen
AwaitReportHeld(c) == "await_report" \in DOMAIN c.h
NotHeld(c) == Admission(c.ev) # "hold"
HoldIs(c, reasons) == c.ev.kind = "hold_expired" /\ c.ev.reason \in reasons \cap DOMAIN c.h
AfterWeakSince(c) == c.a.weak /\ c.ev.after

IsEnd(c, classes) == c.ev.kind = "turn_end" /\ c.ev.class \in classes
ReportAwaitedEnd(c) == IsEnd(c, {"genuine_report_expected"}) /\ IsMeshScope(c.a)
\* Mutants: a genuine, or a weak, end does not look at the recorded report.
EndGenuineIgnoresReport(c) ==
    IsEnd(c, {"genuine", "genuine_report_expected"}) /\ ~ReportAwaitedEnd(c) /\ NotHeld(c)
EndWeakIgnoresReport(c) == IsEnd(c, {"weak"}) /\ NotHeld(c)

EndGenuine(c) ==
    IsEnd(c, {"genuine", "genuine_report_expected"}) /\ ~ReportAwaitedEnd(c) /\ NotHeld(c) /\ ~Reported(c)
EndWeak(c) == IsEnd(c, {"weak"}) /\ NotHeld(c) /\ ~Reported(c)
EndHollow(c) == IsEnd(c, {"hollow"}) /\ NotHeld(c) /\ ~Reported(c)

IsFinal(c, admission) == c.ev.kind = "transcript_final" /\ Admission(c.ev) = admission
FinalWeak(c) == IsFinal(c, "weak") /\ ~Reported(c)
OwnerScrapedMeshFinal(c) == c.ev.kind = "transcript_final" /\ c.ev.owner /\ IsMeshScope(c.a)
OwnerProbedQueueNativeCompletion(c) ==
    IsFinal(c, "strong") /\ c.ev.class = "native_marker" /\ c.ev.owner /\ c.a.scope = "mesh_queue"
\* Mutant: a strong final does not look at the recorded report.
FinalStrongIgnoresReport(c) == IsFinal(c, "strong") /\ ~OwnerProbedQueueNativeCompletion(c)

FinalStrong(c) == IsFinal(c, "strong") /\ ~OwnerProbedQueueNativeCompletion(c) /\ ~Reported(c)

FinishedAfterReport(c) ==
    /\ Reported(c)
    /\ \/ c.ev.kind \in {"turn_end", "transcript_final"} /\ Admission(c.ev) \in {"strong", "weak", "decline"}
       \/ c.ev.kind = "no_progress" /\ c.ev.final

ExitAfterReport(c) ==
    c.ev.kind = "process_exit" /\ ~c.ev.failure /\ Reported(c) /\ "await_end" \in DOMAIN c.h

CorrectionPending(c) == c.a.correction = c.a.gen /\ ~Reported(c)
FreshEndProbe(c) == c.a.fresh /\ c.ev.recent
FreshAlive(c) == FreshEndProbe(c) /\ c.a.liveness = "alive"
NativeProbeHold(c) == HoldIs(c, {"await_report"}) /\ c.h["await_report"]
QueueReportMissing(c) == c.a.scope = "mesh_queue" /\ HoldIs(c, {"await_report"}) /\ ~Reported(c)
EndTimer(c) ==
    /\ HoldIs(c, {"weak_candidate", "await_report"})
    /\ c.a.scope # "mesh_direct" /\ ~NativeProbeHold(c) /\ ~CorrectionPending(c) /\ ~QueueReportMissing(c)

SettleIdleReportOwed(c) ==
    /\ c.ev.kind = "operator_status" /\ c.ev.settle
    /\ c.a.scope = "mesh_queue" /\ c.a.state = F /\ ~HasStop(c.a) /\ ~Reported(c)

PrevGenerationCompletion(c) ==
    /\ c.a.prev # NoSession /\ c.gen = c.a.gen - 1 /\ c.ev.sess = c.a.prev
    /\ \/ c.ev.kind = "worker_report"
       \/ IsEnd(c, {"genuine", "genuine_report_expected"})
       \/ IsFinal(c, "strong") /\ ~OwnerProbedQueueNativeCompletion(c)

HeldProviderSetup(c) ==
    /\ c.a.susp.setup /\ c.a.susp.gen = c.a.gen /\ c.a.susp.open
    /\ ~(c.ev.kind = "suspension_resolved" /\ c.ev.key \notin {NoKey, c.a.susp.key})

ActivityKeepsState(c) ==
    CASE c.ev.kind = "liveness" -> c.ev.result = "alive"
      [] c.ev.kind = "transcript_activity" -> c.a.state \in {C, G} \/ (c.a.state = F /\ ~AfterWeakSince(c))
      [] c.ev.kind = "turn_started" -> c.a.state = G \/ (c.a.state = F /\ ~AfterWeakSince(c))
      [] OTHER -> FALSE

LivenessIs(c, results) == c.ev.kind = "liveness" /\ c.ev.result \in results

GuardOfEnd(g, c) ==
    CASE g = "end_genuine" -> EndGenuine(c)
      [] g = "end_report_awaited" -> ReportAwaitedEnd(c) /\ NotHeld(c) /\ ~AwaitReportHeld(c) /\ ~Reported(c)
      [] g = "end_report_awaited_held" -> ReportAwaitedEnd(c) /\ NotHeld(c) /\ AwaitReportHeld(c) /\ ~Reported(c)
      [] g = "final_strong_report_awaited" -> IsFinal(c, "strong") /\ AwaitReportHeld(c) /\ ~Reported(c)
      [] g = "finished_after_report" -> FinishedAfterReport(c)
      [] g = "end_provider_failure" -> IsEnd(c, {"failure"}) /\ NotHeld(c) /\ ~Reported(c)
      [] g = "false_idle_resumed" -> AfterWeakSince(c) /\ AwaitReportHeld(c)
      [] g = "end_weak" -> EndWeak(c)
      [] g = "end_weak_after_timeout" -> IsEnd(c, {"weak_after_timeout"}) /\ NotHeld(c) /\ ~Reported(c)
      [] g = "hollow_retry" -> EndHollow(c) /\ c.a.hollow < MaxTaskRetries
      [] g = "hollow_exhausted" -> EndHollow(c) /\ c.a.hollow >= MaxTaskRetries
      [] g = "final_strong" -> FinalStrong(c)
      [] g = "final_weak" -> FinalWeak(c) /\ ~OwnerScrapedMeshFinal(c)
      [] g = "final_weak_probe" ->
            ~Reported(c) /\ ((FinalWeak(c) /\ OwnerScrapedMeshFinal(c)) \/ OwnerProbedQueueNativeCompletion(c))
      [] g = "genuine_end_or_strong_final" -> EndGenuine(c) \/ (FinalStrong(c) /\ ~AwaitReportHeld(c))
      [] g = "weak_end_or_final" ->
            EndWeak(c) \/ FinalWeak(c) \/ (OwnerProbedQueueNativeCompletion(c) /\ ~AwaitReportHeld(c))
      [] g = "admission_hold" -> Admission(c.ev) = "hold"
      [] g = "admission_decline" -> Admission(c.ev) = "decline" /\ ~Reported(c)
      [] g = "after_weak_since" -> AfterWeakSince(c) /\ ~AwaitReportHeld(c)

GuardOfSession(g, c) ==
    CASE g = "unbound" -> c.ev.gen = NoGen
      [] g = "bound" -> c.ev.gen # NoGen
      [] g = "prev_generation_completion" -> PrevGenerationCompletion(c)
      [] g = "stale_session_distinct" -> c.ev.sess # c.a.session
      [] g = "reclaiming_refusal" -> c.ev.reclaiming
      [] g = "stale_modal_resolution" ->
            c.ev.key # NoKey /\ c.a.susp.key # NoKey /\ c.ev.key # c.a.susp.key
      [] g = "held_provider_setup" -> HeldProviderSetup(c)
      [] g = "confirmed_provider_setup" -> c.ev.setup /\ c.ev.key # NoKey
      [] g = "suspension_changed" -> c.ev.key \notin {NoKey, c.a.susp.key}
      [] g = "activity_keeps_state" -> ActivityKeepsState(c)
      [] g = "liveness_unknown" -> LivenessIs(c, {"unknown"})
      [] g = "liveness_fatal" ->
            LivenessIs(c, {"dead"}) \/ (LivenessIs(c, {"read_failed"}) /\ c.a.streak + 1 >= FailStreakLimit)
      [] g = "liveness_failed_nonfatal" -> LivenessIs(c, {"read_failed"}) /\ c.a.streak + 1 < FailStreakLimit
      [] g = "reported_terminal" -> c.a.terminal.strength = "tool_report"
      [] g = "provider_failure" -> c.ev.failure
      [] g = "no_provider_failure" -> ~c.ev.failure /\ ~ExitAfterReport(c)
      [] g = "exit_after_report" -> ExitAfterReport(c)
      [] g = "holder_is_this_attempt" -> c.ev.mine
      [] g = "parked_suspension_observation" ->
            c.ev.status = "waiting" /\ c.a.suspended /\ c.a.susp.gen = c.a.gen /\ c.a.susp.open
      [] g = "final_present" -> c.ev.final /\ ~Reported(c)
      [] g = "settle_idle_report_owed" -> SettleIdleReportOwed(c)

GuardOfExpiry(g, c) ==
    CASE g = "hold_await_delivery" -> HoldIs(c, {"await_delivery"})
      [] g = "hold_await_consume_redrive" -> HoldIs(c, {"await_consume"}) /\ c.a.redrives < MaxRedrives
      [] g = "hold_await_consume_exhausted" -> HoldIs(c, {"await_consume"}) /\ c.a.redrives >= MaxRedrives
      [] g = "hold_await_turn" -> HoldIs(c, {"await_turn"})
      [] g = "hold_liveness" -> HoldIs(c, {"liveness"})
      [] g = "hold_hard_ceiling" -> HoldIs(c, {"hard_ceiling"})
      [] g = "hold_suspension_before_consumed" -> HoldIs(c, {"suspension_before_consumed"})
      [] g = "hold_admission" -> HoldIs(c, {"live_pending", "transcript_quiet"})
      [] g = "hold_direct_report_missing" ->
            /\ c.a.scope = "mesh_direct" /\ HoldIs(c, {"weak_candidate", "await_report"})
            /\ ~CorrectionPending(c) /\ ~Reported(c)
      [] g = "hold_weak_candidate" ->
            /\ HoldIs(c, {"weak_candidate"}) /\ c.a.scope # "mesh_direct"
            /\ ~CorrectionPending(c) /\ FreshAlive(c)
      [] g = "hold_queue_report_missing" -> QueueReportMissing(c) /\ ~NativeProbeHold(c) /\ ~CorrectionPending(c)
      [] g = "hold_await_report" -> HoldIs(c, {"await_report"}) /\ EndTimer(c) /\ FreshAlive(c)
      [] g = "hold_native_probe_report_only" ->
            c.a.scope # "mesh_direct" /\ NativeProbeHold(c) /\ ~CorrectionPending(c) /\ ~Reported(c)
      [] g = "hold_end_unconfirmed_defer" -> EndTimer(c) /\ ~FreshAlive(c) /\ c.a.deferrals < MaxDeferrals
      [] g = "hold_end_unconfirmed_exhausted" ->
            EndTimer(c) /\ ~FreshAlive(c) /\ c.a.deferrals >= MaxDeferrals /\ FreshEndProbe(c)
      [] g = "hold_end_probe_missing" -> EndTimer(c) /\ ~FreshEndProbe(c) /\ c.a.deferrals >= MaxDeferrals
      [] g = "hold_report_correction" -> HoldIs(c, {"report_correction"}) /\ ~Reported(c)
      [] g = "hold_await_end" -> HoldIs(c, {"await_end"}) /\ Reported(c)

EndGuards == { "end_genuine", "end_report_awaited", "end_report_awaited_held", "final_strong_report_awaited",
               "finished_after_report", "end_provider_failure", "false_idle_resumed", "end_weak",
               "end_weak_after_timeout", "hollow_retry", "hollow_exhausted", "final_strong", "final_weak",
               "final_weak_probe", "genuine_end_or_strong_final", "weak_end_or_final", "admission_hold",
               "admission_decline", "after_weak_since" }

Guard(g, c) ==
    CASE g = "always" -> TRUE
      [] g \in EndGuards -> GuardOfEnd(g, c)
      [] g \notin EndGuards \cup {"always"} /\ c.ev.kind = "hold_expired" -> GuardOfExpiry(g, c)
      [] g \notin EndGuards \cup {"always"} /\ c.ev.kind # "hold_expired" -> GuardOfSession(g, c)

\* Every rule that matches: the guarded ones first, the "otherwise" rules only when none of those does.
OrOtherwise(specific, candidates) ==
    IF specific # << >> THEN specific ELSE SelectSeq(candidates, LAMBDA rule: rule.guard = "otherwise")

MatchingRules(c, lane) ==
    LET candidates == LaneCandidates[lane, c.a.state, c.ev.kind] IN
    OrOtherwise(SelectSeq(candidates, LAMBDA rule: rule.guard # "otherwise" /\ Guard(rule.guard, c)), candidates)
=============================================================================
