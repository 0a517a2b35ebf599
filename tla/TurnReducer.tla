----------------------------- MODULE TurnReducer -----------------------------
(***************************************************************************)
(* The pure reducer of the turn ledger (turn-ledger/reducer.ts): from a    *)
(* turn attempt, its holds and one piece of evidence to the next attempt,  *)
(* its holds and the effects the ledger has to apply.                      *)
(*                                                                         *)
(* A draft d has the attempt (a), its holds (h) and the effects (fx) built *)
(* so far, the evidence (ev), the generation it is about (gen), the holds  *)
(* before the step (was) and whether a commit ran (done), after which the  *)
(* remaining templates of the rule are skipped.                            *)
(***************************************************************************)
EXTENDS TurnGuards, SequencesExt

NoEffects == [ queue |-> "none", stop |-> FALSE, cancel |-> {}, notices |-> {}, redeliver |-> FALSE,
               probe |-> FALSE, reevaluate |-> << >> ]

NoHolds == [reason \in {} |-> {}]

Draft(a, h, ev, gen) == [a |-> a, h |-> h, was |-> h, ev |-> ev, gen |-> gen, fx |-> NoEffects, done |-> FALSE]

AddHold(d, reason, memo) ==
    [d EXCEPT !.h = [r \in DOMAIN @ \cup {reason} |-> IF r = reason THEN memo ELSE @[r]]]
ReleaseHolds(d, reasons) == [d EXCEPT !.h = [r \in DOMAIN @ \ reasons |-> @[r]]]
ReleaseAllBut(d, keep) == [d EXCEPT !.h = [r \in DOMAIN @ \cap keep |-> @[r]]]

NotifyCoordinator(d, notice) ==
    IF IsMeshScope(d.a) THEN [d EXCEPT !.fx.notices = @ \cup {[notice |-> notice, gen |-> d.a.gen]}] ELSE d

SourceOf(ev) ==
    CASE ev.kind = "hold_expired" -> "scheduler"
      [] ev.kind \in {"cancel", "operator_status"} -> ev.source
      [] OTHER -> "worker"

(***************************************************************************)
(* Stopping a writer, committing an outcome, reclaiming a generation.      *)
(***************************************************************************)
RequestWriterStop(d) == AddHold([d EXCEPT !.fx.stop = TRUE], "liveness", "none")

BeginWriterStop(d, reason) ==
    IF HasStop(d.a) THEN d
    ELSE RequestWriterStop(
            ReleaseAllBut([d EXCEPT !.a.state = "stopping", !.a.stop = [NoStop EXCEPT !.reason = reason, !.tries = 1]],
                          IF reason = "hard_ceiling" THEN {} ELSE {"hard_ceiling"}))

StopsWriterFirst(d, reason) ==
    /\ IsMeshScope(d.a) /\ ~d.a.stop.confirmed /\ ~SettleIdleReportOwed(d)
    /\ reason = "hard_ceiling" \/ d.ev.kind \in {"cancel", "operator_status", "session_error", "process_exit"}

CommitOutcome(d, outcome, strength, reason) ==
    IF StopsWriterFirst(d, reason)
    THEN [BeginWriterStop(d, reason) EXCEPT !.a.stop.terminal =
             [outcome |-> outcome, strength |-> strength, source |-> SourceOf(d.ev), adopt |-> NoSession]]
    ELSE LET attemptOnly == reason = "superseded" /\ d.a.scope = "mesh_queue"
             source == IF d.a.stop.terminal.outcome # "none" THEN d.a.stop.terminal.source ELSE SourceOf(d.ev)
             committed ==
                [d EXCEPT !.a.state = outcome, !.a.suspended = FALSE, !.h = NoHolds, !.done = TRUE,
                          !.a.terminal = [outcome |-> outcome, strength |-> strength, source |-> source, reason |-> reason],
                          !.fx.queue = IF ~IsMeshScope(d.a) THEN @
                                       ELSE IF ~attemptOnly THEN outcome
                                       ELSE IF d.a.stop.confirmed THEN "pending" ELSE @] IN
         IF attemptOnly THEN committed ELSE NotifyCoordinator(committed, outcome)

\* The one refusal that proves the worker never saw the prompt: no writer to stop.
ExactDispatchRefusal(d) ==
    /\ d.a.scope = "mesh_direct" /\ d.a.state = A /\ d.a.redrives = 0 /\ d.a.reclaims = 0
    /\ d.a.liveness = "none" /\ ~HasStop(d.a) /\ d.a.report = NoReport
    /\ d.ev.kind = "dispatch_failed" /\ d.ev.gen = d.a.gen /\ d.ev.sess = d.a.session
    /\ ~d.ev.absent /\ d.ev.notStarted

\* Mutant: the reclaim releases every hold, the hard ceiling included.
NextGenerationUnbounded(d) ==
    LET a == [d.a EXCEPT !.prev = d.a.session, !.gen = @ + 1, !.reclaims = @ + 1, !.state = A, !.suspended = FALSE,
                         !.weak = FALSE, !.redrives = 0, !.streak = 0, !.liveness = "none", !.fresh = FALSE,
                         !.deferrals = 0, !.stop = NoStop] IN
    AddHold(ReleaseAllBut([d EXCEPT !.a = a, !.fx.queue = IF d.a.scope = "mesh_queue" THEN "pending" ELSE @], {}),
            "await_delivery", "none")

NextGeneration(d) ==
    LET a == [d.a EXCEPT !.prev = d.a.session, !.gen = @ + 1, !.reclaims = @ + 1, !.state = A, !.suspended = FALSE,
                         !.weak = FALSE, !.redrives = 0, !.streak = 0, !.liveness = "none", !.fresh = FALSE,
                         !.deferrals = 0, !.stop = NoStop] IN
    AddHold(ReleaseAllBut([d EXCEPT !.a = a, !.fx.queue = IF d.a.scope = "mesh_queue" THEN "pending" ELSE @],
                          {"hard_ceiling"}),
            "await_delivery", "none")

\* Mutant: a reclaim does not wait for the stop of the writer.
ReclaimWithoutStop(d, reason) ==
    IF d.a.scope # "mesh_queue" THEN CommitOutcome(d, "failed", "genuine", reason)
    ELSE IF d.a.reclaims >= ReclaimBudget THEN CommitOutcome(d, "failed", "genuine", "reclaim_budget_exhausted")
    ELSE NextGeneration(d)

ReclaimAttempt(d, reason) ==
    CASE d.a.scope = "plain" \/ ExactDispatchRefusal(d) -> CommitOutcome(d, "failed", "genuine", reason)
      [] d.a.scope # "plain" /\ ~ExactDispatchRefusal(d) /\ ~d.a.stop.confirmed -> BeginWriterStop(d, reason)
      [] d.a.scope # "plain" /\ d.a.stop.confirmed ->
            IF d.a.scope = "mesh_direct" THEN CommitOutcome(d, "failed", "genuine", reason)
            ELSE IF d.a.reclaims >= ReclaimBudget THEN CommitOutcome(d, "failed", "genuine", "reclaim_budget_exhausted")
            ELSE NextGeneration(d)

(***************************************************************************)
(* Actions of the effect templates.                                        *)
(***************************************************************************)
BindLivenessSession(d, sess, rebound) ==
    IF rebound \/ sess # d.a.session
    THEN [d EXCEPT !.a.session = sess, !.a.liveness = "none", !.a.streak = 0, !.a.fresh = FALSE, !.a.cut = d.a.gen]
    ELSE d

EndHolds == {"weak_candidate", "await_report"}

\* livenessObservation: it counts for the end timer when the probe began after the end hold was set.
ObserveLiveness(d) ==
    [d EXCEPT !.a.liveness = d.ev.result, !.a.fresh = d.ev.age = "fresh" /\ DOMAIN d.h \cap EndHolds # {}]

\* Mutant: the held modal is applied to the state only.
ApplyHeldSuspensionHalf(d) ==
    IF "suspension_before_consumed" \notin DOMAIN d.h THEN d
    ELSE ReleaseHolds([d EXCEPT !.a.state = S], {"suspension_before_consumed"})

ApplyHeldSuspension(d) ==
    IF "suspension_before_consumed" \notin DOMAIN d.h THEN d
    ELSE LET held == d.h["suspension_before_consumed"] IN
         NotifyCoordinator(
            ReleaseHolds([d EXCEPT !.a.state = S, !.a.suspended = TRUE,
                                   !.a.susp = [gen |-> d.a.gen, key |-> held.key, setup |-> held.setup,
                                               open |-> TRUE, reminders |-> 0]],
                         {"suspension_before_consumed"}), "modal")

OpenReportCorrection(d) ==
    IF d.a.correction = d.a.gen \/ Reported(d) THEN d
    ELSE AddHold([d EXCEPT !.a.correction = d.a.gen], "report_correction", "none")

Action(d, act) ==
    CASE act = "open_dispatch" -> [d EXCEPT !.a = NewAttempt(d.ev.scope, d.ev.sess)]
      [] act = "open_plain" -> [d EXCEPT !.a = NewAttempt("plain", d.ev.sess)]
      [] act \in {"rebind_dispatch", "mark_delivered"} -> BindLivenessSession(d, d.ev.sess, FALSE)
      [] act = "rebind_to_holder" -> BindLivenessSession(d, d.ev.to, FALSE)
      [] act = "rebind" -> BindLivenessSession(d, d.ev.to, TRUE)
      [] act = "consume" -> d
      [] act = "apply_held_suspension" -> ApplyHeldSuspension(d)
      [] act = "suspend" ->
            [d EXCEPT !.a.suspended = TRUE, !.a.weak = FALSE,
                      !.a.susp = [gen |-> d.a.gen, key |-> d.ev.key, setup |-> d.ev.setup, open |-> TRUE, reminders |-> 0]]
      [] act = "resume" ->
            [d EXCEPT !.a.suspended = FALSE, !.a.susp.open = @ /\ d.a.susp.gen # d.a.gen]
      [] act = "resume_by_activity" ->
            [d EXCEPT !.a.suspended = FALSE, !.a.susp.open = @ /\ d.a.susp.gen # d.a.gen, !.a.streak = 0]
      [] act \in {"weak_candidate", "await_report"} -> [d EXCEPT !.a.weak = TRUE, !.a.deferrals = 0]
      [] act = "clear_weak" -> [d EXCEPT !.a.weak = FALSE]
      [] act = "false_idle" -> [d EXCEPT !.a.weak = FALSE, !.a.streak = 0, !.a.deferrals = 0]
      [] act = "activity" ->
            LET e == [d EXCEPT !.a.streak = 0] IN IF d.ev.kind = "liveness" THEN ObserveLiveness(e) ELSE e
      [] act = "liveness_unknown" -> ObserveLiveness(d)
      [] act = "liveness_failure" -> ObserveLiveness([d EXCEPT !.a.streak = @ + 1])
      [] act = "defer_unconfirmed_end" -> [d EXCEPT !.a.deferrals = @ + 1, !.a.fresh = FALSE]
      [] act = "open_report_correction" -> OpenReportCorrection(d)
      [] act = "worker_absent" -> IF d.ev.absent THEN [d EXCEPT !.a.streak = @ + 1] ELSE d
      [] act = "hollow" -> [d EXCEPT !.a.hollow = @ + 1]
      [] act = "mark_notified" -> IF d.a.state \in Terminal THEN [d EXCEPT !.a.notified = TRUE] ELSE d
      [] act = "redrive" -> [d EXCEPT !.a.redrives = @ + 1]
      [] act = "record_report" ->
            [d EXCEPT !.a.report = [gen |-> d.a.gen, outcome |-> d.ev.outcome,
                                    duringStop |-> d.a.state = "stopping" /\ d.ev.late]]

(***************************************************************************)
(* Templates.                                                              *)
(***************************************************************************)
MeshOnlyHolds == Awaits \cup {"hard_ceiling", "await_report", "await_end"}

SetHold(d, reason) ==
    CASE reason = "from_admission" -> AddHold(d, AdmissionHold(d.ev), d.ev)
      [] reason \in MeshOnlyHolds /\ ~IsMeshScope(d.a) -> d
      [] reason = "suspension_before_consumed" -> AddHold(d, reason, [key |-> d.ev.key, setup |-> d.ev.setup])
      [] reason = "await_report" /\ IsMeshScope(d.a) ->
            AddHold([d EXCEPT !.a.fresh = FALSE], reason, OwnerProbedQueueNativeCompletion(d))
      [] reason = "weak_candidate" -> AddHold([d EXCEPT !.a.fresh = FALSE], reason, "none")
      [] OTHER -> AddHold(d, reason, "none")

CommitTemplate(d, t) ==
    LET outcome == CASE t.outcome \in {"from_report", "from_operator"} -> d.ev.outcome
                     [] t.outcome = "from_recorded_report" -> d.a.report.outcome
                     [] OTHER -> t.outcome
        reason == IF t.reason = "from_cancel" THEN d.ev.reason ELSE t.reason IN
    CommitOutcome(d, outcome, t.strength, reason)

NotifyTemplate(d, notice) ==
    CASE notice = "candidate" ->
            IF d.a.candidateGen = d.a.gen THEN d ELSE NotifyCoordinator([d EXCEPT !.a.candidateGen = d.a.gen], notice)
      [] notice = "suspension_reminder" ->
            IF d.a.susp.reminders >= MaxReminders \/ ~d.ev.due THEN d
            ELSE NotifyCoordinator([d EXCEPT !.a.susp.reminders = @ + 1], "modal")
      [] notice = "no_progress" ->
            IF d.a.stallTold \/ ~d.ev.due \/ d.ev.status # "idle" THEN d
            ELSE NotifyCoordinator([d EXCEPT !.a.stallTold = TRUE], notice)
      [] notice = "late_completion" ->
            IF IsMeshScope(d.a) THEN [d EXCEPT !.fx.notices = @ \cup {[notice |-> notice, gen |-> d.gen]}] ELSE d
      [] OTHER -> NotifyCoordinator(d, notice)

\* The outcome, strength and reason with which the work of the previous generation is adopted.
AdoptedTerminal(ev) ==
    IF ev.kind = "worker_report" THEN [outcome |-> ev.outcome, strength |-> "tool_report", reason |-> "worker_reported"]
    ELSE [outcome |-> "completed", strength |-> "genuine", reason |-> ev.kind]

AdoptPrevious(d) ==
    LET adopted == AdoptedTerminal(d.ev) IN
    IF d.a.session # d.a.prev
    THEN [BeginWriterStop(d, adopted.reason) EXCEPT !.a.stop.terminal =
             [outcome |-> adopted.outcome, strength |-> adopted.strength, source |-> SourceOf(d.ev), adopt |-> d.a.prev]]
    ELSE CommitOutcome(d, adopted.outcome, adopted.strength, adopted.reason)

CancelTemplate(d, target) ==
    IF d.ev.kind = "cancel" /\ (IsMeshScope(d.a) \/ d.ev.reason = "intentional_cleanup") THEN d
    ELSE [d EXCEPT !.fx.cancel = @ \cup {IF target = "evidence_session" THEN d.ev.sess ELSE d.a.session}]

ApplyTemplate(d, t) ==
    IF d.done THEN d ELSE
    CASE t.e = "act" -> Action(d, t.x)
      [] t.e = "hold" -> SetHold(d, t.x)
      [] t.e = "release" -> ReleaseHolds(d, t.x)
      [] t.e = "release_expired" -> ReleaseHolds(d, {d.ev.reason})
      [] t.e = "commit" -> CommitTemplate(d, t.x)
      [] t.e = "reclaim" -> ReclaimAttempt(d, "reclaimed")
      [] t.e = "notify" -> NotifyTemplate(d, t.x)
      [] t.e = "adopt_prev_generation" -> AdoptPrevious(d)
      [] t.e = "cancel_dispatch" -> CancelTemplate(d, t.x)
      [] t.e = "redeliver" -> [d EXCEPT !.fx.redeliver = TRUE]
      [] t.e = "probe" -> [d EXCEPT !.fx.probe = TRUE]
      [] t.e = "reevaluate" -> [d EXCEPT !.fx.reevaluate = << d.was[d.ev.reason] >>]

(***************************************************************************)
(* Stopping.  x = [past, confirmed, unreachable]: the attempt is past its  *)
(* hard ceiling, this is the exact receipt of its writer's stop, this is   *)
(* the settlement of a writer nobody can reach.                            *)
(***************************************************************************)
ReportHeldDuringStop(a) == a.report.gen = a.gen /\ a.report.duringStop

\* Mutant: the report replaces whatever terminal is pending.
AdoptReportAlways(d) ==
    IF ~ReportHeldDuringStop(d.a) THEN d
    ELSE [d EXCEPT !.a.stop.reason = "worker_reported",
                   !.a.stop.terminal = [outcome |-> d.a.report.outcome, strength |-> "tool_report",
                                        source |-> "worker_tool", adopt |-> NoSession]]

AdoptReportHeldDuringStop(d) ==
    LET pending == d.a.stop.terminal IN
    IF ~ReportHeldDuringStop(d.a) \/ (pending.outcome # "none" /\ (pending.adopt # NoSession \/ pending.source # "scheduler"))
    THEN d
    ELSE [d EXCEPT !.a.stop.reason = "worker_reported",
                   !.a.stop.terminal = [outcome |-> d.a.report.outcome, strength |-> "tool_report",
                                        source |-> "worker_tool", adopt |-> NoSession]]

CeilingPending == [outcome |-> "failed", strength |-> "genuine", source |-> "scheduler", adopt |-> NoSession]

\* The first two assignments of reduceStopping: the ceiling and a cancel each replace the pending terminal.
StoppingOverrides(d, past) ==
    LET ceiling == IF past THEN ReleaseHolds([d EXCEPT !.a.stop.reason = "hard_ceiling", !.a.stop.terminal = CeilingPending],
                                             {"hard_ceiling"})
                   ELSE d IN
    IF d.ev.kind # "cancel" THEN ceiling
    ELSE [ceiling EXCEPT !.a.stop.reason = d.ev.reason,
                         !.a.stop.terminal = [outcome |-> "cancelled", strength |-> "genuine",
                                              source |-> d.ev.source, adopt |-> NoSession]]

CommitPending(d) == CommitOutcome(d, d.a.stop.terminal.outcome, d.a.stop.terminal.strength, d.a.stop.reason)

SettleUnreachableWriter(d) ==
    IF d.a.stop.terminal.outcome \notin {"none", "failed"} THEN CommitPending(d)
    ELSE CommitOutcome([d EXCEPT !.a.stop.terminal = CeilingPending], "failed", "genuine", "writer_unreachable")

SettleConfirmedStop(d) ==
    LET pending == d.a.stop.terminal IN
    IF pending.outcome = "none"
    THEN IF d.a.stop.reason = "hard_ceiling" THEN CommitOutcome(d, "failed", "genuine", "hard_ceiling")
         ELSE ReclaimAttempt(d, d.a.stop.reason)
    ELSE CommitPending(IF pending.adopt = NoSession THEN d ELSE [d EXCEPT !.a.session = pending.adopt])

RetryOrEscalate(d) ==
    LET released == ReleaseHolds(d, {"liveness"}) IN
    IF d.a.stop.tries < WriterStopMaxTries THEN RequestWriterStop([released EXCEPT !.a.stop.tries = @ + 1])
    ELSE IF d.a.stop.escalated THEN released
    ELSE NotifyCoordinator([released EXCEPT !.a.stop.escalated = TRUE], "no_progress")

StopStep(d, x) ==
    IF x.unreachable /\ ~x.confirmed /\ d.ev.kind # "cancel"
    THEN SettleUnreachableWriter(AdoptReportHeldDuringStop([d EXCEPT !.a.stop.confirmed = TRUE]))
    ELSE IF x.confirmed
    THEN SettleConfirmedStop(AdoptReportHeldDuringStop([d EXCEPT !.a.stop.confirmed = TRUE]))
    ELSE IF d.ev.kind = "hold_expired" /\ d.ev.reason = "liveness" /\ "liveness" \in DOMAIN d.was /\ d.ev.overdue
    THEN RetryOrEscalate(d)
    ELSE IF d.ev.kind = "worker_report" THEN Action(d, "record_report")
    ELSE d

ReduceStopping(d, x) == StopStep(StoppingOverrides(d, x.past), x)

(***************************************************************************)
(* One reduction.  A "recorded" verdict keeps the attempt and its holds,   *)
(* its effects still run.                                                  *)
(***************************************************************************)
Outcome(d, verdict, rule) == [a |-> d.a, h |-> d.h, fx |-> d.fx, verdict |-> verdict, rule |-> rule]

\* d before and e after the templates: the rule's target state, unless a template moved the attempt.
EnterState(d, e, rule) ==
    IF /\ rule.verdict = "applied" /\ ~e.done /\ rule.to \notin {"same", "outcome"}
       /\ d.a.state = NoState \/ e.a.state = d.a.state
    THEN [e EXCEPT !.a.state = rule.to] ELSE e
Concluded(d, e, rule) ==
    IF rule.verdict = "applied" THEN Outcome(e, "applied", rule.id)
    ELSE Outcome([d EXCEPT !.fx = e.fx], "recorded", rule.id)

ApplyRule(d, rule) == Concluded(d, EnterState(d, FoldLeft(ApplyTemplate, d, rule.effects), rule), rule)
ReduceByRules(d, matches) == IF matches = << >> THEN Outcome(d, "rejected", "none") ELSE ApplyRule(d, Head(matches))

ReduceInLane(d, lane, x) ==
    IF lane = "rejected" THEN Outcome(d, "rejected", "none")
    ELSE IF d.a.state = "stopping" /\ lane = "current" THEN Outcome(ReduceStopping(d, x), "applied", "WR")
    ELSE ReduceByRules(d, MatchingRules(d, lane))

Reduce(a, h, ev, x) ==
    LET lane == ClassifyLane(a, ev) IN ReduceInLane(Draft(a, h, ev, lane.gen), lane.lane, x)
=============================================================================
