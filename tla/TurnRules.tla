------------------------------ MODULE TurnRules ------------------------------
(***************************************************************************)
(* The transition table of the turn ledger (turn-ledger/transitions.ts):   *)
(* which rule applies to a piece of evidence about a turn attempt, to what *)
(* state the rule leads and which effects it runs, in order.  The guards   *)
(* and the effects themselves are operators of TurnReducer.                *)
(*                                                                         *)
(* Left out: bus phases, record notes, git side effects and diagnostic     *)
(* counters.  A rule whose only effects are such notes keeps its row with  *)
(* an empty effect list.                                                   *)
(***************************************************************************)
EXTENDS Naturals, Sequences

A == "accepted"
D == "delivered"
C == "consumed"
G == "generating"
S == "suspended"
F == "finalizing"

\* Mutant: a failed attempt can be closed again.
FailedIsOpen == {A, D, C, G, S, F, "failed"}

Nonterminal == {A, D, C, G, S, F}
Terminal == {"completed", "blocked", "failed", "cancelled"}
TurnStates == Nonterminal \cup Terminal \cup {"stopping"}

\* The pseudo state of lane "none": no attempt is resolved.
NoState == "none"

Kinds == { "dispatch_accepted", "delivered", "delivery_refused", "dispatch_failed",
           "duplicate_dispatch_refusal", "session_rebound", "turn_started", "suspension",
           "suspension_resolved", "turn_end", "transcript_final", "transcript_activity",
           "no_progress", "liveness", "process_exit", "session_error", "worker_report",
           "worker_report_correction_requested", "worker_progress", "git_side_effect",
           "cancel", "operator_status", "coordinator_ack", "hold_expired" }

\* Kinds that would end a turn; R19 records them against a terminal attempt.
TerminalClassKinds == { "turn_end", "transcript_final", "no_progress", "worker_report",
                        "session_error", "process_exit", "cancel", "operator_status" }

Awaits == {"await_delivery", "await_consume", "await_turn"}

(***************************************************************************)
(* Effect templates.  Their interpretation is TurnReducer!ApplyTemplate.   *)
(***************************************************************************)
Template(e, x) == [e |-> e, x |-> x]
Act(action) == Template("act", action)
Hold(reason) == Template("hold", reason)
Release(reasons) == Template("release", reasons)
ReleaseExpired == Template("release_expired", {})
Commit(outcome, strength, reason) ==
    Template("commit", [outcome |-> outcome, strength |-> strength, reason |-> reason])
CommitRecordedReport == Commit("from_recorded_report", "tool_report", "worker_reported")
Reclaim == Template("reclaim", {})
Notify(notice) == Template("notify", notice)
AdoptPrevGeneration == Template("adopt_prev_generation", {})
CancelDispatch(target) == Template("cancel_dispatch", target)
Redeliver == Template("redeliver", {})
Probe == Template("probe", {})
Reevaluate == Template("reevaluate", {})

WeakCandidate == << Act("weak_candidate"), Hold("weak_candidate"), Notify("candidate") >>
\* Mutant: waiting for the report keeps the weak candidate's timer.
AwaitReportKeepsCandidate == << Act("await_report"), Hold("await_report") >>

AwaitReport == << Act("await_report"), Release({"weak_candidate"}), Hold("await_report") >>

\* A rule without a guard has guard "always".
Rule(id, lane, from, on, guard, to, verdict, effects) ==
    [ id |-> id, lane |-> lane, from |-> from, on |-> on, guard |-> guard,
      to |-> to, verdict |-> verdict, effects |-> effects ]

StoppingRules == <<
    Rule("WR", "current", {"stopping"}, Kinds \ {"coordinator_ack"}, "always", "same", "applied", << >>) >>

NoAttemptRules == <<
    Rule("R1", "none", {NoState}, {"dispatch_accepted"}, "always", A, "applied",
         << Act("open_dispatch"), Hold("await_delivery"), Hold("hard_ceiling") >>),
    Rule("R1r", "current", {A}, {"dispatch_accepted"}, "always", "same", "applied", << Act("rebind_dispatch") >>),
    Rule("R0a", "none", {NoState}, {"turn_started"}, "unbound", G, "applied", << Act("open_plain"), Act("consume") >>),
    Rule("R0b", "none", {NoState}, {"turn_started"}, "bound", "same", "recorded", << >>),
    Rule("R0", "none", {NoState}, Kinds \ {"dispatch_accepted", "turn_started"}, "always", "same", "recorded", << >>) >>

StaleRules == <<
    Rule("R27a", "stale", {A, D}, {"turn_end", "worker_report", "transcript_final"},
         "prev_generation_completion", "outcome", "applied", << AdoptPrevGeneration >>),
    Rule("R27", "stale", {C, G, S, F} \cup Terminal, {"turn_end", "worker_report", "transcript_final"},
         "prev_generation_completion", "same", "recorded", << Notify("late_completion") >>),
    Rule("R28a", "stale", TurnStates, {"turn_started"}, "stale_session_distinct", "same", "recorded",
         << CancelDispatch("evidence_session") >>),
    Rule("R28", "stale", TurnStates, Kinds, "otherwise", "same", "recorded", << >>) >>

DispatchRules == <<
    Rule("R2s", "current", {A, D}, {"delivered"}, "held_provider_setup", D, "applied",
         << Act("mark_delivered"), Release(Awaits) >>),
    Rule("R2", "current", {A, D}, {"delivered"}, "otherwise", D, "applied",
         << Act("mark_delivered"), Release({"await_delivery"}), Hold("await_consume"), Hold("await_turn") >>),
    Rule("R2a", "current", {C, G, S, F}, {"delivered"}, "always", "same", "recorded", << >>),
    Rule("R3", "current", {A, D}, {"delivery_refused"}, "reclaiming_refusal", A, "applied", << Reclaim >>),
    Rule("R3a", "current", {A, D}, {"delivery_refused"}, "otherwise", "same", "recorded", << >>),
    Rule("R24", "current", {A, D}, {"dispatch_failed"}, "always", A, "applied", << Act("worker_absent"), Reclaim >>),
    Rule("R25", "current", {A, D}, {"duplicate_dispatch_refusal"}, "holder_is_this_attempt", C, "applied",
         << Act("rebind_to_holder"), Act("consume"), Release(Awaits), Hold("liveness") >>),
    Rule("R25a", "current", {A, D}, {"duplicate_dispatch_refusal"}, "otherwise", "same", "recorded", << >>),
    Rule("R26", "current", Nonterminal, {"session_rebound"}, "always", "same", "applied", << Act("rebind") >>) >>

SuspensionRules == <<
    Rule("R4", "current", {A, D, C}, {"turn_started"}, "always", G, "applied",
         << Act("consume"), Release(Awaits), Hold("liveness"), Act("apply_held_suspension") >>),
    Rule("R5s", "current", {A, D}, {"suspension"}, "confirmed_provider_setup", "same", "applied",
         << Act("suspend"), Release(Awaits), Hold("suspension_before_consumed"), Notify("modal") >>),
    Rule("R5", "current", {A, D}, {"suspension"}, "otherwise", "same", "applied",
         << Hold("suspension_before_consumed") >>),
    Rule("R5stale", "current", {A, D, S}, {"suspension_resolved"}, "stale_modal_resolution", "same", "recorded", << >>),
    Rule("R5bs", "current", {A, D}, {"suspension_resolved"}, "held_provider_setup", "same", "applied",
         << Release({"suspension_before_consumed"}), Act("resume"), Hold("await_consume"), Hold("await_turn") >>),
    Rule("R5b", "current", {A, D}, {"suspension_resolved"}, "otherwise", "same", "applied",
         << Release({"suspension_before_consumed"}) >>),
    Rule("R6", "current", {C, G, F}, {"suspension"}, "always", S, "applied",
         << Act("suspend"), Release({"weak_candidate", "live_pending", "transcript_quiet", "await_report"}),
            Notify("modal") >>),
    Rule("R6s", "current", {S}, {"suspension"}, "suspension_changed", S, "applied",
         << Act("suspend"), Notify("modal") >>),
    Rule("R6d", "current", {S}, {"suspension"}, "otherwise", "same", "recorded", << >>),
    Rule("R7", "current", {S}, {"suspension_resolved"}, "otherwise", G, "applied",
         << Act("resume"), Notify("approval_resolved") >>),
    Rule("R8", "current", {S}, {"turn_started", "transcript_activity"}, "always", G, "applied",
         << Act("resume_by_activity"), Release({"live_pending", "transcript_quiet", "weak_candidate"}), Hold("liveness") >>) >>

EndRules == <<
    Rule("R9", "current", {C, G, S}, {"turn_end"}, "end_genuine", "completed", "applied",
         << Commit("completed", "genuine", "turn_end") >>),
    Rule("R9f", "current", {C, G, S, F}, {"turn_end"}, "end_provider_failure", "failed", "applied",
         << Commit("failed", "genuine", "provider_failure") >>),
    Rule("R10", "current", {C, G, S}, {"turn_end"}, "end_weak", F, "applied", WeakCandidate),
    Rule("R10a", "current", {F}, {"turn_end", "transcript_final"}, "weak_end_or_final", "same", "recorded", << >>),
    Rule("R11", "current", {F}, {"turn_end", "transcript_final"}, "genuine_end_or_strong_final", "completed", "applied",
         << Commit("completed", "genuine", "transcript_final") >>),
    Rule("R12", "current", {F}, {"turn_started", "transcript_activity"}, "after_weak_since", G, "applied",
         << Act("clear_weak"), Act("activity"), Release({"weak_candidate"}), Hold("liveness") >>),
    Rule("R13b", "current", {C, G, S, F}, {"turn_end"}, "end_weak_after_timeout", "failed", "applied",
         << Commit("failed", "weak", "finalization_timeout_no_response") >>),
    Rule("R14", "current", {C, G, S}, {"transcript_final"}, "final_strong", "completed", "applied",
         << Commit("completed", "genuine", "transcript_final") >>),
    Rule("R15", "current", {C, G, S}, {"transcript_final"}, "final_weak", F, "applied", WeakCandidate),
    Rule("R15p", "current", {C, G, S}, {"transcript_final"}, "final_weak_probe", F, "applied", AwaitReport),
    Rule("R16", "current", {C, G, S, F}, {"turn_end", "transcript_final"}, "admission_hold", "same", "applied",
         << Hold("from_admission") >>),
    Rule("R16a", "current", {C, G, S, F}, {"transcript_final"}, "admission_decline", "same", "recorded", << >>),
    Rule("R33", "current", {C, G, S, F}, {"turn_end"}, "hollow_retry", A, "applied", << Act("hollow"), Reclaim >>),
    Rule("R9r", "current", {C, G, S, F}, {"turn_end"}, "end_report_awaited", F, "applied", AwaitReport),
    Rule("R9d", "current", {F}, {"turn_end"}, "end_report_awaited_held", "same", "recorded", << >>),
    Rule("R11d", "current", {F}, {"transcript_final"}, "final_strong_report_awaited", "same", "recorded", << >>),
    Rule("R12r", "current", {F}, {"turn_started", "transcript_activity"}, "false_idle_resumed", G, "applied",
         << Act("false_idle"), Release({"await_report"}), Hold("liveness") >>),
    Rule("R33f", "current", {C, G, S, F}, {"turn_end"}, "hollow_exhausted", "failed", "applied",
         << Act("hollow"), Commit("failed", "genuine", "hollow_max_retries") >>) >>

ReportRules == <<
    Rule("R17", "current", {A, D, F}, {"worker_report"}, "always", "outcome", "applied",
         << Commit("from_report", "tool_report", "worker_reported") >>),
    Rule("R17g", "current", {C, G, S}, {"worker_report"}, "always", "same", "applied",
         << Act("record_report"), Hold("await_end") >>),
    Rule("R9t", "current", {C, G, S, F}, {"turn_end", "transcript_final", "no_progress"}, "finished_after_report",
         "outcome", "applied", << CommitRecordedReport >>),
    Rule("R13t", "current", {C, G, S, F}, {"hold_expired"}, "hold_await_end", "outcome", "applied",
         << CommitRecordedReport >>),
    Rule("R17ps", "current", {A, D}, {"worker_progress"}, "always", C, "applied",
         << Act("consume"), Release(Awaits), Hold("liveness"), Act("apply_held_suspension") >>),
    Rule("R17p", "current", {C, G, S, F}, {"worker_progress"}, "always", "same", "applied",
         << Act("activity"), Hold("liveness") >>) >>

ClosingRules == <<
    Rule("R18", "current", Terminal, {"turn_end", "transcript_final", "no_progress"}, "reported_terminal",
         "same", "recorded", << >>),
    Rule("R19", "current", Terminal, TerminalClassKinds, "otherwise", "same", "recorded", << >>),
    Rule("R34", "current", TurnStates, {"coordinator_ack"}, "always", "same", "applied", << Act("mark_notified") >>),
    Rule("R20r", "current", {C, G, S, F}, {"process_exit"}, "exit_after_report", "outcome", "applied",
         << CommitRecordedReport >>),
    Rule("R20", "current", Nonterminal, {"process_exit"}, "no_provider_failure", A, "applied", << Reclaim >>),
    Rule("R20f", "current", Nonterminal, {"process_exit"}, "provider_failure", "failed", "applied",
         << Commit("failed", "genuine", "provider_failure") >>),
    Rule("R21", "current", Nonterminal, {"session_error"}, "always", "failed", "applied",
         << Commit("failed", "genuine", "session_error") >>),
    Rule("R22", "current", Nonterminal, {"cancel"}, "always", "cancelled", "applied",
         << CancelDispatch("current"), Commit("cancelled", "operator", "from_cancel") >>),
    Rule("R23s", "current", {F}, {"operator_status"}, "settle_idle_report_owed", "failed", "applied",
         << Commit("failed", "operator", "operator_update") >>),
    Rule("R23", "current", Nonterminal, {"operator_status"}, "otherwise", "outcome", "applied",
         << Commit("from_operator", "operator", "operator_update") >>),
    Rule("R17c", "current", Nonterminal, {"worker_report_correction_requested"}, "always", "same", "applied",
         << Act("open_report_correction") >>) >>

ProgressRules == <<
    Rule("R29", "current", {C, G}, {"no_progress"}, "final_present", F, "applied", WeakCandidate),
    Rule("R30p", "current", {S}, {"no_progress"}, "parked_suspension_observation", "same", "applied",
         << Notify("suspension_reminder") >>),
    Rule("R30", "current", {C, G, S, F}, {"no_progress"}, "otherwise", "same", "applied", << Notify("no_progress") >>),
    Rule("R31", "current", {C, G, S, F}, {"liveness"}, "liveness_fatal", A, "applied",
         << Act("liveness_failure"), Reclaim >>),
    Rule("R31a", "current", {C, G, S, F}, {"liveness"}, "liveness_failed_nonfatal", "same", "applied",
         << Act("liveness_failure") >>),
    Rule("R32", "current", {C, G, S, F}, {"liveness", "transcript_activity", "turn_started"}, "activity_keeps_state",
         "same", "applied", << Act("activity"), Hold("liveness") >>),
    Rule("R32u", "current", {C, G, S, F}, {"liveness"}, "liveness_unknown", "same", "applied",
         << Act("liveness_unknown"), Hold("liveness") >>),
    Rule("R35", "current", {C, G, S, F}, {"git_side_effect"}, "always", "same", "applied", << >>) >>

ExpiryRules == <<
    Rule("H1", "current", {A}, {"hold_expired"}, "hold_await_delivery", A, "applied", << Reclaim >>),
    Rule("H2", "current", {D}, {"hold_expired"}, "hold_await_consume_redrive", D, "applied",
         << Act("redrive"), Redeliver, Hold("await_consume") >>),
    Rule("H2r", "current", {D}, {"hold_expired"}, "hold_await_consume_exhausted", A, "applied", << Reclaim >>),
    Rule("H3", "current", {D}, {"hold_expired"}, "hold_await_turn", A, "applied", << Reclaim >>),
    Rule("H4", "current", {C, G, S, F}, {"hold_expired"}, "hold_liveness", "same", "applied",
         << Probe, Hold("liveness") >>),
    Rule("H5", "current", Nonterminal, {"hold_expired"}, "hold_hard_ceiling", "failed", "applied",
         << Commit("failed", "genuine", "hard_ceiling") >>),
    Rule("H6", "current", Nonterminal, {"hold_expired"}, "hold_suspension_before_consumed", "same", "applied",
         << ReleaseExpired >>),
    Rule("H7", "current", {C, G, S, F}, {"hold_expired"}, "hold_admission", "same", "applied",
         << ReleaseExpired, Reevaluate >>),
    Rule("R13d", "current", {F}, {"hold_expired"}, "hold_direct_report_missing", "same", "applied",
         << ReleaseExpired, Notify("candidate") >>),
    Rule("R13a", "current", {F}, {"hold_expired"}, "hold_weak_candidate", "completed", "applied",
         << Commit("completed", "weak", "weak_end_confirmed") >>),
    Rule("R13n", "current", {F}, {"hold_expired"}, "hold_native_probe_report_only", "same", "applied",
         << ReleaseExpired >>),
    Rule("R13q", "current", {F}, {"hold_expired"}, "hold_queue_report_missing", "same", "applied",
         << ReleaseExpired, Notify("candidate") >>),
    Rule("R13r", "current", {F}, {"hold_expired"}, "hold_await_report", "completed", "applied",
         << Commit("completed", "weak", "weak_end_confirmed") >>),
    Rule("R13u", "current", {F}, {"hold_expired"}, "hold_end_unconfirmed_defer", "same", "applied",
         << Act("defer_unconfirmed_end"), Probe >>),
    Rule("R13x", "current", {F}, {"hold_expired"}, "hold_end_unconfirmed_exhausted", "failed", "applied",
         << Commit("failed", "weak", "weak_end_liveness_unconfirmed") >>),
    Rule("R13z", "current", {F}, {"hold_expired"}, "hold_end_probe_missing", "failed", "applied",
         << Commit("failed", "weak", "weak_end_probe_unobserved") >>),
    Rule("R13c", "current", Nonterminal, {"hold_expired"}, "hold_report_correction", "failed", "applied",
         << Commit("failed", "weak", "report_correction_expired") >>),
    Rule("H0", "current", TurnStates, {"hold_expired"}, "otherwise", "same", "recorded", << >>) >>

\* The table, in the order of the source: where two rules match, the first one wins.
Transitions == StoppingRules \o NoAttemptRules \o StaleRules \o DispatchRules \o SuspensionRules \o EndRules
                   \o ReportRules \o ClosingRules \o ProgressRules \o ExpiryRules

\* laneCandidates, tabulated: the rules of a lane that admit a state and a kind.
LaneCandidates ==
    [ lane \in {"none", "current", "stale"}, state \in TurnStates \cup {NoState}, kind \in Kinds |->
        SelectSeq(Transitions, LAMBDA rule: rule.lane = lane /\ state \in rule.from /\ kind \in rule.on) ]
=============================================================================
