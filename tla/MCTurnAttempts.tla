--------------------------- MODULE MCTurnAttempts ---------------------------
(* Instances of TurnAttempts for TLC. *)
EXTENDS TurnAttempts

OneAttempt == << "q1" >>
TwoAttempts == << "q1", "q2" >>

\* Ends of turns and reports about them, in any order.
ReportInputs ==
    { "delivered", "turn_started", "turn_end", "transcript_final", "worker_report", "liveness", "process_exit",
      "worker_report_correction_requested", "operator_status", "transcript_activity", "worker_progress", "git_side_effect" }
\* Modals, before and after the prompt is consumed.
ModalInputs ==
    {"delivered", "turn_started", "suspension", "suspension_resolved", "no_progress", "worker_report", "process_exit"}
\* Cancels and requeues against reports and operator updates.
CancelInputs ==
    {"delivered", "turn_started", "worker_report", "cancel", "session_error", "operator_status", "coordinator_ack"}
\* Refused and failed dispatches, and what the previous generation still says.
ReclaimInputs ==
    { "delivered", "delivery_refused", "dispatch_failed", "duplicate_dispatch_refusal", "turn_started", "process_exit",
      "worker_report", "turn_end" }
\* Queue, direct and plain turns on the same sessions.
SessionInputs == {"turn_started", "session_rebound", "direct", "unbound"}

EvidenceScenarios == {ReportInputs, ModalInputs, CancelInputs}
SessionScenarios == {ReclaimInputs, SessionInputs}
CancelScenario == {CancelInputs}

SessionSymmetry == Permutations(Sessions)
=============================================================================
