---------------------------- MODULE TurnAttempts ----------------------------
(***************************************************************************)
(* The ledger under every order of evidence: what holds of the attempts,   *)
(* their holds and the row of the task whatever arrives, late or twice.    *)
(* A stopped writer's receipt, or the verdict that it cannot be reached,   *)
(* comes at any time after the stop was requested.                         *)
(***************************************************************************)
EXTENDS TurnLedger

CONSTANT
    Scenarios       \* sets of inputs: kinds of evidence, "direct" for direct dispatches and "unbound" for evidence
                    \* that names no attempt
VARIABLE
    inputs          \* the inputs of this behaviour

vars == <<ledgerVars, inputs>>

CancelReasons == {"superseded", "operator_cancel", "intentional_cleanup"}

Init == LedgerInit /\ inputs \in Scenarios

Step ==
    \/ \E sess \in Sessions : Claim(sess)
    \/ \E kind \in inputs \cap SessionProducedKinds : SessionEvidence(kind)
    \/ "unbound" \in inputs /\ \E kind \in inputs \cap SessionProducedKinds : UnboundEvidence(kind)
    \/ \E kind \in inputs \cap DispatchKinds : DispatchEvidence(kind)
    \/ "direct" \in inputs /\ \E id \in DirectIds, sess \in Sessions : DirectDispatch(id, sess)
    \/ \E id \in Ids : \E reason \in DOMAIN holds[id] : ExpireHold(id, reason)
    \/ \E id \in MeshIds : CeilingPasses(id)
    \/ "cancel" \in inputs /\ \E id \in QueueIds, force \in BOOLEAN : Requeue(id, force)
    \/ "cancel" \in inputs /\ CancelTask
    \/ "cancel" \in inputs /\ \E id \in Ids, reason \in CancelReasons : Cancel(id, reason)
    \/ "operator_status" \in inputs /\ \E id \in Ids : Operator(id)
    \/ "coordinator_ack" \in inputs /\ \E id \in Ids : Acknowledge(id)
    \/ \E id \in MeshIds : SettleWriterStop(id)
    \/ \E id \in MeshIds : SettleUnreachable(id)
Next == Step /\ UNCHANGED inputs

Spec == Init /\ [][Next]_vars

(***************************************************************************)
(* Properties.                                                             *)
(***************************************************************************)
ReportedNow(a) == a.report.gen = a.gen
Active(a) == a.state \in Nonterminal

\* Types: attempts are in a state of the ledger, their counters stay within the policy's budgets, and the row has a
\* status of the queue (types.ts TurnAttempt; policy.ts).
TypeOK ==
    /\ \A id \in Ids :
          /\ att[id].state \in TurnStates \cup {NoState}
          /\ att[id].gen \in 0..ReclaimBudget /\ att[id].redrives \in 0..MaxRedrives
          /\ att[id].stop.tries \in 0..WriterStopMaxTries /\ att[id].deferrals \in 0..MaxDeferrals
          /\ att[id].hollow \in 0..(MaxTaskRetries + 1) /\ att[id].susp.reminders \in 0..MaxReminders
    /\ row \in {"pending", "assigned"} \cup Terminal
    /\ past \subseteq MeshIds

\* No two open attempts share a session, whatever opened, moved or rebound them (ledger.ts applyStep, the unique index
\* ux_turn_attempts_open_session would abort the transaction).
OneOpenPerSession == \A sess \in Sessions : Cardinality(OpenOn(Current, sess)) <= 1

\* Every open mesh attempt is bounded: it holds its hard ceiling, or its writer is being stopped and the resume loop
\* owns it (transitions.ts R1, reducer.ts reclaimAttempt and beginWriterStop).
AlwaysBounded ==
    \A id \in MeshIds : Active(att[id]) => "hard_ceiling" \in DOMAIN holds[id]

\* What an attempt waits for is timed. A report recorded before the turn ended is kept under await_end until it is committed
\* and the attempt never waits in finalizing for a report it has (R17g, R9t, R13t); a delivered prompt cannot wait forever
\* to be consumed: await_turn is armed, or a provider setup modal is open (R2, R2s, R5s, R5bs).
WaitsAreTimed ==
    \A id \in MeshIds :
        /\ Active(att[id]) /\ ReportedNow(att[id]) => att[id].state \in {C, G, S} /\ "await_end" \in DOMAIN holds[id]
        /\ att[id].state = D =>
              \/ "await_turn" \in DOMAIN holds[id]
              \/ att[id].susp.setup /\ att[id].susp.open /\ att[id].susp.gen = att[id].gen

\* What the worker reported decides: no later idle edge, transcript or timer commits the attempt as completed when its
\* recorded report of this generation says otherwise; only an operator may (R9t, R13t, R20r and the ~reported guards).
ReportDecides ==
    [][ \A id \in MeshIds :
          /\ Active(att[id]) /\ ReportedNow(att[id])
          /\ att'[id].state = "completed" /\ att'[id].terminal.strength # "operator"
          => att'[id].terminal.outcome = att[id].report.outcome ]_vars

\* The finalizing state and its timers go together: an attempt is finalizing exactly while an end is unconfirmed, and the
\* two end holds exist only there and never together (R10, R12, R12r, R9r, R6, R8).
EndHoldsMatchState ==
    \A id \in Ids : IsOpen(att[id]) =>
        LET ends == DOMAIN holds[id] \cap EndHolds IN
        /\ ends # {} => att[id].state = F
        /\ Cardinality(ends) <= 1
        /\ att[id].state = F => att[id].weak

\* An attempt that ended stays ended, with the outcome it was committed with; only the coordinator's acknowledgement may
\* still be recorded (R18, R19, R27, R34).
TerminalIsFinal ==
    [][ \A id \in MeshIds :
          att[id].state \in Terminal => att'[id] \in {att[id], [att[id] EXCEPT !.notified = TRUE]} ]_vars

\* A row is assigned exactly while an attempt owns the task, and a terminal row has no open attempt behind it: no order of
\* claims, stops and settlements strands the row or lets a closed task run (commitOutcome's queue_status effects).
RowFollowsAttempt ==
    /\ row = "assigned" => OpenAttempt # {}
    /\ row \in Terminal => OpenAttempt = {}

\* Attempts whose cancellation by the operator was recorded and that have ended in the generation it was recorded for.
CancelledByOperator == {c[1] : c \in {d \in cancels : att[d[1]].gen = d[2] /\ att[d[1]].state \in Terminal}}

\* A recorded operator cancel stands against a report that arrives while the writer is being stopped: the attempt does not
\* end with that report ("an operator cancel or an adopted terminal stands", reducer.ts adoptReportHeldDuringStop).
CancelStands == \A id \in CancelledByOperator : att[id].terminal.strength # "tool_report"

\* Before the attempt's hard ceiling a recorded operator cancel stands against everything: the attempt ends cancelled
\* (reducer.ts reduceStopping, adoptReportHeldDuringStop).
CancelStandsInTime == \A id \in CancelledByOperator : id \notin past => att[id].state = "cancelled"

\* A new generation starts only from a writer whose stop was confirmed (reducer.ts reclaimAttempt): from stopping.
ReclaimAfterStop ==
    [][ \A id \in MeshIds : att'[id].gen # att[id].gen => att[id].state = "stopping" /\ att'[id].gen = att[id].gen + 1
      ]_vars

RulesMatching(ev) ==
    LET a == Resolved(Current, ev)
        lane == ClassifyLane(a, ev) IN
    IF lane.lane = "rejected" THEN << >>
    ELSE MatchingRules(Draft(a, IF a.state = NoState THEN NoHolds ELSE holds[ResolveAttempt(Current, ev)], ev, lane.gen), lane.lane)

\* At most one rule of the table matches any evidence about any attempt the ledger can hold ("The reducer requires this to
\* have length <= 1", reducer.ts matchingRules): the order of the rules in the table never decides.
AtMostOneRule ==
    /\ \A kind \in inputs \cap SessionProducedKinds : \A ev \in SessionEvidenceOf(kind, References \cup Unreferenced) :
          Len(RulesMatching(ev)) <= 1
    /\ \A id \in Ids : \A reason \in DOMAIN holds[id] : \A ev \in HoldExpired(id, reason) : Len(RulesMatching(ev)) <= 1

\* The attempt's suspension flag, its state and the modal it remembers agree: it is suspended in S, or before the prompt
\* is consumed by a provider setup modal that is still held (R5s, R6, R7, R8, apply_held_suspension).
SuspensionMatchesModal ==
    \A id \in Ids : Active(att[id]) =>
        /\ att[id].state = S => att[id].suspended
        /\ att[id].suspended => att[id].state = S \/ (att[id].state \in {A, D} /\ att[id].susp.setup)
=============================================================================
