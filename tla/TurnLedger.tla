----------------------------- MODULE TurnLedger -----------------------------
(***************************************************************************)
(* The turn ledger of a daemon (turn-ledger/ledger.ts) together with the   *)
(* row of one task in its work queue: how a piece of evidence finds its    *)
(* attempt, is reduced and persisted, what its effects do to the row, and  *)
(* the callers that produce evidence (claim and requeue of the task, the   *)
(* dispatcher, the session, the probe, the hold sweep, the operator).      *)
(*                                                                         *)
(* Evidence may come late, twice and in any order: each action takes any   *)
(* piece of evidence its producer could have made by then.  The attempts   *)
(* of the task are QueueAttempts, in order; DirectIds are direct           *)
(* dispatches; the plain turn of a session has the session's name, and a   *)
(* terminal one gives way to the next.                                     *)
(***************************************************************************)
EXTENDS TurnReducer, FiniteSets

CONSTANTS
    Sessions,           \* worker sessions
    QueueAttempts,      \* sequence of attempt ids: attemptNo 0, 1, ... of the task
    DirectIds,          \* ids of direct dispatches
    ModalKeys,          \* modal keys of suspensions
    EndSignals,         \* the classes of end signals this instance produces
    LiveStates,         \* what the worker shows when an end signal is read
    ProbeResults,       \* results of liveness probes
    Outcomes            \* outcomes of reports and operator updates

VARIABLES
    att,        \* attempt id -> attempt
    holds,      \* attempt id -> its active holds
    row,        \* status of the task's row in mesh_queue
    past,       \* the attempts past their hard ceiling
    cancels     \* the generations whose queue-cancel event is recorded

ledgerVars == <<att, holds, row, past, cancels>>

NoId == "none"
QueueIds == ToSet(QueueAttempts)
Ids == QueueIds \cup DirectIds \cup Sessions
MeshIds == QueueIds \cup DirectIds

LedgerInit ==
    /\ att = [id \in Ids |-> NoAttempt]
    /\ holds = [id \in Ids |-> NoHolds]
    /\ row = "pending"
    /\ past = {}
    /\ cancels = {}

(***************************************************************************)
(* applyStep and observe on a ledger state s = [att, holds, row, fx].      *)
(***************************************************************************)
NoContext == [past |-> FALSE, confirmed |-> FALSE, unreachable |-> FALSE]
Current == [att |-> att, holds |-> holds, row |-> row, fx |-> NoEffects, verdict |-> "none"]

OpenOn(s, sess) == {id \in Ids : IsOpen(s.att[id]) /\ s.att[id].session = sess}

\* The attempt a reference names, or the open one of the session.  A turn nobody opened is the session's plain turn.
ResolveAttempt(s, ev) ==
    IF ev.att # NoId THEN ev.att
    ELSE IF OpenOn(s, ev.sess) # {} THEN CHOOSE id \in OpenOn(s, ev.sess) : TRUE
    ELSE ev.sess

\* Without a reference a terminal plain attempt is not resolved: the next turn is a new attempt.
Resolved(s, ev) ==
    LET a == s.att[ResolveAttempt(s, ev)] IN IF ev.att = NoId /\ ~IsOpen(a) THEN NoAttempt ELSE a

\* An end signal of a mesh attempt that left background work running counts as activity.
BackgroundRewrite(a, ev) ==
    IF /\ a.state # NoState /\ IsMeshScope(a) /\ ev.kind \in {"turn_end", "transcript_final"}
       /\ ev.class # "failure" /\ ev.bg
    THEN IF a.state = F THEN [kind |-> "turn_started", att |-> ev.att, gen |-> ev.gen, sess |-> ev.sess, after |-> TRUE]
         ELSE [kind |-> "liveness", att |-> ev.att, gen |-> ev.gen, sess |-> ev.sess, result |-> "alive", age |-> "fresh"]
    ELSE ev

\* The queue_status and task_terminal effects: a terminal row is never resurrected.
\* Mutant: only terminal outcomes reach the row.
RowAfterTerminalOnly(status, id, fx) ==
    IF id \in QueueIds /\ fx.queue \in Terminal /\ status \notin Terminal THEN fx.queue ELSE status

RowAfter(status, id, fx) ==
    IF id \in QueueIds /\ fx.queue # "none" /\ status \notin Terminal THEN fx.queue ELSE status

Persist(s, id, r) ==
    IF r.verdict = "applied"
    THEN [att |-> [s.att EXCEPT ![id] = r.a], holds |-> [s.holds EXCEPT ![id] = r.h],
          row |-> RowAfter(s.row, id, r.fx), fx |-> r.fx, verdict |-> "applied"]
    ELSE [s EXCEPT !.fx = IF r.verdict = "recorded" THEN r.fx ELSE NoEffects, !.verdict = r.verdict]

\* A plain turn on the session an attempt lands on is closed; its dispatch is not cut.
Supersede(s, id) ==
    LET a == s.att[id]
        ev == [kind |-> "cancel", att |-> id, gen |-> a.gen, sess |-> a.session, reason |-> "superseded", source |-> "dispatch"] IN
    Persist(s, id, Reduce(a, s.holds[id], ev, NoContext))

\* An attempt lands on a session when an applied step opens it or moves it.
\* Mutant: only an attempt that opens is checked, not one that moves.
LandsOnOpen(a, r) == r.verdict = "applied" /\ r.a.terminal = NoTerminal /\ a.state = NoState

Lands(a, r) == r.verdict = "applied" /\ r.a.terminal = NoTerminal /\ (a.state = NoState \/ r.a.session # a.session)

\* The step is persisted unless it lands on a session where another mesh attempt is open.
PersistLanding(s, id, a, r) ==
    LET conflicting == IF Lands(a, r) THEN OpenOn(s, r.a.session) \ {id} ELSE {} IN
    IF \E other \in conflicting : IsMeshScope(s.att[other]) THEN [s EXCEPT !.verdict = "rejected"]
    ELSE Persist(IF conflicting = {} THEN s ELSE Supersede(s, CHOOSE other \in conflicting : TRUE), id, r)

ReduceFor(s, id, a, ev, x) ==
    Reduce(a, IF a.state = NoState THEN NoHolds ELSE s.holds[id], BackgroundRewrite(a, ev), x)

ApplyTo(s, id, a, ev, x) == PersistLanding(s, id, a, ReduceFor(s, id, a, ev, x))
ApplyStep(s, ev, x) == ApplyTo(s, ResolveAttempt(s, ev), Resolved(s, ev), ev, x)

\* observe: the step, and the held evidence its reevaluate effect observes again without live state.
Reevaluated(t, ev) ==
    IF t.fx.reevaluate = << >> THEN t
    ELSE [ApplyStep([t EXCEPT !.fx = NoEffects], [Head(t.fx.reevaluate) EXCEPT !.live = "clear", !.bg = ev.bg], NoContext)
             EXCEPT !.fx.stop = @ \/ t.fx.stop]

ObserveIn(s, ev, x) == Reevaluated(ApplyStep(s, ev, x), ev)

Install(s) == att' = s.att /\ holds' = s.holds /\ row' = s.row
Context(id) == [NoContext EXCEPT !.past = id \in past]
ContextOf(ev) == Context(ResolveAttempt(Current, ev))
Observe(ev) == Install(ObserveIn(Current, ev, ContextOf(ev))) /\ UNCHANGED <<past, cancels>>

(***************************************************************************)
(* The queue: claim and requeue of the task.                               *)
(***************************************************************************)
InjectionClosedStates == {C, G, S, F, "stopping"}
Opened == {n \in DOMAIN QueueAttempts : att[QueueAttempts[n]].state # NoState}
LatestNo == IF Opened = {} THEN 0 ELSE CHOOSE n \in Opened : \A m \in Opened : m <= n
OpenAttempt == {id \in QueueIds : IsOpen(att[id])}

DispatchAccepted(id, gen, scope, sess) ==
    [kind |-> "dispatch_accepted", att |-> id, gen |-> gen, sess |-> sess, scope |-> scope]

\* The attempt the claim dispatches: the open one, or the next attempt number.
ClaimedId == IF OpenAttempt # {} THEN CHOOSE id \in OpenAttempt : TRUE ELSE QueueAttempts[LatestNo + 1]

\* openOrResumeQueueAttempt on the claimed row; a refused or failed open never leaves it assigned to this claim.
OpenOrResume(sess) ==
    LET id == ClaimedId
        a == att[id] IN
    IF a.state \in InjectionClosedStates \cup {D} THEN [Current EXCEPT !.row = "assigned"]
    ELSE LET s == ObserveIn(Current, DispatchAccepted(id, IF a.state = NoState THEN 0 ELSE a.gen, "mesh_queue", sess), NoContext) IN
         IF s.verdict = "applied" THEN [s EXCEPT !.row = "assigned"] ELSE Current

CanClaim == row = "pending" /\ (OpenAttempt # {} \/ LatestNo < Len(QueueAttempts))
Claim(sess) == CanClaim /\ Install(OpenOrResume(sess)) /\ UNCHANGED <<past, cancels>>

CancelOf(id, reason, source) ==
    [kind |-> "cancel", att |-> id, gen |-> att[id].gen, sess |-> att[id].session, reason |-> reason, source |-> source]

\* retireOpenQueueAttemptForRequeue: the row becomes pending when the writer's stop is settled, not here.
Requeue(id, force) ==
    /\ id \in OpenAttempt /\ att[id].state # "stopping"
    /\ force \/ att[id].state \notin InjectionClosedStates
    /\ Observe(CancelOf(id, "superseded", IF force THEN "operator" ELSE "scheduler"))

\* cancelTask: a stop intent while an attempt is open (its event id is per generation), else the row's own terminal.
CancelTask ==
    \/ \E id \in OpenAttempt :
          /\ <<id, att[id].gen>> \notin cancels
          /\ Install(ObserveIn(Current, CancelOf(id, "operator_cancel", "operator"), Context(id)))
          /\ cancels' = cancels \cup {<<id, att[id].gen>>} /\ UNCHANGED past
    \/ OpenAttempt = {} /\ row \notin Terminal /\ row' = "cancelled" /\ UNCHANGED <<att, holds, past, cancels>>

(***************************************************************************)
(* The producers of evidence.  A reference names an attempt and one of the *)
(* generations it has had; evidence without one is about the session.      *)
(***************************************************************************)
Envelope(id, gen, sess) == [att |-> id, gen |-> gen, sess |-> sess]
ReferencesOf(id) == {Envelope(id, gen, sess) : gen \in 0..att[id].gen, sess \in Sessions}
References == UNION {ReferencesOf(id) : id \in {i \in MeshIds : att[i].state # NoState}}
Unreferenced == {Envelope(NoId, NoGen, sess) : sess \in Sessions}

SessionPayloads(kind) ==
    CASE kind \in {"turn_started", "transcript_activity"} -> [after : BOOLEAN]
      [] kind = "suspension" -> [key : ModalKeys, setup : BOOLEAN]
      [] kind = "suspension_resolved" -> [key : ModalKeys \cup {NoKey}]
      [] kind = "turn_end" -> [class : EndSignals \cap EndClasses, live : LiveStates, bg : BOOLEAN]
      [] kind = "transcript_final" ->
            [class : EndSignals \cap FinalClasses, live : LiveStates, owner : BOOLEAN, bg : BOOLEAN]
      [] kind = "no_progress" -> [final : {FALSE}, status : {"idle", "waiting", "busy"}, due : BOOLEAN]
      [] kind = "process_exit" -> [failure : BOOLEAN]
      [] kind = "worker_report" -> [outcome : Outcomes, late : BOOLEAN]
      [] kind = "liveness" -> [result : ProbeResults, age : {"fresh", "old", "precut"}]
      [] kind \in {"session_error", "worker_progress"} -> {<< >>}

DispatchPayloads(kind) ==
    CASE kind = "delivered" -> {<< >>}
      [] kind = "delivery_refused" -> [reclaiming : BOOLEAN]
      [] kind = "dispatch_failed" -> [absent : BOOLEAN, notStarted : BOOLEAN]
      [] kind = "duplicate_dispatch_refusal" -> [mine : BOOLEAN, to : Sessions]
      [] kind = "session_rebound" -> [to : Sessions]
      [] kind \in {"worker_report_correction_requested", "git_side_effect"} -> {<< >>}

DispatchKinds == { "delivered", "delivery_refused", "dispatch_failed", "duplicate_dispatch_refusal",
                   "session_rebound", "worker_report_correction_requested", "git_side_effect" }

OfKind(kind, envelope, payload) == [kind |-> kind] @@ envelope @@ payload

SessionEvidenceOf(kind, envelopes) ==
    {OfKind(kind, envelope, payload) : envelope \in envelopes, payload \in SessionPayloads(kind)}
DispatchEvidenceOf(kind) ==
    {OfKind(kind, envelope, payload) : envelope \in References, payload \in DispatchPayloads(kind)}

SessionEvidence(kind) == \E ev \in SessionEvidenceOf(kind, References) : Observe(ev)
UnboundEvidence(kind) == \E ev \in SessionEvidenceOf(kind, Unreferenced) : Observe(ev)
DispatchEvidence(kind) == \E ev \in DispatchEvidenceOf(kind) : Observe(ev)

DirectDispatch(id, sess) == att[id].state = NoState /\ Observe(DispatchAccepted(id, 0, "mesh_direct", sess))

\* sweepExpiredHolds: a hold whose deadline passed.  "overdue" is FALSE when a newer hold of the same reason replaced it.
HoldExpired(id, reason) ==
    { OfKind("hold_expired", Envelope(id, IF reason = "hard_ceiling" THEN NoGen ELSE att[id].gen, att[id].session),
             [reason |-> reason, recent |-> recent, overdue |-> overdue, bg |-> bg]) :
         recent, overdue, bg \in BOOLEAN }

ExpireHold(id, reason) ==
    /\ reason \in DOMAIN holds[id] \ {"suspension_before_consumed"}
    /\ reason = "hard_ceiling" => id \in past
    /\ \E ev \in HoldExpired(id, reason) : Observe(ev)

CeilingPasses(id) ==
    IsOpen(att[id]) /\ id \notin past /\ past' = past \cup {id} /\ UNCHANGED <<att, holds, row, cancels>>

OperatorStatus(id, outcome, settle) ==
    OfKind("operator_status", Envelope(id, att[id].gen, att[id].session),
           [outcome |-> outcome, settle |-> settle, source |-> "operator"])
Operator(id) == att[id].state # NoState /\ \E outcome \in Outcomes, settle \in BOOLEAN : Observe(OperatorStatus(id, outcome, settle))
Cancel(id, reason) == att[id].state # NoState /\ Observe(CancelOf(id, reason, "operator"))
Acknowledge(id) ==
    att[id].state # NoState /\ Observe(OfKind("coordinator_ack", Envelope(id, att[id].gen, att[id].session), << >>))

\* The scheduler's own operator_status, with the exact stop receipt or the unreachable bound behind it.
Settlement(id, gen, x) ==
    ObserveIn(Current, OfKind("operator_status", Envelope(id, gen, att[id].session),
                              [outcome |-> "failed", settle |-> FALSE, source |-> "scheduler"]),
              [x EXCEPT !.past = id \in past])
SettleWriterStop(id) ==
    /\ att[id].state = "stopping"
    /\ Install(Settlement(id, att[id].gen, [NoContext EXCEPT !.confirmed = TRUE])) /\ UNCHANGED <<past, cancels>>
SettleUnreachable(id) ==
    /\ att[id].state = "stopping"
    /\ Install(Settlement(id, att[id].gen, [NoContext EXCEPT !.unreachable = TRUE])) /\ UNCHANGED <<past, cancels>>
=============================================================================
