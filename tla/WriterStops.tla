----------------------------- MODULE WriterStops -----------------------------
(***************************************************************************)
(* Who may write to the task's worktree: the turn ledger composed with the *)
(* worker sessions it dispatches to and the exact stop it asks of their    *)
(* hosts before it hands the task to another session                       *)
(* (commands/mesh-writer-stop.ts, ledger.ts resumeStoppingWriters).        *)
(*                                                                         *)
(* A session's processes are up, dying after a stop, or gone; a session    *)
(* that is gone does not come back.  Prompts, stop requests and receipts   *)
(* travel between daemons: any of them may be late or lost, receipts also  *)
(* duplicated.  Sessions, each on a daemon of its own, only say what is so *)
(* (a prompt they took, an exit that happened), but they may say it late;  *)
(* a liveness probe may be wrong.                                          *)
(***************************************************************************)
EXTENDS TurnLedger

CONSTANTS
    StopFails,      \* a stop may fail after its capture: refused by the session host, or the daemon restarts in between
    Unreachable,    \* a worker's daemon may be unreachable
    Requeues        \* the operator may requeue the task by force

VARIABLES
    proc,       \* session -> "up", "dying" or "gone"
    work,       \* session -> the attempt and generation it works on
    flights,    \* prompts on their way to a session
    took,       \* prompts that sessions have taken, ever
    stops,      \* stop requests on their way to a host
    captures,   \* the hosts' journal: stop requests whose process tree was captured
    unclear,    \* sessions that their host will not stop for now
    receipts,   \* receipts of quiescent writers
    gone        \* attempt -> unreachable inspections seen in a row by this process of the owner

hostVars == <<proc, work, flights, took, stops, captures, unclear, receipts, gone>>
vars == <<ledgerVars, hostVars>>

NoWork == Envelope(NoId, NoGen, NoSession)
PromptOf(id) == Envelope(id, att[id].gen, att[id].session)

Init ==
    /\ LedgerInit
    /\ proc = [s \in Sessions |-> "up"] /\ work = [s \in Sessions |-> NoWork]
    /\ flights = {} /\ took = {} /\ stops = {} /\ captures = {} /\ unclear = {} /\ receipts = {}
    /\ gone = [id \in Ids |-> 0]

\* The stop requests and redeliveries a step asks for leave after its commit; a crash or the transport may lose the stops.
AskedStops == {PromptOf(id)' : id \in {i \in QueueIds : att'[i].state = "stopping" /\ att'[i].stop.tries > att[i].stop.tries}}
Redelivered == {PromptOf(id)' : id \in {i \in QueueIds : att'[i].redrives > att[i].redrives}}
PostCommit ==
    /\ \E sent \in SUBSET AskedStops : stops' = stops \cup sent
    /\ flights' = flights \cup Redelivered
    /\ UNCHANGED <<proc, work, took, captures, unclear, receipts, gone>>

\* Mutant: a writer counts as quiescent once its stop was sent.
StopSent(s) == proc[s] # "up"

\* The census of the host finds no process of the session's tree, nor the session.
Quiescent(s) == proc[s] = "gone"

(***************************************************************************)
(* The owner.                                                              *)
(***************************************************************************)
\* A claim dispatches the prompt of the attempt it opened or resumed.
ClaimTask(s) ==
    /\ proc[s] = "up"
    /\ LET closed == att[ClaimedId].state \in InjectionClosedStates IN
       /\ Claim(s)
       /\ flights' = IF row' = "assigned" /\ ~closed THEN flights \cup {Envelope(ClaimedId, att'[ClaimedId].gen, s)} ELSE flights
    /\ UNCHANGED <<proc, work, took, stops, captures, unclear, receipts, gone>>

Sweep(id, reason) == reason \in DOMAIN holds[id] /\ ExpireHold(id, reason) /\ PostCommit
PassCeiling(id) == CeilingPasses(id) /\ UNCHANGED hostVars
ForceRequeue(id) == Requeues /\ Requeue(id, TRUE) /\ PostCommit
CancelByOperator == CancelTask /\ PostCommit
ProbeFindsNothing(id) ==
    att[id].state \in {C, G, S, F} /\ Observe(OfKind("liveness", PromptOf(id), [result |-> "dead", age |-> "fresh"])) /\ PostCommit

\* What a session that took a prompt reports about it, at any later time.
Report(prompt, ev) == prompt \in took /\ Observe(ev) /\ PostCommit
Delivered(prompt) == Report(prompt, OfKind("delivered", prompt, << >>))
Started(prompt) == Report(prompt, OfKind("turn_started", prompt, [after |-> FALSE]))
Exited(prompt) == proc[prompt.sess] # "up" /\ Report(prompt, OfKind("process_exit", prompt, [failure |-> FALSE]))

\* settleWriterStop: the receipt must be the one of this stop of this generation on this session.
ReceiptMatches(r) == att[r.att].state = "stopping" /\ r = PromptOf(r.att)
ReceiptArrives(r) ==
    /\ r \in receipts /\ ReceiptMatches(r) /\ SettleWriterStop(r.att)
    /\ gone' = [gone EXCEPT ![r.att] = 0]
    /\ UNCHANGED <<proc, work, flights, took, stops, captures, unclear, receipts>>


Inspect(id) ==
    /\ att[id].state = "stopping"
    /\ LET r == PromptOf(id) IN
       /\ receipts' = IF Quiescent(r.sess) THEN receipts \cup {r} ELSE receipts
       /\ stops' = IF ~Quiescent(r.sess) /\ r \notin captures THEN stops \cup {r} ELSE stops
    /\ gone' = [gone EXCEPT ![id] = 0]
    /\ UNCHANGED <<ledgerVars, proc, work, flights, took, captures, unclear>>

\* ... or does not reach it: the second time in a row the stop is settled as unreachable.
InspectFails(id) ==
    /\ Unreachable /\ att[id].state = "stopping"
    /\ \/ gone[id] = 0 /\ gone' = [gone EXCEPT ![id] = 1] /\ UNCHANGED ledgerVars
       \/ gone[id] = 1 /\ gone' = [gone EXCEPT ![id] = 0] /\ SettleUnreachable(id)
    /\ UNCHANGED <<proc, work, flights, took, stops, captures, unclear, receipts>>

\* A restart of the owner loses what it kept in memory and the requests on their way.
OwnerRestarts ==
    /\ gone' = [id \in Ids |-> 0] /\ stops' = {} /\ flights' = {}
    /\ UNCHANGED <<ledgerVars, proc, work, took, captures, unclear, receipts>>

(***************************************************************************)
(* The sessions and their hosts.                                           *)
(***************************************************************************)
\* agentSendChat refuses a session that is gone, being stopped or busy with other work.
Accepts(f) ==
    proc[f.sess] = "up" /\ work[f.sess] \in {NoWork, f} /\ \A c \in captures : c.sess # f.sess
PromptArrives(f) ==
    /\ f \in flights /\ flights' = flights \ {f}
    /\ IF Accepts(f)
       THEN work' = [work EXCEPT ![f.sess] = f] /\ took' = took \cup {f}
       ELSE UNCHANGED <<work, took>>
    /\ UNCHANGED <<ledgerVars, proc, stops, captures, unclear, receipts, gone>>

\* Before its capture stopExactMeshWriter refuses what it cannot be sure of: an unbound worker that is busy, a runtime,
\* assignment or root process that does not check out, a tree with a detached child or a foreign member.  The refusal
\* lasts as long as its cause, for instance as long as the detached child runs.
HostUnsure(s) ==
    /\ proc[s] = "up" /\ s \notin unclear /\ unclear' = unclear \cup {s}
    /\ UNCHANGED <<ledgerVars, proc, work, flights, took, stops, captures, receipts, gone>>
HostSure(s) ==
    /\ s \in unclear /\ unclear' = unclear \ {s}
    /\ UNCHANGED <<ledgerVars, proc, work, flights, took, stops, captures, receipts, gone>>

\* Otherwise only the session's own work, or an unbound worker, is captured and stopped; a refused request changes
\* nothing and is answered as pending.
StopTakes(r) == proc[r.sess] = "up" /\ work[r.sess] \in {r, NoWork} /\ r.sess \notin unclear

HostStops(r) ==
    /\ r \in stops /\ stops' = stops \ {r}
    /\ receipts' = IF Quiescent(r.sess) THEN receipts \cup {r} ELSE receipts
    /\ captures' = IF StopTakes(r) THEN captures \cup {r} ELSE captures
    /\ proc' = IF StopTakes(r) THEN [proc EXCEPT ![r.sess] = "dying"] ELSE proc
    /\ UNCHANGED <<ledgerVars, work, flights, took, unclear, gone>>

\* The claim changes, the session host refuses or the daemon restarts after the capture is written and before the stop.
StopFailsAfterCapture(r) ==
    /\ StopFails /\ r \in stops /\ StopTakes(r)
    /\ stops' = stops \ {r} /\ captures' = captures \cup {r}
    /\ UNCHANGED <<ledgerVars, proc, work, flights, took, unclear, receipts, gone>>

TreeDies(s) ==
    /\ proc[s] = "dying" /\ proc' = [proc EXCEPT ![s] = "gone"] /\ work' = [work EXCEPT ![s] = NoWork]
    /\ UNCHANGED <<ledgerVars, flights, took, stops, captures, unclear, receipts, gone>>

\* The session's own idle edge clears its stamp.
TurnFinishes(s) ==
    /\ proc[s] = "up" /\ work[s] # NoWork /\ work' = [work EXCEPT ![s] = NoWork]
    /\ UNCHANGED <<ledgerVars, proc, flights, took, stops, captures, unclear, receipts, gone>>

SessionExits(s) ==
    /\ proc[s] = "up" /\ proc' = [proc EXCEPT ![s] = "gone"] /\ work' = [work EXCEPT ![s] = NoWork]
    /\ unclear' = unclear \ {s}
    /\ UNCHANGED <<ledgerVars, flights, took, stops, captures, receipts, gone>>

Next ==
    \/ \E s \in Sessions : ClaimTask(s) \/ TurnFinishes(s) \/ TreeDies(s) \/ SessionExits(s) \/ HostUnsure(s) \/ HostSure(s)
    \/ \E id \in QueueIds : \/ \E reason \in DOMAIN holds[id] : Sweep(id, reason)
                            \/ PassCeiling(id) \/ ForceRequeue(id) \/ ProbeFindsNothing(id)
                            \/ Inspect(id) \/ InspectFails(id)
    \/ CancelByOperator
    \/ \E p \in took : Delivered(p) \/ Started(p) \/ Exited(p)
    \/ \E f \in flights : PromptArrives(f)
    \/ \E r \in stops : HostStops(r) \/ StopFailsAfterCapture(r)
    \/ \E r \in receipts : ReceiptArrives(r)
    \/ OwnerRestarts

Spec == Init /\ [][Next]_vars

\* The ceiling passes; the sweep (of the ceiling and of a stop's retry timer), the resume loop and the hosts keep running; not every stop request is lost.
\* The weak fairness of the reducer steps names their enabling condition, because TLC evaluates ENABLED of them slowly.
CeilingDue(id) == id \in past /\ "hard_ceiling" \in DOMAIN holds[id]
RetryDue(id) == att[id].state = "stopping" /\ "liveness" \in DOMAIN holds[id]
ReceiptDue(r) == r \in receipts /\ ReceiptMatches(r)
Prompts == [att : QueueIds, gen : 0..ReclaimBudget, sess : Sessions]
Fairness ==
    /\ \A id \in QueueIds : WF_vars(PassCeiling(id)) /\ WF_vars(Inspect(id))
    /\ \A id \in QueueIds : []<>~CeilingDue(id) \/ []<><<Sweep(id, "hard_ceiling")>>_vars
    /\ \A id \in QueueIds : []<>~RetryDue(id) \/ []<><<Sweep(id, "liveness")>>_vars
    /\ \A r \in Prompts : SF_vars(HostStops(r)) /\ ([]<>~ReceiptDue(r) \/ []<><<ReceiptArrives(r)>>_vars)
    /\ \A s \in Sessions : WF_vars(TreeDies(s))
FairSpec == Spec /\ Fairness

(***************************************************************************)
(* Properties.                                                             *)
(***************************************************************************)
\* Types of the composition: prompts, requests and receipts name an attempt, one of its generations and a session.
WriterTypeOK ==
    /\ proc \in [Sessions -> {"up", "dying", "gone"}] /\ work \in [Sessions -> Prompts \cup {NoWork}]
    /\ flights \cup took \cup stops \cup captures \cup receipts \subseteq Prompts
    /\ unclear \subseteq {s \in Sessions : proc[s] # "gone"} /\ gone \in [Ids -> 0..1]

Writers ==
    {s \in Sessions : proc[s] # "gone" /\ (work[s] # NoWork \/ (proc[s] = "up" /\ \E f \in flights : f.sess = s))}

\* At no time can two sessions work on the task, nor can one get its prompt while another still works on it, whatever is
\* lost, late or duplicated (reducer.ts reclaimAttempt and commitOutcome wait for the exact stop; ledger.ts settleWriterStop).
ExclusiveWriter == Cardinality(Writers) <= 1

\* The host holds the capture of a stop that failed after it: the inspection finds the capture and asks for no other stop.
StopForgotten(id) == att[id].state = "stopping" /\ PromptOf(id) \in captures /\ proc[att[id].session] = "up"

\* The host refuses to stop the writer of the attempt.
StopRefused(id) == att[id].state = "stopping" /\ att[id].session \in unclear


=============================================================================
