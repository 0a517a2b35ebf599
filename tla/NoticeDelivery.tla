--------------------------- MODULE NoticeDelivery ---------------------------
(***************************************************************************)
(* Coordinator notices: the turn.deliver cursor, the backlog passes and    *)
(* the MCP inbox compete to bring one mesh's published notices to its      *)
(* coordinator sessions (turn-ledger/deliver.ts, routing.ts,               *)
(* suppression.ts, notice-consume-watch.ts), all through the one input     *)
(* funnel of the daemon (sessions/session-input-service.ts).               *)
(*                                                                         *)
(* A notice is its position in the mesh topic.  Its text, its refs and the *)
(* status line are left out; its kind is "decision" (watched until the     *)
(* coordinator took it), "outcome" (never held, not watched) or "info"     *)
(* (may be held for company).                                              *)
(***************************************************************************)
EXTENDS Integers, FiniteSets, FiniteSetsExt

CONSTANTS N,            \* notices are 1..N, in the order they are published
          Sessions,     \* coordinator sessions of the mesh on this daemon
          Passes,       \* backlog passes that may overlap
          Kind, Fact, Target,   \* of a notice: see below
          NoFact,       \* a notice without a wake key
          AnySession,   \* a notice addressed to any coordinator
          MaxExtras,    \* COALESCE_MAX_EXTRAS
          MaxCrashes, MaxLost,  \* bounds on daemon deaths and lost writes
          Mobile,       \* notices whose attempt may move past them
          Ages,         \* notices a day may pass over
          Views,        \* what a session may turn into: idle, busy, modal, absent
          Refusals,     \* the funnel may refuse a live session
          McpReads      \* a coordinator reads its inbox over MCP

Notices == 1..N
Nobody == "nobody"

ASSUME NoticeAssumption ==
    /\ N \in Nat \ {0} /\ MaxExtras \in Nat
    /\ Kind \in [Notices -> {"decision", "outcome", "info"}]
    /\ Target \in [Notices -> Sessions \cup {AnySession}]
    /\ Mobile \subseteq {n \in Notices: Kind[n] # "outcome" /\ Fact[n] = NoFact}
    /\ "cursor" \notin Passes
    /\ Views \subseteq {"absent", "idle", "busy", "modal"}

VARIABLES published,  \* notices 1..published are in the topic
          cursor,     \* durable position of turn.deliver
          claims,     \* the delivered: row of a notice, or "none"
          h,          \* the handler run of the cursor and of each pass
          todo,       \* rows a pass has still to go through
          settled,    \* what the funnel remembers of a message id
          view,       \* what the daemon sees of a session
          stale,      \* notices whose attempt has moved past them
          young,      \* notices inside their coalescing window
          late,       \* notices past their delivery ceiling
          old,        \* notices whose row is older than a day
          faded,      \* notices whose claim, with its wake key, is older than a day
          sent,       \* every write of the funnel, and what became of it
          retried,    \* messages redelivered once already
          taken,      \* notices a coordinator has really read
          crashes

notices == <<published, stale, young, late, old, faded>>
vars == <<notices, cursor, claims, h, todo, settled, view, sent, retried, taken, crashes>>

Handlers == {"cursor"} \cup Passes

WakeOutcomes == {"delivered", "queued", "duplicate", "mcp_read"}
Outcomes == WakeOutcomes \cup {"none", "suppressed", "retracted"}

Idle == [pc |-> "idle", n |-> 0, to |-> Nobody, refused |-> {}, rounds |-> 0,
         extras |-> {}, out |-> "none"]

Init ==
    /\ published = 0 /\ cursor = 0
    /\ stale = {} /\ young = {} /\ late = {} /\ old = {} /\ faded = {}
    /\ claims = [n \in Notices |-> "none"]
    /\ h = [x \in Handlers |-> Idle]
    /\ todo = [x \in Passes |-> {}]
    /\ settled = [n \in Notices |-> "none"]
    /\ sent = {} /\ retried = {} /\ taken = {} /\ crashes = 0
    /\ view \in [Sessions -> {"absent", "idle"}]

-----------------------------------------------------------------------------
(* The world: notices appear, attempts and clocks move on, sessions change.*)

\* The publisher appends the next turn.notify of this mesh.
Publish ==
    /\ published < N
    /\ published' = published + 1
    /\ young' = IF Kind[published + 1] = "info" THEN young \cup {published + 1} ELSE young
    /\ UNCHANGED <<stale, late, old, faded, cursor, claims, h, todo, settled, view, sent, retried, taken, crashes>>

\* The attempt leaves the state a notice announces: an outcome stays true.
AttemptMoves(n) ==
    /\ n <= published /\ n \notin stale /\ n \in Mobile
    /\ stale' = stale \cup {n}
    /\ UNCHANGED <<published, young, late, old, faded, cursor, claims, h, todo, settled, view, sent, retried, taken, crashes>>

WindowEnds(n) ==
    /\ n \in young
    /\ young' = young \ {n}
    /\ UNCHANGED <<published, stale, late, old, faded, cursor, claims, h, todo, settled, view, sent, retried, taken, crashes>>

\* Only a delivery the cursor defers looks at the ceiling; a notice that is
\* past it when the cursor comes to it is deferred for no time.
CeilingPasses(n) ==
    /\ h["cursor"].pc = "waiting" /\ h["cursor"].n = n /\ n \notin late
    /\ late' = late \cup {n}
    /\ UNCHANGED <<published, stale, young, old, faded, cursor, claims, h, todo, settled, view, sent, retried, taken, crashes>>

\* A day passes over the notice's row.
AgesOut(n) ==
    /\ n \in Ages \ old /\ n <= published /\ n \notin young
    /\ old' = old \cup {n}
    /\ UNCHANGED <<published, stale, young, late, faded, cursor, claims, h, todo, settled, view, sent, retried, taken, crashes>>

\* A day passes over its claim: a watch of that claim is long over.
KeyFades(n) ==
    /\ n \in old \ faded /\ Fact[n] # NoFact /\ claims[n] \in WakeOutcomes
    /\ ~\E w \in sent: w.watch = "armed" /\ n \in w.ids
    /\ faded' = faded \cup {n}
    /\ UNCHANGED <<published, stale, young, late, old, cursor, claims, h, todo, settled, view, sent, retried, taken, crashes>>

SessionChanges(s) ==
    /\ \E v \in Views \ {view[s]}: view' = [view EXCEPT ![s] = v]
    /\ UNCHANGED <<notices, cursor, claims, h, todo, settled, sent, retried, taken, crashes>>

-----------------------------------------------------------------------------
(* Suppression and routing.                                                *)

\* A fact some coordinator was woken for within the day (the key on a claim).
Woken(n) ==
    Fact[n] # NoFact /\ \E m \in Notices \ faded: claims[m] \in WakeOutcomes /\ Fact[m] = Fact[n]

Suppressed(n) == n \in stale \/ Woken(n)

\* Mutant: only rows ahead of the cursor count as undelivered.
PendingAhead == {n \in cursor+1..published: claims[n] = "none" /\ n \notin old}

\* The rows offered again: after a day they are history, not news.
Pending == {n \in 1..published: claims[n] = "none" /\ n \notin old}

Live == {s \in Sessions: view[s] # "absent"}
Ready(s) == view[s] = "idle"

BestOf(views) ==
    IF \E s \in views: Ready(s) THEN {s \in views: Ready(s)}
    ELSE IF \E s \in views: view[s] # "modal" THEN {s \in views: view[s] # "modal"}
    ELSE views

\* The answers routeNotice may give: a session, "wait" or "none".
RouteNotice(wanted, coordinators, pastCeiling) ==
    IF coordinators = {} THEN {"none"}
    ELSE IF wanted \in coordinators
         THEN IF Ready(wanted) THEN {wanted}
              ELSE IF ~pastCeiling THEN {"wait"}
              ELSE IF \E s \in coordinators: Ready(s) THEN {s \in coordinators: Ready(s)}
              ELSE {wanted}
    ELSE IF wanted = AnySession /\ \E s \in coordinators: Ready(s)
         THEN {s \in coordinators: Ready(s)}
    ELSE IF ~pastCeiling THEN {"wait"}
    ELSE BestOf(coordinators)


\* What else rides in the cursor's message: the first MaxExtras companions.
GatherCoalesced(n) ==
    LET fit == {m \in Pending \ {n}: /\ Target[m] = Target[n] /\ ~Suppressed(m)
                                     /\ (Fact[m] # NoFact => Fact[m] # Fact[n])}
        first == {m \in fit: ~\E k \in fit: k < m /\ Fact[m] # NoFact /\ Fact[k] = Fact[m]}
    IN  {m \in first: Cardinality({k \in first: k < m}) < MaxExtras}

-----------------------------------------------------------------------------
(* One handler run.                                                        *)

InFlight(n) == \E x \in Handlers: h[x].pc = "submitting" /\ h[x].n = n

\* The handler returned: the cursor advances, a pass goes on with its rows.
Return(x, n) ==
    /\ h' = [h EXCEPT ![x] = Idle]
    /\ IF x = "cursor" THEN cursor' = n /\ UNCHANGED todo
       ELSE todo' = [todo EXCEPT ![x] = @ \ {n}] /\ UNCHANGED cursor

\* The handler threw, or a pass met a notice it cannot deliver now.
GiveUp(x) ==
    /\ h' = [h EXCEPT ![x] = Idle]
    /\ todo' = IF x = "cursor" THEN todo ELSE [todo EXCEPT ![x] = {}]
    /\ UNCHANGED cursor

\* The loop of the handler, from its top to the next await.
Deliver(x, n, refused, rounds) ==
    IF claims[n] # "none" THEN Return(x, n)
    ELSE \E route \in RouteNotice(Target[n], Live \ refused, x = "cursor" /\ n \in late):
        \/ route = "none" /\ (IF x = "cursor" THEN Return(x, n) ELSE GiveUp(x))
        \/ /\ route = "wait"
           /\ IF x = "cursor"
              THEN /\ h' = [h EXCEPT ![x] = [Idle EXCEPT !.pc = "waiting", !.n = n, !.refused = refused, !.rounds = rounds]]
                   /\ UNCHANGED <<cursor, todo>>
              ELSE GiveUp(x)
        \/ /\ route \in Sessions
           /\ h' = [h EXCEPT ![x] =
                [pc |-> IF InFlight(n) THEN "joined" ELSE "submitting", n |-> n, to |-> route,
                 refused |-> refused, rounds |-> rounds, out |-> "none",
                 extras |-> IF x = "cursor" THEN GatherCoalesced(n) ELSE {}]]
           /\ UNCHANGED <<cursor, todo>>

\* The handler from its start to its first await.
Handle(x, n) ==
    IF claims[n] # "none" THEN Return(x, n) /\ UNCHANGED claims
    ELSE IF Suppressed(n) THEN /\ claims' = [claims EXCEPT ![n] = "suppressed"]
                               /\ Return(x, n)
    ELSE /\ UNCHANGED claims
         /\ IF x = "cursor" /\ n \in young
            THEN /\ h' = [h EXCEPT ![x] = [Idle EXCEPT !.pc = "held", !.n = n]]
                 /\ UNCHANGED <<cursor, todo>>
            ELSE Deliver(x, n, {}, 0)

CursorTakes ==
    /\ h["cursor"].pc = "idle" /\ cursor < published
    /\ Handle("cursor", cursor + 1)
    /\ UNCHANGED <<notices, settled, view, sent, retried, taken, crashes>>

\* A bus edge or the tick starts a pass over the rows pending then.
BacklogStarts(x) ==
    /\ h[x].pc = "idle" /\ todo[x] = {} /\ Live # {} /\ Pending # {}
    /\ todo' = [todo EXCEPT ![x] = Pending]
    /\ UNCHANGED <<notices, cursor, claims, h, settled, view, sent, retried, taken, crashes>>

BacklogTakes(x) ==
    /\ h[x].pc = "idle" /\ todo[x] # {}
    /\ Handle(x, Min(todo[x]))
    /\ UNCHANGED <<notices, settled, view, sent, retried, taken, crashes>>

HoldEnds ==
    /\ h["cursor"].pc = "held" /\ h["cursor"].n \notin young
    /\ LET n == h["cursor"].n IN
       IF claims[n] = "none" /\ n \in stale
       THEN claims' = [claims EXCEPT ![n] = "suppressed"] /\ Return("cursor", n)
       ELSE UNCHANGED claims /\ Deliver("cursor", n, {}, 0)
    /\ UNCHANGED <<notices, settled, view, sent, retried, taken, crashes>>

\* An edge, the re-check cap or the ceiling wakes a deferred delivery.
WaitEnds ==
    /\ h["cursor"].pc = "waiting"
    /\ Deliver("cursor", h["cursor"].n, h["cursor"].refused, h["cursor"].rounds)
    /\ UNCHANGED <<notices, claims, settled, view, sent, retried, taken, crashes>>

-----------------------------------------------------------------------------
(* The input funnel: one write per message id, everyone else a duplicate.  *)

\* An id remembered as written is a duplicate if text and session are the
\* same, an identity conflict (refused) if not: the pass writes no companions.
PortOutcomes(n, s) ==
    IF settled[n] = "delivered" THEN {"duplicate", "refused"}
    ELSE IF view[s] = "absent" THEN {"refused"}
    ELSE IF settled[n] = "queued" THEN {"duplicate"}
    ELSE {"queued"} \cup (IF Ready(s) THEN {"delivered"} ELSE {})
                    \cup (IF Refusals THEN {"refused"} ELSE {})

\* The first submit of a message id ends; the ones that joined it are told
\* "duplicate", whatever became of it.
Answers(x, out) ==
    [y \in Handlers |->
        IF y = x THEN [h[y] EXCEPT !.pc = "answered", !.out = out]
        ELSE IF h[y].pc = "joined" /\ h[y].n = h[x].n
             THEN [h[y] EXCEPT !.pc = "answered", !.out = "duplicate"]
        ELSE h[y]]

InHand(x) == IF h[x].pc \in {"submitting", "joined", "answered"} THEN {h[x].n} \cup h[x].extras ELSE {}

\* Five minutes later the funnel forgets the id, unless its text is parked
\* still.  By then it is claimed and its watch is over; what it forgets
\* matters only for a notice released with the message it rode in.
Forgets(n) ==
    /\ settled[n] # "none" /\ claims[n] = "none"
    /\ \A x \in Handlers: n \notin InHand(x)
    /\ ~\E w \in sent: w.n = n /\ (w.watch = "armed" \/ w.how = "queued")
    /\ settled' = [settled EXCEPT ![n] = "none"]
    /\ UNCHANGED <<notices, cursor, claims, h, todo, view, sent, retried, taken, crashes>>

\* Mutant: a message may be released again and again.
WatchAgain(n, out) == IF out = "delivered" /\ Kind[n] = "decision" THEN "armed" ELSE "none"

\* Only a write whose primary notice is of a watched kind is re-checked.
Watch(n, out) ==
    IF out = "delivered" /\ Kind[n] = "decision" /\ n \notin retried THEN "armed" ELSE "none"

Write(n, ids, out) ==
    [n |-> n, ids |-> ids, how |-> out, watch |-> Watch(n, out),
     copy |-> 1 + Cardinality({w \in sent: w.n = n})]

\* Mutant: a parked message is not remembered, only a written one.
PortForgetsParked(x) ==
    /\ h[x].pc = "submitting"
    /\ \E out \in PortOutcomes(h[x].n, h[x].to):
        /\ h' = Answers(x, out)
        /\ IF out \in {"delivered", "queued"}
           THEN /\ settled' = [settled EXCEPT ![h[x].n] = IF out = "queued" THEN "none" ELSE out]
                /\ sent' = sent \cup {Write(h[x].n, {h[x].n} \cup h[x].extras, out)}
           ELSE UNCHANGED <<settled, sent>>
    /\ UNCHANGED <<notices, cursor, claims, todo, view, retried, taken, crashes>>

\* The submit ends.  A refusal is not remembered.
PortSettles(x) ==
    /\ h[x].pc = "submitting"
    /\ \E out \in PortOutcomes(h[x].n, h[x].to):
        /\ h' = Answers(x, out)
        /\ IF out \in {"delivered", "queued"}
           THEN /\ settled' = [settled EXCEPT ![h[x].n] = out]
                /\ sent' = sent \cup {Write(h[x].n, {h[x].n} \cup h[x].extras, out)}
           ELSE UNCHANGED <<settled, sent>>
    /\ UNCHANGED <<notices, cursor, claims, todo, view, retried, taken, crashes>>

ClaimAll(ids, out) == [n \in Notices |-> IF n \in ids /\ claims[n] = "none" THEN out ELSE claims[n]]

\* The handler goes on with the funnel's answer: claim, or try elsewhere.
Answered(x) ==
    /\ h[x].pc = "answered"
    /\ LET n == h[x].n
           refused == h[x].refused \cup {h[x].to}
           ids == {n} \cup h[x].extras
       IN  IF h[x].out = "refused"
           THEN /\ IF Live \ refused # {} /\ h[x].rounds + 1 < 3
                   THEN Deliver(x, n, refused, h[x].rounds + 1)
                   ELSE GiveUp(x)
                /\ UNCHANGED claims
           ELSE /\ claims' = ClaimAll(ids, h[x].out)
                /\ Return(x, n)
    /\ UNCHANGED <<notices, settled, view, sent, retried, taken, crashes>>

-----------------------------------------------------------------------------
(* The MCP inbox, retraction, and what becomes of a write.                 *)

\* Without a live coordinator session everything is claimed; with one only
\* the informational notices are, the rest stay for the cursor.
McpRead ==
    /\ McpReads /\ Pending # {}
    /\ LET fresh == {n \in Pending: ~Suppressed(n)}
           surfaced == {n \in fresh: ~\E k \in fresh: k < n /\ Fact[n] # NoFact /\ Fact[k] = Fact[n]}
           read == {n \in surfaced: Live = {} \/ Kind[n] = "info"}
       IN  /\ claims' = [n \in Notices |-> IF n \in read THEN "mcp_read"
                                           ELSE IF n \in Pending \ surfaced THEN "suppressed"
                                           ELSE claims[n]]
           /\ taken' = taken \cup read
    /\ UNCHANGED <<notices, cursor, h, todo, settled, view, sent, retried, crashes>>

\* A later fact made an undelivered event notice obsolete.
Retract(n) ==
    /\ n \in Pending /\ Kind[n] = "info"
    /\ claims' = [claims EXCEPT ![n] = "retracted"]
    /\ UNCHANGED <<notices, cursor, h, todo, settled, view, sent, retried, taken, crashes>>

Unread(w) == w.how \in {"delivered", "queued"}

Becomes(w, v) == sent' = (sent \ {w}) \cup {v}

AgentTakes(w) ==
    /\ Unread(w)
    /\ Becomes(w, [w EXCEPT !.how = "taken"])
    /\ taken' = taken \cup w.ids
    /\ UNCHANGED <<notices, cursor, claims, h, todo, settled, view, retried, crashes>>

\* The text was typed, at once or from the driver's queue, and the composer
\* lost it; or it was parked and the driver died with it.
WriteLost(w) ==
    /\ Unread(w) /\ Cardinality({v \in sent: v.how = "lost"}) < MaxLost
    /\ Becomes(w, [w EXCEPT !.how = "lost"])
    /\ UNCHANGED <<notices, cursor, claims, h, todo, settled, view, retried, taken, crashes>>

\* The consume watch looks a minute after the write: by then every submit
\* that had these notices in hand is over and its handler has claimed them.
WatchDue(w) ==
    /\ w.watch = "armed"
    /\ \A x \in Handlers: w.ids \cap InHand(x) = {}

\* The engine confirmed the message, or has it parked still: nothing to do.
WatchLeaves(w) ==
    /\ WatchDue(w) /\ w.how # "lost"
    /\ Becomes(w, [w EXCEPT !.watch = "none"])
    /\ UNCHANGED <<notices, cursor, claims, h, todo, settled, view, retried, taken, crashes>>

\* Mutant: the watch makes the funnel forget the message but leaves the claims.
WatchKeepsClaims(w) ==
    /\ WatchDue(w)
    /\ Becomes(w, [w EXCEPT !.watch = "released"])
    /\ retried' = retried \cup {w.n}
    /\ settled' = [settled EXCEPT ![w.n] = "none"]
    /\ UNCHANGED <<notices, cursor, claims, h, todo, view, taken, crashes>>

\* Nothing confirms the message, whether or not it arrived: every notice of
\* it is released for one more delivery.
WatchReleases(w) ==
    /\ WatchDue(w)
    /\ Becomes(w, [w EXCEPT !.watch = "released"])
    /\ retried' = retried \cup {w.n}
    /\ settled' = [settled EXCEPT ![w.n] = "none"]
    /\ claims' = [n \in Notices |-> IF n \in w.ids THEN "none" ELSE claims[n]]
    /\ UNCHANGED <<notices, cursor, h, todo, view, taken, crashes>>

\* The daemon dies: claims and the cursor are rows, the rest was memory.
Crash ==
    /\ crashes < MaxCrashes
    /\ crashes' = crashes + 1
    /\ h' = [x \in Handlers |-> Idle] /\ todo' = [x \in Passes |-> {}]
    /\ settled' = [n \in Notices |-> "none"] /\ retried' = {}
    /\ sent' = {IF w.watch = "armed" THEN [w EXCEPT !.watch = "none"] ELSE w : w \in sent}
    /\ view' = [s \in Sessions |-> "absent"]
    /\ UNCHANGED <<notices, cursor, claims, taken>>

Next ==
    \/ Publish \/ CursorTakes \/ HoldEnds \/ WaitEnds \/ McpRead \/ Crash
    \/ \E n \in Notices: AttemptMoves(n) \/ WindowEnds(n) \/ CeilingPasses(n) \/ Retract(n)
                        \/ AgesOut(n) \/ KeyFades(n) \/ Forgets(n)
    \/ \E s \in Sessions: SessionChanges(s)
    \/ \E x \in Passes: BacklogStarts(x) \/ BacklogTakes(x)
    \/ \E x \in Handlers: PortSettles(x) \/ Answered(x)
    \/ \E w \in sent: AgentTakes(w) \/ WriteLost(w) \/ WatchLeaves(w) \/ WatchReleases(w)

Spec == Init /\ [][Next]_vars

\* The event loop runs every continuation, timers fire, the cursor and the
\* tick come round, the five minutes pass whatever the handlers do, and an
\* agent that was typed to reads its input.
Fairness ==
    /\ WF_vars(CursorTakes) /\ WF_vars(HoldEnds) /\ WF_vars(WaitEnds)
    /\ \A n \in Notices: WF_vars(WindowEnds(n)) /\ WF_vars(CeilingPasses(n))
    /\ \A n \in Notices: SF_vars(Forgets(n))
    /\ \A x \in Passes: WF_vars(BacklogStarts(x)) /\ WF_vars(BacklogTakes(x))
    /\ \A x \in Handlers: WF_vars(PortSettles(x)) /\ WF_vars(Answered(x))
    /\ WF_vars(\E w \in sent: AgentTakes(w) \/ WriteLost(w))
    /\ WF_vars(\E w \in sent: WatchLeaves(w) \/ WatchReleases(w))

FairSpec == Spec /\ Fairness

-----------------------------------------------------------------------------
\* Every cursor, claim, handler run and session view keeps its type: the
\* cursor stays within the topic, and what is stale, held, old or read is a
\* published notice.
TypeOK ==
    /\ published \in 0..N /\ cursor \in 0..published
    /\ claims \in [Notices -> Outcomes]
    /\ h \in [Handlers -> [pc: {"idle", "held", "waiting", "submitting", "joined", "answered"},
                           n: 0..N, to: Sessions \cup {Nobody}, refused: SUBSET Sessions,
                           rounds: 0..2, extras: SUBSET Notices, out: Outcomes \cup {"refused"}]]
    /\ todo \in [Passes -> SUBSET Notices]
    /\ view \in [Sessions -> {"absent", "idle", "busy", "modal"}]
    /\ stale \cup young \cup late \cup retried \cup taken \subseteq 1..published
    /\ faded \subseteq old /\ old \subseteq 1..published
    /\ settled \in [Notices -> {"none", "delivered", "queued"}]
    /\ sent \subseteq [n: Notices, ids: SUBSET Notices, how: {"delivered", "queued", "taken", "lost"},
                      watch: {"none", "armed", "released"}, copy: Nat]
    /\ \A w \in sent: w.n \in w.ids

-----------------------------------------------------------------------------
Writes(n) == {w \in sent: w.n = n}

\* The writes with n in them that the watch could not confirm.
Released(n) == {w \in sent: n \in w.ids /\ w.watch = "released"}

\* The rows that announce what n announces.
SameFact(n) == {m \in Notices: m = n \/ (Fact[n] # NoFact /\ Fact[m] = Fact[n])}

\* How often the text of a notice was written, as a primary or as a companion.
Shown(n) == Cardinality({w \in sent: n \in w.ids})

\* Cursor, backlog passes and watch share one message id per notice: within
\* one life of the daemon the funnel writes it once, and once more for each
\* write with the notice in it that the watch could not confirm.  A message
\* is released once in a life of the daemon.
MessageOnce ==
    \A n \in Notices: /\ Cardinality(Writes(n)) <= 1 + crashes + Cardinality(Released(n))
                      /\ Cardinality(Writes(n) \cap Released(n)) <= 1 + crashes


Steady == \A s \in Sessions: view[s] = "idle"

\* While a coordinator stays idle, every published notice is settled for
\* good, by whichever handler or reader gets there first, unless a day passed
\* over it: a notice whose cursor run found no coordinator, or whose claim
\* the watch released, is offered again, but not after a day.
EveryNoticeSettles ==
    <>[]Steady => \A n \in Notices: <>[](published >= n => claims[n] # "none" \/ n \in old)

\* A write that carried n was lost and nobody was to look: it was parked
\* first, its primary was of an unwatched kind, it was the second delivery,
\* or the daemon died with the watch.
LostFor(n) == \E w \in sent: n \in w.ids /\ w.how = "lost" /\ w.watch = "none"

\* The claim says that another submit brought n to a coordinator, and no
\* write carried it, or none but those the watch released.
Unreached(n) == claims[n] = "duplicate" /\ \A w \in sent: n \in w.ids => w.watch = "released"

\* A notice that needs a decision is read by a coordinator that stays up,
\* also when a write of it is lost, as long as one of these does not come
\* first: its attempt moves on, a day passes, the lost write was not watched,
\* or a submit that joined another's claimed it without carrying it.
DecisionTaken ==
    <>[]Steady => \A n \in Notices: Kind[n] = "decision" =>
        ((published >= n) ~>
            (\E m \in SameFact(n): m \in taken \cup stale \cup old \/ LostFor(m) \/ Unreached(m)))

-----------------------------------------------------------------------------
(* What the comments of the code promise and the races above break.        *)

\* A claim that says a notice reached a coordinator (delivered, queued,
\* duplicate) is true: its text was written to one.  The claim is what makes
\* the cursor, the passes and the inbox skip the notice for good.
ClaimReached ==
    \A n \in Notices: claims[n] \in {"delivered", "queued", "duplicate"} => \E w \in sent: n \in w.ids

\* Claims and message ids keep the cursor and the backlog passes from typing
\* a notice twice; only a daemon that dies between the write and the claim,
\* or a released claim, costs a repeat.
WrittenOnce ==
    \A n \in Notices: Shown(n) <= 1 + crashes + Cardinality({w \in sent: w.watch = "released"})

\* The wake key makes delivery idempotent on the fact: two rows that announce
\* the same fact wake the coordinator once.
FactOnce ==
    \A n \in Notices: Fact[n] # NoFact =>
        MapThenSumSet(Shown, SameFact(n)) <= 1 + crashes + Cardinality({w \in sent: w.watch = "released"})

\* The deliver step never submits a notice its attempt has moved past.
NoStaleSubmit ==
    [][\A x \in Handlers: h'[x].pc = "submitting" /\ h'[x] # h[x] => h'[x].n \notin stale]_vars
=============================================================================
