------------------------ MODULE HostHandoffAuthority ------------------------
(***************************************************************************)
(* At most one daemon passes the admission check of a host, at most one    *)
(* coordinator runs, and the source has stopped before its target takes    *)
(* the authority, for any daemons, handoffs, probes and number of crashes, *)
(* as long as the handoffs only carry the role onward (OnwardOnly).        *)
(*                                                                         *)
(* What is proved inductive, on top of AgreementInv: the daemons that have *)
(* been host form a path of active handoffs and the last of them is the    *)
(* owner (PathInv); the record of the owner says host, and so does only    *)
(* that of a daemon that has been host or of a target behind its fence     *)
(* (RoleInv); how far a target has come agrees with its mesh record and    *)
(* fence (TakeInv); a source that certified its stop, or whose commit      *)
(* intent is journalled, has no coordinator and is fenced or handed off    *)
(* (StopInv); a coordinator runs only where the role is or was (CoordInv). *)
(*                                                                         *)
(* OnwardOnly is needed. A second attempt from one source shares the epoch *)
(* of the first, and a source that gets the role back may still commit the *)
(* handoff it lost it by.                                                  *)
(***************************************************************************)
EXTENDS HostHandoffProofs

USE HandoffAssumption
USE DEF source, target, daemon, net, config, fences, runtime, sJournal, sCalls, tJournal, tVol
USE DEF Put, SetProbe
HIDE DEF DaemonTypes, NetTypes, SourceTypes, TargetTypes, PerHandoff

-----------------------------------------------------------------------------
(* The invariant.                                                          *)

\* The handoffs only ever carry the role on: a daemon hands it over once, to one of higher rank.
Onward(rank) ==
    /\ rank \in [Daemons -> Nat]
    /\ \A h \in Handoffs : rank[Src[h]] < rank[Dst[h]]
    /\ \A g, h \in Handoffs : Src[g] = Src[h] => g = h

OnwardOnly == \E rank : Onward(rank)

\* The daemons that have been host, and the one of them that has not handed the role on.
Reached(d) == d = FirstHost \/ \E g \in Handoffs : Dst[g] = d /\ tPhase[g] = "active"
Left(d) == \E g \in Handoffs : Src[g] = d /\ tPhase[g] = "active"
Owner(d) == Reached(d) /\ ~Left(d)

\* A journalled handoff whose target is not active.
Open(h) == sPhase[h] # "none" /\ tPhase[h] # "active"

\* Only a daemon that has been host starts a handoff; one daemon owns the role, the last.
PathInv(rank) ==
    /\ \A h \in Handoffs : sPhase[h] # "none" \/ run[h] # "idle" => Reached(Src[h])
    /\ \A d, e \in Daemons : Owner(d) /\ Owner(e) => d = e
    /\ \A d, e \in Daemons : Owner(d) /\ Reached(e) => rank[e] <= rank[d]

\* A daemon whose record says host has been host, or is a target still behind its fence.
Taking(d) == \E h \in Handoffs : /\ Dst[h] = d /\ fence[d] = h
                                 /\ tPhase[h] \in {"activating", "discarded"}
RoleInv ==
    /\ \A d \in Daemons : role[d] = "host" => Reached(d) \/ Taking(d)
    /\ \A d \in Daemons : Owner(d) => role[d] = "host" /\ host[d] = d

\* The target of h acts only on a journalled handoff, takes the role behind its fence, and rolls
\* back only what it had not taken; the source is not past the epoch of h before the target is active.
TakeInv(h) ==
    /\ tPhase[h] # "none" \/ <<"manifest", h>> \in req => sPhase[h] # "none"
    /\ tStep[h] = "adopt" => fence[Dst[h]] = h
    /\ tStep[h] = "rollback" => tAct[h] = "first"
    /\ tAct[h] \in {"first", "again"} => tPhase[h] # "active"
    /\ tAct[h] = "first" => role[Dst[h]] = "member"
    /\ tAct[h] = "ready" /\ tPhase[h] = "activating"
         => role[Dst[h]] = "host" /\ host[Dst[h]] = Dst[h]
    /\ Open(h) => held[Src[h]] <= epoch[h]

\* The source of h is certified to have stopped, or about to be, and still holds the cut.
Stopped(h) == sStep[h] = "certify" \/ (cert[h] /\ sPhase[h] \in CutPhases /\ tPhase[h] # "discarded")

\* A certified source stays stopped, and fenced or handed off, unless the target has given up.
StopInv(h) ==
    /\ sPhase[h] \in {"none", "preflight", "freezing"} => ~cert[h]
    /\ sPhase[h] \in {"exporting", "exported", "awaiting_ack", "acked"} \/ intent[h] => cert[h]
    /\ sStep[h] = "exporting" => cert[h]
    /\ Stopped(h) => ~coord[Src[h]] /\ trans[Src[h]] = "none"
    /\ intent[h] /\ tPhase[h] # "discarded" => h \in {fence[Src[h]], handedTo[Src[h]]}
    /\ sStep[h] \in {"committed", "unfence"} => handedTo[Src[h]] = h

\* A coordinator runs, or is launched, only where the role has been.
CoordInv == \A d \in Daemons : coord[d] \/ trans[d] = "launch" => Reached(d)

AuthorityInv(rank) ==
    /\ PathInv(rank) /\ RoleInv /\ CoordInv
    /\ \A h \in Handoffs : TakeInv(h) /\ StopInv(h)

-----------------------------------------------------------------------------
(* What the invariant says of a state.                                     *)

\* At most one handoff is open; its source owns the role, its target never had it.
LEMMA OpenAlone ==
    ASSUME NEW rank, Onward(rank), PathInv(rank), NEW g \in Handoffs, Open(g)
    PROVE  /\ Owner(Src[g]) /\ ~Reached(Dst[g])
           /\ \A h \in Handoffs : Open(h) => h = g
  <1>0. ASSUME NEW h \in Handoffs, Open(h) PROVE Owner(Src[h])
    BY <1>0 DEF Open, PathInv, Owner, Left, Onward
  <1>1. Owner(Src[g])
    BY <1>0
  <1>2. ~Reached(Dst[g])
    <2>1. Src[g] \in Daemons /\ Dst[g] \in Daemons
      OBVIOUS
    <2>2. Reached(Dst[g]) => rank[Dst[g]] <= rank[Src[g]]
      BY ONLY <1>1, <2>1, PathInv(rank) DEF PathInv
    <2>3. rank[Src[g]] < rank[Dst[g]] /\ rank[Src[g]] \in Nat /\ rank[Dst[g]] \in Nat
      BY ONLY <2>1, g \in Handoffs, Onward(rank) DEF Onward
    <2> QED
      BY ONLY <2>2, <2>3
  <1>3. ASSUME NEW h \in Handoffs, Open(h) PROVE h = g
    <2>1. Owner(Src[h]) /\ Src[h] \in Daemons /\ Src[g] \in Daemons
      BY <1>0, <1>3
    <2>2. Src[h] = Src[g]
      BY ONLY <1>1, <2>1, PathInv(rank) DEF PathInv
    <2> QED
      BY ONLY <2>2, Onward(rank), g \in Handoffs, h \in Handoffs DEF Onward
  <1> QED
    BY ONLY <1>1, <1>2, <1>3

\* A target that only stages a snapshot has the role of a member.
LEMMA StagingMember ==
    ASSUME NEW rank, Onward(rank), PathInv(rank), RoleInv, DaemonTypes,
           NEW h \in Handoffs, TakeInv(h), tPhase[h] \in Staged,
           \A g \in Handoffs : TakeInv(g)
    PROVE  role[Dst[h]] = "member"
  <1>1. Open(h)
    BY DEF Open, TakeInv, Staged
  <1>2. ~Reached(Dst[h]) /\ \A g \in Handoffs : Open(g) => g = h
    BY ONLY <1>1, OpenAlone, Onward(rank), PathInv(rank), h \in Handoffs
  <1>3. ~Taking(Dst[h])
    <2> SUFFICES ASSUME NEW g \in Handoffs, tPhase[g] \in {"activating", "discarded"} PROVE g = h
      BY DEF Taking, Staged
    <2>1. Open(g)
      BY Zenon DEF Open, TakeInv
    <2> QED
      BY <1>2, <2>1
  <1> QED
    BY <1>2, <1>3 DEF RoleInv, DaemonTypes, PerDaemon

\* Only a daemon that has been host is admitted to host-owned work.
LEMMA AdmittedReached ==
    ASSUME RoleInv, NEW d \in Daemons, Admitted(d)
    PROVE  Reached(d)
  <1>1. fence[d] = NoHandoff /\ role[d] = "host"
    BY Zenon DEF Admitted
  <1>2. ~Taking(d)
    BY <1>1 DEF Taking
  <1> QED
    BY <1>1, <1>2, Zenon DEF RoleInv

\* A source that holds the cut is not admitted to host-owned work.
LEMMA StoppedNotAdmitted ==
    ASSUME NEW rank, Onward(rank), AgreementInv, NEW h \in Handoffs,
           TakeInv(h), StopInv(h), Stopped(h)
    PROVE  ~Admitted(Src[h])
  <1>0. HandoffInv(h) /\ epoch[h] \in Nat /\ held[Src[h]] \in Nat
    BY DEF AgreementInv, TypeOK, SourceTypes, DaemonTypes, PerHandoff, PerDaemon
  <1>1. sPhase[h] \in CutPhases
    BY <1>0 DEF Stopped, HandoffInv, SourceStepPhase, CutPhases
  <1>2. CASE tPhase[h] = "active"
    BY <1>0, <1>2 DEF Admitted, StopInv, HandoffInv, IntentFirst
  <1>3. CASE tPhase[h] # "active"
    <2>1. held[Src[h]] <= epoch[h]
      BY <1>1, <1>3 DEF TakeInv, Open, CutPhases
    <2>2. {g \in Handoffs : Src[g] = Src[h] /\ sPhase[g] # "none"} = {h}
      BY <1>1 DEF Onward, CutPhases
    <2>3. ~SourceIntentFree(Src[h])
      BY <1>0, <1>1, <2>1, <2>2 DEF SourceIntentFree
    <2> QED
      BY <2>3 DEF Admitted
  <1> QED
    BY ONLY <1>2, <1>3

-----------------------------------------------------------------------------
(* What a step taken for handoff h (or for none) does to a daemon.         *)

\* The mesh record: kept, given up on the target's active record, taken behind the fence, or a
\* member follows another host.
ConfigAt(d, h) ==
    \/ /\ role'[d] = role[d] /\ host'[d] = host[d] /\ held'[d] = held[d]
       /\ handedTo'[d] = handedTo[d]
    \/ h \in Handoffs /\ d = Src[h] /\ sPhase[h] # "none" /\ tPhase[h] = "active"
         /\ role'[d] = "member"
    \/ h \in Handoffs /\ d = Dst[h] /\ tStep[h] = "adopt" /\ role'[d] = "host" /\ host'[d] = d
         /\ fence'[d] = fence[d]
    \/ host[d] # d /\ role'[d] = "member" /\ handedTo'[d] = handedTo[d]

\* The fence: kept, taken or released by the source, taken by the target, released by a target
\* that rolls back or is active.
FenceAt(d, h) ==
    \/ fence'[d] = fence[d]
    \/ h \in Handoffs /\ d = Src[h] /\ sPhase[h] # "none" /\ fence[d] \in {h, NoHandoff}
    \/ h \in Handoffs /\ d = Dst[h] /\ tPhase[h] = "activating" /\ fence[d] \in {h, NoHandoff}
         /\ fence'[d] = h
    \/ h \in Handoffs /\ d = Dst[h] /\ tStep[h] = "rollback"
    \/ h \in Handoffs /\ d = Dst[h] /\ tPhase[h] = "active" /\ fence[d] \in {h, NoHandoff}

\* The coordinator: kept, a launch or a stop that ends, a stop by the source, or an admitted launch.
RuntimeAt(d, h) ==
    \/ coord'[d] = coord[d] /\ trans'[d] = trans[d]
    \/ (coord'[d] => coord[d] \/ trans[d] = "launch") /\ trans'[d] = "none"
    \/ coord'[d] = coord[d] /\ trans'[d] = "stop" /\ h \in Handoffs /\ d = Src[h]
    \/ Admitted(d)

\* A handoff g other than h: its journals are kept, its engines too unless they are lost.
Kept(g) ==
    /\ sPhase'[g] = sPhase[g] /\ intent'[g] = intent[g] /\ cert'[g] = cert[g]
    /\ epoch'[g] = epoch[g] /\ tPhase'[g] = tPhase[g]
    /\ sStep'[g] \in {sStep[g], "idle"} /\ run'[g] \in {run[g], "idle"}
    /\ \/ tStep'[g] = tStep[g] /\ tAct'[g] = tAct[g]
       \/ tStep'[g] = "idle" /\ tAct'[g] = "idle"
    /\ <<"manifest", g>> \in req' => <<"manifest", g>> \in req

\* Handoff h itself: only a host begins one, a record that is activating or discarded stays so
\* or becomes active, and active only after the role is taken.
OwnAt(h) ==
    /\ sPhase'[h] # "none" \/ run'[h] # "idle"
         => sPhase[h] # "none" \/ run[h] # "idle" \/ ViewRole(Src[h]) = "host"
    /\ tPhase[h] = "active" => tPhase'[h] = "active"
    /\ tPhase[h] \in {"activating", "discarded"}
         => tPhase'[h] \in {"activating", "active", "discarded"}
    /\ tPhase[h] # "active" /\ tPhase'[h] = "active"
         => /\ tPhase[h] = "activating" /\ tAct[h] = "ready"
            /\ UNCHANGED config

Moves(h) ==
    /\ \A d \in Daemons : ConfigAt(d, h) /\ FenceAt(d, h) /\ RuntimeAt(d, h)
    /\ \A g \in Handoffs : g # h => Kept(g)
    /\ h \in Handoffs => OwnAt(h)

\* A daemon that has been host stays one that has.
LEMMA ReachedStays ==
    ASSUME NEW h, Moves(h), NEW d
    PROVE  (Reached(d) => Reached(d)') /\ (Left(d) => Left(d)')
  <1>1. \A g \in Handoffs : tPhase[g] = "active" => tPhase'[g] = "active"
    BY Zenon DEF Moves, Kept, OwnAt
  <1> QED
    BY <1>1, Zenon DEF Reached, Left

\* While no record becomes active, the same daemons have been host and have left.
LEMMA ReachedSame ==
    ASSUME NEW h, Moves(h), h \in Handoffs => (tPhase'[h] = "active" => tPhase[h] = "active"), NEW d
    PROVE  (Reached(d)' <=> Reached(d)) /\ (Left(d)' <=> Left(d)) /\ (Owner(d)' <=> Owner(d))
  <1>1. \A g \in Handoffs : tPhase[g] = "active" <=> tPhase'[g] = "active"
    BY Zenon DEF Moves, Kept, OwnAt
  <1>2. (Reached(d)' <=> Reached(d)) /\ (Left(d)' <=> Left(d))
    BY ONLY <1>1, Zenon DEF Reached, Left
  <1> QED
    BY ONLY <1>2, Zenon DEF Owner

\* When the record of h becomes active, its target owns the role and nobody else does.
LEMMA OwnerMoves ==
    ASSUME NEW rank, Onward(rank), PathInv(rank), NEW h \in Handoffs, Moves(h), TakeInv(h),
           tPhase[h] # "active", tPhase'[h] = "active"
    PROVE  /\ Open(h) /\ Owner(Src[h])
           /\ \A d \in Daemons : Reached(d)' <=> Reached(d) \/ d = Dst[h]
           /\ \A d \in Daemons : Owner(d)' => d = Dst[h]
  <1>1. Open(h)
    BY Zenon DEF Open, Moves, OwnAt, TakeInv
  <1>2. Owner(Src[h]) /\ ~Reached(Dst[h])
    BY ONLY <1>1, OpenAlone, Onward(rank), PathInv(rank), h \in Handoffs
  <1>3. \A g \in Handoffs : tPhase'[g] = "active" <=> tPhase[g] = "active" \/ g = h
    BY Zenon DEF Moves, Kept, OwnAt
  <1>4. \A d \in Daemons : Reached(d)' <=> Reached(d) \/ d = Dst[h]
    BY ONLY <1>3, h \in Handoffs, Zenon DEF Reached
  <1>5. ASSUME NEW d \in Daemons, Owner(d)' PROVE d = Dst[h]
    <2>1. Reached(d)' /\ ~Left(d)'
      BY ONLY <1>5, Zenon DEF Owner
    <2>2. ~Left(d) /\ d # Src[h]
      BY ONLY <1>3, <2>1, h \in Handoffs, Zenon DEF Left
    <2>3. CASE Reached(d)
      <3>1. Owner(d) /\ Src[h] \in Daemons
        BY <2>2, <2>3 DEF Owner
      <3> QED
        BY ONLY <1>2, <2>2, <3>1, d \in Daemons, PathInv(rank) DEF PathInv
    <2> QED
      BY ONLY <1>4, <2>1, <2>3, d \in Daemons
  <1> QED
    BY ONLY <1>1, <1>2, <1>4, <1>5

\* The role stays with one daemon, the last.
LEMMA PathKept ==
    ASSUME NEW rank, Onward(rank), PathInv(rank), RoleInv, DaemonTypes,
           NEW h \in MaybeHandoff, Moves(h), h \in Handoffs => TakeInv(h)
    PROVE  PathInv(rank)'
  <1>1. ASSUME NEW g \in Handoffs, sPhase'[g] # "none" \/ run'[g] # "idle" PROVE Reached(Src[g])'
    <2>1. sPhase[g] # "none" \/ run[g] # "idle" \/ ViewRole(Src[g]) = "host"
      BY <1>1, Zenon DEF Moves, Kept, OwnAt
    <2>2. ViewRole(Src[g]) = "host" => Reached(Src[g])
      BY DEF ViewRole, RoleInv, Taking
    <2>3. Reached(Src[g])
      BY <2>1, <2>2, Zenon DEF PathInv
    <2> QED
      BY ONLY <2>3, Moves(h), ReachedStays
  <1>2. CASE h \in Handoffs /\ tPhase[h] # "active" /\ tPhase'[h] = "active"
    <2>1. /\ Open(h) /\ Owner(Src[h])
          /\ \A d \in Daemons : Reached(d)' <=> Reached(d) \/ d = Dst[h]
          /\ \A d \in Daemons : Owner(d)' => d = Dst[h]
      BY ONLY <1>2, OwnerMoves, Onward(rank), PathInv(rank), h \in Handoffs => TakeInv(h), Moves(h)
    <2>2. Src[h] \in Daemons /\ Dst[h] \in Daemons
      BY <1>2
    <2>3. /\ rank[Src[h]] < rank[Dst[h]]
          /\ \A d \in Daemons : rank[d] \in Nat
      BY ONLY <1>2, Onward(rank) DEF Onward
    <2>4. \A e \in Daemons : Reached(e) => rank[e] <= rank[Src[h]]
      BY ONLY <2>1, <2>2, PathInv(rank) DEF PathInv
    <2>5. \A e \in Daemons : Reached(e)' => rank[e] <= rank[Dst[h]]
      BY ONLY <2>1, <2>2, <2>3, <2>4
    <2> QED
      BY ONLY <1>1, <2>1, <2>5 DEF PathInv
  <1>3. CASE h \in Handoffs => (tPhase'[h] = "active" => tPhase[h] = "active")
    <2>1. \A d : (Reached(d)' <=> Reached(d)) /\ (Owner(d)' <=> Owner(d))
      BY ONLY <1>3, Moves(h), ReachedSame
    <2> QED
      BY ONLY <1>1, <2>1, PathInv(rank), Zenon DEF PathInv
  <1> QED
    BY ONLY <1>2, <1>3

\* A record says host only where the role has been or behind a fence, and the owner's says host.
LEMMA RoleKept ==
    ASSUME NEW rank, Onward(rank), PathInv(rank), RoleInv,
           NEW h \in MaybeHandoff, Moves(h), h \in Handoffs => TakeInv(h) /\ HandoffInv(h)
    PROVE  RoleInv'
  <1>1. ASSUME NEW d \in Daemons, role'[d] = "host" PROVE Reached(d)' \/ Taking(d)'
    <2>1. CASE h \in Handoffs /\ d = Dst[h] /\ tStep[h] = "adopt" /\ fence'[d] = fence[d]
      <3>1. fence[d] = h /\ tPhase[h] = "activating"
        BY <2>1, Zenon DEF TakeInv, HandoffInv, TargetStepPhase
      <3>2. tPhase'[h] \in {"activating", "active", "discarded"}
        BY <2>1, <3>1, Zenon DEF Moves, OwnAt
      <3>3. fence'[d] = h
        BY ONLY <2>1, <3>1
      <3> QED
        BY ONLY <2>1, <3>2, <3>3 DEF Taking, Reached
    <2>2. CASE role[d] = "host"
      <3>1. CASE Reached(d)
        BY ONLY <3>1, Moves(h), ReachedStays
      <3>2. ASSUME NEW g \in Handoffs, Dst[g] = d, fence[d] = g,
                   tPhase[g] \in {"activating", "discarded"}
            PROVE  Reached(d)' \/ Taking(d)'
        <4>1. tPhase'[g] \in {"activating", "active", "discarded"}
          BY <3>2, Zenon DEF Moves, Kept, OwnAt
        <4>2. fence'[d] = g
          <5>1. FenceAt(d, h)
            BY Zenon DEF Moves
          <5>2. ~(h \in Handoffs /\ d = Dst[h] /\ tStep[h] = "rollback")
            BY <2>2, Zenon DEF TakeInv
          <5> QED
            BY <3>2, <5>1, <5>2 DEF FenceAt
        <4> QED
          BY ONLY <3>2, <4>1, <4>2, g \in Handoffs DEF Taking, Reached
      <3> QED
        BY ONLY <2>2, <3>1, <3>2, RoleInv, d \in Daemons DEF RoleInv, Taking
    <2> QED
      <3>1. ConfigAt(d, h)
        BY Zenon DEF Moves
      <3> QED
        BY ONLY <1>1, <2>1, <2>2, <3>1 DEF ConfigAt
  <1>2. ASSUME NEW d \in Daemons, Owner(d)' PROVE role'[d] = "host" /\ host'[d] = d
    <2>0. ConfigAt(d, h)
      BY Zenon DEF Moves
    <2>1. CASE h \in Handoffs /\ tPhase[h] # "active" /\ tPhase'[h] = "active"
      <3>1. d = Dst[h]
        BY ONLY <1>2, <2>1, OwnerMoves, Onward(rank), PathInv(rank), Moves(h), d \in Daemons,
                h \in Handoffs => TakeInv(h) /\ HandoffInv(h)
      <3>2. tPhase[h] = "activating" /\ tAct[h] = "ready" /\ UNCHANGED <<role, host>>
        BY <2>1, Zenon DEF Moves, OwnAt
      <3> QED
        BY <2>1, <3>1, <3>2 DEF TakeInv
    <2>2. CASE h \in Handoffs => (tPhase'[h] = "active" => tPhase[h] = "active")
      <3>1. Owner(d)
        BY ONLY <1>2, <2>2, Moves(h), ReachedSame
      <3>2. role[d] = "host" /\ host[d] = d
        BY ONLY <3>1, RoleInv, d \in Daemons DEF RoleInv
      <3>3. ~(h \in Handoffs /\ d = Src[h] /\ tPhase[h] = "active")
        BY ONLY <3>1, Zenon DEF Owner, Left
      <3> QED
        BY ONLY <2>0, <3>2, <3>3 DEF ConfigAt
    <2> QED
      BY ONLY <2>1, <2>2
  <1> QED
    BY ONLY <1>1, <1>2, Zenon DEF RoleInv

\* A coordinator runs only where the role has been: a launch asks for admission first.
LEMMA CoordKept ==
    ASSUME RoleInv, CoordInv, DaemonTypes, NEW h \in MaybeHandoff, Moves(h)
    PROVE  CoordInv'
  <1> SUFFICES ASSUME NEW d \in Daemons, coord'[d] \/ trans'[d] = "launch" PROVE Reached(d)'
    BY DEF CoordInv
  <1>1. RuntimeAt(d, h)
    BY Zenon DEF Moves
  <1>2. Admitted(d) => Reached(d)
    BY ONLY AdmittedReached, RoleInv, d \in Daemons
  <1>3. coord[d] \/ trans[d] = "launch" => Reached(d)
    BY Zenon DEF CoordInv
  <1>4. Reached(d)
    BY ONLY <1>1, <1>2, <1>3, coord'[d] \/ trans'[d] = "launch" DEF RuntimeAt
  <1> QED
    BY ONLY <1>4, Moves(h), ReachedStays

\* A step taken for h does not disturb what the invariant says of another handoff g.
LEMMA OtherTakes ==
    ASSUME NEW rank, Onward(rank), AgreementInv, PathInv(rank), RoleInv,
           NEW h \in MaybeHandoff, Moves(h), NEW g \in Handoffs, g # h, TakeInv(g),
           h \in Handoffs => TakeInv(h)
    PROVE  TakeInv(g)'
  <1>0. Kept(g)
    BY Zenon DEF Moves
  <1>1. Open(g)' <=> Open(g)
    BY <1>0, Zenon DEF Kept, Open
  <1>2. CASE ~Open(g)
    <2>1. HandoffInv(g)
      BY ONLY AgreementInv, g \in Handoffs DEF AgreementInv
    <2> QED
      BY <1>0, <1>2, <2>1 DEF Kept, TakeInv, Open, HandoffInv, TargetStepPhase, IntentFirst, AfterIntent
  <1>3. CASE Open(g)
    <2>1. /\ Owner(Src[g]) /\ ~Reached(Dst[g])
          /\ \A k \in Handoffs : Open(k) => k = g
      BY ONLY <1>3, OpenAlone, Onward(rank), PathInv(rank), g \in Handoffs
    <2>2. h \in Handoffs => ~Open(h)
      BY ONLY <2>1, g # h
    <2>3. h \in Handoffs => HandoffInv(h)
      BY ONLY AgreementInv, Zenon DEF AgreementInv
    <2>4. h \in Handoffs => tStep[h] \notin {"adopt", "rollback"} /\ tPhase[h] # "activating"
      BY <2>2, <2>3 DEF Open, HandoffInv, TargetStepPhase, IntentFirst, AfterIntent
    <2>5. h \in Handoffs => Src[h] # Src[g]
      BY ONLY g # h, g \in Handoffs, Onward(rank) DEF Onward
    <2>6. h \in Handoffs /\ sPhase[h] # "none" => Src[h] # Dst[g]
      BY <2>1, Zenon DEF PathInv
    <2>7. h \in Handoffs /\ tPhase[h] = "active" => Dst[h] # Dst[g]
      BY <2>1, Zenon DEF Reached
    <2>8. fence'[Dst[g]] = fence[Dst[g]]
      <3>1. FenceAt(Dst[g], h)
        BY Zenon DEF Moves
      <3> QED
        BY ONLY <2>4, <2>6, <2>7, <3>1 DEF FenceAt
    <2>9. /\ role[Dst[g]] = "member" => role'[Dst[g]] = "member"
          /\ host[Dst[g]] = Dst[g] => role'[Dst[g]] = role[Dst[g]] /\ host'[Dst[g]] = host[Dst[g]]
      <3>1. ConfigAt(Dst[g], h)
        BY Zenon DEF Moves
      <3> QED
        BY ONLY <2>4, <2>6, <3>1 DEF ConfigAt
    <2>10. held'[Src[g]] = held[Src[g]]
      <3>1. ConfigAt(Src[g], h)
        BY Zenon DEF Moves
      <3>2. host[Src[g]] = Src[g]
        BY <2>1, Zenon DEF RoleInv
      <3> QED
        BY ONLY <2>4, <2>5, <3>1, <3>2 DEF ConfigAt
    <2> QED
      BY ONLY <1>0, <1>1, <2>8, <2>9, <2>10, TakeInv(g), Zenon DEF Kept, TakeInv
  <1> QED
    BY ONLY <1>2, <1>3

\* The stop of a source survives a step of another handoff.
LEMMA OtherStops ==
    ASSUME NEW rank, Onward(rank), AgreementInv, PathInv(rank), DaemonTypes,
           NEW h \in MaybeHandoff, Moves(h), NEW g \in Handoffs, g # h, TakeInv(g), StopInv(g),
           h \in Handoffs => TakeInv(h)
    PROVE  StopInv(g)'
  <1>0. Kept(g)
    BY Zenon DEF Moves
  <1>1. h \in Handoffs => Src[h] # Src[g]
    BY ONLY g # h, g \in Handoffs, Onward(rank) DEF Onward
  <1>2. Stopped(g)' => ~coord'[Src[g]] /\ trans'[Src[g]] = "none"
    <2> SUFFICES ASSUME Stopped(g)' PROVE ~coord'[Src[g]] /\ trans'[Src[g]] = "none"
      OBVIOUS
    <2>1. Stopped(g)
      BY <1>0 DEF Kept, Stopped
    <2>2. ~Admitted(Src[g])
      BY ONLY <2>1, StoppedNotAdmitted, Onward(rank), AgreementInv, g \in Handoffs, TakeInv(g),
              StopInv(g)
    <2>3. ~coord[Src[g]] /\ trans[Src[g]] = "none"
      BY ONLY <2>1, StopInv(g) DEF StopInv
    <2>4. RuntimeAt(Src[g], h)
      BY Zenon DEF Moves
    <2> QED
      BY ONLY <1>1, <2>2, <2>3, <2>4 DEF RuntimeAt
  <1>3. /\ handedTo[Src[g]] = g /\ sPhase[g] # "none" => handedTo'[Src[g]] = g
        /\ fence[Src[g]] = g /\ sPhase[g] # "none" => fence'[Src[g]] = g
    <2> SUFFICES ASSUME sPhase[g] # "none"
                 PROVE  /\ handedTo[Src[g]] = g => handedTo'[Src[g]] = g
                        /\ fence[Src[g]] = g => fence'[Src[g]] = g
      OBVIOUS
    <2>1. Reached(Src[g])
      BY Zenon DEF PathInv
    <2>2. h \in Handoffs /\ tStep[h] \in {"adopt", "rollback"} => Dst[h] # Src[g]
      <3> SUFFICES ASSUME h \in Handoffs, tStep[h] \in {"adopt", "rollback"} PROVE ~Reached(Dst[h])
        BY <2>1
      <3>1. HandoffInv(h)
        BY ONLY AgreementInv, h \in Handoffs DEF AgreementInv
      <3>2. Open(h)
        BY <3>1 DEF Open, TakeInv, HandoffInv, TargetStepPhase
      <3> QED
        BY ONLY <3>2, OpenAlone, Onward(rank), PathInv(rank), h \in Handoffs
    <2>3. ConfigAt(Src[g], h) /\ FenceAt(Src[g], h)
      BY Zenon DEF Moves
    <2>4. handedTo[Src[g]] = g => handedTo'[Src[g]] = g
      BY ONLY <1>1, <2>2, <2>3 DEF ConfigAt
    <2>5. fence[Src[g]] = g => fence'[Src[g]] = g
      BY ONLY <1>1, <2>2, <2>3, g # h, g \in Handoffs, HandoffAssumption DEF FenceAt
    <2> QED
      BY ONLY <2>4, <2>5
  <1>4. HandoffInv(g)
    BY ONLY AgreementInv, g \in Handoffs DEF AgreementInv
  <1>5. intent[g] \/ sStep[g] \in {"committed", "unfence"} => sPhase[g] # "none"
    BY <1>4, Zenon DEF HandoffInv, IntentFirst, ConclusionTrue, AfterIntent
  <1> QED
    BY ONLY <1>0, <1>2, <1>3, <1>5, StopInv(g) DEF Kept, StopInv

-----------------------------------------------------------------------------
(* Every step moves the daemons that way.                                  *)

\* The functions of the daemons are defined on the daemons.
DaemonDomains ==
    /\ DOMAIN role = Daemons /\ DOMAIN host = Daemons /\ DOMAIN held = Daemons
    /\ DOMAIN handedTo = Daemons /\ DOMAIN fence = Daemons
    /\ DOMAIN coord = Daemons /\ DOMAIN trans = Daemons

\* Handoff h is journalled or being started.
Begun(h) == sPhase[h] # "none" \/ run[h] # "idle"

\* Other handoffs whose state is the same are kept.
LEMMA SameKept == ASSUME NEW g, Same(g) PROVE Kept(g)
  BY DEF Same, Kept

\* A step that leaves the records, the fences and the coordinators alone.
LEMMA Untouched ==
    ASSUME NEW h, UNCHANGED <<config, fence, runtime>>
    PROVE  \A d \in Daemons : ConfigAt(d, h) /\ FenceAt(d, h) /\ RuntimeAt(d, h)
  BY Zenon DEF ConfigAt, FenceAt, RuntimeAt

\* A step of the source of h leaves the target's record alone and begins nothing, unless it is
\* the host that does.
LEMMA OwnUnmoved ==
    ASSUME NEW h, tPhase' = tPhase,
           Begun(h) \/ ViewRole(Src[h]) = "host" \/ UNCHANGED <<sPhase, run>>
    PROVE  OwnAt(h)
  BY DEF OwnAt, Begun

\* Start, freeze, stop and export: the source takes its fence and stops its coordinator.
LEMMA StartMoves ==
    ASSUME DaemonDomains, NEW h \in Handoffs, HandoffInv(h), SourceStart(h)
    PROVE  /\ \A d \in Daemons : ConfigAt(d, h) /\ FenceAt(d, h) /\ RuntimeAt(d, h)
           /\ OwnAt(h)
  <1>1. OwnAt(h)
    <2>1. tPhase' = tPhase
      BY Zenon DEF SourceStart, Preflight, Capability, PreflightFails, StartPut, StartHold,
         FreezeCheck, Advance, FenceSource, StopSource, Certify, MoveExporting, Export, Send
    <2>2. CASE Preflight(h) \/ Advance(h)
      BY <2>1, <2>2, OwnUnmoved, Zenon DEF Preflight, Advance
    <2>3. CASE Capability(h) \/ PreflightFails(h) \/ StartPut(h) \/ StopSource(h)
      BY <2>1, <2>3, OwnUnmoved, Zenon DEF Capability, PreflightFails, StartPut, StopSource, Begun
    <2>4. CASE StartHold(h) \/ FreezeCheck(h) \/ FenceSource(h) \/ Certify(h)
      BY <2>1, <2>4, OwnUnmoved DEF StartHold, FreezeCheck, FenceSource, Certify, Begun,
         HandoffInv, SourceStepPhase
    <2>5. CASE MoveExporting(h) \/ Export(h) \/ Send(h)
      BY <2>1, <2>5, OwnUnmoved DEF MoveExporting, Export, Send, Begun, HandoffInv,
         SourceStepPhase
    <2> QED
      BY ONLY <2>2, <2>3, <2>4, <2>5, SourceStart(h) DEF SourceStart
  <1>2. CASE FenceSource(h)
    <2>1. \A d \in Daemons : ConfigAt(d, h)
      BY <1>2, Zenon DEF FenceSource, ConfigAt
    <2>2. \A d \in Daemons : FenceAt(d, h)
      BY <1>2 DEF FenceSource, CanFence, FenceAt, HandoffInv, SourceStepPhase, DaemonDomains
    <2>3. \A d \in Daemons : RuntimeAt(d, h)
      BY <1>2 DEF FenceSource, RuntimeAt, DaemonDomains
    <2> QED
      BY ONLY <1>1, <2>1, <2>2, <2>3
  <1>3. CASE StopSource(h)
    <2>1. \A d \in Daemons : ConfigAt(d, h) /\ FenceAt(d, h)
      BY <1>3, Zenon DEF StopSource, ConfigAt, FenceAt
    <2>2. \A d \in Daemons : RuntimeAt(d, h)
      BY <1>3 DEF StopSource, RuntimeAt, DaemonDomains
    <2> QED
      BY ONLY <1>1, <2>1, <2>2
  <1>4. CASE ~FenceSource(h) /\ ~StopSource(h)
    <2>1. UNCHANGED <<config, fence, runtime>>
      BY <1>4, Zenon DEF SourceStart, Preflight, Capability, PreflightFails, StartPut, StartHold,
         FreezeCheck, Advance, Certify, MoveExporting, Export, Send
    <2> QED
      BY ONLY <1>1, <2>1, Untouched
  <1> QED
    BY ONLY <1>2, <1>3, <1>4

\* Transfer and ACK leave the daemons alone.
LEMMA TransferMoves ==
    ASSUME NEW h \in Handoffs, SourceTransfer(h)
    PROVE  /\ \A d \in Daemons : ConfigAt(d, h) /\ FenceAt(d, h) /\ RuntimeAt(d, h)
           /\ OwnAt(h)
  <1>1. UNCHANGED <<config, fence, runtime, tPhase>>
    BY Zenon DEF SourceTransfer, TransferReply, TransferFails, RetryTransfer, AckTimeout, OnAck
  <1>2. Begun(h) \/ UNCHANGED <<sPhase, run>>
    BY DEF SourceTransfer, TransferReply, TransferFails, RetryTransfer, AckTimeout, OnAck, Begun
  <1> QED
    BY ONLY <1>1, <1>2, Untouched, OwnUnmoved

\* commit gives the role up on the target's active record, or does nothing.
LEMMA CommitMoves ==
    ASSUME DaemonDomains, NEW h \in Handoffs, CommitStep(h), tPhase[h] = "active",
           sPhase[h] # "none"
    PROVE  \A d \in Daemons : ConfigAt(d, h)
  <1>1. CASE sPhase[h] = "committed"
    BY <1>1, Zenon DEF CommitStep, ConfigAt
  <1>2. CASE sPhase[h] # "committed"
    <2>1. WriteHost(Src[h], "member", Dst[h], epoch[h], h)
      BY <1>2, Zenon DEF CommitStep
    <2> QED
      BY <2>1 DEF WriteHost, ConfigAt, DaemonDomains
  <1> QED
    BY ONLY <1>1, <1>2

\* Activate takes the source's fence, commit gives the role up, commit and abort release the
\* fence, and what was stopped is launched again only with admission.
LEMMA FinishMoves ==
    ASSUME DaemonDomains, NEW h \in Handoffs, HandoffInv(h), SourceFinish(h)
    PROVE  /\ \A d \in Daemons : ConfigAt(d, h) /\ FenceAt(d, h) /\ RuntimeAt(d, h)
           /\ OwnAt(h)
  <1>0. intent[h] => sPhase[h] # "none"
    BY DEF HandoffInv, IntentFirst, AfterIntent
  <1>1. CASE ActivateSend(h)
    <2>1. tPhase' = tPhase /\ UNCHANGED <<config, runtime>>
      BY <1>1, Zenon DEF ActivateSend
    <2>2. Begun(h) \/ UNCHANGED <<sPhase, run>>
      BY <1>1 DEF ActivateSend, Begun
    <2>3. \A d \in Daemons : FenceAt(d, h)
      BY <1>1 DEF ActivateSend, CanFence, FenceAt, DaemonDomains
    <2>4. \A d \in Daemons : ConfigAt(d, h) /\ RuntimeAt(d, h)
      BY ONLY <2>1, Zenon DEF ConfigAt, RuntimeAt, config, runtime
    <2> QED
      BY ONLY <2>1, <2>2, <2>3, <2>4, OwnUnmoved
  <1>2. ASSUME tPhase' = tPhase, UNCHANGED <<fence, runtime>>,
               Begun(h) \/ UNCHANGED <<sPhase, run>>,
               UNCHANGED config \/ (CommitStep(h) /\ tPhase[h] = "active" /\ sPhase[h] # "none")
        PROVE  /\ \A d \in Daemons : ConfigAt(d, h) /\ FenceAt(d, h) /\ RuntimeAt(d, h)
               /\ OwnAt(h)
    <2>1. OwnAt(h)
      BY ONLY <1>2, OwnUnmoved
    <2>2. \A d \in Daemons : FenceAt(d, h) /\ RuntimeAt(d, h)
      BY ONLY <1>2, Zenon DEF FenceAt, RuntimeAt, runtime
    <2>3. CASE UNCHANGED config
      BY ONLY <1>2, <2>1, <2>3, Untouched
    <2>4. CASE CommitStep(h) /\ tPhase[h] = "active" /\ sPhase[h] # "none"
      BY ONLY <2>1, <2>2, <2>4, CommitMoves, DaemonDomains, h \in Handoffs
    <2> QED
      BY ONLY <1>2, <2>3, <2>4
  <1>3. CASE ActivateReply(h)
    <2>1. act[h] # "idle"
      BY <1>3 DEF ActivateReply
    <2>2. sPhase[h] # "none"
      BY <1>0, <2>1, Zenon DEF HandoffInv, IntentFirst
    <2>3. UNCHANGED config \/ (CommitStep(h) /\ tPhase[h] = "active")
      BY <1>3, Zenon DEF ActivateReply, HandoffInv, AnswerTrue
    <2>4. tPhase' = tPhase /\ UNCHANGED <<fence, runtime>>
      BY <1>3, Zenon DEF ActivateReply
    <2> QED
      BY ONLY <1>2, <2>2, <2>3, <2>4 DEF Begun
  <1>4. ASSUME NEW p \in Probers, ProbeReply(h, p)
        PROVE  /\ \A d \in Daemons : ConfigAt(d, h) /\ FenceAt(d, h) /\ RuntimeAt(d, h)
               /\ OwnAt(h)
    <2>1. probe[h][p] # NoProbe
      BY <1>4 DEF ProbeReply, NoProbe, Staged
    <2>2. sPhase[h] # "none"
      BY <1>0, <2>1, Zenon DEF HandoffInv, IntentFirst
    <2>3. UNCHANGED config \/ (CommitStep(h) /\ tPhase[h] = "active")
      BY <1>4, Zenon DEF ProbeReply, HandoffInv, AnswerTrue
    <2>4. tPhase' = tPhase /\ UNCHANGED <<fence, runtime>>
      BY <1>4, Zenon DEF ProbeReply
    <2> QED
      BY ONLY <1>2, <2>2, <2>3, <2>4 DEF Begun
  <1>5. CASE CommitUnfence(h) \/ AbortUnfence(h)
    <2>1. tPhase' = tPhase /\ UNCHANGED <<config, runtime, sPhase, run>>
      BY <1>5, Zenon DEF CommitUnfence, AbortUnfence
    <2>2. sPhase[h] # "none"
      BY <1>0, <1>5 DEF CommitUnfence, AbortUnfence, HandoffInv, ConclusionTrue, SourceStepPhase,
         IntentFirst
    <2>3. \A d \in Daemons : FenceAt(d, h)
      BY <1>5, <2>2 DEF CommitUnfence, AbortUnfence, CanUnfence, Unfence, FenceAt, DaemonDomains
    <2>4. \A d \in Daemons : ConfigAt(d, h) /\ RuntimeAt(d, h)
      BY ONLY <2>1, Zenon DEF ConfigAt, RuntimeAt, config, runtime
    <2> QED
      BY ONLY <2>1, <2>3, <2>4, OwnUnmoved
  <1>6. CASE Restore(h)
    <2>1. tPhase' = tPhase /\ UNCHANGED <<config, fence, coord, sPhase, run>>
      BY <1>6, Zenon DEF Restore
    <2>2. \A d \in Daemons : RuntimeAt(d, h)
      BY <1>6, Zenon DEF Restore, RuntimeAt, DaemonDomains
    <2>3. \A d \in Daemons : ConfigAt(d, h) /\ FenceAt(d, h)
      BY ONLY <2>1, Zenon DEF ConfigAt, FenceAt, config
    <2> QED
      BY ONLY <2>1, <2>2, <2>3, OwnUnmoved
  <1>7. CASE RetryActivate(h) \/ Advertise(h) \/ OwnerAbort(h)
    BY <1>2, <1>7, Zenon DEF RetryActivate, Advertise, OwnerAbort
  <1>8. CASE CommitJournal(h) \/ AbortJournal(h) \/ Resume(h)
    <2>1. tPhase' = tPhase /\ UNCHANGED <<config, fence, runtime>>
      BY <1>8, Zenon DEF CommitJournal, AbortJournal, Resume
    <2>2. Begun(h) \/ UNCHANGED <<sPhase, run>>
      BY <1>0, <1>8 DEF CommitJournal, AbortJournal, Resume, ResumeRecord, Begun, HandoffInv,
         ConclusionTrue, SourceStepPhase, IntentFirst
    <2> QED
      BY ONLY <1>2, <2>1, <2>2, Zenon
  <1>9. ASSUME NEW p \in Probers, Probe(h, p) \/ OwnerAbortAsk(h, p)
        PROVE  /\ \A d \in Daemons : ConfigAt(d, h) /\ FenceAt(d, h) /\ RuntimeAt(d, h)
               /\ OwnAt(h)
    BY <1>2, <1>9, Zenon DEF Probe, OwnerAbortAsk
  <1> QED
    BY ONLY <1>1, <1>3, <1>4, <1>5, <1>6, <1>7, <1>8, <1>9, SourceFinish(h) DEF SourceFinish

\* A step of the target of h begins nothing; its record keeps an activation until it is decided.
LEMMA OwnTarget ==
    ASSUME NEW h, UNCHANGED <<sPhase, run>>,
           tPhase'[h] = tPhase[h] \/ (tPhase[h] # "active" /\ tPhase'[h] = "discarded")
    PROVE  OwnAt(h)
  BY Zenon DEF OwnAt

\* The target takes its fence, the role behind it, and releases the fence when it rolls back or
\* is active; it launches with admission.
LEMMA TargetMoves ==
    ASSUME Domains, DaemonDomains, NEW h \in Handoffs, HandoffInv(h), TargetStep(h)
    PROVE  /\ \A d \in Daemons : ConfigAt(d, h) /\ FenceAt(d, h) /\ RuntimeAt(d, h)
           /\ OwnAt(h)
  <1>0. UNCHANGED <<sPhase, run>>
    BY Zenon DEF TargetStep, TManifest, TChunk, TSeal, TVerified, TAckReply, TDiscard, TStageTTL,
       TActivate, TReadiness, TApply, TRollback, TTombstone, TAdopt, TActive, TUnfence, TLaunched,
       TResume, TStatus
  <1>1. CASE TManifest(h) \/ TSeal(h) \/ TVerified(h) \/ TAckReply(h)
    <2>1. UNCHANGED <<config, fence, runtime>>
      BY <1>1, Zenon DEF TManifest, TSeal, TVerified, TAckReply
    <2>2. /\ tPhase[h] \notin {"activating", "active", "discarded"} \/ tPhase'[h] = tPhase[h]
          /\ tPhase'[h] = "active" => tPhase[h] = "active"
      BY <1>1, Zenon DEF TManifest, TSeal, TVerified, TAckReply, Domains, HandoffInv, TargetStepPhase
    <2>3. OwnAt(h)
      BY ONLY <1>0, <2>2, Zenon DEF OwnAt
    <2> QED
      BY ONLY <2>1, <2>3, Untouched
  <1>2. CASE TChunk(h) \/ TDiscard(h) \/ TStageTTL(h) \/ TTombstone(h)
    <2>1. UNCHANGED <<config, fence, runtime>>
      BY <1>2, Zenon DEF TChunk, TDiscard, TStageTTL, TTombstone
    <2>2. tPhase'[h] = tPhase[h] \/ (tPhase[h] # "active" /\ tPhase'[h] = "discarded")
      BY <1>2, Zenon DEF TChunk, TDiscard, TStageTTL, TTombstone, Staged, Domains, HandoffInv,
         TargetStepPhase
    <2> QED
      BY ONLY <1>0, <2>1, <2>2, Untouched, OwnTarget, Zenon
  <1>3. CASE TActivate(h)
    <2>1. UNCHANGED <<config, fence, runtime>>
      BY <1>3, Zenon DEF TActivate
    <2>2. tPhase'[h] = tPhase[h] \/ (tPhase[h] # "active" /\ tPhase'[h] = "discarded")
      BY <1>3 DEF TActivate, Reverify, Domains
    <2> QED
      BY ONLY <1>0, <2>1, <2>2, Untouched, OwnTarget
  <1>4. CASE TReadiness(h)
    <2>1. UNCHANGED <<config, fence, runtime>>
      BY <1>4, Zenon DEF TReadiness
    <2>2. \/ tPhase'[h] = tPhase[h]
          \/ tPhase[h] # "active" /\ tPhase'[h] = "discarded"
          \/ tPhase[h] # "active" /\ tPhase'[h] = "activating"
      BY <1>4 DEF TReadiness, Domains
    <2>3. OwnAt(h)
      BY ONLY <1>0, <2>2 DEF OwnAt
    <2> QED
      BY ONLY <2>1, <2>3, Untouched
  <1>5. CASE TApply(h) \/ TRollback(h) \/ TUnfence(h)
    <2>1. UNCHANGED <<config, runtime, tPhase>>
      BY <1>5, Zenon DEF TApply, TRollback, TUnfence
    <2>2. \A d \in Daemons : FenceAt(d, h)
      BY <1>5, Zenon DEF TApply, TRollback, TUnfence, CanFence, CanUnfence, Unfence, FenceAt, DaemonDomains,
         HandoffInv, TargetStepPhase
    <2>3. \A d \in Daemons : ConfigAt(d, h) /\ RuntimeAt(d, h)
      BY ONLY <2>1, Zenon DEF ConfigAt, RuntimeAt, config, runtime
    <2> QED
      BY ONLY <1>0, <2>1, <2>2, <2>3, OwnTarget
  <1>6. CASE TAdopt(h)
    <2>1. UNCHANGED <<fence, runtime, tPhase>>
      BY <1>6, Zenon DEF TAdopt
    <2>2. \A d \in Daemons : ConfigAt(d, h)
      BY <1>6, <2>1 DEF TAdopt, WriteHost, ConfigAt, DaemonDomains
    <2>3. \A d \in Daemons : FenceAt(d, h) /\ RuntimeAt(d, h)
      BY ONLY <2>1, Zenon DEF FenceAt, RuntimeAt, runtime
    <2> QED
      BY ONLY <1>0, <2>1, <2>2, <2>3, OwnTarget
  <1>7. CASE TActive(h)
    <2>1. UNCHANGED <<config, fence, runtime>>
      BY <1>7, Zenon DEF TActive
    <2>2. tAct[h] = "ready" /\ tPhase'[h] \in {tPhase[h], "active"}
      BY <1>7 DEF TActive, Domains
    <2>3. tPhase[h] \in {"activating", "active"}
      BY <2>2 DEF HandoffInv, TargetStepPhase
    <2>4. OwnAt(h)
      BY ONLY <1>0, <2>1, <2>2, <2>3 DEF OwnAt
    <2> QED
      BY ONLY <2>1, <2>4, Untouched
  <1>8. CASE TLaunched(h)
    <2>1. UNCHANGED <<config, fence, trans, tPhase>>
      BY <1>8, Zenon DEF TLaunched
    <2>2. \A d \in Daemons : RuntimeAt(d, h)
      BY <1>8 DEF TLaunched, RuntimeAt, DaemonDomains
    <2>3. \A d \in Daemons : ConfigAt(d, h) /\ FenceAt(d, h)
      BY ONLY <2>1, Zenon DEF ConfigAt, FenceAt, config
    <2> QED
      BY ONLY <1>0, <2>1, <2>2, <2>3, OwnTarget
  <1>9. CASE TResume(h)
    <2>1. UNCHANGED <<config, runtime>>
      BY <1>9, Zenon DEF TResume
    <2>2. \A d \in Daemons : FenceAt(d, h)
      BY <1>9, Zenon DEF TResume, CanUnfence, Unfence, FenceAt, DaemonDomains
    <2>3. \A d \in Daemons : ConfigAt(d, h) /\ RuntimeAt(d, h)
      BY ONLY <2>1, Zenon DEF ConfigAt, RuntimeAt, config, runtime
    <2>4. tPhase'[h] = tPhase[h] \/ (tPhase[h] # "active" /\ tPhase'[h] = "discarded")
      BY <1>9, Zenon DEF TResume, Reverify, Domains
    <2> QED
      BY ONLY <1>0, <2>2, <2>3, <2>4, OwnTarget
  <1>10. ASSUME NEW p \in Probers, TStatus(h, p)
         PROVE  /\ \A d \in Daemons : ConfigAt(d, h) /\ FenceAt(d, h) /\ RuntimeAt(d, h)
                /\ OwnAt(h)
    <2>1. UNCHANGED <<config, fence, runtime, tPhase>>
      BY <1>10, Zenon DEF TStatus
    <2> QED
      BY ONLY <1>0, <2>1, Untouched, OwnTarget
  <1> QED
    BY ONLY <1>1, <1>2, <1>3, <1>4, <1>5, <1>6, <1>7, <1>8, <1>9, <1>10, TargetStep(h)
       DEF TargetStep

\* Launches, crashes and members are taken for no handoff: a crash loses what the engines hold,
\* a member follows another host.
LEMMA DaemonMoves ==
    ASSUME Domains, DaemonDomains, NEW d \in Daemons, DaemonStep(d)
    PROVE  Moves(NoHandoff)
  <1>0. NoHandoff \notin Handoffs
    OBVIOUS
  <1>1. CASE LaunchBegin(d) \/ LaunchEnd(d)
    <2>1. UNCHANGED <<config, fence>> /\ \A g \in Handoffs : Same(g)
      BY <1>1, Zenon DEF LaunchBegin, LaunchEnd, Same
    <2>2. \A e \in Daemons : RuntimeAt(e, NoHandoff)
      BY <1>1 DEF LaunchBegin, LaunchEnd, RuntimeAt, DaemonDomains
    <2>3. \A e \in Daemons : ConfigAt(e, NoHandoff) /\ FenceAt(e, NoHandoff)
      BY ONLY <2>1, Zenon DEF ConfigAt, FenceAt, config
    <2> QED
      BY ONLY <1>0, <2>1, <2>2, <2>3, SameKept DEF Moves
  <1>2. CASE Crash(d)
    <2>1. UNCHANGED <<config, fence>>
      BY <1>2, Zenon DEF Crash
    <2>2. \A e \in Daemons : RuntimeAt(e, NoHandoff)
      BY <1>2, Zenon DEF Crash, RuntimeAt, DaemonDomains
    <2>3. \A e \in Daemons : ConfigAt(e, NoHandoff) /\ FenceAt(e, NoHandoff)
      BY ONLY <2>1, Zenon DEF ConfigAt, FenceAt, config
    <2>4. ASSUME NEW g \in Handoffs PROVE Kept(g)
      BY <1>2, Zenon DEF Crash, Kept, Domains
    <2> QED
      BY ONLY <1>0, <2>2, <2>3, <2>4 DEF Moves
  <1>3. ASSUME NEW h \in Handoffs, Adopt(d, h) PROVE Moves(NoHandoff)
    <2>1. UNCHANGED <<fence, runtime>> /\ \A g \in Handoffs : Same(g)
      BY <1>3, Zenon DEF Adopt, Same
    <2>2. \A e \in Daemons : ConfigAt(e, NoHandoff)
      BY <1>3 DEF Adopt, WriteHost, ConfigAt, DaemonDomains
    <2>3. \A e \in Daemons : RuntimeAt(e, NoHandoff) /\ FenceAt(e, NoHandoff)
      BY ONLY <2>1, Zenon DEF RuntimeAt, FenceAt, runtime
    <2> QED
      BY ONLY <1>0, <2>1, <2>2, <2>3, SameKept DEF Moves
  <1> QED
    BY ONLY <1>1, <1>2, <1>3, DaemonStep(d) DEF DaemonStep

-----------------------------------------------------------------------------
(* A step of h keeps what the invariant says of h.                         *)

\* A step that does not touch the target of h.
LEMMA SourceTakes ==
    ASSUME NEW h \in Handoffs, TakeInv(h), UNCHANGED <<tPhase, tStep, tAct>>,
           fence'[Dst[h]] = fence[Dst[h]], role'[Dst[h]] = role[Dst[h]],
           host'[Dst[h]] = host[Dst[h]],
           sPhase[h] # "none" => sPhase'[h] # "none",
           <<"manifest", h>> \in req' => <<"manifest", h>> \in req \/ sPhase'[h] # "none",
           Open(h)' => held'[Src[h]] <= epoch'[h]
    PROVE  TakeInv(h)'
  BY Zenon DEF TakeInv

\* A step that does not touch the certificate, the coordinator, the fence and the handed-off mark
\* of the source of h, and does not enter a stretch in which the invariant asks for them.
LEMMA StopFrame ==
    ASSUME NEW h \in Handoffs, StopInv(h),
           sPhase'[h] = sPhase[h], intent'[h] = intent[h], cert'[h] = cert[h],
           sStep'[h] = sStep[h] \/ sStep'[h] \notin {"exporting", "certify", "committed", "unfence"},
           tPhase[h] = "discarded" => tPhase'[h] = "discarded",
           coord'[Src[h]] = coord[Src[h]], trans'[Src[h]] = trans[Src[h]],
           fence'[Src[h]] = fence[Src[h]], handedTo'[Src[h]] = handedTo[Src[h]]
    PROVE  StopInv(h)'
  BY Zenon DEF StopInv, Stopped

\* Before the intent: the source of h takes the fence, stops its coordinator and certifies it.
LEMMA StartTakes ==
    ASSUME Domains, DaemonDomains, SourceTypes, DaemonTypes, NEW h \in Handoffs, HandoffInv(h),
           TakeInv(h), SourceStart(h)
    PROVE  TakeInv(h)'
  <1>1. UNCHANGED <<tPhase, tStep, tAct, role, host, held>>
    BY Zenon DEF SourceStart, Preflight, Capability, PreflightFails, StartPut, StartHold,
       FreezeCheck, Advance, FenceSource, StopSource, Certify, MoveExporting, Export, Send
  <1>2. fence'[Dst[h]] = fence[Dst[h]]
    <2>1. CASE FenceSource(h)
      BY <2>1, Zenon DEF FenceSource, DaemonDomains
    <2>2. CASE ~FenceSource(h)
      BY <2>2, Zenon DEF SourceStart, Preflight, Capability, PreflightFails, StartPut, StartHold,
         FreezeCheck, Advance, StopSource, Certify, MoveExporting, Export, Send
    <2> QED
      BY ONLY <2>1, <2>2
  <1>3. CASE StartPut(h)
    <2>1. sPhase'[h] = "preflight" /\ epoch'[h] = held[Src[h]] + 1 /\ UNCHANGED req
      BY <1>3 DEF StartPut, Domains
    <2>2. held[Src[h]] \in Nat
      BY DEF DaemonTypes, PerDaemon
    <2>3. held'[Src[h]] <= epoch'[h]
      BY ONLY <1>1, <2>1, <2>2
    <2> QED
      BY ONLY <1>1, <1>2, <2>1, <2>3, TakeInv(h), h \in Handoffs, SourceTakes, Zenon
  <1>4. CASE ~StartPut(h)
    <2>1. UNCHANGED epoch
      BY <1>4, Zenon DEF SourceStart, Preflight, Capability, PreflightFails, StartHold,
         FreezeCheck, Advance, FenceSource, StopSource, Certify, MoveExporting, Export, Send
    <2>2. /\ sPhase[h] # "none" => sPhase'[h] # "none"
          /\ sPhase[h] = "none" => sPhase'[h] = "none"
          /\ <<"manifest", h>> \in req' => <<"manifest", h>> \in req \/ sPhase'[h] # "none"
      <3>1. CASE Preflight(h) \/ Capability(h) \/ PreflightFails(h) \/ Advance(h)
                   \/ FenceSource(h) \/ StopSource(h) \/ Certify(h)
        BY <3>1, Zenon DEF Preflight, Capability, PreflightFails, Advance, FenceSource, StopSource,
           Certify
      <3>2. CASE StartHold(h) \/ FreezeCheck(h) \/ MoveExporting(h) \/ Export(h) \/ Send(h)
        <4>1. \/ sPhase' = sPhase
              \/ \E v \in SourcePhases \ {"none"} : sPhase' = [sPhase EXCEPT ![h] = v]
          BY <3>2, Zenon DEF StartHold, FreezeCheck, MoveExporting, Export, Send, SourcePhases
        <4>2. sStep[h] \in {"hold", "check", "exporting", "export", "send"}
          BY <3>2, Zenon DEF StartHold, FreezeCheck, MoveExporting, Export, Send
        <4>3. sPhase[h] # "none"
          BY ONLY <4>2, HandoffInv(h) DEF HandoffInv, SourceStepPhase
        <4> QED
          BY ONLY <4>1, <4>3, Domains, h \in Handoffs DEF Domains
      <3> QED
        BY ONLY <1>4, <3>1, <3>2, SourceStart(h) DEF SourceStart
    <2>3. Open(h)' => Open(h)
      BY ONLY <1>1, <2>2, Zenon DEF Open
    <2>4. Open(h)' => held'[Src[h]] <= epoch'[h]
      BY ONLY <1>1, <2>1, <2>3, TakeInv(h), Zenon DEF TakeInv
    <2> QED
      BY ONLY <1>1, <1>2, <2>2, <2>4, TakeInv(h), h \in Handoffs, SourceTakes
  <1> QED
    BY ONLY <1>3, <1>4

\* The transfer of the snapshot leaves the position of the target as it was.
LEMMA TransferTakes ==
    ASSUME Domains, NEW h \in Handoffs, HandoffInv(h), TakeInv(h), SourceTransfer(h)
    PROVE  TakeInv(h)'
  <1>1. UNCHANGED <<tPhase, tStep, tAct, role, host, held, fence, epoch>>
    BY Zenon DEF SourceTransfer, TransferReply, TransferFails, RetryTransfer, AckTimeout, OnAck
  <1>2. /\ sPhase[h] # "none" => sPhase'[h] # "none"
        /\ sPhase[h] = "none" => sPhase'[h] = "none"
        /\ <<"manifest", h>> \in req' => <<"manifest", h>> \in req \/ sPhase'[h] # "none"
    BY Zenon DEF SourceTransfer, TransferReply, TransferFails, RetryTransfer, AckTimeout, OnAck, Domains
  <1>3. Open(h)' => Open(h)
    BY ONLY <1>1, <1>2, Zenon DEF Open
  <1>4. Open(h)' => held'[Src[h]] <= epoch'[h]
    BY ONLY <1>1, <1>3, TakeInv(h), Zenon DEF TakeInv
  <1> QED
    BY ONLY <1>1, <1>2, <1>4, TakeInv(h), h \in Handoffs, SourceTakes, Zenon

\* So do the steps of the source from activate on.
LEMMA FinishTakes ==
    ASSUME Domains, DaemonDomains, NEW h \in Handoffs, HandoffInv(h), TakeInv(h), SourceFinish(h)
    PROVE  TakeInv(h)'
  <1>1. UNCHANGED <<tPhase, tStep, tAct, epoch>>
    BY Zenon DEF SourceFinish, RetryActivate, ActivateSend, ActivateReply, CommitJournal,
       CommitUnfence, Advertise, AbortUnfence, AbortJournal, OwnerAbort, Restore, Resume, Probe,
       OwnerAbortAsk, ProbeReply
  <1>2. fence'[Dst[h]] = fence[Dst[h]]
    <2>1. CASE ActivateSend(h) \/ CommitUnfence(h) \/ AbortUnfence(h)
      BY <2>1, Zenon DEF ActivateSend, CommitUnfence, AbortUnfence, Unfence, DaemonDomains
    <2>2. CASE ~(ActivateSend(h) \/ CommitUnfence(h) \/ AbortUnfence(h))
      BY <2>2, Zenon DEF SourceFinish, RetryActivate, ActivateReply, CommitJournal, Advertise,
         AbortJournal, OwnerAbort, Restore, Resume, Probe, OwnerAbortAsk, ProbeReply
    <2> QED
      BY ONLY <2>1, <2>2
  <1>3. UNCHANGED config \/ (CommitStep(h) /\ tPhase[h] = "active")
    BY Zenon DEF SourceFinish, RetryActivate, ActivateSend, ActivateReply, CommitJournal,
       CommitUnfence, Advertise, AbortUnfence, AbortJournal, OwnerAbort, Restore, Resume, Probe,
       OwnerAbortAsk, ProbeReply, HandoffInv, AnswerTrue
  <1>4. /\ role'[Dst[h]] = role[Dst[h]] /\ host'[Dst[h]] = host[Dst[h]]
        /\ tPhase[h] = "active" \/ UNCHANGED held
    <2>1. CASE UNCHANGED config
      BY <2>1, Zenon
    <2>2. CASE CommitStep(h) /\ tPhase[h] = "active"
      BY <2>2 DEF CommitStep, WriteHost, DaemonDomains
    <2> QED
      BY ONLY <1>3, <2>1, <2>2, Zenon
  <1>5. (sPhase[h] # "none" => sPhase'[h] # "none") /\ (sPhase[h] = "none" => sPhase'[h] = "none")
    <2>1. CASE RetryActivate(h) \/ CommitUnfence(h) \/ Advertise(h) \/ AbortUnfence(h)
                 \/ OwnerAbort(h) \/ Restore(h) \/ \E p \in Probers : Probe(h, p) \/ OwnerAbortAsk(h, p)
      BY <2>1, Zenon DEF RetryActivate, CommitUnfence, Advertise, AbortUnfence, OwnerAbort, Restore,
         Probe, OwnerAbortAsk
    <2>2. CASE ActivateSend(h) \/ ActivateReply(h) \/ CommitJournal(h) \/ AbortJournal(h)
      <3>1. sPhase' = sPhase \/ \E v \in SourcePhases \ {"none"} : sPhase' = [sPhase EXCEPT ![h] = v]
        BY <2>2 DEF ActivateSend, ActivateReply, CommitJournal, AbortJournal, SourcePhases
      <3>2. sPhase' = sPhase \/ sPhase[h] # "none"
        <4>1. CASE ActivateSend(h)
          BY <4>1, Zenon DEF ActivateSend
        <4>2. CASE ActivateReply(h)
          BY <4>2 DEF ActivateReply, HandoffInv, IntentFirst, AfterIntent
        <4>3. CASE CommitJournal(h)
          BY <4>3 DEF CommitJournal, HandoffInv, ConclusionTrue, IntentFirst, AfterIntent
        <4>4. CASE AbortJournal(h)
          BY <4>4 DEF AbortJournal, HandoffInv, SourceStepPhase
        <4> QED
          BY ONLY <2>2, <4>1, <4>2, <4>3, <4>4
      <3> QED
        BY ONLY <3>1, <3>2, Domains, h \in Handoffs, Zenon DEF Domains
    <2>3. CASE Resume(h)
      BY <2>3 DEF Resume, ResumeRecord, Domains
    <2>4. ASSUME NEW p \in Probers, ProbeReply(h, p)
          PROVE  (sPhase[h] # "none" => sPhase'[h] # "none") /\ (sPhase[h] = "none" => sPhase'[h] = "none")
      <3>1. sPhase'[h] \in {sPhase[h], "uncertain"} /\ probe[h][p] # NoProbe
        BY <2>4 DEF ProbeReply, Domains, NoProbe, Staged
      <3>2. sPhase[h] # "none"
        BY <3>1, Zenon DEF HandoffInv, IntentFirst, AfterIntent
      <3> QED
        BY ONLY <3>1, <3>2
    <2> QED
      BY ONLY <2>1, <2>2, <2>3, <2>4, SourceFinish(h), Zenon DEF SourceFinish
  <1>6. <<"manifest", h>> \in req' => <<"manifest", h>> \in req
    <2>1. CASE ActivateSend(h) \/ CommitUnfence(h) \/ Advertise(h) \/ AbortJournal(h)
      <3>1. req' \subseteq req \cup {<<"activate", h>>, <<"certificate", h>>, <<"discard", h>>}
        BY <2>1 DEF ActivateSend, CommitUnfence, Advertise, AbortJournal
      <3> QED
        BY ONLY <3>1, Zenon
    <2>2. CASE ~(ActivateSend(h) \/ CommitUnfence(h) \/ Advertise(h) \/ AbortJournal(h))
      BY <2>2, Zenon DEF SourceFinish, RetryActivate, ActivateReply, CommitJournal, AbortUnfence,
         OwnerAbort, Restore, Resume, Probe, OwnerAbortAsk, ProbeReply
    <2> QED
      BY ONLY <2>1, <2>2
  <1>7. Open(h)' => Open(h) /\ tPhase[h] # "active"
    BY ONLY <1>1, <1>5, Zenon DEF Open
  <1>8. Open(h)' => held'[Src[h]] <= epoch'[h]
    BY ONLY <1>1, <1>4, <1>7, TakeInv(h), Zenon DEF TakeInv
  <1> QED
    BY ONLY <1>1, <1>2, <1>4, <1>5, <1>6, <1>8, TakeInv(h), h \in Handoffs, SourceTakes

\* The target of h takes the role behind its fence.
LEMMA TargetTakes ==
    ASSUME Domains, DaemonDomains, NEW h \in Handoffs, HandoffInv(h), TakeInv(h), TargetStep(h),
           tPhase[h] \in Staged => role[Dst[h]] = "member"
    PROVE  TakeInv(h)'
  <1>0. /\ UNCHANGED <<sPhase, epoch>>
        /\ sPhase'[h] = sPhase[h]
    BY Zenon DEF TargetStep, TManifest, TChunk, TSeal, TVerified, TAckReply, TDiscard, TStageTTL,
       TActivate, TReadiness, TApply, TRollback, TTombstone, TAdopt, TActive, TUnfence, TLaunched,
       TResume, TStatus
  <1>1. CASE TManifest(h) \/ TSeal(h) \/ TVerified(h) \/ TAckReply(h)
    <2>1. UNCHANGED <<role, host, held, fence, tAct>>
      BY <1>1, Zenon DEF TManifest, TSeal, TVerified, TAckReply
    <2>2. /\ <<"manifest", h>> \in req' => <<"manifest", h>> \in req
          /\ tPhase[h] # "none" \/ tPhase'[h] = "none" \/ <<"manifest", h>> \in req
          /\ tPhase'[h] \in {"active", "activating"} <=> tPhase[h] \in {"active", "activating"}
          /\ tPhase'[h] = "active" <=> tPhase[h] = "active"
          /\ tStep'[h] \in {tStep[h], "idle", "verify"}
      BY <1>1, Zenon DEF TManifest, TSeal, TVerified, TAckReply, SendAck, Domains, HandoffInv,
         TargetStepPhase
    <2> QED
      BY ONLY <1>0, <2>1, <2>2, TakeInv(h) DEF TakeInv, Open
  <1>2. CASE TChunk(h) \/ TDiscard(h) \/ TStageTTL(h) \/ TTombstone(h)
    <2>1. UNCHANGED <<role, host, held, fence, req>>
      BY <1>2, Zenon DEF TChunk, TDiscard, TStageTTL, TTombstone
    <2>2. /\ tPhase'[h] = tPhase[h]
             \/ (tPhase[h] \notin {"active", "none"} /\ tPhase'[h] = "discarded")
          /\ tStep'[h] \in {tStep[h], "idle"}
          /\ tAct'[h] = tAct[h] \/ (tAct'[h] = "idle" /\ tStep'[h] = "idle")
      BY <1>2, Zenon DEF TChunk, TDiscard, TStageTTL, TTombstone, Staged, Domains, HandoffInv,
         TargetStepPhase
    <2> QED
      BY ONLY <1>0, <2>1, <2>2, TakeInv(h), Zenon DEF TakeInv, Open
  <1>3. CASE TActivate(h) \/ TResume(h)
    <2>1. UNCHANGED <<role, host, held, req, tStep>>
      BY <1>3, Zenon DEF TActivate, TResume
    <2>2. \/ tPhase'[h] = tPhase[h] /\ tAct'[h] = tAct[h]
          \/ tPhase[h] \notin {"active", "none"} /\ tPhase'[h] = "discarded" /\ tAct'[h] = tAct[h]
          \/ tPhase'[h] = tPhase[h] /\ tAct[h] = "idle" /\ tPhase[h] = "activating" /\ tAct'[h] = "again"
          \/ tPhase'[h] = tPhase[h] /\ tAct[h] = "idle" /\ tPhase[h] \in {"verified", "acked"}
               /\ tAct'[h] = "first"
      BY <1>3, Zenon DEF TActivate, TResume, Reverify, Domains
    <2>3. tStep[h] = "idle"
      BY <1>3, Zenon DEF TActivate, TResume, Free
    <2> QED
      BY ONLY <1>0, <2>1, <2>2, <2>3, TakeInv(h), tPhase[h] \in Staged => role[Dst[h]] = "member", Zenon
         DEF TakeInv, Open, Staged
  <1>4. CASE TReadiness(h)
    <2>1. UNCHANGED <<role, host, held, fence, req>>
      BY <1>4, Zenon DEF TReadiness
    <2>2. /\ tAct[h] \in {"first", "again"} /\ tAct'[h] \in {tAct[h], "idle"}
          /\ \/ tPhase'[h] = tPhase[h]
             \/ tPhase[h] \notin {"active", "none"} /\ tPhase'[h] \in {"discarded", "activating"}
          /\ tStep'[h] \in {"idle", "apply"}
      BY <1>4 DEF TReadiness, Free, Domains
    <2> QED
      BY ONLY <1>0, <2>1, <2>2, TakeInv(h), Zenon DEF TakeInv, Open
  <1>5. CASE TApply(h)
    <2>1. UNCHANGED <<role, host, held, req, tPhase>>
      BY <1>5, Zenon DEF TApply
    <2>2. /\ tAct'[h] = tAct[h] \/ tAct'[h] = "idle"
          /\ tStep'[h] \in {"idle", "adopt", "rollback"}
          /\ tStep'[h] = "adopt" => fence'[Dst[h]] = h
          /\ tStep'[h] = "rollback" => tAct'[h] = "first"
      BY <1>5, Zenon DEF TApply, Domains, DaemonDomains
    <2> QED
      BY ONLY <1>0, <2>1, <2>2, TakeInv(h), Zenon DEF TakeInv, Open
  <1>6. CASE TRollback(h) \/ TUnfence(h)
    <2>1. UNCHANGED <<role, host, held, req, tPhase>>
      BY <1>6, Zenon DEF TRollback, TUnfence
    <2>2. tAct'[h] \in {tAct[h], "idle", "launch"} /\ tStep'[h] \in {"idle", "tombstone"}
      BY <1>6, Zenon DEF TRollback, TUnfence, Domains
    <2> QED
      BY ONLY <1>0, <2>1, <2>2, TakeInv(h), Zenon DEF TakeInv, Open
  <1>7. CASE TAdopt(h)
    <2>1. UNCHANGED <<req, tPhase, fence>>
      BY <1>7, Zenon DEF TAdopt
    <2>2. /\ tStep'[h] = "idle" /\ tAct'[h] \in {"idle", "ready"}
          /\ tAct'[h] = "ready" => role'[Dst[h]] = "host" /\ host'[Dst[h]] = Dst[h]
          /\ held'[Src[h]] = held[Src[h]]
      <3>1. /\ tStep' = [tStep EXCEPT ![h] = "idle"]
            /\ \/ /\ role' = [role EXCEPT ![Dst[h]] = "host"] /\ host' = [host EXCEPT ![Dst[h]] = Dst[h]]
                  /\ held' = [held EXCEPT ![Dst[h]] = epoch[h]]
                  /\ tAct' = [tAct EXCEPT ![h] = "ready"]
               \/ tAct' = [tAct EXCEPT ![h] = "idle"] /\ held' = held
        BY <1>7, Zenon DEF TAdopt, WriteHost
      <3>2. Src[h] # Dst[h] /\ Src[h] \in Daemons /\ Dst[h] \in Daemons
        OBVIOUS
      <3> QED
        BY ONLY <3>1, <3>2, Domains, DaemonDomains, h \in Handoffs DEF Domains, DaemonDomains
    <2> QED
      BY ONLY <1>0, <2>1, <2>2, TakeInv(h), Zenon DEF TakeInv, Open
  <1>8. CASE TActive(h) \/ TLaunched(h)
    <2>1. UNCHANGED <<role, host, held, fence>>
      BY <1>8, Zenon DEF TActive, TLaunched
    <2>2. /\ tAct[h] \in {"ready", "launch"} /\ tAct'[h] \in {tAct[h], "idle"}
          /\ tStep'[h] \in {"idle", "unfence"}
          /\ tPhase'[h] = tPhase[h] \/ (tPhase'[h] = "active" /\ tPhase[h] # "none")
      BY <1>8, Zenon DEF TActive, TLaunched, Free, Domains, HandoffInv, TargetStepPhase
    <2>3. <<"manifest", h>> \in req' => <<"manifest", h>> \in req
      <3>1. req' \in {req, req \cup {<<"certificate", h>>}}
        BY <1>8 DEF TActive, TLaunched
      <3> QED
        BY ONLY <3>1
    <2> QED
      BY ONLY <1>0, <2>1, <2>2, <2>3, TakeInv(h), Zenon DEF TakeInv, Open
  <1>9. ASSUME NEW p \in Probers, TStatus(h, p) PROVE TakeInv(h)'
    <2>1. UNCHANGED <<role, host, held, fence, req, tPhase, tStep, tAct>>
      BY <1>9, Zenon DEF TStatus
    <2> QED
      BY ONLY <1>0, <2>1, TakeInv(h), Zenon DEF TakeInv, Open
  <1> QED
    BY ONLY <1>1, <1>2, <1>3, <1>4, <1>5, <1>6, <1>7, <1>8, <1>9, TargetStep(h) DEF TargetStep

\* The four columns of the source's journal and engine that StopInv speaks of.
Stands(h, sp, in, ce, ss) ==
    sPhase'[h] = sp /\ intent'[h] = in /\ cert'[h] = ce /\ sStep'[h] = ss

\* The source's daemon and the target's record are as they were.
SourceStill(h) ==
    /\ tPhase'[h] = tPhase[h]
    /\ coord'[Src[h]] = coord[Src[h]] /\ trans'[Src[h]] = trans[Src[h]]
    /\ fence'[Src[h]] = fence[Src[h]] /\ handedTo'[Src[h]] = handedTo[Src[h]]

\* Steps after which the invariant asks nothing new.
Quiet == {"idle", "hold", "check", "fence", "export", "send", "activate", "abort", "aborted"}

\* A step of the source that only moves to a quiet step.
LEMMA StopQuiet ==
    ASSUME NEW h \in Handoffs, StopInv(h), NEW ss \in Quiet \cup {sStep[h]},
           Stands(h, sPhase[h], intent[h], cert[h], ss), SourceStill(h)
    PROVE  StopInv(h)'
  BY StopFrame, Zenon DEF Stands, SourceStill, Quiet

\* Before the intent: the fence, the stop, the certificate, the export.
LEMMA StartStops ==
    ASSUME Domains, DaemonDomains, NEW h \in Handoffs, HandoffInv(h), StopInv(h), SourceStart(h)
    PROVE  StopInv(h)'
  <1>1. CASE Preflight(h) \/ Capability(h) \/ PreflightFails(h) \/ Advance(h)
    <2>1. SourceStill(h) /\ UNCHANGED <<sPhase, intent, cert>>
      BY <1>1, Zenon DEF Preflight, Capability, PreflightFails, Advance, SourceStill
    <2>2. sStep'[h] \in Quiet \cup {sStep[h]}
      BY <1>1, Zenon DEF Preflight, Capability, PreflightFails, Advance, AdvanceStep, Domains, Quiet
    <2> QED
      BY ONLY <2>1, <2>2, StopQuiet, h \in Handoffs, StopInv(h) DEF Stands
  <1>2. CASE StartPut(h)
    <2>1. SourceStill(h) /\ sPhase[h] = "none" /\ ~intent[h]
      BY <1>2, Zenon DEF StartPut, SourceStill, HandoffInv, SourceStepPhase, IntentFirst, AfterIntent
    <2>2. Stands(h, "preflight", intent[h], cert[h], "hold")
      BY <1>2, Zenon DEF StartPut, Stands, Domains
    <2> QED
      BY ONLY <2>1, <2>2, StopInv(h), Zenon DEF Stands, SourceStill, StopInv, Stopped, CutPhases
  <1>3. CASE StartHold(h)
    <2>1. SourceStill(h) /\ sPhase[h] = "preflight" /\ ~intent[h]
      BY <1>3, Zenon DEF StartHold, SourceStill, HandoffInv, SourceStepPhase, IntentFirst, AfterIntent
    <2>2. Stands(h, "freezing", intent[h], cert[h], "check")
            \/ Stands(h, "aborted", intent[h], cert[h], "idle")
      BY <1>3, Zenon DEF StartHold, Stands, Domains
    <2> QED
      BY ONLY <2>1, <2>2, StopInv(h), Zenon DEF Stands, SourceStill, StopInv, Stopped, CutPhases
  <1>4. CASE FreezeCheck(h)
    <2>1. SourceStill(h) /\ sPhase[h] = "freezing" /\ ~intent[h]
      BY <1>4, Zenon DEF FreezeCheck, SourceStill, HandoffInv, SourceStepPhase, IntentFirst, AfterIntent
    <2>2. \/ Stands(h, "frozen", intent[h], cert[h], "fence")
          \/ \E ss \in {"abort", "idle"} : Stands(h, sPhase[h], intent[h], cert[h], ss)
      BY <1>4 DEF FreezeCheck, AbortStep, Stands, Domains
    <2> QED
      BY ONLY <2>1, <2>2, StopInv(h), Zenon DEF Stands, SourceStill, StopInv, Stopped, CutPhases
  <1>5. CASE FenceSource(h)
    <2>1. sPhase[h] = "frozen" /\ ~intent[h] /\ sStep[h] = "fence"
      BY <1>5, Zenon DEF FenceSource, HandoffInv, SourceStepPhase, IntentFirst, AfterIntent
    <2>2. /\ tPhase'[h] = tPhase[h] /\ coord'[Src[h]] = coord[Src[h]]
          /\ cert[h] => trans'[Src[h]] = trans[Src[h]]
          /\ \/ cert[h] /\ Stands(h, sPhase[h], intent[h], cert[h], "exporting")
             \/ Stands(h, sPhase[h], intent[h], cert[h], "idle")
      BY <1>5, Zenon DEF FenceSource, Stands, Domains, DaemonDomains
    <2> QED
      BY ONLY <2>1, <2>2, StopInv(h), Zenon DEF Stands, StopInv, Stopped, CutPhases
  <1>6. CASE StopSource(h)
    <2>1. sPhase[h] = "frozen" /\ ~intent[h] /\ sStep[h] = "idle"
      BY <1>6, Zenon DEF StopSource, Free, HandoffInv, SourceStepPhase, IntentFirst, AfterIntent
    <2>2. /\ tPhase'[h] = tPhase[h] /\ trans'[Src[h]] = "none"
          /\ coord'[Src[h]] = coord[Src[h]] \/ coord'[Src[h]] = FALSE
          /\ \/ Stands(h, sPhase[h], intent[h], cert[h], "idle")
             \/ /\ Stands(h, sPhase[h], intent[h], cert[h], "certify")
                /\ coord'[Src[h]] = FALSE
      <3>1. /\ UNCHANGED <<tPhase, sPhase, intent, cert>>
            /\ trans' = [trans EXCEPT ![Src[h]] = "none"]
            /\ \/ sStep' = sStep /\ coord' \in {coord, [coord EXCEPT ![Src[h]] = FALSE]}
               \/ sStep' = [sStep EXCEPT ![h] = "certify"] /\ coord' = [coord EXCEPT ![Src[h]] = FALSE]
        BY <1>6 DEF StopSource
      <3>2. Src[h] \in Daemons
        OBVIOUS
      <3> QED
        BY ONLY <2>1, <3>1, <3>2, Domains, DaemonDomains, h \in Handoffs
           DEF Stands, Domains, DaemonDomains
    <2> QED
      BY ONLY <2>1, <2>2, StopInv(h), Zenon DEF Stands, StopInv, Stopped, CutPhases
  <1>7. CASE Certify(h)
    <2>1. SourceStill(h) /\ sPhase[h] = "frozen" /\ ~intent[h] /\ sStep[h] = "certify"
      BY <1>7, Zenon DEF Certify, SourceStill, HandoffInv, SourceStepPhase, IntentFirst, AfterIntent
    <2>2. Stands(h, sPhase[h], intent[h], TRUE, "exporting")
      BY <1>7, Zenon DEF Certify, Stands, Domains
    <2> QED
      BY ONLY <2>1, <2>2, StopInv(h), Zenon DEF Stands, SourceStill, StopInv, Stopped, CutPhases
  <1>8. CASE MoveExporting(h)
    <2>1. SourceStill(h) /\ sPhase[h] = "frozen" /\ ~intent[h] /\ sStep[h] = "exporting"
      BY <1>8, Zenon DEF MoveExporting, SourceStill, HandoffInv, SourceStepPhase, IntentFirst, AfterIntent
    <2>2. Stands(h, "exporting", intent[h], cert[h], "export")
      BY <1>8 DEF MoveExporting, Stands, Domains
    <2> QED
      BY ONLY <2>1, <2>2, StopInv(h), Zenon DEF Stands, SourceStill, StopInv, Stopped, CutPhases
  <1>9. CASE Export(h)
    <2>1. SourceStill(h) /\ sPhase[h] = "exporting" /\ ~intent[h] /\ sStep[h] = "export"
      BY <1>9, Zenon DEF Export, SourceStill, HandoffInv, SourceStepPhase, IntentFirst, AfterIntent
    <2>2. \/ Stands(h, "exported", intent[h], cert[h], "send")
          \/ \E ss \in {"abort", "idle"} : Stands(h, sPhase[h], intent[h], cert[h], ss)
      BY <1>9, Zenon DEF Export, AbortStep, Stands, Domains
    <2> QED
      BY ONLY <2>1, <2>2, StopInv(h), Zenon DEF Stands, SourceStill, StopInv, Stopped, CutPhases
  <1>10. CASE Send(h)
    <2>1. SourceStill(h) /\ sPhase[h] = "exported" /\ ~intent[h] /\ sStep[h] = "send"
      BY <1>10, Zenon DEF Send, SourceStill, HandoffInv, SourceStepPhase, IntentFirst, AfterIntent
    <2>2. Stands(h, "awaiting_ack", intent[h], cert[h], "idle")
      BY <1>10, Zenon DEF Send, Stands, Domains
    <2> QED
      BY ONLY <2>1, <2>2, StopInv(h), Zenon DEF Stands, SourceStill, StopInv, Stopped, CutPhases
  <1> QED
    BY ONLY <1>1, <1>2, <1>3, <1>4, <1>5, <1>6, <1>7, <1>8, <1>9, <1>10, SourceStart(h)
       DEF SourceStart

\* Transfer and ACK: an acknowledged handoff is as stopped as one that waits for the ACK.
LEMMA TransferStops ==
    ASSUME Domains, NEW h \in Handoffs, HandoffInv(h), StopInv(h), SourceTransfer(h)
    PROVE  StopInv(h)'
  <1>0. SourceStill(h) /\ UNCHANGED <<intent, cert>>
    BY Zenon DEF SourceTransfer, TransferReply, TransferFails, RetryTransfer, AckTimeout, OnAck,
       SourceStill
  <1>1. \/ sPhase'[h] = sPhase[h] /\ sStep'[h] \in Quiet \cup {sStep[h]}
        \/ sPhase[h] = "awaiting_ack" /\ Stands(h, "acked", intent[h], cert[h], "activate")
    BY <1>0, Zenon DEF SourceTransfer, TransferReply, TransferFails, RetryTransfer, AckTimeout, OnAck,
       AbortStep, Domains, Quiet, Stands
  <1>2. CASE sPhase'[h] = sPhase[h] /\ sStep'[h] \in Quiet \cup {sStep[h]}
    BY ONLY <1>0, <1>2, StopQuiet, h \in Handoffs, StopInv(h), Zenon DEF Stands
  <1>3. CASE sPhase[h] = "awaiting_ack" /\ Stands(h, "acked", intent[h], cert[h], "activate")
    <2>1. ~intent[h]
      BY <1>3 DEF HandoffInv, IntentFirst, AfterIntent
    <2> QED
      BY ONLY <1>0, <1>3, <2>1, StopInv(h), Zenon DEF Stands, SourceStill, StopInv, Stopped, CutPhases
  <1> QED
    BY ONLY <1>1, <1>2, <1>3

\* After the intent: the handoff is journalled past the cut, or given up on a tombstone.
LEMMA IntentStops ==
    ASSUME NEW h \in Handoffs, HandoffInv(h), StopInv(h), intent[h]
    PROVE  /\ cert[h]
           /\ sPhase[h] \in CutPhases \/ tPhase[h] = "discarded"
           /\ tPhase[h] # "discarded" => ~coord[Src[h]] /\ trans[Src[h]] = "none"
  BY Zenon DEF HandoffInv, IntentFirst, ConclusionTrue, AfterIntent, StopInv, Stopped, CutPhases

\* A step of a handoff with the intent that keeps the cut, moves the phase after the intent and
\* the engine to a quiet step.
LEMMA StopAfterIntent ==
    ASSUME NEW h \in Handoffs, HandoffInv(h), StopInv(h), intent[h],
           NEW sp \in {sPhase[h], "activating", "uncertain", "committed"},
           NEW ss \in Quiet \cup {sStep[h]},
           Stands(h, sp, intent[h], cert[h], ss), SourceStill(h)
    PROVE  StopInv(h)'
  <1>1. sPhase[h] \in {"activating", "uncertain", "committed", "aborted"} /\ cert[h]
    BY Zenon DEF HandoffInv, IntentFirst, AfterIntent, StopInv
  <1>2. tPhase[h] # "discarded" => ~coord[Src[h]] /\ trans[Src[h]] = "none"
    BY ONLY IntentStops, HandoffInv(h), StopInv(h), intent[h], h \in Handoffs, Zenon
  <1>3. sStep[h] = "certify" => ~coord[Src[h]] /\ trans[Src[h]] = "none"
    BY ONLY StopInv(h) DEF StopInv, Stopped
  <1> QED
    BY ONLY <1>1, <1>2, <1>3, StopInv(h), intent[h], Stands(h, sp, intent[h], cert[h], ss),
            SourceStill(h), sp \in {sPhase[h], "activating", "uncertain", "committed"},
            ss \in Quiet \cup {sStep[h]}, Zenon
       DEF Stands, SourceStill, StopInv, Stopped, Quiet

\* commit: the source is handed off from here on.
LEMMA CommitStops ==
    ASSUME Domains, DaemonDomains, NEW h \in Handoffs, HandoffInv(h), StopInv(h),
           tPhase[h] = "active", CommitStep(h), UNCHANGED <<sPhase, intent, cert, tPhase, fence, runtime>>
    PROVE  StopInv(h)'
  <1>1. CASE sPhase[h] = "committed"
    <2>1. SourceStill(h) /\ Stands(h, sPhase[h], intent[h], cert[h], sStep[h])
      BY <1>1, Zenon DEF CommitStep, SourceStill, Stands
    <2> QED
      BY ONLY <2>1, StopQuiet, h \in Handoffs, StopInv(h)
  <1>2. CASE sPhase[h] # "committed"
    <2>0. /\ handedTo' = [handedTo EXCEPT ![Src[h]] = h]
          /\ sStep' = [sStep EXCEPT ![h] = "committed"]
          /\ UNCHANGED <<sPhase, intent, cert>>
      BY <1>2, Zenon DEF CommitStep, WriteHost
    <2>3. Src[h] \in Daemons
      OBVIOUS
    <2>1. handedTo'[Src[h]] = h /\ Stands(h, sPhase[h], intent[h], cert[h], "committed")
      BY ONLY <2>0, <2>3, Domains, DaemonDomains, h \in Handoffs DEF Stands, Domains, DaemonDomains
    <2>2. UNCHANGED <<tPhase, coord, trans>>
      BY Zenon
    <2> QED
      BY ONLY <2>1, <2>2, StopInv(h) DEF Stands, StopInv, Stopped
  <1> QED
    BY ONLY <1>1, <1>2

\* From activate on the source keeps its stop, until the target has discarded the handoff.
LEMMA FinishStops ==
    ASSUME NEW rank, Onward(rank), AgreementInv, Domains, DaemonDomains, NEW h \in Handoffs,
           HandoffInv(h), TakeInv(h), StopInv(h), SourceFinish(h)
    PROVE  StopInv(h)'
  <1>1. CASE RetryActivate(h) \/ Advertise(h) \/ OwnerAbort(h)
    <2>1. SourceStill(h) /\ UNCHANGED <<sPhase, intent, cert>>
      BY <1>1, Zenon DEF RetryActivate, Advertise, OwnerAbort, SourceStill
    <2>2. sStep'[h] \in Quiet \cup {sStep[h]}
      BY <1>1, Zenon DEF RetryActivate, Advertise, OwnerAbort, AbortStep, Domains, Quiet
    <2> QED
      BY ONLY <2>1, <2>2, StopQuiet, h \in Handoffs, StopInv(h) DEF Stands
  <1>2. ASSUME NEW p \in Probers, Probe(h, p) \/ OwnerAbortAsk(h, p) PROVE StopInv(h)'
    <2>1. SourceStill(h) /\ UNCHANGED <<sPhase, intent, cert, sStep>>
      BY <1>2, Zenon DEF Probe, OwnerAbortAsk, SourceStill
    <2> QED
      BY ONLY <2>1, StopQuiet, h \in Handoffs, StopInv(h) DEF Stands
  <1>3. CASE ActivateSend(h)
    <2>1. /\ UNCHANGED <<tPhase, coord, trans, handedTo, cert>>
          /\ sStep'[h] = "idle"
          /\ \/ /\ fence'[Src[h]] = h /\ sPhase[h] \in {"acked", "uncertain"}
                /\ sPhase'[h] = "activating" /\ intent'[h] = TRUE
             \/ fence' = fence /\ sPhase'[h] = sPhase[h] /\ intent'[h] = intent[h]
      <3>1. /\ UNCHANGED <<tPhase, coord, trans, handedTo, cert>>
            /\ sStep' = [sStep EXCEPT ![h] = "idle"]
            /\ \/ /\ fence' = [fence EXCEPT ![Src[h]] = h] /\ sPhase[h] \in {"acked", "uncertain"}
                  /\ sPhase' = [sPhase EXCEPT ![h] = "activating"]
                  /\ intent' = [intent EXCEPT ![h] = TRUE]
               \/ UNCHANGED <<fence, sPhase, intent>>
        BY <1>3, Zenon DEF ActivateSend
      <3>2. Src[h] \in Daemons
        OBVIOUS
      <3> QED
        BY ONLY <3>1, <3>2, Domains, DaemonDomains, h \in Handoffs DEF Domains, DaemonDomains
    <2>2. sPhase[h] = "uncertain" => intent[h]
      BY Zenon DEF HandoffInv, IntentFirst
    <2> QED
      BY ONLY <2>1, <2>2, StopInv(h), Zenon DEF StopInv, Stopped, CutPhases
  <1>4. CASE ActivateReply(h)
    <2>1. act[h] # "idle" /\ UNCHANGED <<intent, cert, tPhase, fence, runtime>>
      BY <1>4 DEF ActivateReply
    <2>2. intent[h]
      BY <2>1, Zenon DEF HandoffInv, IntentFirst
    <2>3. \/ tPhase[h] = "active" /\ CommitStep(h) /\ UNCHANGED sPhase
          \/ /\ UNCHANGED config /\ sStep'[h] \in {"abort", "idle", sStep[h]}
             /\ sPhase'[h] \in {sPhase[h], "uncertain"}
      BY <1>4, Zenon DEF ActivateReply, AbortDiscarded, HandoffInv, AnswerTrue, Domains
    <2>4. CASE tPhase[h] = "active" /\ CommitStep(h) /\ UNCHANGED sPhase
      BY ONLY <2>1, <2>4, CommitStops, Domains, DaemonDomains, h \in Handoffs, HandoffInv(h),
              StopInv(h), Zenon
    <2>5. CASE /\ UNCHANGED config /\ sStep'[h] \in {"abort", "idle", sStep[h]}
               /\ sPhase'[h] \in {sPhase[h], "uncertain"}
      <3>1. SourceStill(h) /\ Stands(h, sPhase'[h], intent[h], cert[h], sStep'[h])
        BY <2>1, <2>5, Zenon DEF SourceStill, Stands
      <3>2. sStep'[h] \in Quiet \cup {sStep[h]}
        BY ONLY <2>5 DEF Quiet
      <3> QED
        BY ONLY <2>2, <2>5, <3>1, <3>2, StopAfterIntent, h \in Handoffs, HandoffInv(h), StopInv(h), Zenon
    <2> QED
      BY ONLY <2>3, <2>4, <2>5, Zenon
  <1>5. ASSUME NEW p \in Probers, ProbeReply(h, p) PROVE StopInv(h)'
    <2>1. probe[h][p] # NoProbe /\ UNCHANGED <<intent, cert, tPhase, fence, runtime>>
      BY <1>5 DEF ProbeReply, NoProbe, Staged
    <2>2. intent[h]
      BY <2>1, Zenon DEF HandoffInv, IntentFirst
    <2>3. \/ tPhase[h] = "active" /\ CommitStep(h) /\ UNCHANGED sPhase
          \/ /\ UNCHANGED config /\ sStep'[h] \in {"abort", "idle", "activate", sStep[h]}
             /\ sPhase'[h] \in {sPhase[h], "uncertain"}
      BY <1>5 DEF ProbeReply, AbortDiscarded, HandoffInv, AnswerTrue, Domains
    <2>4. CASE tPhase[h] = "active" /\ CommitStep(h) /\ UNCHANGED sPhase
      BY ONLY <2>1, <2>4, CommitStops, Domains, DaemonDomains, h \in Handoffs, HandoffInv(h),
              StopInv(h), Zenon
    <2>5. CASE /\ UNCHANGED config /\ sStep'[h] \in {"abort", "idle", "activate", sStep[h]}
               /\ sPhase'[h] \in {sPhase[h], "uncertain"}
      <3>1. SourceStill(h) /\ Stands(h, sPhase'[h], intent[h], cert[h], sStep'[h])
        BY <2>1, <2>5, Zenon DEF SourceStill, Stands
      <3>2. sStep'[h] \in Quiet \cup {sStep[h]}
        BY ONLY <2>5 DEF Quiet
      <3> QED
        BY ONLY <2>2, <2>5, <3>1, <3>2, StopAfterIntent, h \in Handoffs, HandoffInv(h), StopInv(h), Zenon
    <2> QED
      BY ONLY <2>3, <2>4, <2>5
  <1>6. CASE CommitJournal(h)
    <2>1. SourceStill(h) /\ sStep[h] = "committed"
      BY <1>6, Zenon DEF CommitJournal, SourceStill
    <2>2. tPhase[h] = "active" /\ intent[h]
      BY <2>1 DEF HandoffInv, ConclusionTrue, IntentFirst
    <2>3. ~coord[Src[h]] /\ trans[Src[h]] = "none" /\ cert[h]
      BY ONLY <2>2, IntentStops, HandoffInv(h), StopInv(h), h \in Handoffs, Zenon
    <2>4. Stands(h, "committed", intent[h], cert[h], "unfence")
      BY <1>6 DEF CommitJournal, Stands, Domains
    <2> QED
      BY ONLY <2>1, <2>2, <2>3, <2>4, StopInv(h), Zenon DEF Stands, SourceStill, StopInv, Stopped
  <1>7. CASE CommitUnfence(h)
    <2>1. /\ UNCHANGED <<tPhase, coord, trans, handedTo>> /\ sStep[h] = "unfence"
          /\ Stands(h, sPhase[h], intent[h], cert[h], "idle")
      BY <1>7, Zenon DEF CommitUnfence, Stands, Domains
    <2> QED
      BY ONLY <2>1, StopInv(h), Zenon DEF Stands, StopInv, Stopped
  <1>8. CASE AbortUnfence(h)
    <2>1. /\ UNCHANGED <<tPhase, coord, trans, handedTo>> /\ sStep[h] = "abort"
          /\ sPhase'[h] = sPhase[h] /\ intent'[h] = intent[h] /\ cert'[h] = cert[h]
          /\ sStep'[h] \in {"idle", "aborted"}
      BY <1>8, Zenon DEF AbortUnfence, Domains
    <2>2. intent[h] => tPhase[h] = "discarded"
      BY <2>1, Zenon DEF HandoffInv, ConclusionTrue
    <2> QED
      BY ONLY <2>1, <2>2, StopInv(h), Zenon DEF StopInv, Stopped
  <1>9. CASE AbortJournal(h)
    <2>1. SourceStill(h) /\ sStep[h] = "aborted"
      BY <1>9, Zenon DEF AbortJournal, SourceStill
    <2>2. Stands(h, "aborted", intent[h], cert[h], "idle")
      BY <1>9, Zenon DEF AbortJournal, Stands, Domains
    <2> QED
      BY ONLY <2>1, <2>2, StopInv(h) DEF Stands, SourceStill, StopInv, Stopped, CutPhases
  <1>10. CASE Restore(h)
    <2>1. /\ UNCHANGED <<tPhase, coord, handedTo, fence, sPhase, intent, cert, sStep>>
          /\ trans'[Src[h]] = trans[Src[h]] \/ Admitted(Src[h])
      BY <1>10 DEF Restore
    <2>2. Stopped(h) => ~Admitted(Src[h])
      BY ONLY StoppedNotAdmitted, Onward(rank), AgreementInv, h \in Handoffs, TakeInv(h), StopInv(h)
    <2>3. Stopped(h)' <=> Stopped(h)
      BY ONLY <2>1, Zenon DEF Stopped
    <2> QED
      BY ONLY <2>1, <2>2, <2>3, StopInv(h), Zenon DEF StopInv
  <1>11. CASE Resume(h)
    <2>1. SourceStill(h) /\ UNCHANGED <<intent, cert>>
      BY <1>11, Zenon DEF Resume, SourceStill
    <2>2. /\ sStep'[h] \in Quiet \cup {sStep[h]}
          /\ \/ sPhase'[h] = sPhase[h]
             \/ sPhase[h] \in {"activating", "uncertain"} /\ sPhase'[h] = "uncertain"
      BY <1>11 DEF Resume, ResumeRecord, AbortStep, AdvanceStep, Domains, Quiet
    <2>3. CASE sPhase'[h] = sPhase[h]
      BY ONLY <2>1, <2>2, <2>3, StopQuiet, h \in Handoffs, StopInv(h) DEF Stands
    <2>4. CASE sPhase[h] \in {"activating", "uncertain"} /\ sPhase'[h] = "uncertain"
      <3>1. intent[h]
        BY <2>4 DEF HandoffInv, IntentFirst
      <3>2. Stands(h, "uncertain", intent[h], cert[h], sStep'[h])
        BY ONLY <2>1, <2>4, Zenon DEF Stands
      <3> QED
        BY ONLY <2>1, <2>2, <3>1, <3>2, StopAfterIntent, h \in Handoffs, HandoffInv(h), StopInv(h), Zenon
    <2> QED
      BY ONLY <2>2, <2>3, <2>4
  <1> QED
    BY ONLY <1>1, <1>2, <1>3, <1>4, <1>5, <1>6, <1>7, <1>8, <1>9, <1>10, <1>11, SourceFinish(h)
       DEF SourceFinish

\* A step of the target does not touch the daemon of the source.
LEMMA TargetStops ==
    ASSUME Domains, DaemonDomains, NEW h \in Handoffs, HandoffInv(h), StopInv(h), TargetStep(h)
    PROVE  StopInv(h)'
  <1>1. UNCHANGED <<sPhase, intent, cert, sStep, trans>>
    BY Zenon DEF TargetStep, TManifest, TChunk, TSeal, TVerified, TAckReply, TDiscard, TStageTTL,
       TActivate, TReadiness, TApply, TRollback, TTombstone, TAdopt, TActive, TUnfence, TLaunched,
       TResume, TStatus
  <1>2. tPhase[h] = "discarded" => tPhase'[h] = "discarded"
    BY ONLY Domains, h \in Handoffs, HandoffInv(h), TargetStep(h), TargetOwn
       DEF TargetLocal, TargetTerminal
  <1>0. Src[h] # Dst[h] /\ Src[h] \in Daemons
    BY Zenon
  <1>3. /\ coord'[Src[h]] = coord[Src[h]] /\ fence'[Src[h]] = fence[Src[h]]
        /\ handedTo'[Src[h]] = handedTo[Src[h]]
    <2>1. CASE TApply(h) \/ TRollback(h) \/ TAdopt(h) \/ TUnfence(h)
      <3>1. /\ coord' = coord
            /\ fence' = fence \/ \E v : fence' = [fence EXCEPT ![Dst[h]] = v]
            /\ handedTo' = handedTo \/ handedTo' = [handedTo EXCEPT ![Dst[h]] = NoHandoff]
        BY <2>1, Zenon DEF TApply, TRollback, TAdopt, TUnfence, Unfence, WriteHost
      <3> QED
        BY ONLY <1>0, <3>1, DaemonDomains DEF DaemonDomains
    <2>2. CASE TLaunched(h) \/ TResume(h)
      <3>1. /\ coord' = coord \/ coord' = [coord EXCEPT ![Dst[h]] = TRUE]
            /\ fence' = fence \/ fence' = [fence EXCEPT ![Dst[h]] = NoHandoff]
            /\ handedTo' = handedTo
        BY <2>2, Zenon DEF TLaunched, TResume, Unfence
      <3> QED
        BY ONLY <1>0, <3>1, DaemonDomains DEF DaemonDomains
    <2>3. CASE ~(TApply(h) \/ TRollback(h) \/ TAdopt(h) \/ TUnfence(h) \/ TLaunched(h) \/ TResume(h))
      BY <2>3, Zenon DEF TargetStep, TManifest, TChunk, TSeal, TVerified, TAckReply, TDiscard,
         TStageTTL, TActivate, TReadiness, TTombstone, TActive, TStatus
    <2> QED
      BY ONLY <2>1, <2>2, <2>3, Zenon
  <1> QED
    BY ONLY <1>1, <1>2, <1>3, StopFrame, h \in Handoffs, StopInv(h), Zenon

-----------------------------------------------------------------------------
(* The invariant is inductive, and what follows from it.                   *)

\* It holds at the start: the first host owns the role and nothing is journalled.
LEMMA AuthorityInit == ASSUME NEW rank, Onward(rank), Init PROVE AuthorityInv(rank)
  <1>1. \A d : (Reached(d) <=> d = FirstHost) /\ ~Left(d) /\ (Owner(d) <=> d = FirstHost)
    BY DEF Init, Reached, Left, Owner
  <1>2. rank[FirstHost] \in Nat
    BY DEF Onward
  <1>3. PathInv(rank)
    BY <1>1, <1>2 DEF Init, PathInv
  <1>4. RoleInv /\ CoordInv
    BY <1>1 DEF Init, RoleInv, CoordInv
  <1>5. \A h \in Handoffs : TakeInv(h)
    BY DEF Init, TakeInv, Open
  <1>6. \A h \in Handoffs : StopInv(h)
    BY DEF Init, StopInv, Stopped
  <1> QED
    BY ONLY <1>3, <1>4, <1>5, <1>6 DEF AuthorityInv

\* Every step is taken for one handoff or for none, and moves the daemons accordingly.
LEMMA AuthorityMoves ==
    ASSUME NEW rank, Onward(rank), AgreementInv, AuthorityInv(rank), [Next]_vars
    PROVE  \E h \in MaybeHandoff : Moves(h) /\ (h \in Handoffs => TakeInv(h)' /\ StopInv(h)')
  <1>1. /\ Domains /\ DaemonDomains /\ SourceTypes /\ DaemonTypes
        /\ \A h \in Handoffs : HandoffInv(h) /\ TakeInv(h) /\ StopInv(h)
        /\ PathInv(rank) /\ RoleInv
    <2>1. Domains
      BY ONLY AgreementInv, TypesGiveDomains DEF AgreementInv
    <2>2. DaemonDomains
      BY DEF AgreementInv, TypeOK, DaemonTypes, PerDaemon, DaemonDomains
    <2> QED
      BY ONLY <2>1, <2>2, AgreementInv, AuthorityInv(rank) DEF AgreementInv, TypeOK, AuthorityInv
  <1>0. NoHandoff \in MaybeHandoff /\ NoHandoff \notin Handoffs /\ Handoffs \subseteq MaybeHandoff
    BY DEF MaybeHandoff
  <1>2. CASE UNCHANGED vars
    <2>1. UNCHANGED <<config, fence, runtime>> /\ \A g \in Handoffs : Same(g)
      BY <1>2, Zenon DEF vars, Same
    <2>2. Moves(NoHandoff)
      BY ONLY <1>0, <2>1, SameKept, Untouched DEF Moves
    <2> QED
      BY ONLY <1>0, <2>2
  <1>3. ASSUME NEW d \in Daemons, DaemonStep(d)
        PROVE  \E h \in MaybeHandoff : Moves(h) /\ (h \in Handoffs => TakeInv(h)' /\ StopInv(h)')
    BY ONLY <1>0, <1>1, <1>3, DaemonMoves
  <1>4. ASSUME NEW h \in Handoffs,
               SourceStart(h) \/ SourceTransfer(h) \/ SourceFinish(h) \/ TargetStep(h)
        PROVE  Moves(h) /\ TakeInv(h)' /\ StopInv(h)'
    <2>1. \A g \in Handoffs : g # h => Kept(g)
      BY ONLY <1>1, <1>4, SourceStartFrame, SourceTransferFrame, SourceFinishFrame, TargetFrame,
              SameKept
    <2>2. /\ \A d \in Daemons : ConfigAt(d, h) /\ FenceAt(d, h) /\ RuntimeAt(d, h)
          /\ OwnAt(h)
      BY ONLY <1>1, <1>4, StartMoves, TransferMoves, FinishMoves, TargetMoves
    <2>3. Moves(h)
      BY ONLY <2>1, <2>2 DEF Moves
    <2>4. tPhase[h] \in Staged => role[Dst[h]] = "member"
      BY ONLY <1>1, StagingMember, Onward(rank), h \in Handoffs, Zenon
    <2>5. TakeInv(h)'
      BY ONLY <1>1, <1>4, <2>4, StartTakes, TransferTakes, FinishTakes, TargetTakes
    <2>6. StopInv(h)'
      BY ONLY <1>1, <1>4, Onward(rank), AgreementInv, StartStops, TransferStops, FinishStops,
              TargetStops
    <2> QED
      BY ONLY <2>3, <2>5, <2>6
  <1> QED
    BY ONLY [Next]_vars, <1>0, <1>2, <1>3, <1>4, Zenon DEF Next

\* Every step preserves the invariant.
LEMMA AuthorityStep ==
    ASSUME NEW rank, Onward(rank), AgreementInv, AuthorityInv(rank), [Next]_vars
    PROVE  AuthorityInv(rank)'
  <1>1. PICK h \in MaybeHandoff : Moves(h) /\ (h \in Handoffs => TakeInv(h)' /\ StopInv(h)')
    BY ONLY AuthorityMoves, Onward(rank), AgreementInv, AuthorityInv(rank), [Next]_vars
  <1>2. /\ DaemonTypes /\ PathInv(rank) /\ RoleInv /\ CoordInv
        /\ \A g \in Handoffs : HandoffInv(g) /\ TakeInv(g) /\ StopInv(g)
    BY ONLY AgreementInv, AuthorityInv(rank) DEF AgreementInv, TypeOK, AuthorityInv
  <1>3. PathInv(rank)'
    BY ONLY <1>1, <1>2, Onward(rank), PathKept
  <1>4. RoleInv'
    BY ONLY <1>1, <1>2, Onward(rank), RoleKept
  <1>5. CoordInv'
    BY ONLY <1>1, <1>2, CoordKept
  <1>6. ASSUME NEW g \in Handoffs, g # h PROVE TakeInv(g)'
    BY ONLY <1>1, <1>2, <1>6, Onward(rank), AgreementInv, OtherTakes
  <1>7. ASSUME NEW g \in Handoffs, g # h PROVE StopInv(g)'
    BY ONLY <1>1, <1>2, <1>7, Onward(rank), AgreementInv, OtherStops
  <1> QED
    BY ONLY <1>1, <1>3, <1>4, <1>5, <1>6, <1>7, Zenon DEF AuthorityInv

\* The authority invariant, for some order in which the role is carried on.
AuthorityHeld == \E rank : Onward(rank) /\ AuthorityInv(rank)

\* Where handoffs only carry the role on, one daemon owns it, a record says host only there, at a
\* daemon that has left or behind a fence, and a certified source stays stopped.
THEOREM AuthorityInvariant == Spec /\ OnwardOnly => []AuthorityHeld
  <1>1. OnwardOnly /\ Init => AuthorityHeld
    BY AuthorityInit DEF OnwardOnly, AuthorityHeld
  <1>2. AgreementInv /\ AuthorityHeld /\ [Next]_vars => AuthorityHeld'
    <2> SUFFICES ASSUME AgreementInv, [Next]_vars, NEW rank, Onward(rank), AuthorityInv(rank)
                 PROVE  Onward(rank)' /\ AuthorityInv(rank)'
      BY Zenon DEF AuthorityHeld
    <2>1. Onward(rank)'
      BY ONLY Onward(rank) DEF Onward
    <2>2. AuthorityInv(rank)'
      BY ONLY AuthorityStep, AgreementInv, [Next]_vars, Onward(rank), AuthorityInv(rank)
    <2> QED
      BY ONLY <2>1, <2>2
  <1> QED
    BY <1>1, <1>2, AgreementInvariant, PTL DEF Spec

\* A daemon that has handed the role on is fenced, or marked as handed off, for good, and stopped.
LEMMA LeftStopped ==
    ASSUME NEW rank, Onward(rank), AgreementInv, AuthorityInv(rank), NEW d \in Daemons, Left(d)
    PROVE  ~Admitted(d) /\ ~coord[d]
  <1>1. PICK g \in Handoffs : Src[g] = d /\ tPhase[g] = "active"
    BY DEF Left
  <1>2. HandoffInv(g) /\ StopInv(g)
    BY ONLY AgreementInv, AuthorityInv(rank), g \in Handoffs DEF AgreementInv, AuthorityInv
  <1>3. intent[g]
    BY <1>1, <1>2, Zenon DEF HandoffInv, IntentFirst
  <1>4. ~coord[d]
    BY <1>1, <1>2, <1>3, IntentStops, Zenon
  <1>5. g \in {fence[d], handedTo[d]}
    BY <1>1, <1>2, <1>3 DEF StopInv
  <1> QED
    BY <1>4, <1>5 DEF Admitted

\* At most one daemon is admitted to host-owned work, however the engines, the crashes, the late
\* requests and the launches interleave (durableHandoffAdmissionFailure, resolveMeshHostStatus).
THEOREM OneAuthority == Spec /\ OnwardOnly => []SingleAuthority
  <1>1. AgreementInv /\ AuthorityHeld => SingleAuthority
    <2> SUFFICES ASSUME AgreementInv, NEW rank, Onward(rank), AuthorityInv(rank),
                        NEW d \in Daemons, NEW e \in Daemons, Admitted(d), Admitted(e)
                 PROVE  d = e
      BY Zenon DEF AuthorityHeld, SingleAuthority
    <2>1. ASSUME NEW c \in Daemons, Admitted(c) PROVE Owner(c)
      <3>1. ~Left(c)
        BY ONLY <2>1, LeftStopped, Onward(rank), AgreementInv, AuthorityInv(rank)
      <3>2. Reached(c)
        BY ONLY <2>1, AdmittedReached, AuthorityInv(rank), Zenon DEF AuthorityInv
      <3> QED
        BY ONLY <3>1, <3>2 DEF Owner
    <2> QED
      BY <2>1, Zenon DEF AuthorityInv, PathInv
  <1> QED
    BY <1>1, AuthorityInvariant, AgreementInvariant, PTL

\* At most one coordinator of the project runs: a launch that admission let through before the cut
\* ends before the stop is certified (withCoordinatorTransition, stopProjectCoordinators).
THEOREM OneCoordinator == Spec /\ OnwardOnly => []SingleCoordinator
  <1>1. AgreementInv /\ AuthorityHeld => SingleCoordinator
    <2> SUFFICES ASSUME AgreementInv, NEW rank, Onward(rank), AuthorityInv(rank),
                        NEW d \in Daemons, NEW e \in Daemons, coord[d], coord[e]
                 PROVE  d = e
      BY Zenon DEF AuthorityHeld, SingleCoordinator
    <2>1. ASSUME NEW c \in Daemons, coord[c] PROVE Owner(c)
      <3>1. ~Left(c)
        BY ONLY <2>1, LeftStopped, Onward(rank), AgreementInv, AuthorityInv(rank)
      <3>2. Reached(c)
        BY <2>1, Zenon DEF AuthorityInv, CoordInv
      <3> QED
        BY ONLY <3>1, <3>2 DEF Owner
    <2> QED
      BY <2>1 DEF AuthorityInv, PathInv
  <1> QED
    BY <1>1, AuthorityInvariant, AgreementInvariant, PTL

\* Source stop precedes target admission: from the moment the target takes the authority the source
\* is certified, fenced or handed off, and its coordinator is gone (advance, activateLocked, commit).
THEOREM StopFirst == Spec /\ OnwardOnly => []StopBeforeActivate
  <1>1. AgreementInv /\ AuthorityHeld => StopBeforeActivate
    <2> SUFFICES ASSUME AgreementInv, NEW rank, Onward(rank), AuthorityInv(rank),
                        NEW h \in Handoffs, tPhase[h] \in {"activating", "active"}
                 PROVE  /\ cert[h]
                        /\ h \in {fence[Src[h]], handedTo[Src[h]]}
                        /\ ~coord[Src[h]] /\ trans[Src[h]] = "none"
      BY Zenon DEF AuthorityHeld, StopBeforeActivate
    <2>1. HandoffInv(h) /\ StopInv(h)
      BY ONLY AgreementInv, AuthorityInv(rank), h \in Handoffs DEF AgreementInv, AuthorityInv
    <2>2. intent[h]
      BY <2>1, Zenon DEF HandoffInv, IntentFirst
    <2>3. cert[h] /\ ~coord[Src[h]] /\ trans[Src[h]] = "none"
      BY <2>1, <2>2, IntentStops, Zenon
    <2>4. h \in {fence[Src[h]], handedTo[Src[h]]}
      BY <2>1, <2>2 DEF StopInv
    <2> QED
      BY ONLY <2>3, <2>4
  <1> QED
    BY <1>1, AuthorityInvariant, AgreementInvariant, PTL

=============================================================================
