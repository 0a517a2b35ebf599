--------------------------- MODULE HostHandoffInv ---------------------------
(***************************************************************************)
(* The inductive invariant behind Agreement.  The durable commit intent is *)
(* the pivot: before it is journalled the source may abort freely and the  *)
(* target cannot have begun; after it only the target's own final record   *)
(* decides, and whatever the source concludes (an answer it holds, a step  *)
(* it is in, a phase it journalled) quotes that record.                    *)
(***************************************************************************)
EXTENDS HostHandoff

AfterIntent == {"activating", "uncertain", "committed", "aborted"}

\* Inside a stretch of durable writes the record has the phase the stretch started from.
SourceStepPhase(h) ==
    /\ run[h] \in {"preflight", "capable"} => sPhase[h] = "none"
    /\ run[h] = "stop" => sPhase[h] = "frozen"
    /\ sStep[h] = "hold" => sPhase[h] = "preflight"
    /\ sStep[h] = "check" => sPhase[h] = "freezing"
    /\ sStep[h] \in {"fence", "certify", "exporting"} => sPhase[h] = "frozen" /\ run[h] # "stop"
    /\ sStep[h] = "export" => sPhase[h] = "exporting"
    /\ sStep[h] = "send" => sPhase[h] = "exported"
    /\ run[h] \in {"manifest", "chunk", "seal"} => sPhase[h] # "none"
    /\ sStep[h] \in {"abort", "aborted"} => sPhase[h] # "none" /\ run[h] # "stop"

TargetStepPhase(h) ==
    /\ tStep[h] = "verify" => tPhase[h] = "staged"
    /\ tStep[h] \in {"apply", "adopt", "rollback", "tombstone"} => tPhase[h] = "activating"
    /\ tStep[h] = "unfence" => tPhase[h] = "active"
    /\ tAct[h] = "ready" => tPhase[h] = "activating" \/ tStep[h] = "unfence"
    /\ tAct[h] = "launch" => tPhase[h] = "active"

\* Everything that goes with an activation comes after the intent.
IntentFirst(h) ==
    /\ <<"activate", h>> \in req => intent[h]
    /\ act[h] # "idle" => intent[h]
    /\ \A p \in Probers : probe[h][p] # NoProbe => intent[h]
    /\ sPhase[h] \in {"activating", "uncertain", "committed"} => intent[h]
    /\ tPhase[h] \in {"activating", "active"} => intent[h]
    /\ tAct[h] # "idle" => intent[h]
    /\ intent[h] => sPhase[h] \in AfterIntent

\* An answer the source holds is the target's final record.
AnswerTrue(h) ==
    /\ act[h] = "tombstone" => tPhase[h] = "discarded"
    /\ act[h] = "applied" => tPhase[h] = "active"
    /\ \A p \in Probers : /\ probe[h][p].rep = "discarded" => tPhase[h] = "discarded"
                          /\ probe[h][p].rep = "active" => tPhase[h] = "active"

\* So is the conclusion it is writing down, and the one it has written down.
ConclusionTrue(h) ==
    /\ sStep[h] \in {"committed", "unfence"} => tPhase[h] = "active"
    /\ sStep[h] \in {"abort", "aborted"} /\ intent[h] => tPhase[h] = "discarded"
    /\ sPhase[h] = "committed" => tPhase[h] = "active"
    /\ sPhase[h] = "aborted" /\ intent[h] => tPhase[h] = "discarded"

HandoffInv(h) ==
    /\ SourceStepPhase(h)
    /\ TargetStepPhase(h)
    /\ IntentFirst(h)
    /\ AnswerTrue(h)
    /\ ConclusionTrue(h)

\* The engines' steps, the wire and the journals of every handoff tell the same story: nothing
\* of an activation precedes the commit intent, and a conclusion quotes the target's record.
AgreementInv == TypeOK /\ \A h \in Handoffs : HandoffInv(h)

\* What the proofs of the steps need of TypeOK: where the functions are defined.
Domains ==
    /\ DOMAIN sPhase = Handoffs /\ DOMAIN intent = Handoffs /\ DOMAIN sStep = Handoffs
    /\ DOMAIN cert = Handoffs /\ DOMAIN epoch = Handoffs
    /\ DOMAIN run = Handoffs /\ DOMAIN act = Handoffs /\ DOMAIN probe = Handoffs
    /\ DOMAIN tPhase = Handoffs /\ DOMAIN tStep = Handoffs /\ DOMAIN tAct = Handoffs
    /\ \A h \in Handoffs : DOMAIN probe[h] = Probers
=============================================================================
