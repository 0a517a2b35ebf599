---------------------------- MODULE MCWriterStops ----------------------------
(* Instances of WriterStops for TLC. *)
EXTENDS WriterStops

OneAttempt == << "q1" >>
TwoAttempts == << "q1", "q2" >>

SessionSymmetry == Permutations(Sessions)
=============================================================================
