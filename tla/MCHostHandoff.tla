--------------------------- MODULE MCHostHandoff ---------------------------
(* Small instances of HostHandoff. *)
EXTENDS HostHandoffOutcome, TLC

CONSTANTS a, b, c, h1, h2

\* one handoff
OneWaySrc == (h1 :> a)
OneWayDst == (h1 :> b)

\* there and back again
BackSrc == (h1 :> a) @@ (h2 :> b)
BackDst == (h1 :> b) @@ (h2 :> a)

\* the host moves on to a third daemon
ChainSrc == (h1 :> a) @@ (h2 :> b)
ChainDst == (h1 :> b) @@ (h2 :> c)

\* two attempts of the same handoff
AgainSrc == (h1 :> a) @@ (h2 :> a)
AgainDst == (h1 :> b) @@ (h2 :> b)

=============================================================================
