------------------------------ MODULE MCRelay ------------------------------
(***************************************************************************)
(* Model values and finite instances for checking Relay.                   *)
(***************************************************************************)
EXTENDS Relay, TLC

CONSTANTS k1, k2

OneKey  == {k1}
TwoKeys == {k1, k2}

\* The two webhooks are alike.
KeySymmetry == Permutations(TwoKeys)

EverySeam   == Seams
CaughtSeams == Seams \ {"diff"}
OnlyDiff    == {"diff"}
EveryError  == {"refused", "lost"}
CleanErrors == {"refused"}
NoFaults    == {}
=============================================================================
