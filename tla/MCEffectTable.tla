--------------------------- MODULE MCEffectTable ---------------------------
(***************************************************************************)
(* Model values and finite instances for checking EffectTable.             *)
(***************************************************************************)
EXTENDS EffectTable

CONSTANTS w1, w2, w3, e1, e2

TwoWorkers   == {w1, w2}
ThreeWorkers == {w1, w2, w3}
OneEffect    == {e1}
TwoEffects   == {e1, e2}
EveryBreak   == {"refused", "lost", "died"}
=============================================================================
