---------------------------- MODULE MCWorkspace ----------------------------
(***************************************************************************)
(* Finite instances for checking Workspace.                                *)
(***************************************************************************)
EXTENDS Workspace, TLC

CONSTANTS t1, t2, r1

TwoTenants  == {t1, t2}
OneRun      == {r1}
Theirs      == r1 :> t2
OneName     == {<<1>>}
LooserGate  == {{"gate"}}
EveryFault  == {"refused", "lost", "diff"}
============================================================================
