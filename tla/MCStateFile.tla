---------------------------- MODULE MCStateFile ----------------------------
(***************************************************************************)
(* Finite instances for checking StateFile.                                *)
(***************************************************************************)
EXTENDS StateFile

CONSTANTS agent_cfg, autonomy, props

SavedStores   == {agent_cfg, autonomy}
UnsavedStores == {props}
NoStores      == {}
FirstSchema   == {agent_cfg}
EveryFault    == {"full", "damage", "newer"}
===========================================================================
