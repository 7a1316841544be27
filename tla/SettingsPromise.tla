--------------------------- MODULE SettingsPromise ---------------------------
(***************************************************************************)
(* What the control plane's settings file promises, without files,         *)
(* schemas or temporary names: the settings in use change, now and then    *)
(* they are kept, all at once, and a restart brings back what was kept.    *)
(* Nothing touches what was kept while the program runs; while it is down  *)
(* the file is anybody's.                                                  *)
(***************************************************************************)
EXTENDS Naturals

CONSTANT Keys

VARIABLES up, now, kept

promiseVars == <<up, now, kept>>

Init ==
  /\ up = FALSE
  /\ now \in [Keys -> Nat]
  /\ kept \in [Keys -> Nat]

Start  == ~up /\ up' /\ now' = kept /\ UNCHANGED kept
Change == up /\ up' /\ now' \in [Keys -> Nat] /\ UNCHANGED kept
Keep   == up /\ up' /\ kept' = now /\ UNCHANGED now
Stop   == up /\ ~up' /\ UNCHANGED <<now, kept>>
Meddle == ~up /\ ~up' /\ kept' \in [Keys -> Nat] /\ UNCHANGED now

Next == Start \/ Change \/ Keep \/ Stop \/ Meddle

Spec == Init /\ [][Next]_promiseVars
=============================================================================
