----------------------------- MODULE RunPromise -----------------------------
(***************************************************************************)
(* What the ledger promises about every run while the process lives:       *)
(* states move along the edges of LEGAL only, the gate is stamped once and *)
(* before the state that depends on it, and what is filed at the bank is   *)
(* the stamped decision's own text, once, and only after a yes             *)
(* (domain/models.py).  There is no handler, no supervisor and no fault    *)
(* here: Relay must look like this from outside whatever those do.         *)
(***************************************************************************)
EXTENDS Sequences, RelayDomain

CONSTANT Runs

VARIABLES
  born,     \* the runs that were inserted
  state,    \* their state
  gate,     \* the stamp on their gate
  filed     \* the texts filed for them

promiseVars == <<born, state, gate, filed>>

Init ==
  /\ born = {}
  /\ state = [r \in Runs |-> "received"]
  /\ gate = [r \in Runs |-> "none"]
  /\ filed = [r \in Runs |-> <<>>]

\* The gate action a state can only follow.
Needs == [approved |-> "approve", edited |-> "edit", rejected |-> "reject",
          timed_out |-> "timeout"]

Receive(r) ==
  /\ r \notin born
  /\ born' = born \cup {r}
  /\ UNCHANGED <<state, gate, filed>>

Move(r, to) ==
  /\ r \in born
  /\ to \in Legal[state[r]]
  /\ to \in DOMAIN Needs => gate[r] = Needs[to]
  /\ state' = [state EXCEPT ![r] = to]
  /\ UNCHANGED <<born, gate, filed>>

Decide(r, answer) ==
  /\ r \in born
  /\ state[r] = "awaiting_gate" /\ gate[r] = "none"
  /\ gate' = [gate EXCEPT ![r] = answer]
  /\ UNCHANGED <<born, state, filed>>

Expire(r) ==
  /\ r \in born
  /\ state[r] = "awaiting_gate" /\ gate[r] = "none"
  /\ gate' = [gate EXCEPT ![r] = "timeout"]
  /\ state' = [state EXCEPT ![r] = "timed_out"]
  /\ UNCHANGED <<born, filed>>

\* The bank hears it while the run is acting, or, when the supervisor gave the
\* run up during a slow call, just after it failed.
File(r) ==
  /\ r \in born
  /\ state[r] \in {"acting", "failed"}
  /\ filed[r] = <<>>
  /\ \/ gate[r] = "approve" /\ filed' = [filed EXCEPT ![r] = <<"draft">>]
     \/ gate[r] = "edit" /\ filed' = [filed EXCEPT ![r] = <<"edited">>]
  /\ UNCHANGED <<born, state, gate>>

Next ==
  \E r \in Runs :
    \/ Receive(r) \/ Expire(r) \/ File(r)
    \/ \E to \in RunState : Move(r, to)
    \/ \E answer \in Answers : Decide(r, answer)

Spec == Init /\ [][Next]_promiseVars
=============================================================================
