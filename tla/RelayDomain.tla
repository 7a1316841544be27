---------------------------- MODULE RelayDomain ----------------------------
(***************************************************************************)
(* The vocabulary of a dispute run: its states, the only edges that exist  *)
(* between them, the decisions that can be stamped on it and the side      *)
(* effects it can have.  Pure data, no state: domain/models.py and the     *)
(* constants of supervisor.py.                                             *)
(***************************************************************************)

RunState == {"received", "suppressed", "running", "drafted", "checked",
             "awaiting_gate", "approved", "edited", "rejected", "timed_out",
             "acting", "acted", "resolved", "failed"}

Terminal == {"suppressed", "rejected", "timed_out", "resolved", "failed"}

\* The edges Run.transition accepts; any other pair raises IllegalTransition.
Legal ==
  [s \in RunState |->
     CASE s = "received"           -> {"suppressed", "running", "failed"}
       [] s = "running"            -> {"drafted", "failed"}
       [] s = "drafted"            -> {"checked", "failed"}
       [] s = "checked"            -> {"awaiting_gate", "failed"}
       [] s = "awaiting_gate"      -> {"approved", "edited", "rejected",
                                       "timed_out", "failed"}
       [] s \in {"approved", "edited"} -> {"acting", "failed"}
       [] s = "acting"             -> {"acted", "failed"}
       [] s = "acted"              -> {"resolved"}
       [] OTHER                    -> {}]

\* Working states a run can be parked in when its handler dies.
StallStates == {"received", "running", "drafted", "checked",
                "approved", "edited", "acting"}

\* What a person can answer on a card, and what the gate field can hold.
Answers    == {"approve", "edit", "reject"}
GateAction == Answers \cup {"timeout"}

\* The text that reaches the bank: the drafted reply or the merchant's edit.
Texts == {"draft", "edited"}

\* The reasons an escalation is posted under.  The reason "stalled:<state>"
\* is represented by the state itself.
EscalationReasons ==
  {"llm_unavailable_at_confirm", "llm_unavailable", "layer1", "judge",
   "gate_timeout"} \cup StallStates

\* The (effect_type, target_ref) pairs one run can ever have.
EffectKinds == {"slack_post", "crm_note"} \cup EscalationReasons
=============================================================================
