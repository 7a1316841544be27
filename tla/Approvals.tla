------------------------------ MODULE Approvals ------------------------------
(***************************************************************************)
(* Answers to waiting cards, as the server takes them: the approvals page  *)
(* one by one and in bulk, and the buttons in Slack; who is signed in, the *)
(* tenants the process knows, and the mode that clean approvals unlock.    *)
(*                                                                         *)
(* A request is one step: one lock serialises them.  What can go wrong     *)
(* inside one is how it may end (Endings).                                 *)
(***************************************************************************)
EXTENDS Naturals, FiniteSets, Sequences

CONSTANTS
  Tenants,
  Home,       \* the tenant the program registers itself
  Runs,
  Owner,      \* the tenant of each run
  Nobody,     \* no actor yet
  Slack,      \* whoever pressed the button in Slack
  YesTarget,  \* YES_TARGET
  Faults      \* "refused", "lost": the bank's port, or the process before it saved;
              \* "diff": the model, when an edit is compared

ASSUME HomeAssumption    == Home \in Tenants
ASSUME OwnerAssumption   == Owner \in [Runs -> Tenants]
ASSUME ActorsAssumption  == Nobody \notin Tenants \cup {Slack} /\ Slack \notin Tenants
ASSUME YesAssumption     == IsFiniteSet(Runs) /\ YesTarget \in Nat
ASSUME SeamsAssumption   == Faults \subseteq {"refused", "lost", "diff"}

VARIABLES
  runs,    \* the row of each run in memory: state, gate action, gate actor
  known,   \* TENANTS
  mode,    \* AUTONOMY, kept in the settings file
  filed,   \* history: runs whose response the bank has
  lost,    \* history: runs filed by a handler that did not get to its end
  yeses,   \* history: runs approved as they were written
  told     \* history: <<run, "sent" or "dismissed">> as people were told

answers == <<runs, filed, lost, yeses>>

Action == {"approve", "edit", "reject"}
Mode   == {"all", "small"}

Row == [state : {"absent", "awaiting_gate", "acting", "acted", "rejected"},
        gate  : Action \cup {"none"},
        actor : Tenants \cup {Slack, Nobody}]

Absent == [state |-> "absent", gate |-> "none", actor |-> Nobody]

ApprovalsTypes ==
  /\ runs \in [Runs -> Row]
  /\ known \in SUBSET Tenants
  /\ mode \in [Tenants -> Mode]
  /\ filed \subseteq Runs /\ lost \subseteq filed /\ yeses \subseteq Runs
  /\ told \subseteq Runs \X {"sent", "dismissed"}

ApprovalsInit ==
  /\ runs = [r \in Runs |-> Absent]
  /\ known = {Home}
  /\ mode = [t \in Tenants |-> "all"]
  /\ filed = {} /\ lost = {} /\ yeses = {} /\ told = {}

-----------------------------------------------------------------------------
Awaiting(r) == runs[r].state = "awaiting_gate"

Ending(row, ok, out) == [row |-> row, ok |-> ok, sent |-> out]

\* How a decision on a waiting run may end: the row it leaves, whether the
\* handler got through, and whether the bank got the response.  A run whose
\* gate is stamped refuses every further answer.
Endings(r, action, actor) ==
  LET stamped(state) == [state |-> state, gate |-> action, actor |-> actor] IN
  IF runs[r].gate # "none" THEN {Ending(runs[r], FALSE, FALSE)}
  ELSE IF action = "reject" THEN {Ending(stamped("rejected"), TRUE, FALSE)}
  ELSE {Ending(stamped("acted"), TRUE, TRUE)} \cup
       {end \in {Ending(stamped("acting"), FALSE, FALSE)} : "refused" \in Faults} \cup
       {end \in {Ending(stamped("acting"), FALSE, TRUE)} : "lost" \in Faults} \cup
       {end \in {Ending(stamped("awaiting_gate"), FALSE, FALSE)} :
          action = "edit" /\ "diff" \in Faults}

\* The runs of the function e end as it says.
Settle(e, action) ==
  /\ runs'  = [r \in Runs |-> IF r \in DOMAIN e THEN e[r].row ELSE runs[r]]
  /\ filed' = filed \cup {r \in DOMAIN e : e[r].sent}
  /\ lost'  = lost \cup {r \in DOMAIN e : e[r].sent /\ ~e[r].ok}
  /\ yeses' = yeses \cup {r \in DOMAIN e : action = "approve" /\ runs[r].gate = "none"}

Tell(r, word) == told' = told \cup {<<r, word>>}

Word(action) == IF action = "reject" THEN "dismissed" ELSE "sent"

-----------------------------------------------------------------------------
\* A dispute arrives for a tenant the registry has, and its card is surfaced.
Arrive(r) ==
  /\ runs[r] = Absent /\ Owner[r] \in known
  /\ runs' = [runs EXCEPT ![r].state = "awaiting_gate"]
  /\ UNCHANGED <<known, mode, filed, lost, yeses, told>>

\* /auth/*, /api/sample: the registry gets the tenant (again).
Login(t) ==
  /\ known' = known \cup {t}
  /\ UNCHANGED <<answers, mode, told>>

\* Mutant of MayAnswer: the row's tenant is not compared with the session's.
AnyoneMayAnswer(t, r) == Awaiting(r) /\ t \in known

\* A session answers only waiting runs of its own tenant, and only when the
\* registry can give it a pipeline.
MayAnswer(t, r) == Awaiting(r) /\ Owner[r] = t /\ t \in known

\* /act.
Act(t, r, action) ==
  /\ MayAnswer(t, r)
  /\ \E end \in Endings(r, action, t) : Settle([x \in {r} |-> end], action)
  /\ UNCHANGED <<known, mode, told>>

\* /act/bulk: the listed runs in turn, up to the first that raises.
ActBulk(t, rs, action) ==
  /\ action # "edit" /\ \A r \in rs : MayAnswer(t, r)
  /\ \E e \in [rs -> UNION {Endings(r, action, t) : r \in rs}] :
       /\ \A r \in rs : e[r] \in Endings(r, action, t)
       /\ Cardinality({r \in rs : ~e[r].ok}) <= 1
       /\ Settle(e, action)
  /\ UNCHANGED <<known, mode, told>>

\* The card in Slack: its third button is a link, to where a reply is edited.
gate_card == {"approve", "reject", "open_workspace"}

\* The buttons that are answers.
parse_interaction == gate_card \cap {"approve", "reject"}

\* /slack/interactions: the first tenant's pipeline, whoever owns the run.
SlackAnswer(r, action) ==
  /\ Awaiting(r) /\ action \in parse_interaction
  /\ \E end \in Endings(r, action, Slack) :
       /\ Settle([x \in {r} |-> end], action)
       /\ IF end.ok THEN Tell(r, Word(action)) ELSE UNCHANGED told
  /\ UNCHANGED <<known, mode>>

\* Counted off the ledger.
CleanYeses(t) == Cardinality({r \in Runs : Owner[r] = t /\ runs[r].gate = "approve"})

\* Mutant of Unlocked: whatever was answered counts as a clean yes.
UnlockedByAnswers(t) ==
  Cardinality({r \in Runs : Owner[r] = t /\ runs[r].gate # "none"}) >= YesTarget

Unlocked(t) == CleanYeses(t) >= YesTarget

\* /api/mode.
SetMode(t, m) ==
  /\ m = "small" => Unlocked(t)
  /\ mode' = [mode EXCEPT ![t] = m]
  /\ UNCHANGED <<answers, known, told>>
=============================================================================
