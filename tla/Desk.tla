-------------------------------- MODULE Desk --------------------------------
(***************************************************************************)
(* The settings forms of the control plane: the team, the skills, the      *)
(* scheduled routines, an agent's rules and limits, its switch, the        *)
(* connections, the proposals, the shelf of files and the small one-field  *)
(* forms, with the pages that show them.  Most rows are addressed by their *)
(* position in a list, so a page somebody left open may name another row   *)
(* by the time its button is pressed.                                      *)
(*                                                                         *)
(* One lock serialises the requests: a request is one step.  A request     *)
(* that the handler ignores is a stuttering step.  A row is told apart by  *)
(* its id, which the code does not have; wording is one name.              *)
(***************************************************************************)
EXTENDS Naturals, FiniteSets, Sequences, FiniteSetsExt, SequencesExt

CONSTANTS
  Tenants,
  Typed,        \* what one types into the form of each list
  Shipped,      \* the rows each list starts with
  Conns,        \* CONN_DEFS and CONN_MORE
  ConnDefs,     \* the connections that start switched on
  Props,        \* PROPS_DEF
  Tools,        \* what the agent's desk can do
  FileNames,
  ShippedFiles, \* the names seed_kfiles puts on the shelf
  Folders,      \* what a new folder may be called
  Files,        \* the folder that is always there
  Nobody,       \* no assignee: the yes is with the founder
  MaxPages,     \* bound: pages left open
  MaxAsks,      \* bound: requests that change something
  MaxRestarts   \* bound: restarts of the process

Kinds == {"people", "skills", "routines", "rules"}

Row(id, name, on) == [id |-> id, name |-> name, on |-> on]
Rows(k) == [id : Nat, name : Typed[k], on : BOOLEAN]

AnyRow == [id : Nat, name : UNION {Typed[k] : k \in Kinds}, on : BOOLEAN]

Page == [tenant : Tenants, kind : Kinds, ids : Seq(Nat), lost : BOOLEAN]

ASSUME TypedAssumption   == DOMAIN Typed = Kinds
ASSUME ShippedAssumption == /\ DOMAIN Shipped = Kinds
                            /\ \A k \in Kinds : Shipped[k] \in Seq(Rows(k))
                            /\ \A k \in Kinds : \A i \in DOMAIN Shipped[k] :
                                 Shipped[k][i].id = i
ASSUME ConnsAssumption   == ConnDefs \subseteq Conns
ASSUME NobodyAssumption  == Nobody \notin Typed["people"]
ASSUME ShelfAssumption   == Files \notin Folders /\ ShippedFiles \in Seq(FileNames)
ASSUME DeskAssumption    == /\ MaxPages \in Nat /\ MaxAsks \in Nat
                            /\ MaxRestarts \in Nat

VARIABLES
  rows,     \* PEOPLE, KYC_PROCS, ROUTINES and the rules of AGENT_CFG
  cfg,      \* the rest of AGENT_CFG: one agent, per tenant
  agentOn,  \* DEMO_ON of that agent, shared by the tenants
  conn,     \* CONN_STATE
  prop,     \* PROPS
  assign,   \* ASSIGN: whose yes the tenant's waiting case is
  shelf,    \* KFILES
  folders,  \* FFOLDERS
  small,    \* OWNER_PHONE, ONBOARDED, EV_NOTES
  log,      \* DECISION_LOG: per subject, the words written about it
  pages,    \* pages left open: the ids of the rows they show
  made,     \* history: the last id given to a row or a file
  asked,    \* history: skills somebody set live, by the row the form showed
  misled,   \* history: skills reached by a form that showed another row
  revoked,  \* history: since the yes was handed over, someone lost theirs
  asks, restarts

lists    == <<rows, made>>
agent    == <<cfg, agentOn>>
wires    == <<conn, prop>>
files    == <<shelf, folders>>
consent  == <<asked, misled>>
handover == <<assign, revoked>>

vars == <<rows, cfg, agentOn, conn, prop, assign, shelf, folders, small, log,
          pages, made, asked, misled, revoked, asks, restarts>>

-----------------------------------------------------------------------------
(* The trail: log_decision, one line per decision.                         *)

Cfg == [told : BOOLEAN, toolsOff : SUBSET Tools, learn : BOOLEAN,
        limit : BOOLEAN, checked : BOOLEAN]

Words == {"added", "removed", "told", "took", "gave", "paused", "on", "off",
          "changed", "passed", "approved", "declined", "live", "draft",
          "handed"}

Topics == {"rule", "told", "tool", "learn", "limit", "checks", "agent",
           "skill", "handover", "file"}

Subjects == Topics \cup Conns \cup Props

\* A line is about one thing: a connection is no proposal and neither is a topic.
ASSUME SubjectsAssumption == /\ Conns \cap Props = {}
                             /\ (Conns \cup Props) \cap Topics = {}

Ask == asks < MaxAsks /\ asks' = asks + 1 /\ UNCHANGED restarts

log_decision(t, subject, word) ==
  log' = [log EXCEPT ![t][subject] = Append(@, word)]

EmptyLog == [t \in Tenants |-> [s \in Subjects |-> <<>>]]

\* How often that was said of it.
Said(t, subject, word) ==
  Cardinality({i \in DOMAIN log[t][subject] : log[t][subject][i] = word})

-----------------------------------------------------------------------------
(* Lists by position.                                                      *)

\* seed_skills: an empty list is filled again whenever it is looked at.
seed_skills(t) ==
  IF rows[t]["skills"] = <<>> THEN Shipped["skills"] ELSE rows[t]["skills"]

ListOf(t, k) == IF k = "skills" THEN seed_skills(t) ELSE rows[t][k]

Ids(list) == [i \in DOMAIN list |-> list[i].id]

\* The buttons of a list: on the page as it is now, and on one left open.
Presses(t, k) ==
  {[at |-> i, saw |-> ListOf(t, k)[i].id] : i \in DOMAIN ListOf(t, k)}
  \cup UNION {{[at |-> i, saw |-> p.ids[i]] : i \in DOMAIN p.ids} :
                p \in {q \in pages : q.tenant = t /\ q.kind = k}}

Put(t, k, list) == rows' = [rows EXCEPT ![t][k] = list]

\* A row that goes makes the open pages of its list out of date.
Lose(t, k) ==
  pages' = {IF p.tenant = t /\ p.kind = k THEN [p EXCEPT !.lost = TRUE] ELSE p :
              p \in pages}

\* Mutant of AddTo: the newest row comes first.
AddFirst(t, k, name, on) ==
  /\ Put(t, k, <<Row(made + 1, name, on)>> \o rows[t][k])
  /\ made' = made + 1

AddTo(t, k, name, on) ==
  /\ Put(t, k, Append(rows[t][k], Row(made + 1, name, on)))
  /\ made' = made + 1

-----------------------------------------------------------------------------
Init ==
  /\ rows = [t \in Tenants |->
               [k \in Kinds |-> IF k = "skills" THEN <<>> ELSE Shipped[k]]]
  /\ cfg = [t \in Tenants |->
              [told |-> FALSE, toolsOff |-> {}, learn |-> TRUE,
               limit |-> FALSE, checked |-> FALSE]]
  /\ agentOn = TRUE
  /\ conn = [t \in Tenants |->
               [c \in Conns |-> IF c \in ConnDefs THEN "on" ELSE "none"]]
  /\ prop = [t \in Tenants |-> [p \in Props |-> "waiting"]]
  /\ assign = [t \in Tenants |-> Nobody]
  /\ shelf = [t \in Tenants |->
                {[id |-> i, name |-> ShippedFiles[i], folder |-> Files] :
                   i \in DOMAIN ShippedFiles}]
  /\ folders = [t \in Tenants |-> {}]
  /\ small = [t \in Tenants |-> [phone |-> FALSE, onboarded |-> FALSE, notes |-> 0]]
  /\ log = EmptyLog
  /\ pages = {}
  /\ made = Max({Len(Shipped[k]) : k \in Kinds} \cup {Len(ShippedFiles)})
  /\ asked = [t \in Tenants |-> {}]
  /\ misled = [t \in Tenants |-> {}]
  /\ revoked = [t \in Tenants |-> FALSE]
  /\ asks = 0
  /\ restarts = 0

\* Somebody opens the page of a list and leaves it open.
OpenPage(t, k) ==
  /\ Cardinality(pages) < MaxPages
  /\ pages' = pages \cup
       {[tenant |-> t, kind |-> k, ids |-> Ids(ListOf(t, k)), lost |-> FALSE]}
  /\ Put(t, k, ListOf(t, k))
  /\ UNCHANGED <<made, agent, wires, files, small, consent, handover, log,
                 asks, restarts>>

-----------------------------------------------------------------------------
(* The team.                                                               *)

PersonAdd(t) ==
  /\ Ask
  /\ \E name \in Typed["people"] : AddTo(t, "people", name, FALSE)
  /\ UNCHANGED <<agent, wires, files, small, consent, handover, log, pages>>

PersonToggle(t) ==
  /\ Ask
  /\ \E b \in Presses(t, "people") :
       LET ppl == rows[t]["people"] IN
       /\ b.at \in DOMAIN ppl
       /\ Put(t, "people", [ppl EXCEPT ![b.at].on = ~@])
       /\ revoked' = [revoked EXCEPT ![t] = @ \/ ppl[b.at].on]
  /\ UNCHANGED <<made, agent, wires, files, small, consent, assign, log, pages>>

PersonDel(t) ==
  /\ Ask
  /\ \E b \in Presses(t, "people") :
       LET ppl == rows[t]["people"] IN
       /\ b.at \in DOMAIN ppl
       /\ Put(t, "people", RemoveAt(ppl, b.at))
       /\ revoked' = [revoked EXCEPT ![t] = @ \/ ppl[b.at].on]
  /\ Lose(t, "people")
  /\ UNCHANGED <<made, agent, wires, files, small, consent, assign, log>>

Approvers(t) ==
  {rows[t]["people"][i].name :
     i \in {j \in DOMAIN rows[t]["people"] : rows[t]["people"][j].on}}

\* Mutant of MayHold: anyone on the team can be given the yes.
MayHoldAnyone(t, name) ==
  name \in {Nobody} \cup {rows[t]["people"][i].name : i \in DOMAIN rows[t]["people"]}

MayHold(t, name) == name \in {Nobody} \cup Approvers(t)

Assign(t) ==
  /\ Ask
  /\ \E name \in {Nobody} \cup Typed["people"] :
       /\ MayHold(t, name)
       /\ assign' = [assign EXCEPT ![t] = name]
       /\ IF name = Nobody THEN UNCHANGED log
                           ELSE log_decision(t, "handover", "handed")
  /\ revoked' = [revoked EXCEPT ![t] = FALSE]
  /\ UNCHANGED <<lists, agent, wires, files, small, consent, pages>>

-----------------------------------------------------------------------------
(* The skills.                                                             *)

\* A form that reached another row than it showed has misled whoever sent it.
Consent(t, b, hit, act) ==
  /\ asked' = [asked EXCEPT ![t] = IF act = "live" THEN @ \cup {b.saw} ELSE @]
  /\ misled' = [misled EXCEPT ![t] = IF hit # b.saw THEN @ \cup {hit} ELSE @]

SkillAct(t, act) ==
  /\ Ask
  /\ \E b \in Presses(t, "skills") :
       LET lst == seed_skills(t) IN
       /\ b.at \in DOMAIN lst
       /\ Consent(t, b, lst[b.at].id, act)
       /\ Put(t, "skills", IF act = "del" THEN RemoveAt(lst, b.at)
                           ELSE [lst EXCEPT ![b.at].on = (act = "live")])
       /\ log_decision(t, "skill", IF act = "del" THEN "removed" ELSE act)
  /\ IF act = "del" THEN Lose(t, "skills") ELSE UNCHANGED pages
  /\ UNCHANGED <<made, agent, wires, files, small, handover>>

TitledSo(lst, title) == {i \in DOMAIN lst : lst[i].name = title}
First(I) == CHOOSE i \in I : \A j \in I : i <= j

\* Mutant of SaysLive: whatever is saved is live.
SaysLiveAlways(mode) == TRUE

SaysLive(mode) == mode = "live"

\* Saving a title that is there rewrites it in place; a live one stays live.
\* The list is not seeded first, and nothing is logged.
ProcedureSave(t, mode) ==
  /\ Ask
  /\ \E title \in Typed["skills"] :
       LET lst == rows[t]["skills"]
           old == TitledSo(lst, title)
           id  == IF old = {} THEN made + 1 ELSE lst[First(old)].id IN
       /\ IF old = {}
          THEN AddTo(t, "skills", title, SaysLive(mode))
          ELSE /\ Put(t, "skills",
                      [lst EXCEPT ![First(old)].on = @ \/ SaysLive(mode)])
               /\ UNCHANGED made
       /\ asked' = [asked EXCEPT ![t] = IF mode = "live" THEN @ \cup {id} ELSE @]
  /\ UNCHANGED <<agent, wires, files, small, misled, handover, log, pages>>

-----------------------------------------------------------------------------
(* The routines.                                                           *)

RoutineAdd(t) ==
  /\ Ask
  /\ \E text \in Typed["routines"] : AddTo(t, "routines", text, TRUE)
  /\ UNCHANGED <<agent, wires, files, small, consent, handover, log, pages>>

RoutineToggle(t) ==
  /\ Ask
  /\ \E b \in Presses(t, "routines") :
       /\ b.at \in DOMAIN rows[t]["routines"]
       /\ Put(t, "routines", [rows[t]["routines"] EXCEPT ![b.at].on = ~@])
  /\ UNCHANGED <<made, agent, wires, files, small, consent, handover, log, pages>>

RoutineEdit(t) ==
  /\ Ask
  /\ \E b \in Presses(t, "routines"), text \in Typed["routines"] :
       /\ b.at \in DOMAIN rows[t]["routines"]
       /\ Put(t, "routines", [rows[t]["routines"] EXCEPT ![b.at].name = text])
  /\ UNCHANGED <<made, agent, wires, files, small, consent, handover, log, pages>>

RoutineDel(t) ==
  /\ Ask
  /\ \E b \in Presses(t, "routines") :
       /\ b.at \in DOMAIN rows[t]["routines"]
       /\ Put(t, "routines", RemoveAt(rows[t]["routines"], b.at))
  /\ Lose(t, "routines")
  /\ UNCHANGED <<made, agent, wires, files, small, consent, handover, log>>

-----------------------------------------------------------------------------
(* An agent's own settings: /api/agent_cfg, one field to a form.           *)

AddRule(t) ==
  /\ Ask
  /\ \E text \in Typed["rules"] : AddTo(t, "rules", text, TRUE)
  /\ log_decision(t, "rule", "added")
  /\ UNCHANGED <<agent, wires, files, small, consent, handover, pages>>

\* Mutant of DelRule: the line is written before the position is looked up.
DelRuleLogsFirst(t) ==
  /\ Ask
  /\ \E b \in Presses(t, "rules") :
       /\ Put(t, "rules", IF b.at \in DOMAIN rows[t]["rules"]
                          THEN RemoveAt(rows[t]["rules"], b.at)
                          ELSE rows[t]["rules"])
       /\ log_decision(t, "rule", "removed")
  /\ Lose(t, "rules")
  /\ UNCHANGED <<made, agent, wires, files, small, consent, handover>>

DelRule(t) ==
  /\ Ask
  /\ \E b \in Presses(t, "rules") :
       /\ b.at \in DOMAIN rows[t]["rules"]
       /\ Put(t, "rules", RemoveAt(rows[t]["rules"], b.at))
  /\ log_decision(t, "rule", "removed")
  /\ Lose(t, "rules")
  /\ UNCHANGED <<made, agent, wires, files, small, consent, handover>>

SetInstructions(t) ==
  /\ Ask
  /\ cfg' = [cfg EXCEPT ![t].told = TRUE]
  /\ log_decision(t, "told", "told")
  /\ UNCHANGED <<lists, agentOn, wires, files, small, consent, handover, pages>>

SwitchTool(t) ==
  /\ Ask
  /\ \E tool \in Tools :
       IF tool \in cfg[t].toolsOff
       THEN /\ cfg' = [cfg EXCEPT ![t].toolsOff = @ \ {tool}]
            /\ log_decision(t, "tool", "gave")
       ELSE /\ cfg' = [cfg EXCEPT ![t].toolsOff = @ \cup {tool}]
            /\ log_decision(t, "tool", "took")
  /\ UNCHANGED <<lists, agentOn, wires, files, small, consent, handover, pages>>

SetLearning(t) ==
  /\ Ask
  /\ \E on \in BOOLEAN :
       /\ cfg' = [cfg EXCEPT ![t].learn = on]
       /\ log_decision(t, "learn", IF on THEN "on" ELSE "paused")
  /\ UNCHANGED <<lists, agentOn, wires, files, small, consent, handover, pages>>

SetLimit(t) ==
  /\ Ask
  /\ cfg' = [cfg EXCEPT ![t].limit = TRUE]
  /\ log_decision(t, "limit", "changed")
  /\ UNCHANGED <<lists, agentOn, wires, files, small, consent, handover, pages>>

RunChecks(t) ==
  /\ Ask
  /\ cfg' = [cfg EXCEPT ![t].checked = TRUE]
  /\ log_decision(t, "checks", "passed")
  /\ UNCHANGED <<lists, agentOn, wires, files, small, consent, handover, pages>>

\* The switch is one for all tenants; the line is only on this one's trail.
SwitchAgent(t) ==
  /\ Ask
  /\ \E on \in BOOLEAN :
       /\ agentOn' = on
       /\ log_decision(t, "agent", IF on THEN "on" ELSE "off")
  /\ UNCHANGED <<lists, cfg, wires, files, small, consent, handover, pages>>

-----------------------------------------------------------------------------
(* Connections and proposals.                                              *)

ConnActs == {"pause", "resume", "disconnect", "connect"}

\* Mutant of ConnBecomes: the verb is stored for the state.
ConnBecomesAct(act) == act

ConnBecomes(act) ==
  CASE act = "pause" -> "paused"
    [] act = "disconnect" -> "off"
    [] OTHER -> "on"

\* Mutant of ConnTakes: a connection nobody ever touched has no "off".
ConnTakesOff(state, act) ==
  \/ act = "pause"      /\ state = "on"
  \/ act = "resume"     /\ state = "paused"
  \/ act = "disconnect" /\ state \in {"on", "paused"}
  \/ act = "connect"    /\ state = "off"

ConnTakes(state, act) ==
  \/ act = "pause"      /\ state = "on"
  \/ act = "resume"     /\ state = "paused"
  \/ act = "disconnect" /\ state \in {"on", "paused"}
  \/ act = "connect"    /\ state \in {"off", "none"}

ConnAct(t, act) ==
  /\ Ask
  /\ \E c \in Conns :
       /\ ConnTakes(conn[t][c], act)
       /\ conn' = [conn EXCEPT ![t][c] = ConnBecomes(act)]
       /\ log_decision(t, c, ConnBecomes(act))
  /\ UNCHANGED <<lists, agent, prop, files, small, consent, handover, pages>>

\* The first decision stands.
PropTakes(state) == state = "waiting"

PropAct(t, action) ==
  /\ Ask
  /\ \E p \in Props :
       /\ PropTakes(prop[t][p])
       /\ prop' = [prop EXCEPT ![t][p] = action]
       /\ log_decision(t, p, action)
  /\ UNCHANGED <<lists, agent, conn, files, small, consent, handover, pages>>

-----------------------------------------------------------------------------
(* The shelf of files, and the one-field forms.                            *)

Shelve(t, name, folder) ==
  /\ shelf' = [shelf EXCEPT ![t] =
                 @ \cup {[id |-> made + 1, name |-> name, folder |-> folder]}]
  /\ made' = made + 1
  /\ log_decision(t, "file", "added")
  /\ UNCHANGED <<rows, agent, wires, folders, small, consent, handover, pages>>

\* From the Files page; from an agent's settings there is no folder to pick.
FileUpload(t) ==
  /\ Ask
  /\ \E name \in FileNames, folder \in folders[t] \cup {Files} :
       Shelve(t, name, folder)

FileLink(t) ==
  /\ Ask
  /\ \E name \in FileNames, folder \in folders[t] \cup {Files} :
       Shelve(t, name, folder)

FileNote(t) ==
  /\ Ask
  /\ \E name \in FileNames, folder \in folders[t] \cup {Files} :
       Shelve(t, name, folder)

FileFolder(t) ==
  /\ Ask
  /\ \E name \in Folders \ folders[t] :
       folders' = [folders EXCEPT ![t] = @ \cup {name}]
  /\ UNCHANGED <<lists, agent, wires, shelf, small, consent, handover, log, pages>>

\* Everything of that name goes, and the line is written if nothing went.
FileDel(t) ==
  /\ Ask
  /\ \E name \in FileNames :
       shelf' = [shelf EXCEPT ![t] = {f \in @ : f.name # name}]
  /\ log_decision(t, "file", "removed")
  /\ UNCHANGED <<lists, agent, wires, folders, small, consent, handover, pages>>

OnboardPhone(t) ==
  /\ Ask
  /\ small' = [small EXCEPT ![t].phone = TRUE]
  /\ UNCHANGED <<lists, agent, wires, files, consent, handover, log, pages>>

OnboardingDone(t) ==
  /\ Ask
  /\ small' = [small EXCEPT ![t].onboarded = TRUE]
  /\ UNCHANGED <<lists, agent, wires, files, consent, handover, log, pages>>

EvNote(t) ==
  /\ Ask
  /\ small' = [small EXCEPT ![t].notes = @ + 1]
  /\ UNCHANGED <<lists, agent, wires, files, consent, handover, log, pages>>

-----------------------------------------------------------------------------
(* A restart.  _cfg_save wrote the stores it names; the team, the skills,  *)
(* the connections, the proposals, the phone, the notes and the trail are  *)
(* what they were when the program first started.                          *)

RestartWith(savedFolders) ==
  /\ restarts < MaxRestarts
  /\ restarts' = restarts + 1
  /\ rows' = [t \in Tenants |->
                [rows[t] EXCEPT !["people"] = Shipped["people"],
                                !["skills"] = <<>>]]
  /\ pages' = {[p EXCEPT !.lost = @ \/ p.kind \in {"people", "skills"}] :
                 p \in pages}
  /\ conn' = [t \in Tenants |->
                [c \in Conns |-> IF c \in ConnDefs THEN "on" ELSE "none"]]
  /\ prop' = [t \in Tenants |-> [p \in Props |-> "waiting"]]
  /\ small' = [t \in Tenants |->
                 [small[t] EXCEPT !.phone = FALSE, !.notes = 0]]
  /\ log' = EmptyLog
  /\ revoked' = [t \in Tenants |-> TRUE]
  /\ folders' = savedFolders
  /\ UNCHANGED <<made, cfg, agentOn, assign, shelf, consent, asks>>

\* Mutant of Restart: the folders are not among the stores that are saved.
RestartNoFolders == RestartWith([t \in Tenants |-> {}])

Restart == RestartWith(folders)

-----------------------------------------------------------------------------
Team(t) == PersonAdd(t) \/ PersonToggle(t) \/ PersonDel(t) \/ Assign(t)

SkillForms(t) ==
  \/ \E act \in {"live", "draft", "del"} : SkillAct(t, act)
  \/ \E mode \in {"live", "draft"} : ProcedureSave(t, mode)

RoutineForms(t) == RoutineAdd(t) \/ RoutineToggle(t) \/ RoutineEdit(t) \/ RoutineDel(t)

RuleForms(t) == AddRule(t) \/ DelRule(t)

AgentForms(t) ==
  \/ SetInstructions(t) \/ SwitchTool(t) \/ SetLearning(t) \/ SetLimit(t)
  \/ RunChecks(t) \/ SwitchAgent(t)

WireForms(t) ==
  \/ \E act \in ConnActs : ConnAct(t, act)
  \/ \E action \in {"approved", "declined"} : PropAct(t, action)

FileForms(t) == FileUpload(t) \/ FileLink(t) \/ FileNote(t) \/ FileFolder(t) \/ FileDel(t)

SmallForms(t) == OnboardPhone(t) \/ OnboardingDone(t) \/ EvNote(t)

Next ==
  \/ \E t \in Tenants, k \in Kinds : OpenPage(t, k)
  \/ \E t \in Tenants :
       \/ Team(t) \/ SkillForms(t) \/ RoutineForms(t) \/ RuleForms(t)
       \/ AgentForms(t) \/ WireForms(t) \/ FileForms(t) \/ SmallForms(t)
  \/ Restart

Spec == Init /\ [][Next]_vars
=============================================================================
