------------------------------ MODULE DeskPages ------------------------------
(***************************************************************************)
(* What the pages of the settings show and offer, as functions of the      *)
(* state of Desk, and the properties of the forms and the pages together.  *)
(* A page is the rows it lists, the counts it prints and the buttons it    *)
(* puts next to them; wording and layout are left out.                     *)
(***************************************************************************)
EXTENDS Desk

CONSTANT YourStore   \* the connection the first-run checklist asks for

ASSUME StoreAssumption == YourStore \in Conns

Button(form, of, act) == [form |-> form, of |-> of, act |-> act]

\* The Approvers tab: one switch per person, and a way to remove them.
settings_content(t) ==
  LET ppl == rows[t]["people"] IN
  [canSayYes |-> Approvers(t),
   buttons |-> {Button("person_toggle", i, IF ppl[i].on THEN "take back" ELSE "let") :
                  i \in DOMAIN ppl}
               \cup {Button("person_del", i, "del") : i \in DOMAIN ppl}]

\* The select of a waiting case: the founder, and whoever may say yes.
assign_options(t) == {Nobody} \cup Approvers(t)

connections_hub(t) ==
  LET live == {c \in Conns : conn[t][c] \in {"on", "paused"}} IN
  [connected |-> live,
   available |-> Conns \ live,
   buttons |->
     {Button("conn_act", c, IF conn[t][c] = "paused" THEN "resume" ELSE "pause") :
        c \in live}
     \cup {Button("conn_act", c, "disconnect") : c \in live}
     \cup {Button("conn_act", c, "connect") : c \in Conns \ live}]

skills_hub(t) ==
  LET procs == seed_skills(t) IN
  [live |-> {i \in DOMAIN procs : procs[i].on},
   drafts |-> {i \in DOMAIN procs : ~procs[i].on},
   buttons |->
     {Button("skill_act", i, IF procs[i].on THEN "draft" ELSE "live") :
        i \in DOMAIN procs}
     \cup {Button("skill_act", i, "del") : i \in DOMAIN procs}]

\* The desk's own page lists the same store without seeding it.
kyc_builder(t) == rows[t]["skills"]

scheduled_content(t) ==
  LET rs == rows[t]["routines"] IN
  [running |-> Cardinality({i \in DOMAIN rs : rs[i].on}),
   paused |-> Cardinality({i \in DOMAIN rs : ~rs[i].on}),
   buttons |->
     {Button("routine_toggle", i, IF rs[i].on THEN "pause" ELSE "resume") :
        i \in DOMAIN rs}
     \cup {Button("routine_del", i, "del") : i \in DOMAIN rs}
     \cup {Button("routine", text, "add") : text \in Typed["routines"]}]

\* The chips offer the sample rules that are not on the list yet.
agent_settings_content(t) ==
  LET rules == rows[t]["rules"]
      texts == {rules[i].name : i \in DOMAIN rules} IN
  [viachips |-> {c \in Conns : conn[t][c] = "on"},
   buttons |->
     {Button("del_rule", i, "del") : i \in DOMAIN rules}
     \cup {Button("add_rule", text, "add") : text \in Typed["rules"] \ texts}
     \cup {Button("tool", tool, IF tool \in cfg[t].toolsOff THEN "gave" ELSE "took") :
             tool \in Tools}
     \cup {Button("learn", "learn", IF cfg[t].learn THEN "paused" ELSE "on")}]

memory_content(t) ==
  [uploads |-> Cardinality(shelf[t]),
   folderOptions |-> {Files} \cup folders[t],
   buttons |-> {Button("file_del", f.name, "del") : f \in shelf[t]}]

prop_row(t, p) ==
  IF prop[t][p] = "waiting"
  THEN {Button("prop_act", p, "declined"), Button("prop_act", p, "approved")}
  ELSE {}

prop_card(t, p) == [verdict |-> prop[t][p], buttons |-> prop_row(t, p)]

props_waiting(t) == Cardinality({p \in Props : prop[t][p] = "waiting"})

\* Three steps, each read off the store it stands for; gone when all are done.
onboarding_checklist(t) ==
  LET done == [store |-> conn[t][YourStore] \in {"on", "paused"},
               phone |-> small[t].phone,
               team  |-> Len(rows[t]["people"]) >= 2] IN
  IF done.store /\ done.phone /\ done.team THEN {} ELSE {done}

\* Step 1 is the real connections page; the last step leads to the chat.
welcome_render(t, asked_) ==
  LET step == Max({1, Min({3, asked_})}) IN
  [buttons |-> (IF step = 1 THEN connections_hub(t).buttons ELSE {})
               \cup {Button("onboarding_done", "next", "skip")},
   forward |-> IF step < 3 THEN step + 1 ELSE 0,
   back |-> step - 1]

-----------------------------------------------------------------------------
\* Every store holds what its handlers put there.
TypeOK ==
  /\ rows \in [Tenants -> [Kinds -> Seq(AnyRow)]]
  /\ \A t \in Tenants, k \in Kinds : rows[t][k] \in Seq(Rows(k))
  /\ cfg \in [Tenants -> Cfg]
  /\ agentOn \in BOOLEAN
  /\ conn \in [Tenants -> [Conns -> {"none", "on", "paused", "off"}]]
  /\ prop \in [Tenants -> [Props -> {"waiting", "approved", "declined"}]]
  /\ assign \in [Tenants -> {Nobody} \cup Typed["people"]]
  /\ shelf \in [Tenants -> SUBSET [id : Nat, name : FileNames,
                                   folder : {Files} \cup Folders]]
  /\ folders \in [Tenants -> SUBSET Folders]
  /\ small \in [Tenants -> [phone : BOOLEAN, onboarded : BOOLEAN, notes : Nat]]
  /\ log \in [Tenants -> [Subjects -> Seq(Words)]]
  /\ pages \subseteq Page
  /\ asked \in [Tenants -> SUBSET Nat] /\ misled \in [Tenants -> SUBSET Nat]
  /\ revoked \in [Tenants -> BOOLEAN]
  /\ made \in Nat /\ asks \in 0..MaxAsks /\ restarts \in 0..MaxRestarts

\* A page left open still names the rows it shows, whatever was added,
\* switched, reworded or saved since, until a row of that list goes (removed,
\* or lost at a restart).  The forms carry a position and nothing else:
\* skill_act, person_toggle, person_del, routine_*, del_rule.
OldFormsNameTheirRow ==
  \A p \in pages :
    ~p.lost => \A i \in DOMAIN p.ids :
                 /\ i \in DOMAIN rows[p.tenant][p.kind]
                 /\ rows[p.tenant][p.kind][i].id = p.ids[i]

Told(t, subject, otherwise) ==
  IF log[t][subject] = <<>> THEN otherwise ELSE Last(log[t][subject])

\* "every change lands in the Decisions trail": read from the beginning, a
\* tenant's trail gives the settings of its agent, its connections and its
\* proposals as they are.  What a restart keeps without its trail is compared
\* while there was none.
TrailTellsAgent(t) ==
  /\ Len(rows[t]["rules"]) + Said(t, "rule", "removed")
       = Len(Shipped["rules"]) + Said(t, "rule", "added")
  /\ Cardinality(cfg[t].toolsOff) + Said(t, "tool", "gave") = Said(t, "tool", "took")
  /\ cfg[t].learn = (Told(t, "learn", "on") = "on")
  /\ cfg[t].told = (log[t]["told"] # <<>>)
  /\ cfg[t].limit = (log[t]["limit"] # <<>>)
  /\ cfg[t].checked = (log[t]["checks"] # <<>>)

TrailTellsTheSettings ==
  \A t \in Tenants :
    /\ restarts = 0 => TrailTellsAgent(t)
    /\ \A c \in Conns :
         conn[t][c] = Told(t, c, IF c \in ConnDefs THEN "on" ELSE "none")
    /\ \A p \in Props : /\ prop[t][p] = Told(t, p, "waiting")
                        /\ Len(log[t][p]) <= 1

\* "Nothing goes live until you say yes": a skill that is live was shipped
\* live, or somebody set that skill live, or an out-of-date form reached it.
NothingLiveUnasked ==
  \A t \in Tenants : \A i \in DOMAIN rows[t]["skills"] :
    LET p == rows[t]["skills"][i] IN
    p.on => \/ p.id \in asked[t] \cup misled[t]
            \/ \E j \in DOMAIN Shipped["skills"] :
                 Shipped["skills"][j].id = p.id /\ Shipped["skills"][j].on

\* The yes of a waiting case is with somebody who may say yes, unless someone
\* lost theirs after it was handed over: it is not taken back with it.
YesWithAnApprover ==
  \A t \in Tenants : ~revoked[t] => assign[t] \in assign_options(t)

\* A file lies in a folder the Files page offers, across every restart: the
\* two are separate stores, saved by name.
FilesKeepTheirFolder ==
  \A t \in Tenants : \A f \in shelf[t] :
    f.folder \in memory_content(t).folderOptions

\* What a page offers the handler takes: a button of a page just loaded is
\* never one the handler ignores.
ButtonsAreTaken ==
  \A t \in Tenants :
    /\ \A b \in connections_hub(t).buttons \cup welcome_render(t, 1).buttons :
         b.form = "conn_act" => ConnTakes(conn[t][b.of], b.act)
    /\ \A p \in Props : \A b \in prop_card(t, p).buttons : PropTakes(prop[t][b.of])
    /\ \A b \in skills_hub(t).buttons :
         /\ [at |-> b.of, saw |-> seed_skills(t)[b.of].id] \in Presses(t, "skills")
         /\ b.act # "del" => seed_skills(t)[b.of].on # (b.act = "live")
    /\ \A name \in assign_options(t) : MayHold(t, name)
    /\ \A b \in agent_settings_content(t).buttons :
         /\ b.form = "tool" => (b.act = "gave") = (b.of \in cfg[t].toolsOff)
         /\ b.form = "learn" => (b.act = "on") # cfg[t].learn
    /\ props_waiting(t) = Cardinality({p \in Props : prop_card(t, p).buttons # {}})
    /\ \A i \in DOMAIN kyc_builder(t) : kyc_builder(t)[i].on = (i \in skills_hub(t).live)
    /\ \A done \in onboarding_checklist(t) :
         ~done.store => Button("conn_act", YourStore, "connect")
                          \in welcome_render(t, 1).buttons
    /\ scheduled_content(t).running + scheduled_content(t).paused
         = Len(rows[t]["routines"])
=============================================================================
