-------------------------------- MODULE Router --------------------------------
(***************************************************************************)
(* What the chat answers.  Home suggests questions, a message goes down    *)
(* the guards and routers to the first that wants it, and the answer       *)
(* suggests the next questions.                                            *)
(*                                                                         *)
(* A message is the set of the phrases in it that some router looks for;   *)
(* phrases a router treats alike have one name.                            *)
(***************************************************************************)
EXTENDS Naturals, Sequences, FiniteSetsExt

\* The questions Home and the answers suggest, with the phrases in each.
Phrases ==
  [approval |-> {"my approval"},         \* What needs my approval?
   person   |-> {"a person"},            \* What needs a person?
   won      |-> {"list"},                \* What did we win?
   proof    |-> {"proof", "list"},       \* Which proof wins?
   arrived  |-> {"never arrived", "list"},
   history  |-> {"list"},                \* Show me the history
   team     |-> {"metric"},              \* How is the team doing?
   help     |-> {},                      \* What can you do?
   payments |-> {"pay", "two digits", "14 pay"},
   dogfood  |-> {"dog food"},
   thursday |-> {"thursday"},
   onestar  |-> {"build", "my approval"},
   sayYes   |-> {"say yes to"}]

Questions == DOMAIN Phrases

\* The jobs that are always on Home's list, after the day's chips.
Evergreen == {"onestar", "won", "proof", "arrived", "person"}

-----------------------------------------------------------------------------
\* A sum from three digits on is money; "14 payments" is not.
MoneyAsked(says) ==
  \/ "pay" \in says /\ says \cap {"rupees", "three digits"} # {}
  \/ "move money" \in says

\* A guard and the questions it offers instead; the first that objects replies.
Guards(says) ==
  <<[objects |-> "other script" \in says, cues |-> {"approval", "help"}],
    [objects |-> "injection" \in says,    cues |-> {"approval", "help"}],
    [objects |-> "unasked" \in says,      cues |-> {"approval", "won"}],
    [objects |-> "erase" \in says,        cues |-> {"history", "approval"}],
    [objects |-> MoneyAsked(says),        cues |-> {"payments", "approval"}],
    [objects |-> "rival" \in says,        cues |-> {"won", "team"}],
    [objects |-> {"future", "sales"} \subseteq says, cues |-> {"thursday", "approval"}],
    [objects |-> "off patch" \in says,    cues |-> {"help", "approval"}],
    [objects |-> "anger" \in says,        cues |-> {"person", "history"}]>>

Objections(says) == {i \in DOMAIN Guards(says) : Guards(says)[i].objects}

\* The desks whose open question of the day a message asks about.
StateTopic(says) ==
  CASE says \cap {"dog food", "stock left"} # {} -> "stock_watch"
    [] says \cap {"14 pay", "payout", "pay vendor"} # {} -> "payouts_desk"
    [] says \cap {"thursday", "cash tight"} # {} -> "cashflow_forecast"
    [] OTHER -> "none"

\* A tool and the phrases it listens for, in the order they are tried.
Tools ==
  <<[tool |-> "shadow",      hears |-> {"would have sent"}],
    [tool |-> "escalations", hears |-> {"a person"}],
    [tool |-> "approve",     hears |-> {"say yes to"}],
    [tool |-> "dismiss",     hears |-> {"dismiss"}],
    [tool |-> "queue",       hears |-> {"my approval"}],
    [tool |-> "metrics",     hears |-> {"metric"}],
    [tool |-> "evidence",    hears |-> {"proof"}],
    [tool |-> "runs",        hears |-> {"list", "never arrived"}]>>

ToolNames == {Tools[i].tool : i \in DOMAIN Tools} \cup {"help"}

KeywordRoute(says) ==
  LET hears == {i \in DOMAIN Tools : Tools[i].hears \cap says # {}} IN
  IF hears = {} THEN "help" ELSE Tools[Min(hears)].tool

\* The model may pick any tool; when it is away the keywords do.
LlmRoute(says) == ToolNames

Ask(says) == {KeywordRoute(says)} \cup LlmRoute(says)

\* Guard, a job to build, the day's open questions, and only then the record.
\* No request about an open question is answered: it dies on a proposal card
\* these desks do not have.
Replies(says) ==
  IF Objections(says) # {} THEN {"guard"}
  ELSE IF "build" \in says THEN {"build"}
  ELSE IF StateTopic(says) # "none" THEN {}
  ELSE Ask(says)

\* The next questions under an answer.
CuesFor ==
  [queue |-> {"sayYes", "proof", "person"}, metrics |-> {"won", "person"},
   runs |-> {"approval", "proof"}, evidence |-> {"arrived", "approval"},
   escalations |-> {"approval", "won"}, shadow |-> {"approval"},
   approve |-> {"approval", "won"}, dismiss |-> {"approval", "won"},
   help |-> {"approval", "help"}]

Cues(says) ==
  IF Objections(says) # {} THEN Guards(says)[Min(Objections(says))].cues
  ELSE UNION {CuesFor[tool] : tool \in Replies(says) \cap DOMAIN CuesFor}

-----------------------------------------------------------------------------
\* The chips over the composer: what the record makes urgent, four at most.
\* The three desks' questions stay open: nothing ever answers for them.
UrgentFirst(waiting, handed, settled) ==
  <<[ask |-> "approval", now |-> waiting],
    [ask |-> "payments", now |-> TRUE], [ask |-> "dogfood", now |-> TRUE],
    [ask |-> "thursday", now |-> TRUE],
    [ask |-> "person",   now |-> handed],
    [ask |-> "won",      now |-> settled]>>

Due(urgent) == {i \in DOMAIN urgent : urgent[i].now}

\* Mutant of Briefing: the last four are kept.
BriefingLastFour(urgent) ==
  IF Due(urgent) = {} THEN {"help", "history"}
  ELSE {urgent[i].ask :
          i \in {j \in Due(urgent) : Cardinality({k \in Due(urgent) : k > j}) < 4}}

Briefing(urgent) ==
  IF Due(urgent) = {} THEN {"help", "history"}
  ELSE {urgent[i].ask :
          i \in {j \in Due(urgent) : Cardinality({k \in Due(urgent) : k < j}) < 4}}
=============================================================================
