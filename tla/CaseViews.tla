------------------------------ MODULE CaseViews ------------------------------
(***************************************************************************)
(* What the pages of the workspace say of the disputes, over the ledger    *)
(* PolicyGate grows: one order is one case, every page recomputes the      *)
(* case from the runs each time it is opened, and some pages carry buttons *)
(* that decide a run.  A page is an operator here, reduced to the facts it *)
(* states and the buttons it shows.                                        *)
(***************************************************************************)
EXTENDS PolicyGate, Router, SequencesExt

CONSTANT WonClaims      \* the disputes the bank decides for the merchant

ASSUME WonAssumption == WonClaims \subseteq Claims

Cases == {runs[i].dispute.order : i \in DOMAIN runs}

CaseOf(o) == {i \in DOMAIN runs : runs[i].dispute.order = o}

\* Oldest dispute first; webhooks may be late, so this is not ledger order.
Earlier(i, j) ==
  \/ runs[i].dispute.day < runs[j].dispute.day
  \/ runs[i].dispute.day = runs[j].dispute.day /\ i < j

\* Newest first, which keeps ledger order within a day too.
Newer(i, j) ==
  \/ runs[j].dispute.day < runs[i].dispute.day
  \/ runs[i].dispute.day = runs[j].dispute.day /\ i < j

\* Some runs as a list, oldest dispute first.
OldestFirst(S) ==
  CHOOSE list \in [1..Cardinality(S) -> S] :
    \A m, n \in DOMAIN list : m < n => Earlier(list[m], list[n])

CaseRuns(o) == OldestFirst(CaseOf(o))

Latest(o) == Last(CaseRuns(o))

-----------------------------------------------------------------------------
\* The bank's verdict is on file exactly when the run is resolved.
HasOutcome(i) == runs[i].state = "resolved"

Won(i) == HasOutcome(i) /\ runs[i].claim \in WonClaims

InState(S) == {i \in DOMAIN runs : runs[i].state \in S}

Waiting == InState({"awaiting_gate"})

WithAPerson == InState({"timed_out", "failed"})

\* Mutant of CaseStatus: only a timed-out card is with a person.
CaseStatusTimedOutOnly(o) ==
  IF CaseOf(o) \cap Waiting # {} THEN "need"
  ELSE IF CaseOf(o) \cap InState({"timed_out"}) # {} THEN "person"
  ELSE IF CaseOf(o) \subseteq InState(Terminal) THEN "done"
  ELSE "work"

\* "Pending approval", "With a person", "Working" or "Done".
CaseStatus(o) ==
  IF CaseOf(o) \cap Waiting # {} THEN "need"
  ELSE IF CaseOf(o) \cap WithAPerson # {} THEN "person"
  ELSE IF CaseOf(o) \subseteq InState(Terminal) THEN "done"
  ELSE "work"

\* The rail and the case page show the same word.
RailCases == [o \in Cases |-> CaseStatus(o)]

\* The chip of the case in History, which never asks whether a run ended.
JourneyChip(o) ==
  IF CaseOf(o) \cap Waiting # {} THEN "need"
  ELSE IF \E i \in CaseOf(o) : Won(i) THEN "kept"
  ELSE IF \E i \in CaseOf(o) : HasOutcome(i) THEN "lost"
  ELSE "working"

-----------------------------------------------------------------------------
\* Mutant of MileFiled: a settled response no longer counts as filed.
MileFiledActed(o) == CaseOf(o) \cap InState({"acted"}) # {}

\* The milestones of the case page, and of the run in the bank's hands.
MileFiled(o) == \E i \in CaseOf(o) : Filed(runs[i])

MileSettled(o) == \E i \in CaseOf(o) : HasOutcome(i)

MileWaiting(o) == ~MileFiled(o) /\ CaseOf(o) \cap Waiting # {}

\* Buttons under the reply, which is the reply of the latest dispute.
WorkProductOffers(i) == {i} \cap Waiting

CasePageOffers(o) == WorkProductOffers(Latest(o))

\* One row with its buttons per waiting run, whatever else its order has.
ApprovalsOffers == Waiting

\* The agent's page ticks, per case, the waiting run the ledger got first.
DeskOffers(o) ==
  {i \in CaseOf(o) \cap Waiting : \A j \in CaseOf(o) \cap Waiting : i <= j}

\* Waiting runs of the reasons asked for: the oldest, and the newest.
FirstWaiting(asked) ==
  {i \in Waiting : runs[i].dispute.reason \in asked
     /\ \A j \in Waiting \ {i} : runs[j].dispute.reason \in asked => Earlier(i, j)}

NewestWaiting(asked) ==
  {i \in Waiting : runs[i].dispute.reason \in asked
     /\ \A j \in Waiting \ {i} : runs[j].dispute.reason \in asked => Newer(i, j)}

\* The reply the chat shows under an answer, while one waits; asked for the
\* runs when none waits it shows a decided one, without buttons.
TargetRun(tool, asked) ==
  CASE tool \in {"approve", "dismiss", "queue"} -> FirstWaiting(asked)
    [] tool = "runs" -> NewestWaiting(asked)
    [] OTHER -> {}

\* A message names one reason or none.
ChatOffers ==
  UNION {TargetRun(tool, asked) :
           tool \in ToolNames, asked \in {Reasons} \cup {{reason} : reason \in Reasons}}

Offered == ApprovalsOffers \cup ChatOffers
             \cup UNION {CasePageOffers(o) \cup DeskOffers(o) : o \in Cases}

\* The runs the decisions page lists as decided, and by which word.
DecisionLines == {i \in DOMAIN runs : runs[i].gate # NotStarted}

\* The lines that say a reply was sent: "Said yes", "Reworded and sent".
SaidSent == {i \in DecisionLines : SaidYes(runs[i])}

-----------------------------------------------------------------------------
\* The steps the pages tell of a run, from what its handlers traced.  An edit
\* whose comparison died was stamped but not traced.
Story(i) ==
  LET r == runs[i]
      told == [read      |-> r.claim # NoClaim,
               set_aside |-> r.state = "suppressed",
               qualified |-> r.qualified,
               surfaced  |-> i \in Waiting \cup DecisionLines,
               approved  |-> r.gate = "approve",
               edited    |-> r.gate = "edit" /\ i \notin Waiting,
               dismissed |-> r.gate = "reject",
               filed     |-> Filed(r),
               outcome   |-> HasOutcome(i)]
  IN {step \in DOMAIN told : told[step]}

\* The page of one run.
RunPage(i) == [badge |-> runs[i].state, gate |-> runs[i].gate, steps |-> Story(i)]

\* Its row in the lists.
LedgerRow(i) ==
  [badge   |-> IF runs[i].state = "suppressed" THEN runs[i].why ELSE runs[i].state,
   verdict |-> IF ~HasOutcome(i) THEN "open" ELSE IF Won(i) THEN "kept" ELSE "lost",
   changed |-> runs[i].gate = "edit"]

\* The case as History plays it back.
JourneyPage(o) ==
  [story   |-> UNION {Story(i) : i \in CaseOf(o)},
   waiting |-> CaseOf(o) \cap Waiting,
   kept    |-> {i \in CaseOf(o) : Won(i)}]

\* The impact page under its three chips, and the spreadsheet behind it.
ActivityShown(chip) ==
  CASE chip = "escalated" -> WithAPerson
    [] chip = "resolved"  -> InState({"resolved"})
    [] OTHER              -> DOMAIN runs

ImpactRows ==
  LET sorted == OldestFirst(DOMAIN runs) IN
  [n \in DOMAIN sorted |-> [state |-> runs[sorted[n]].state,
                            gate  |-> runs[sorted[n]].gate,
                            won   |-> Won(sorted[n])]]

-----------------------------------------------------------------------------
\* The wins behind "kept" on Home, in the brief, on the case pages and in History.
Recovered == {i \in DOMAIN runs : Won(i)}

\* The wins behind "Replies you said yes to kept ..." on the impact page.
Influenced == {i \in DOMAIN runs : SaidYes(runs[i]) /\ Won(i)}

\* What the dashboard of Home counts: "Jobs done", the verdicts behind the win
\* rate, and the replies a person decided.
JobsDone   == InState({"acted", "resolved"})
Outcomes   == {i \in DOMAIN runs : HasOutcome(i)}
GatedByYou == {i \in DOMAIN runs : runs[i].gate \in Answers}

\* The share of verdicts won, in percent: the dispute agent's goal.
GoalNow ==
  IF Outcomes = {} THEN 0
  ELSE (100 * Cardinality(Recovered)) \div Cardinality(Outcomes)

\* The morning brief: what the team handled on its own, and what waits.
BriefHandled == InState({"acted", "resolved", "suppressed"})

Brief == [handled |-> Cardinality(BriefHandled), waiting |-> Cardinality(Waiting),
          wins    |-> Cardinality(Recovered)]

\* Home's headline, and the newest three replies under it.
Headline == [handled |-> Cardinality(BriefHandled), waiting |-> Cardinality(Waiting)]

NewestThree ==
  {i \in Waiting : Cardinality({j \in Waiting \ {i} : Newer(j, i)}) < 3}

\* The metrics: what a person changed and what went out as written, of the
\* surfaced replies; material says which edits the model called material.
Corrected(material) ==
  {i \in DecisionLines : runs[i].gate = "reject" \/ i \in material}

Used(material) ==
  {i \in DecisionLines : SaidYes(runs[i]) /\ i \notin material}

\* The count on the rail's "Approvals", the dispute agent's "needs you", and
\* what the chat lists under its answers.
RailPending == Cardinality(Waiting)

AgentNeedsYou == Waiting # {}

ToolShows(tool, asked) ==
  CASE tool = "queue" -> Waiting
    [] tool = "runs"  -> {i \in DOMAIN runs : runs[i].dispute.reason \in asked}
    [] OTHER          -> {}

\* Home's chips.  The review channel's posts are in memory: after a restart
\* nothing in them says a run was handed over.
HomeChips(posts) ==
  Briefing(UrgentFirst(Waiting # {}, posts # {}, InState({"resolved"}) # {}))

-----------------------------------------------------------------------------
\* A button some page shows for a run would be taken by the decision handler;
\* if the run was decided already, it is an edit whose comparison died.
OffersAreTaken ==
  \A i \in Offered : i \in DecisionLines => runs[i].gate = "edit"

\* A case that reads Done hides no reply the merchant said yes to and the bank
\* never got, and its chip in History tells how every such reply ended.
DoneMeansAnswered ==
  \A o \in Cases : RailCases[o] = "done" =>
    /\ \A i \in CaseOf(o) \cap SaidSent : "outcome" \in RunPage(i).steps
    /\ CaseOf(o) \cap SaidSent # {} => JourneyChip(o) \in {"kept", "lost"}

\* Every rupee "kept", on whatever page, comes from a filed reply the merchant
\* said yes to; every verdict in the win rate from one a person decided; and
\* what the bank got counts as handled, and as used or corrected.
KeptWasSaidYes ==
  /\ Recovered = Influenced
  /\ Recovered = {i \in ActivityShown("resolved") : LedgerRow(i).verdict = "kept"}
  /\ Recovered = UNION {JourneyPage(o).kept : o \in Cases}
  /\ \A n \in DOMAIN ImpactRows : ImpactRows[n].won => ImpactRows[n].gate \in {"approve", "edit"}
  /\ Outcomes \subseteq JobsDone \cap GatedByYou
  /\ GoalNow = 100 => Outcomes \subseteq Influenced
  /\ JobsDone \subseteq BriefHandled
  /\ \A material \in SUBSET {i \in DOMAIN runs : runs[i].gate = "edit"} :
       JobsDone \subseteq Used(material) \cup Corrected(material)

\* While a reply waits, and whoever was told what, one of Home's chips leads by
\* the keywords to a waiting reply with its buttons, the answer lists every
\* reply the rail and the brief count, and the "say yes" under it means the
\* reply shown.
HomeLeadsToTheReply ==
  Waiting # {} => \A posts \in SUBSET WithAPerson :
    \E question \in HomeChips(posts) :
      LET says == Phrases[question]
          tool == KeywordRoute(says)
          shown == TargetRun(tool, Reasons)
      IN /\ tool \in Replies(says)
         /\ shown # {} /\ \A i \in shown : i \in WorkProductOffers(i)
         /\ Cardinality(ToolShows(tool, Reasons)) = RailPending
         /\ RailPending = Brief.waiting /\ RailPending = Headline.waiting
         /\ AgentNeedsYou /\ NewestThree # {}
         /\ \E cue \in Cues(says) : TargetRun(KeywordRoute(Phrases[cue]), Reasons) = shown

\* A case never goes back: what is filed or settled stays so, and until another
\* dispute comes in on the order it does not ask the merchant again once they
\* are through with it, nor leave Done or the person who has it.
CaseMovesForward ==
  [][ \A o \in Cases :
        /\ MileFiled(o) => MileFiled(o)'
        /\ MileSettled(o) => MileSettled(o)'
        /\ CaseOf(o)' = CaseOf(o) =>
             /\ CaseStatus(o) # "need" => CaseStatus(o)' # "need"
             /\ CaseStatus(o) \in {"done", "person"} => CaseStatus(o)' = CaseStatus(o)
    ]_vars

=============================================================================
