------------------------------- MODULE Builder -------------------------------
(***************************************************************************)
(* Agents built from a described job.  A draft is drawn from the chat or   *)
(* from a form, asked three questions in the chat or on two pages, renamed *)
(* or redrawn on its page, and becomes an agent when it is added, from the *)
(* chat card or from the page.                                             *)
(*                                                                         *)
(* A name is the sequence of its parts, so that Append(name, 2) is the     *)
(* slug with "_2" at its end, which somebody may also have typed.          *)
(***************************************************************************)
EXTENDS Chat

CONSTANTS
  Names,     \* names a draft may get
  KeywordNames,  \* those of the keyword drafter
  Shipped,   \* slugs of the agents the program starts with
  OwnAnswers,    \* sets of questions people answer in their own way
  MaxDrafts  \* bound: drafts drawn, over all restarts

ASSUME NamesAssumption == /\ Names \subseteq Seq(Nat) \ {<<>>} /\ KeywordNames \subseteq Names
                          /\ Shipped \subseteq Seq(Nat) /\ IsFiniteSet(Shipped)

VARIABLES
  drafts,    \* PENDING_BUILDS, by build id; an id starts over at a restart
  drawn,     \* history: drafts drawn so far
  built      \* what RELAY_AGENTS has beyond Shipped, in order

build == <<drafts, drawn, built>>

\* When it acts, what it may touch, when it must ask.
_build_questions == {"act", "touch", "gate"}

ASSUME OwnAnswersAssumption == OwnAnswers \subseteq SUBSET _build_questions

\* A draft from the chat has no stage and is taken as done.
Stage == {"q1", "q2", "done"}

Draft == [tenant : Tenants, name : Seq(Nat), mark : Nat,
          stage : Stage, own : OwnAnswers \cup {{}}]
Gone  == [tenant |-> NoTenant]   \* popped
Agent == [slug : Seq(Nat), draft : Nat]

BuilderTypes ==
  /\ drafts \in Seq(Draft \cup {Gone})
  /\ drawn \in Nat
  /\ built \in Seq(Agent)

BuilderInit == drafts = <<>> /\ drawn = 0 /\ built = <<>>

-----------------------------------------------------------------------------
NoDraft == <<>>

\* The model names the job, or gives nothing: no key, a timeout, a bad answer.
_llm_build_draft == Names \cup {NoDraft}

\* Without it the keywords do.
_build_draft == {IF live = NoDraft THEN name ELSE live :
                   live \in _llm_build_draft, name \in KeywordNames}

Pending(b) == b \in DOMAIN drafts /\ drafts[b] # Gone
Drawable(t, b) == Pending(b) /\ drafts[b].tenant = t

Draw(t, stage) ==
  /\ drawn < MaxDrafts
  /\ drawn' = drawn + 1
  /\ \E name \in _build_draft :
       drafts' = Append(drafts, [tenant |-> t, name |-> name, mark |-> drawn + 1,
                                 stage |-> stage, own |-> {}])
  /\ UNCHANGED built

\* /api/build_start.
DrawOnPage(t) == Draw(t, "q1")

\* A job described in the chat.
DrawInChat(t, c) == Draw(t, "done") /\ Say(t, c, NoCard)

\* /api/agent_build_draft: the answers of whoever sends them; nothing of the
\* conversation changes but its messages.
AnswerInChat(b, own) ==
  /\ drafts' = IF Pending(b) THEN [drafts EXCEPT ![b].own = own] ELSE drafts
  /\ UNCHANGED <<drawn, built>>

\* /api/build_answer: the three questions.
AnswerOnPage(t, b, own) ==
  /\ Drawable(t, b)
  /\ drafts' = [drafts EXCEPT ![b].own = own, ![b].stage = "q2"]
  /\ UNCHANGED <<drawn, built>>

\* /api/build_answer2: a brand before the name makes another name.
Finish(t, b) ==
  /\ Drawable(t, b)
  /\ \E name \in Names :
       drafts' = [drafts EXCEPT ![b].name = name, ![b].stage = "done"]
  /\ UNCHANGED <<drawn, built>>

\* /api/build_change: redrawn from new words; the answers stay.
Redraw(t, b) ==
  /\ Drawable(t, b)
  /\ \E name \in _build_draft : drafts' = [drafts EXCEPT ![b].name = name]
  /\ UNCHANGED <<drawn, built>>

Taken == Shipped \cup {built[i].slug : i \in DOMAIN built}

\* The name itself, or the name with the first number that is free.
FreeSlug(name) ==
  IF name \notin Taken THEN name
  ELSE LET free == {n \in 2..(Cardinality(Taken) + 2) : Append(name, n) \notin Taken}
       IN Append(name, CHOOSE n \in free : \A m \in free : n <= m)

\* Mutant of Add: the draft is read, not taken out.
AddAgain(b) ==
  /\ drafts' = drafts
  /\ built' = Append(built, [slug |-> FreeSlug(drafts[b].name), draft |-> drafts[b].mark])
  /\ UNCHANGED drawn

\* _build_confirm() of a draft that is there.
Add(b) ==
  /\ drafts' = [drafts EXCEPT ![b] = Gone]
  /\ built' = Append(built, [slug |-> FreeSlug(drafts[b].name), draft |-> drafts[b].mark])
  /\ UNCHANGED drawn

\* /api/agent_build_confirm: the conversation is approved, draft or no draft.
AddInChat(t, c, b) ==
  /\ IF Pending(b) THEN Add(b) ELSE UNCHANGED build
  /\ convs' = IF Own(t, c) THEN [convs EXCEPT ![c].outcome = "approved"] ELSE convs
  /\ UNCHANGED <<cards, proposals>>

\* /api/build_create.
AddOnPage(t, b) == Drawable(t, b) /\ Add(b)

-----------------------------------------------------------------------------
(* The pages of the builder.                                               *)

\* A skipped question falls back to the recommended answer.
_default_answers(own) ==
  [q \in _build_questions |-> IF q \in own THEN "own" ELSE "recommended"]

\* The card in the chat: the draft in its answers, and the button that adds it.
_build_draft_res(b) ==
  [draft |-> b, shows |-> _default_answers(drafts[b].own), forms |-> {"agent_build_confirm"}]

\* Mutant of InProgress: everybody's drafts are counted.
AnyonesInProgress(t) == {b \in DOMAIN drafts : Pending(b)}

InProgress(t) == {b \in DOMAIN drafts : Drawable(t, b)}

\* The landing page: the way back to the last draft, and a box for the next.
_builder_landing(t) ==
  [draft |-> 0, forms |-> {"build_start"}, drafts |-> Cardinality(InProgress(t)),
   resume |-> IF InProgress(t) = {} THEN 0
              ELSE CHOOSE b \in InProgress(t) : \A x \in InProgress(t) : x <= b]

\* A draft's page: the form of the stage it is in.
_builder_draft(b) ==
  [draft |-> b, shows |-> _default_answers(drafts[b].own),
   forms |-> CASE drafts[b].stage = "q1" -> {"build_answer"}
               [] drafts[b].stage = "q2" -> {"build_answer2"}
               [] OTHER                  -> {"build_change", "build_create"}]

\* /agents/new with or without a build id.
builder_content(t, b) ==
  IF Drawable(t, b) THEN _builder_draft(b) ELSE _builder_landing(t)
=============================================================================
