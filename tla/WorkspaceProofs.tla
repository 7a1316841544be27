--------------------------- MODULE WorkspaceProofs ---------------------------
(***************************************************************************)
(* What people were told stays true, and a run is decided by its own       *)
(* tenant or in Slack: for any tenants, runs, cards, faults and restarts.  *)
(***************************************************************************)
EXTENDS Workspace, SequenceTheorems, FiniteSetTheorems, TLAPS

\* What the arguments below need of the types.
Typed ==
  /\ runs \in [Runs -> Row]
  /\ known \subseteq Tenants
  /\ cards \in Seq(Runs)
  /\ proposals \subseteq DOMAIN cards

\* A filing that is not on record broke off before it was saved; with this,
\* ToldTheTruth is inductive.
FiledOrLost == \A r \in Runs : r \in filed => runs[r].state = "acted" \/ r \in lost

TruthInv == FiledOrLost /\ ToldTheTruth /\ DecidedByItsTenant

\* Some runs that wait are answered; one of them may be told about.
Answers(e, action, by) ==
  /\ action \in Action /\ by \in Tenants \cup {Slack} /\ DOMAIN e \subseteq Runs
  /\ \A r \in DOMAIN e : /\ Awaiting(r)
                         /\ by \in {Owner[r], Slack}
                         /\ e[r] \in Endings(r, action, by)
  /\ Settle(e, action)
  /\ \/ told' = told
     \/ \E r \in DOMAIN e : e[r].ok /\ Tell(r, Word(action))

\* The ways a step may touch the runs and what was said of them.
AnswerCase  == \E e, action, by : Answers(e, action, by)
ArriveCase  == \E r \in Runs : Arrive(r)
RestartCase == Restart
QuietCase   == UNCHANGED <<runs, filed, lost, yeses, told>>

-----------------------------------------------------------------------------
\* A card is drawn for a run.
LEMMA CardRun ==
  ASSUME NEW s \in Seq(Runs), NEW c \in DOMAIN s
  PROVE  s[c] \in Runs
  BY ElementOfSeq

\* Appending a card keeps the cards.
LEMMA CardAppended ==
  ASSUME NEW s \in Seq(Runs), NEW r \in Runs
  PROVE  /\ Append(s, r) \in Seq(Runs)
         /\ DOMAIN Append(s, r) = DOMAIN s \cup {Len(s) + 1}
  BY AppendProperties

\* How a decision may end, spelled out.
LEMMA EndingCases ==
  ASSUME NEW r \in Runs, NEW action \in Action, NEW actor, NEW end \in Endings(r, action, actor)
  PROVE  \/ end.row = runs[r] /\ ~end.ok /\ ~end.sent
         \/ /\ action = "reject" /\ end.ok /\ ~end.sent
            /\ end.row = [state |-> "rejected", gate |-> action, actor |-> actor]
         \/ /\ action # "reject" /\ end.ok /\ end.sent
            /\ end.row = [state |-> "acted", gate |-> action, actor |-> actor]
         \/ /\ end.row = [state |-> "acting", gate |-> action, actor |-> actor]
            /\ ~end.ok /\ (end.sent \/ ~end.sent)
         \/ /\ end.row = [state |-> "awaiting_gate", gate |-> action, actor |-> actor]
            /\ ~end.ok /\ ~end.sent
<1>1. CASE runs[r].gate # "none"
  BY <1>1 DEF Endings, Ending
<1>2. CASE runs[r].gate = "none" /\ action = "reject"
  BY <1>2 DEF Endings, Ending
<1>3. CASE runs[r].gate = "none" /\ action # "reject"
  BY <1>3 DEF Endings, Ending
<1> QED
  BY <1>1, <1>2, <1>3

\* An answer of one run is an answer of a set of runs.
LEMMA OneAnswer ==
  ASSUME NEW r \in Runs, Awaiting(r), NEW action \in Action,
         NEW actor \in Tenants \cup {Slack}, actor \in {Owner[r], Slack},
         NEW end \in Endings(r, action, actor),
         Settle([x \in {r} |-> end], action),
         told' = told \/ (end.ok /\ Tell(r, Word(action)))
  PROVE  AnswerCase
<1> DEFINE e == [x \in {r} |-> end]
<1>1. DOMAIN e = {r} /\ e[r] = end
  OBVIOUS
<1>2. Settle(e, action)
  OBVIOUS
<1> HIDE DEF e
<1>3. Answers(e, action, actor)
  BY <1>1, <1>2 DEF Answers
<1> QED
  BY <1>3 DEF AnswerCase

\* Every step is one of the four cases.
LEMMA StepCases ==
  ASSUME Typed, [Next]_vars
  PROVE  AnswerCase \/ ArriveCase \/ RestartCase \/ QuietCase
<1>1. ASSUME NEW t \in Tenants, NEW r \in Runs, NEW action \in Action, Act(t, r, action)
      PROVE  AnswerCase
  <2>1. PICK end \in Endings(r, action, t) : Settle([x \in {r} |-> end], action)
    BY <1>1 DEF Act
  <2>2. Awaiting(r) /\ t \in {Owner[r], Slack} /\ told' = told
    BY <1>1 DEF Act, MayAnswer
  <2> QED
    BY <2>1, <2>2, OneAnswer
<1>2. ASSUME NEW t \in Tenants, NEW rs \in SUBSET Runs, NEW action \in Action,
             ActBulk(t, rs, action)
      PROVE  AnswerCase
  <2>1. PICK e \in [rs -> UNION {Endings(r, action, t) : r \in rs}] :
             (\A r \in rs : e[r] \in Endings(r, action, t)) /\ Settle(e, action)
    BY <1>2 DEF ActBulk
  <2>2. (\A r \in rs : Awaiting(r) /\ Owner[r] = t) /\ told' = told
    BY <1>2 DEF ActBulk, MayAnswer
  <2>3. DOMAIN e = rs
    OBVIOUS
  <2>4. Answers(e, action, t)
    BY <2>1, <2>2, <2>3 DEF Answers
  <2> QED
    BY <2>4 DEF AnswerCase
<1>3. ASSUME NEW r \in Runs, NEW action \in Action, SlackAnswer(r, action)
      PROVE  AnswerCase
  <2>1. PICK end \in Endings(r, action, Slack) :
             /\ Settle([x \in {r} |-> end], action)
             /\ IF end.ok THEN Tell(r, Word(action)) ELSE UNCHANGED told
    BY <1>3 DEF SlackAnswer
  <2>2. Awaiting(r) /\ (told' = told \/ (end.ok /\ Tell(r, Word(action))))
    BY <1>3, <2>1 DEF SlackAnswer
  <2> QED
    BY <2>1, <2>2, OneAnswer
<1>4. ASSUME NEW t \in Tenants, NEW c, NEW card, NEW action \in Action \cup {""},
             ConfirmDecides(t, c, card, action)
      PROVE  AnswerCase
  <2> DEFINE r == cards[card]
             decision == IF action = "" THEN "approve" ELSE action
  <2>1. r \in Runs
    <3>1. card \in DOMAIN cards /\ cards \in Seq(Runs)
      BY <1>4 DEF ConfirmDecides, Typed
    <3> QED
      BY <3>1, CardRun
  <2>2. decision \in Action
    BY DEF Action
  <2>3. PICK end \in Endings(r, decision, t) :
             /\ Settle([x \in {r} |-> end], decision)
             /\ told' = told \/ (end.ok /\ Tell(r, Word(decision)))
    BY <1>4 DEF ConfirmDecides
  <2>4. Awaiting(r) /\ t \in {Owner[r], Slack}
    BY <1>4 DEF ConfirmDecides, MayAnswer
  <2> HIDE DEF r, decision
  <2> QED
    BY <2>1, <2>2, <2>3, <2>4, OneAnswer
<1>5. ASSUME Outside PROVE AnswerCase \/ ArriveCase
  BY <1>3, <1>5 DEF Outside, ArriveCase
<1>6. ASSUME NEW t \in Tenants, Answer(t) PROVE AnswerCase \/ QuietCase
  <2>1. ASSUME NEW m, SetMode(t, m) PROVE QuietCase
    BY <2>1 DEF SetMode, answers, QuietCase
  <2>2. ASSUME Login(t) PROVE QuietCase
    BY <2>2 DEF Login, answers, QuietCase
  <2> QED
    BY <1>1, <1>2, <1>6, <2>1, <2>2 DEF Answer
<1>7. ASSUME NEW t \in Tenants, Talk(t) PROVE AnswerCase \/ QuietCase
  <2>1. ASSUME NEW c, NEW card, NEW action, ConfirmLate(t, c, card, action) PROVE QuietCase
    BY <2>1 DEF ConfirmLate, answers, QuietCase
  <2>3. ASSUME NEW c, NEW card, ConfirmUnknown(t, c, card) PROVE QuietCase
    BY <2>3 DEF ConfirmUnknown, answers, QuietCase
  <2>4. ASSUME UNCHANGED <<answers, told>> PROVE QuietCase
    BY <2>4 DEF answers, QuietCase
  <2> QED
    BY <1>4, <1>7, <2>1, <2>3, <2>4 DEF Talk
<1>8. ASSUME NEW t \in Tenants, Build(t) PROVE QuietCase
  BY <1>8 DEF Build, answers, QuietCase
<1>9. ASSUME UNCHANGED vars PROVE QuietCase
  BY <1>9 DEF vars, answers, QuietCase
<1> QED
  BY <1>5, <1>6, <1>7, <1>8, <1>9 DEF Next, RestartCase

-----------------------------------------------------------------------------
\* The types the arguments need.
LEMMA InitTyped == Init => Typed
  BY HomeAssumption
  DEF Init, ApprovalsInit, ChatInit, Typed, Row, Absent

\* What is done with the runs keeps the table's type.
LEMMA RunsTyped ==
  ASSUME Typed, AnswerCase \/ ArriveCase \/ RestartCase \/ QuietCase
  PROVE  runs' \in [Runs -> Row]
<1> USE DEF Typed
<1>1. CASE AnswerCase
  <2>1. PICK e, action, by : Answers(e, action, by)
    BY <1>1 DEF AnswerCase
  <2>2. action \in Action /\ by \in Tenants \cup {Slack} /\ DOMAIN e \subseteq Runs
    BY <2>1 DEF Answers
  <2>3. ASSUME NEW r \in DOMAIN e PROVE e[r].row \in Row
    <3>1. e[r] \in Endings(r, action, by) /\ r \in Runs /\ runs[r] \in Row
      BY <2>1, <2>2 DEF Answers
    <3>2. \A s \in {"absent", "awaiting_gate", "acting", "acted", "rejected"} :
            [state |-> s, gate |-> action, actor |-> by] \in Row
      BY <2>2 DEF Row
    <3> HIDE DEF Typed
    <3> QED
      BY <2>2, <3>1, <3>2, EndingCases
  <2>4. runs' = [r \in Runs |-> IF r \in DOMAIN e THEN e[r].row ELSE runs[r]]
    BY <2>1 DEF Answers, Settle
  <2> QED
    BY <2>3, <2>4
<1>2. CASE ArriveCase
  BY <1>2 DEF ArriveCase, Arrive, Row
<1>3. CASE RestartCase
  <2>1. Absent \in Row /\ [Absent EXCEPT !.state = "awaiting_gate"] \in Row
    BY DEF Absent, Row
  <2> QED
    BY <1>3, <2>1 DEF RestartCase, Restart, Hydrated, Saved
<1>4. CASE QuietCase
  BY <1>4 DEF QuietCase
<1> QED
  BY <1>1, <1>2, <1>3, <1>4

\* Every step keeps the types.
LEMMA NextTyped == Typed /\ [Next]_vars => Typed'
<1> SUFFICES ASSUME Typed, [Next]_vars PROVE Typed'
  OBVIOUS
<1>1. runs' \in [Runs -> Row]
  BY StepCases, RunsTyped
<1>2. known' \subseteq Tenants
  <2>1. ASSUME NEW t \in Tenants, Login(t) PROVE known' \subseteq Tenants
    BY <2>1 DEF Login, Typed
  <2>2. ASSUME UNCHANGED known PROVE known' \subseteq Tenants
    BY <2>2 DEF Typed
  <2>3. ASSUME Restart PROVE known' \subseteq Tenants
    BY <2>3, HomeAssumption DEF Restart
  <2>4. ASSUME Outside PROVE UNCHANGED known
    BY <2>4 DEF Outside, Arrive, SlackAnswer
  <2>5. ASSUME NEW t \in Tenants, Answer(t) PROVE UNCHANGED known \/ Login(t)
    BY <2>5 DEF Answer, Act, ActBulk, SetMode
  <2>6. ASSUME NEW t \in Tenants, Talk(t) \/ Build(t) PROVE UNCHANGED known
    BY <2>6 DEF Talk, Build
  <2>7. ASSUME UNCHANGED vars PROVE UNCHANGED known
    BY <2>7 DEF vars
  <2> QED
    BY <2>1, <2>2, <2>3, <2>4, <2>5, <2>6, <2>7 DEF Next
<1>3. \/ cards' = cards /\ proposals' \subseteq proposals
      \/ \E r \in Runs : /\ cards' = Append(cards, r)
                         /\ proposals' = proposals \cup {Len(cards) + 1}
  <2>1. ASSUME Outside \/ (\E t \in Tenants : Answer(t)) \/ UNCHANGED vars
        PROVE  UNCHANGED <<cards, proposals>>
    BY <2>1 DEF Outside, Answer, talk, vars
  <2>2. ASSUME NEW t \in Tenants, Build(t) PROVE UNCHANGED <<cards, proposals>>
    BY <2>2 DEF Build, AddInChat, talk
  <2>3. ASSUME Restart PROVE cards' = cards /\ proposals' \subseteq proposals
    BY <2>3 DEF Restart
  <2>4. ASSUME NEW t \in Tenants, Talk(t)
        PROVE  \/ cards' = cards /\ proposals' \subseteq proposals
               \/ \E r \in Runs : /\ cards' = Append(cards, r)
                                  /\ proposals' = proposals \cup {Len(cards) + 1}
    <3>1. ASSUME NEW c, Chat(t, c) \/ DeleteConv(t, c)
          PROVE  cards' = cards /\ proposals' \subseteq proposals
      BY <3>1 DEF Chat, DeleteConv
    <3>2. ASSUME NEW c, NEW r, ChatProposes(t, c, r)
          PROVE  cards' = Append(cards, r) /\ proposals' = proposals \cup {Len(cards) + 1}
      BY <3>2 DEF ChatProposes
    <3>3. ASSUME NEW c, NEW card, NEW action,
                 \/ ConfirmLate(t, c, card, action) \/ ConfirmDecides(t, c, card, action)
                 \/ ConfirmUnknown(t, c, card)
          PROVE  cards' = cards /\ proposals' \subseteq proposals
      BY <3>3 DEF ConfirmLate, ConfirmDecides, ConfirmUnknown
    <3> QED
      BY <2>4, <3>1, <3>2, <3>3 DEF Talk
  <2> QED
    BY <2>1, <2>2, <2>3, <2>4 DEF Next
<1>4. cards' \in Seq(Runs) /\ proposals' \subseteq DOMAIN cards'
  BY <1>3, CardAppended DEF Typed
<1> QED
  BY <1>1, <1>2, <1>4 DEF Typed

-----------------------------------------------------------------------------
LEMMA InitTruth == Init => TruthInv
  BY OwnerAssumption
  DEF Init, ApprovalsInit, TruthInv, FiledOrLost, ToldTheTruth, DecidedByItsTenant, Absent

\* A run that waits was told about by nobody, and its decision is told as it
\* went; a run that is decided is answered no more.
LEMMA AnswerTruth ==
  ASSUME Typed, TruthInv, AnswerCase PROVE TruthInv'
<1>1. PICK e, action, by : Answers(e, action, by)
  BY DEF AnswerCase
<1>2. action \in Action /\ by \in Tenants \cup {Slack} /\ DOMAIN e \subseteq Runs
  BY <1>1 DEF Answers
<1>3. ASSUME NEW r \in Runs
      PROVE  /\ runs'[r] = IF r \in DOMAIN e THEN e[r].row ELSE runs[r]
             /\ r \in filed' <=> r \in filed \/ (r \in DOMAIN e /\ e[r].sent)
             /\ r \in lost' <=> r \in lost \/ (r \in DOMAIN e /\ e[r].sent /\ ~e[r].ok)
             /\ \A word : <<r, word>> \in told' =>
                  <<r, word>> \in told \/ (r \in DOMAIN e /\ e[r].ok /\ word = Word(action))
  BY <1>1 DEF Answers, Settle, Tell
<1>4. ASSUME NEW r \in Runs, r \notin DOMAIN e
      PROVE  runs'[r] = runs[r] /\ (r \in filed' <=> r \in filed)
             /\ (r \in lost' <=> r \in lost)
             /\ \A word : <<r, word>> \in told' => <<r, word>> \in told
  BY <1>3, <1>4
<1>5. ASSUME NEW r \in Runs, r \in DOMAIN e
      PROVE  /\ r \in filed' => runs'[r].state = "acted" \/ r \in lost'
             /\ <<r, "sent">> \in told' => r \in filed' /\ runs'[r].state = "acted"
             /\ <<r, "dismissed">> \in told' => /\ runs'[r].state = "rejected"
                                                /\ r \in filed' => r \in lost'
             /\ runs'[r].actor \in {Owner[r], Slack, Nobody}
  <2>1. /\ runs[r].state = "awaiting_gate" /\ by \in {Owner[r], Slack}
        /\ e[r] \in Endings(r, action, by)
    BY <1>1, <1>5 DEF Answers, Awaiting
  <2>2. /\ <<r, "sent">> \notin told /\ <<r, "dismissed">> \notin told
        /\ r \in filed => r \in lost
        /\ runs[r].actor \in {Owner[r], Slack, Nobody}
    BY <2>1 DEF TruthInv, FiledOrLost, ToldTheTruth, DecidedByItsTenant
  <2>3. /\ runs'[r] = e[r].row
        /\ r \in filed' <=> r \in filed \/ e[r].sent
        /\ r \in lost' <=> r \in lost \/ (e[r].sent /\ ~e[r].ok)
        /\ <<r, "sent">> \in told' => e[r].ok /\ "sent" = Word(action)
        /\ <<r, "dismissed">> \in told' => e[r].ok /\ "dismissed" = Word(action)
    BY <1>3, <1>5, <2>2
  <2>4. CASE e[r].row = runs[r] /\ ~e[r].ok /\ ~e[r].sent
    BY <2>2, <2>3, <2>4
  <2>5. CASE /\ action = "reject" /\ e[r].ok /\ ~e[r].sent
             /\ e[r].row = [state |-> "rejected", gate |-> action, actor |-> by]
    BY <2>1, <2>2, <2>3, <2>5 DEF Word
  <2>6. CASE /\ action # "reject" /\ e[r].ok /\ e[r].sent
             /\ e[r].row = [state |-> "acted", gate |-> action, actor |-> by]
    BY <2>1, <2>2, <2>3, <2>6 DEF Word
  <2>7. CASE /\ e[r].row = [state |-> "acting", gate |-> action, actor |-> by]
             /\ ~e[r].ok /\ (e[r].sent \/ ~e[r].sent)
    BY <2>1, <2>2, <2>3, <2>7
  <2>8. CASE /\ e[r].row = [state |-> "awaiting_gate", gate |-> action, actor |-> by]
             /\ ~e[r].ok /\ ~e[r].sent
    BY <2>1, <2>2, <2>3, <2>8
  <2> QED
    BY <1>2, <2>1, <2>4, <2>5, <2>6, <2>7, <2>8, EndingCases
<1>6. FiledOrLost'
  <2>1. ASSUME NEW r \in Runs PROVE r \in filed' => runs'[r].state = "acted" \/ r \in lost'
    <3>1. CASE r \in DOMAIN e
      BY <1>5, <3>1
    <3>2. CASE r \notin DOMAIN e
      BY <1>4, <3>2 DEF TruthInv, FiledOrLost
    <3> QED
      BY <3>1, <3>2
  <2> QED
    BY <2>1 DEF FiledOrLost
<1>7. ToldTheTruth'
  <2>1. ASSUME NEW r \in Runs, r \notin DOMAIN e
        PROVE  /\ <<r, "sent">> \in told' => r \in filed' /\ runs'[r].state = "acted"
               /\ <<r, "dismissed">> \in told' => /\ runs'[r].state = "rejected"
                                                  /\ r \in filed' => r \in lost'
    <3>1. /\ <<r, "sent">> \in told => r \in filed /\ runs[r].state = "acted"
          /\ <<r, "dismissed">> \in told => /\ runs[r].state = "rejected"
                                            /\ r \in filed => r \in lost
      BY DEF TruthInv, ToldTheTruth
    <3> QED
      BY <1>4, <2>1, <3>1
  <2>2. ASSUME NEW r \in Runs
        PROVE  /\ <<r, "sent">> \in told' => r \in filed' /\ runs'[r].state = "acted"
               /\ <<r, "dismissed">> \in told' => /\ runs'[r].state = "rejected"
                                                  /\ r \in filed' => r \in lost'
    <3>1. CASE r \in DOMAIN e
      BY <1>5, <3>1
    <3>2. CASE r \notin DOMAIN e
      BY <2>1, <3>2
    <3> QED
      BY <3>1, <3>2
  <2> QED
    BY <2>2 DEF ToldTheTruth
<1>8. DecidedByItsTenant'
  BY <1>4, <1>5 DEF TruthInv, DecidedByItsTenant
<1> QED
  BY <1>6, <1>7, <1>8 DEF TruthInv

\* A card that arrives was never told about.
LEMMA ArriveTruth ==
  ASSUME Typed, TruthInv, ArriveCase PROVE TruthInv'
<1>1. PICK r \in Runs : Arrive(r)
  BY DEF ArriveCase
<1>2. UNCHANGED <<filed, lost, told>>
  BY <1>1 DEF Arrive
<1>3. runs[r].state = "absent" /\ runs[r].actor = Nobody
  BY <1>1 DEF Arrive, Absent
<1>4. /\ \A x \in Runs : x # r => runs'[x] = runs[x]
      /\ runs'[r].state = "awaiting_gate" /\ runs'[r].actor = Nobody
  BY <1>1, <1>3 DEF Arrive, Typed, Row
<1>5. FiledOrLost'
  BY <1>2, <1>3, <1>4 DEF TruthInv, FiledOrLost
<1>6. ToldTheTruth'
  BY <1>2, <1>3, <1>4 DEF TruthInv, ToldTheTruth
<1>7. DecidedByItsTenant'
  BY <1>4 DEF TruthInv, DecidedByItsTenant
<1> QED
  BY <1>5, <1>6, <1>7 DEF TruthInv

\* A restart forgets only decisions that were never told.
LEMMA RestartTruth ==
  ASSUME Typed, TruthInv, RestartCase PROVE TruthInv'
<1>1. UNCHANGED <<filed, lost, told>>
  BY DEF RestartCase, Restart
<1>2. ASSUME NEW r \in Runs
      PROVE  \/ runs'[r] = runs[r]
             \/ /\ runs[r].state \in {"awaiting_gate", "acting"}
                /\ runs'[r].actor = Nobody
  BY DEF RestartCase, Restart, Hydrated, Saved, Absent
<1>3. FiledOrLost'
  BY <1>1, <1>2 DEF TruthInv, FiledOrLost
<1>4. ToldTheTruth'
  BY <1>1, <1>2 DEF TruthInv, ToldTheTruth
<1>5. DecidedByItsTenant'
  BY <1>2 DEF TruthInv, DecidedByItsTenant
<1> QED
  BY <1>3, <1>4, <1>5 DEF TruthInv

LEMMA NextTruth == Typed /\ TruthInv /\ [Next]_vars => TruthInv'
<1>1. ASSUME TruthInv, QuietCase PROVE TruthInv'
  BY <1>1 DEF QuietCase, TruthInv, FiledOrLost, ToldTheTruth, DecidedByItsTenant
<1> QED
  BY <1>1, StepCases, AnswerTruth, ArriveTruth, RestartTruth

\* The invariant of the process.
LEMMA TruthInvariant == Spec => [](Typed /\ TruthInv)
<1>1. Init => Typed /\ TruthInv
  BY InitTyped, InitTruth
<1>2. Typed /\ TruthInv /\ [Next]_vars => (Typed /\ TruthInv)'
  BY NextTyped, NextTruth
<1> QED
  BY <1>1, <1>2, PTL DEF Spec

\* What people were told in the chat or in Slack (server.py, confirm() and
\* _slack_interaction()) stays true of the bank and of the record, over
\* restarts, lost replies and every other card of the same run.
THEOREM ToldTheTruthHolds == Spec => []ToldTheTruth
<1>1. TruthInv => ToldTheTruth
  BY DEF TruthInv
<1> QED
  BY <1>1, TruthInvariant, PTL

\* No session decides a run of another tenant (server.py, /act, /act/bulk and
\* confirm()): the actor on a gate is its tenant or somebody in Slack.
THEOREM DecidedByItsTenantHolds == Spec => []DecidedByItsTenant
<1>1. TruthInv => DecidedByItsTenant
  BY DEF TruthInv
<1> QED
  BY <1>1, TruthInvariant, PTL

-----------------------------------------------------------------------------
\* A clean yes on the record was given; with it, SmallWasEarned is inductive.
YesesOnRecord == /\ yeses \subseteq Runs
                 /\ \A r \in Runs : runs[r].gate = "approve" => r \in yeses

EarnedInv == YesesOnRecord /\ mode \in [Tenants -> Mode] /\ SmallWasEarned

\* A gate says "approve" only if it did, or was open and is approved now.
LEMMA EndingApproves ==
  ASSUME NEW r \in Runs, NEW action \in Action, NEW actor,
         NEW end \in Endings(r, action, actor), end.row.gate = "approve"
  PROVE  runs[r].gate = "approve" \/ (runs[r].gate = "none" /\ action = "approve")
<1>1. CASE runs[r].gate # "none"
  BY <1>1 DEF Endings, Ending
<1>2. CASE runs[r].gate = "none" /\ action = "reject"
  BY <1>2 DEF Endings, Ending
<1>3. CASE runs[r].gate = "none" /\ action # "reject"
  BY <1>3 DEF Endings, Ending
<1> QED
  BY <1>1, <1>2, <1>3

\* Yeses are only added, and what is on the record is among them.
LEMMA YesesStep ==
  ASSUME Typed, YesesOnRecord, AnswerCase \/ ArriveCase \/ RestartCase \/ QuietCase
  PROVE  YesesOnRecord' /\ yeses \subseteq yeses'
<1>1. CASE AnswerCase
  <2>1. PICK e, action, by : Answers(e, action, by)
    BY <1>1 DEF AnswerCase
  <2>2. /\ action \in Action /\ DOMAIN e \subseteq Runs
        /\ runs' = [r \in Runs |-> IF r \in DOMAIN e THEN e[r].row ELSE runs[r]]
        /\ yeses' = yeses \cup {r \in DOMAIN e : action = "approve" /\ runs[r].gate = "none"}
    BY <2>1 DEF Answers, Settle
  <2>3. ASSUME NEW r \in Runs, runs'[r].gate = "approve" PROVE r \in yeses'
    <3>1. CASE r \in DOMAIN e
      <4>1. e[r] \in Endings(r, action, by) /\ e[r].row.gate = "approve"
        BY <2>1, <2>2, <2>3, <3>1 DEF Answers
      <4>2. runs[r].gate = "approve" \/ (runs[r].gate = "none" /\ action = "approve")
        BY <2>2, <4>1, EndingApproves
      <4> QED
        BY <2>2, <3>1, <4>2 DEF YesesOnRecord
    <3>2. CASE r \notin DOMAIN e
      BY <2>2, <2>3, <3>2 DEF YesesOnRecord
    <3> QED
      BY <3>1, <3>2
  <2> QED
    BY <2>2, <2>3 DEF YesesOnRecord
<1>2. CASE ArriveCase
  <2>1. PICK r \in Runs : Arrive(r)
    BY <1>2 DEF ArriveCase
  <2>2. \A x \in Runs : runs'[x].gate = runs[x].gate
    BY <2>1 DEF Arrive, Typed, Row
  <2> QED
    BY <2>1, <2>2 DEF Arrive, YesesOnRecord
<1>3. CASE RestartCase
  <2>1. \A r \in Runs : runs'[r].gate = runs[r].gate \/ runs'[r].gate = "none"
    BY <1>3 DEF RestartCase, Restart, Hydrated, Saved, Absent
  <2> QED
    BY <1>3, <2>1 DEF RestartCase, Restart, YesesOnRecord
<1>4. CASE QuietCase
  BY <1>4 DEF QuietCase, YesesOnRecord
<1> QED
  BY <1>1, <1>2, <1>3, <1>4

\* Only /api/mode changes a mode.
LEMMA ModeStep ==
  ASSUME [Next]_vars
  PROVE  \/ mode' = mode
         \/ /\ yeses' = yeses
            /\ \E t \in Tenants, m \in Mode :
                 (m = "small" => Unlocked(t)) /\ mode' = [mode EXCEPT ![t] = m]
<1>1. ASSUME Outside \/ Restart \/ UNCHANGED vars PROVE mode' = mode
  BY <1>1 DEF Outside, Restart, vars, Arrive, SlackAnswer
<1>2. ASSUME NEW t \in Tenants, Talk(t) \/ Build(t) PROVE mode' = mode
  BY <1>2 DEF Talk, Build
<1>3. ASSUME NEW t \in Tenants, Answer(t)
      PROVE  mode' = mode \/ \E m \in Mode : SetMode(t, m)
  BY <1>3 DEF Answer, Act, ActBulk, Login
<1>4. ASSUME NEW t \in Tenants, NEW m \in Mode, SetMode(t, m)
      PROVE  /\ yeses' = yeses /\ (m = "small" => Unlocked(t))
             /\ mode' = [mode EXCEPT ![t] = m]
  BY <1>4 DEF SetMode, answers
<1> QED
  BY <1>1, <1>2, <1>3, <1>4 DEF Next

\* A larger set of runs has at least as many.
LEMMA MoreRuns ==
  ASSUME NEW A, NEW B, A \subseteq B, B \subseteq Runs
  PROVE  /\ Cardinality(A) \in Nat /\ Cardinality(B) \in Nat
         /\ Cardinality(A) <= Cardinality(B)
<1>1. IsFiniteSet(B)
  BY YesAssumption, FS_Subset
<1> QED
  BY <1>1, FS_Subset, FS_CardinalityType

LEMMA EarnedStep ==
  ASSUME Typed, EarnedInv, [Next]_vars PROVE EarnedInv'
<1>1. YesesOnRecord' /\ yeses \subseteq yeses'
  BY StepCases, YesesStep DEF EarnedInv
<1>2. yeses \subseteq Runs /\ yeses' \subseteq Runs
  BY <1>1 DEF EarnedInv, YesesOnRecord
<1>3. mode' \in [Tenants -> Mode]
  BY ModeStep DEF EarnedInv
<1>4. ASSUME NEW t \in Tenants, mode'[t] = "small"
      PROVE  Cardinality({r \in yeses' : Owner[r] = t}) >= YesTarget
  <2> DEFINE Had == {r \in yeses : Owner[r] = t}
             Has == {r \in yeses' : Owner[r] = t}
             Seen == {r \in Runs : Owner[r] = t /\ runs[r].gate = "approve"}
  <2>1. Had \subseteq Has /\ Has \subseteq Runs /\ Seen \subseteq Had /\ Had \subseteq Runs
    BY <1>1, <1>2 DEF EarnedInv, YesesOnRecord
  <2>2. Cardinality(Had) >= YesTarget \/ Cardinality(Seen) >= YesTarget
    <3>1. CASE mode[t] = "small"
      BY <3>1 DEF EarnedInv, SmallWasEarned
    <3>2. CASE mode[t] # "small"
      <4>1. PICK u \in Tenants, m \in Mode :
                 (m = "small" => Unlocked(u)) /\ mode' = [mode EXCEPT ![u] = m]
        BY <1>4, <3>2, ModeStep
      <4>2. u = t /\ m = "small"
        BY <1>4, <3>2, <4>1 DEF EarnedInv
      <4> QED
        BY <4>1, <4>2 DEF Unlocked, CleanYeses
    <3> QED
      BY <3>1, <3>2
  <2> HIDE DEF Had, Has, Seen
  <2>3. /\ Cardinality(Had) \in Nat /\ Cardinality(Has) \in Nat /\ Cardinality(Seen) \in Nat
        /\ Cardinality(Seen) <= Cardinality(Had) /\ Cardinality(Had) <= Cardinality(Has)
    BY <2>1, MoreRuns
  <2>4. Cardinality(Has) >= YesTarget
    BY <2>2, <2>3, YesAssumption
  <2> QED
    BY <2>4 DEF Has
<1>5. SmallWasEarned'
  BY <1>4 DEF SmallWasEarned
<1> QED
  BY <1>1, <1>3, <1>5 DEF EarnedInv

\* The mode that lets small ones go (server.py, /api/mode) was earned by clean
\* approvals, however many of them a restart has forgotten.
THEOREM SmallWasEarnedHolds == Spec => []SmallWasEarned
<1>1. Init => Typed /\ EarnedInv
  <2>1. Init => YesesOnRecord /\ mode \in [Tenants -> Mode] /\ \A t \in Tenants : mode[t] = "all"
    BY DEF Init, ApprovalsInit, YesesOnRecord, Absent, Mode
  <2> QED
    BY <2>1, InitTyped DEF EarnedInv, SmallWasEarned
<1>2. Typed /\ EarnedInv /\ [Next]_vars => (Typed /\ EarnedInv)'
  BY NextTyped, EarnedStep
<1>3. EarnedInv => SmallWasEarned
  BY DEF EarnedInv
<1> QED
  BY <1>1, <1>2, <1>3, PTL DEF Spec
=============================================================================
