---------------------------- MODULE BuilderProofs ----------------------------
(***************************************************************************)
(* One draft becomes one agent, at an address of its own: for any tenants, *)
(* names, drafts, doors and restarts; the types of the whole process; and  *)
(* a card whose run waits is not spent.                                    *)
(***************************************************************************)
EXTENDS WorkspaceProofs, WellFoundedInduction

-----------------------------------------------------------------------------
(* The free address.                                                       *)

\* Some number of a set of numbers is the least.
LEMMA LeastNumber ==
  ASSUME NEW I, I \subseteq Nat, I # {}
  PROVE  \E i \in I : \A j \in I : i <= j
<1> DEFINE R == OpToRel(<, Nat)
<1>1. IsWellFoundedOn(R, Nat)
  BY NatLessThanWellFounded
<1>2. \A i, j \in Nat : <<j, i>> \in R <=> j < i
  BY DEF OpToRel
<1> HIDE DEF R
<1>3. PICK i \in I : \A j \in I : ~(<<j, i>> \in R)
  BY <1>1, WFMin
<1>4. ASSUME NEW j \in I PROVE i <= j
  <2>1. i \in Nat /\ j \in Nat
    OBVIOUS
  <2>2. ~(j < i)
    BY <1>2, <1>3, <2>1
  <2> QED BY <2>1, <2>2
<1> QED BY <1>4

\* Some number of a bounded set of numbers is the greatest.
LEMMA GreatestNumber ==
  ASSUME NEW n \in Nat, NEW I, I \subseteq 1..n, I # {}
  PROVE  \E i \in I : \A j \in I : j <= i
<1> DEFINE B == {m \in Nat : \A i \in I : i <= m}
<1>1. \A i \in I : i \in Nat /\ 1 <= i /\ i <= n
  OBVIOUS
<1>2. B \subseteq Nat /\ n \in B
  BY <1>1
<1>3. PICK m \in B : \A k \in B : m <= k
  BY <1>2, LeastNumber
<1>4. m \in Nat /\ \A i \in I : i <= m
  BY <1>3
<1>5. m \in I
  <2> SUFFICES ASSUME m \notin I PROVE FALSE
    OBVIOUS
  <2>1. \A i \in I : i <= m - 1
    BY <1>1, <1>4
  <2>2. PICK i \in I : TRUE
    OBVIOUS
  <2>3. m - 1 \in Nat
    BY <1>1, <1>4, <2>2
  <2>4. m - 1 \in B
    BY <2>1, <2>3
  <2>5. m <= m - 1
    BY <1>3, <2>4
  <2> QED BY <1>4, <2>5
<1> QED BY <1>4, <1>5

\* The addresses taken are finitely many.
LEMMA TakenFinite ==
  ASSUME BuilderTypes
  PROVE  IsFiniteSet(Taken)
<1> DEFINE T == {built[i].slug : i \in DOMAIN built}
           f == [i \in DOMAIN built |-> built[i].slug]
<1>1. DOMAIN built = 1..Len(built) /\ Len(built) \in Nat
  BY LenProperties DEF BuilderTypes
<1>2. IsFiniteSet(DOMAIN built)
  BY <1>1, FS_Interval
<1>3. f \in Surjection(DOMAIN built, T)
  BY DEF Surjection
<1>4. IsFiniteSet(T)
  BY <1>2, <1>3, FS_Surjection
<1> QED BY <1>4, NamesAssumption, FS_Union DEF Taken

\* A number at the end makes another name of each name.
LEMMA Numbered ==
  ASSUME NEW name \in Seq(Nat), NEW m \in Nat
  PROVE  /\ Append(name, m) \in Seq(Nat)
         /\ Append(name, m)[Len(name) + 1] = m
  BY AppendProperties

\* The address an agent gets is one nobody has: of one number more than there
\* are addresses, one is free.
LEMMA FreeSlugIsFree ==
  ASSUME BuilderTypes, NEW name \in Seq(Nat)
  PROVE  FreeSlug(name) \in Seq(Nat) /\ FreeSlug(name) \notin Taken
<1>1. CASE name \notin Taken
  BY <1>1 DEF FreeSlug
<1>2. CASE name \in Taken
  <2> DEFINE C == Cardinality(Taken)
             S == 2..(C + 2)
             free == {n \in S : Append(name, n) \notin Taken}
  <2>1. IsFiniteSet(Taken) /\ C \in Nat
    BY TakenFinite, FS_CardinalityType
  <2>2. IsFiniteSet(S) /\ Cardinality(S) = C + 1
    <3>1. 2 \in Int /\ C + 2 \in Int /\ ~(2 > C + 2) /\ (C + 2) - 2 + 1 = C + 1
      BY <2>1
    <3> HIDE DEF C
    <3> QED BY <3>1, FS_Interval
  <2>3. C < Cardinality(S)
    BY <2>1, <2>2
  <2>4. S \subseteq Nat
    BY <2>1
  <2>5. free # {}
    <3> SUFFICES ASSUME free = {} PROVE FALSE
      OBVIOUS
    <3> DEFINE f == [n \in S |-> Append(name, n)]
    <3>1. f \in [S -> Taken]
      OBVIOUS
    <3> HIDE DEF f, S, C
    <3>2. PICK x, y \in S : x # y /\ f[x] = f[y]
      BY <2>1, <2>2, <2>3, <3>1, FS_PigeonHole DEF C
    <3>3. Append(name, x) = Append(name, y)
      BY <3>2 DEF f
    <3>4. x \in Nat /\ y \in Nat
      BY <2>4, <3>2
    <3>5. x = y
      BY <3>3, <3>4, Numbered
    <3> QED BY <3>2, <3>5
  <2>6. free \subseteq Nat /\ \A n \in free : Append(name, n) \notin Taken
    BY <2>4
  <2> DEFINE least == CHOOSE n \in free : \A m \in free : n <= m
  <2>7. FreeSlug(name) = Append(name, least)
    BY <1>2 DEF FreeSlug
  <2> HIDE DEF free
  <2>8. \E n \in free : \A m \in free : n <= m
    BY <2>5, <2>6, LeastNumber
  <2>9. least \in free
    BY <2>8
  <2> HIDE DEF least
  <2> QED BY <2>6, <2>7, <2>9, Numbered
<1> QED BY <1>1, <1>2

-----------------------------------------------------------------------------
(* The ways a step may touch the drafts and the agents.                    *)

DrawnCase ==
  \E d \in Draft : /\ d.mark = drawn + 1 /\ drawn' = drawn + 1
                   /\ drafts' = Append(drafts, d) /\ built' = built

RewrittenCase ==
  \E b \in DOMAIN drafts : \E d \in Draft :
    /\ Pending(b) /\ d.mark = drafts[b].mark
    /\ drafts' = [drafts EXCEPT ![b] = d] /\ built' = built /\ drawn' = drawn

AddedCase == \E b \in DOMAIN drafts : Pending(b) /\ Add(b)

LostCase == drafts' = <<>> /\ built' = <<>> /\ drawn' = drawn

\* A draft that is pending is a draft of some tenant.
LEMMA PendingDraft ==
  ASSUME BuilderTypes, NEW b, Pending(b)
  PROVE  b \in DOMAIN drafts /\ drafts[b] \in Draft
<1>1. b \in DOMAIN drafts /\ drafts[b] # Gone
  BY DEF Pending
<1>2. drafts[b] \in Draft \cup {Gone}
  BY <1>1, ElementOfSeq, LenProperties DEF BuilderTypes
<1> QED BY <1>1, <1>2

\* What a draft may be rewritten to.
LEMMA Rewritten ==
  ASSUME NEW d \in Draft
  PROVE  /\ \A own \in OwnAnswers : /\ [d EXCEPT !.own = own] \in Draft
                                    /\ [d EXCEPT !.own = own].mark = d.mark
                                    /\ [d EXCEPT !.own = own, !.stage = "q2"] \in Draft
                                    /\ [d EXCEPT !.own = own, !.stage = "q2"].mark = d.mark
         /\ \A name \in Names : /\ [d EXCEPT !.name = name] \in Draft
                                /\ [d EXCEPT !.name = name].mark = d.mark
                                /\ [d EXCEPT !.name = name, !.stage = "done"] \in Draft
                                /\ [d EXCEPT !.name = name, !.stage = "done"].mark = d.mark
  BY NamesAssumption DEF Draft, Stage

\* The model and the keywords draw names.
LEMMA NamesDrawn == _build_draft \subseteq Names /\ Names \subseteq Seq(Nat)
  BY NamesAssumption DEF _build_draft, _llm_build_draft

LEMMA DrawCase ==
  ASSUME BuilderTypes, NEW t \in Tenants, NEW stage \in Stage, Draw(t, stage)
  PROVE  DrawnCase
<1>1. PICK name \in _build_draft :
        drafts' = Append(drafts, [tenant |-> t, name |-> name, mark |-> drawn + 1,
                                  stage |-> stage, own |-> {}])
  BY DEF Draw
<1> DEFINE d == [tenant |-> t, name |-> name, mark |-> drawn + 1, stage |-> stage, own |-> {}]
<1>2. name \in Seq(Nat) /\ drawn + 1 \in Nat
  BY NamesDrawn DEF BuilderTypes
<1>3. d \in Draft /\ d.mark = drawn + 1
  BY <1>2 DEF Draft
<1>4. drafts' = Append(drafts, d)
  BY <1>1
<1> HIDE DEF d
<1> QED BY <1>3, <1>4 DEF Draw, DrawnCase

LEMMA RewriteCase ==
  ASSUME BuilderTypes, NEW b, Pending(b), NEW d \in Draft, d.mark = drafts[b].mark,
         drafts' = [drafts EXCEPT ![b] = d], UNCHANGED <<drawn, built>>
  PROVE  RewrittenCase
  BY DEF RewrittenCase, Pending

\* Every step is one of these, or leaves drafts and agents alone.
LEMMA BuildCases ==
  ASSUME BuilderTypes, [Next]_vars
  PROVE  DrawnCase \/ RewrittenCase \/ AddedCase \/ LostCase \/ UNCHANGED build
<1>1. ASSUME NEW t \in Tenants, Build(t)
      PROVE  DrawnCase \/ RewrittenCase \/ AddedCase \/ UNCHANGED build
  <2>1. ASSUME DrawOnPage(t) \/ \E c : DrawInChat(t, c)
        PROVE  DrawnCase
    BY <2>1, DrawCase DEF DrawOnPage, DrawInChat, Stage
  <2>2. ASSUME NEW b, NEW own \in OwnAnswers, AnswerInChat(b, own)
        PROVE  RewrittenCase \/ UNCHANGED build
    <3>1. CASE Pending(b)
      <4>1. drafts[b] \in Draft
        BY <3>1, PendingDraft
      <4>2. drafts' = [drafts EXCEPT ![b] = [drafts[b] EXCEPT !.own = own]]
        BY <2>2, <3>1 DEF AnswerInChat
      <4>3. UNCHANGED <<drawn, built>>
        BY <2>2 DEF AnswerInChat
      <4> QED BY <3>1, <4>1, <4>2, <4>3, Rewritten, RewriteCase
    <3>2. CASE ~Pending(b)
      BY <2>2, <3>2 DEF AnswerInChat, build
    <3> QED BY <3>1, <3>2
  <2>3. ASSUME NEW b, NEW own \in OwnAnswers, AnswerOnPage(t, b, own)
        PROVE  RewrittenCase
    <3>1. Pending(b) /\ UNCHANGED <<drawn, built>>
      BY <2>3 DEF AnswerOnPage, Drawable
    <3>2. drafts[b] \in Draft
      BY <3>1, PendingDraft
    <3>3. drafts' = [drafts EXCEPT ![b] = [drafts[b] EXCEPT !.own = own, !.stage = "q2"]]
      BY <2>3 DEF AnswerOnPage
    <3> QED BY <3>1, <3>2, <3>3, Rewritten, RewriteCase
  <2>4. ASSUME NEW b, Finish(t, b)
        PROVE  RewrittenCase
    <3>1. Pending(b) /\ UNCHANGED <<drawn, built>>
      BY <2>4 DEF Finish, Drawable
    <3>2. drafts[b] \in Draft
      BY <3>1, PendingDraft
    <3>3. PICK name \in Names :
            drafts' = [drafts EXCEPT ![b] = [drafts[b] EXCEPT !.name = name, !.stage = "done"]]
      BY <2>4 DEF Finish
    <3> QED BY <3>1, <3>2, <3>3, Rewritten, RewriteCase
  <2>5. ASSUME NEW b, Redraw(t, b)
        PROVE  RewrittenCase
    <3>1. Pending(b) /\ UNCHANGED <<drawn, built>>
      BY <2>5 DEF Redraw, Drawable
    <3>2. drafts[b] \in Draft
      BY <3>1, PendingDraft
    <3>3. PICK name \in _build_draft :
            drafts' = [drafts EXCEPT ![b] = [drafts[b] EXCEPT !.name = name]]
      BY <2>5 DEF Redraw
    <3>4. name \in Names
      BY NamesDrawn
    <3> QED BY <3>1, <3>2, <3>3, <3>4, Rewritten, RewriteCase
  <2>6. ASSUME NEW b, AddOnPage(t, b) \/ \E c : AddInChat(t, c, b)
        PROVE  AddedCase \/ UNCHANGED build
    BY <2>6 DEF AddOnPage, AddInChat, Drawable, Pending, AddedCase
  <2> QED BY <1>1, <2>1, <2>2, <2>3, <2>4, <2>5, <2>6 DEF Build
<1>2. ASSUME Outside \/ (\E t \in Tenants : Answer(t) \/ Talk(t)) \/ UNCHANGED vars
      PROVE  UNCHANGED build
  BY <1>2 DEF Outside, Answer, Talk, vars
<1>3. ASSUME Restart PROVE LostCase
  BY <1>3 DEF Restart, LostCase
<1> QED BY <1>1, <1>2, <1>3 DEF Next

-----------------------------------------------------------------------------
(* One draft, one agent.                                                   *)

\* Marks are given once, and an agent has the mark of a draft that is gone.
MarksOK ==
  /\ \A b \in DOMAIN drafts : Pending(b) => drafts[b].mark <= drawn
  /\ \A b, c \in DOMAIN drafts :
       Pending(b) /\ Pending(c) /\ b # c => drafts[b].mark # drafts[c].mark
  /\ \A i \in DOMAIN built : built[i].draft <= drawn
  /\ \A i \in DOMAIN built : \A b \in DOMAIN drafts :
       Pending(b) => built[i].draft # drafts[b].mark

AgentsOK ==
  /\ \A i, j \in DOMAIN built :
       i # j => built[i].draft # built[j].draft /\ built[i].slug # built[j].slug
  /\ \A i \in DOMAIN built : built[i].slug \notin Shipped

BuildInv == BuilderTypes /\ MarksOK /\ AgentsOK

\* A sequence with an element more.
LEMMA OneMore ==
  ASSUME NEW S, NEW s \in Seq(S), NEW e \in S
  PROVE  /\ Append(s, e) \in Seq(S)
         /\ DOMAIN Append(s, e) = DOMAIN s \cup {Len(s) + 1}
         /\ Len(s) + 1 \notin DOMAIN s
         /\ \A j \in DOMAIN s : Append(s, e)[j] = s[j]
         /\ Append(s, e)[Len(s) + 1] = e
<1>1. Len(s) \in Nat /\ DOMAIN s = 1..Len(s)
  BY LenProperties
<1>2. /\ Append(s, e) \in Seq(S)
      /\ \A j \in 1..Len(s) : Append(s, e)[j] = s[j]
      /\ Append(s, e)[Len(s) + 1] = e
      /\ DOMAIN Append(s, e) = 1..(Len(s) + 1)
  BY AppendProperties, LenProperties
<1>3. 1..(Len(s) + 1) = (1..Len(s)) \cup {Len(s) + 1} /\ Len(s) + 1 \notin 1..Len(s)
  BY <1>1
<1> QED BY <1>1, <1>2, <1>3

\* A sequence with one element another.
LEMMA OneOther ==
  ASSUME NEW S, NEW s \in Seq(S), NEW i \in DOMAIN s, NEW e \in S
  PROVE  /\ [s EXCEPT ![i] = e] \in Seq(S)
         /\ DOMAIN [s EXCEPT ![i] = e] = DOMAIN s
         /\ \A j \in DOMAIN s : [s EXCEPT ![i] = e][j] = IF j = i THEN e ELSE s[j]
<1>1. i \in 1..Len(s)
  BY LenProperties
<1> QED BY <1>1, ExceptSeq

LEMMA DrawnInv ==
  ASSUME BuildInv, DrawnCase PROVE BuildInv'
<1>1. PICK d \in Draft : /\ d.mark = drawn + 1 /\ drawn' = drawn + 1
                         /\ drafts' = Append(drafts, d) /\ built' = built
  BY DEF DrawnCase
<1> DEFINE n == Len(drafts) + 1
<1>2. /\ drafts' \in Seq(Draft \cup {Gone})
      /\ DOMAIN drafts' = DOMAIN drafts \cup {n} /\ n \notin DOMAIN drafts
      /\ \A b \in DOMAIN drafts : drafts'[b] = drafts[b]
      /\ drafts'[n] = d
  BY <1>1, OneMore DEF BuildInv, BuilderTypes
<1> HIDE DEF n
<1>3. drawn \in Nat /\ drawn' = drawn + 1
  BY <1>1 DEF BuildInv, BuilderTypes
<1>4. BuilderTypes'
  BY <1>1, <1>2, <1>3 DEF BuildInv, BuilderTypes
<1>5. \A b \in DOMAIN drafts : Pending(b)' <=> Pending(b)
  BY <1>2 DEF Pending
<1>6. \A b \in DOMAIN drafts : Pending(b) => drafts[b].mark \in Nat /\ drafts[b].mark <= drawn
  BY PendingDraft DEF BuildInv, MarksOK, Draft
<1>7. \A i \in DOMAIN built : built[i].draft \in Nat /\ built[i].draft <= drawn
  <2>1. \A i \in DOMAIN built : built[i] \in Agent
    BY ElementOfSeq, LenProperties DEF BuildInv, BuilderTypes
  <2> QED BY <2>1 DEF BuildInv, MarksOK, Agent
<1>8. \A b \in DOMAIN drafts : Pending(b)' => drafts'[b].mark \in Nat /\ drafts'[b].mark <= drawn
  BY <1>2, <1>5, <1>6
<1>9. drafts'[n].mark = drawn + 1
  BY <1>1, <1>2
<1>10. MarksOK'
  <2>1. \A b \in DOMAIN drafts' : Pending(b)' => drafts'[b].mark <= drawn'
    BY <1>2, <1>3, <1>8, <1>9
  <2>2. ASSUME NEW b \in DOMAIN drafts', NEW c \in DOMAIN drafts',
               Pending(b)', Pending(c)', b # c
        PROVE  drafts'[b].mark # drafts'[c].mark
    <3>1. CASE b = n
      BY <1>2, <1>3, <1>8, <1>9, <2>2, <3>1
    <3>2. CASE c = n
      BY <1>2, <1>3, <1>8, <1>9, <2>2, <3>2
    <3>3. CASE b # n /\ c # n
      BY <1>2, <1>5, <2>2, <3>3 DEF BuildInv, MarksOK
    <3> QED BY <3>1, <3>2, <3>3
  <2>3. \A i \in DOMAIN built' : built'[i].draft <= drawn'
    BY <1>1, <1>3, <1>7
  <2>4. ASSUME NEW i \in DOMAIN built', NEW b \in DOMAIN drafts', Pending(b)'
        PROVE  built'[i].draft # drafts'[b].mark
    <3>1. CASE b = n
      BY <1>1, <1>3, <1>7, <1>9, <3>1
    <3>2. CASE b # n
      BY <1>1, <1>2, <1>5, <2>4, <3>2 DEF BuildInv, MarksOK
    <3> QED BY <3>1, <3>2
  <2> QED BY <2>1, <2>2, <2>3, <2>4 DEF MarksOK
<1>11. AgentsOK'
  BY <1>1 DEF BuildInv, AgentsOK
<1> QED BY <1>4, <1>10, <1>11 DEF BuildInv

LEMMA RewrittenInv ==
  ASSUME BuildInv, RewrittenCase PROVE BuildInv'
<1>1. PICK x \in DOMAIN drafts : \E d \in Draft :
        /\ Pending(x) /\ d.mark = drafts[x].mark
        /\ drafts' = [drafts EXCEPT ![x] = d] /\ built' = built /\ drawn' = drawn
  BY DEF RewrittenCase
<1>2. PICK d \in Draft :
        /\ Pending(x) /\ d.mark = drafts[x].mark
        /\ drafts' = [drafts EXCEPT ![x] = d] /\ built' = built /\ drawn' = drawn
  BY <1>1
<1>3. /\ drafts' \in Seq(Draft \cup {Gone})
      /\ DOMAIN drafts' = DOMAIN drafts
      /\ \A b \in DOMAIN drafts : drafts'[b] = IF b = x THEN d ELSE drafts[b]
  BY <1>2, OneOther DEF BuildInv, BuilderTypes
<1>4. BuilderTypes'
  BY <1>2, <1>3 DEF BuildInv, BuilderTypes
<1>5. \A b \in DOMAIN drafts : Pending(b)' => Pending(b) /\ drafts'[b].mark = drafts[b].mark
  BY <1>2, <1>3 DEF Pending
<1>6. MarksOK'
  BY <1>2, <1>3, <1>5 DEF BuildInv, MarksOK
<1>7. AgentsOK'
  BY <1>2 DEF BuildInv, AgentsOK
<1> QED BY <1>4, <1>6, <1>7 DEF BuildInv

LEMMA AddedInv ==
  ASSUME BuildInv, AddedCase PROVE BuildInv'
<1>1. PICK x \in DOMAIN drafts : Pending(x) /\ Add(x)
  BY DEF AddedCase
<1> DEFINE n == Len(built) + 1
           slug == FreeSlug(drafts[x].name)
           agent == [slug |-> slug, draft |-> drafts[x].mark]
<1>2. drafts[x] \in Draft
  BY <1>1, PendingDraft DEF BuildInv
<1>3. slug \in Seq(Nat) /\ slug \notin Taken
  BY <1>2, FreeSlugIsFree DEF BuildInv, Draft
<1>4. agent \in Agent /\ agent.slug = slug /\ agent.draft = drafts[x].mark
  BY <1>2, <1>3 DEF Agent, Draft
<1>5. /\ drafts' = [drafts EXCEPT ![x] = Gone]
      /\ built' = Append(built, agent) /\ drawn' = drawn
  BY <1>1 DEF Add
<1>6. slug \notin Shipped /\ \A i \in DOMAIN built : built[i].slug # slug
  BY <1>3 DEF Taken
<1> HIDE DEF slug, agent
<1>7. /\ drafts' \in Seq(Draft \cup {Gone})
      /\ DOMAIN drafts' = DOMAIN drafts
      /\ \A b \in DOMAIN drafts : drafts'[b] = IF b = x THEN Gone ELSE drafts[b]
  BY <1>5, OneOther DEF BuildInv, BuilderTypes
<1>8. /\ built' \in Seq(Agent)
      /\ DOMAIN built' = DOMAIN built \cup {n} /\ n \notin DOMAIN built
      /\ \A i \in DOMAIN built : built'[i] = built[i]
      /\ built'[n] = agent
  BY <1>4, <1>5, OneMore DEF BuildInv, BuilderTypes
<1> HIDE DEF n
<1>9. BuilderTypes'
  BY <1>5, <1>7, <1>8 DEF BuildInv, BuilderTypes
<1>10. \A b \in DOMAIN drafts :
         Pending(b)' => b # x /\ Pending(b) /\ drafts'[b] = drafts[b]
  BY <1>7 DEF Pending
<1>11. drafts[x].mark <= drawn /\ \A i \in DOMAIN built : built[i].draft # drafts[x].mark
  BY <1>1 DEF BuildInv, MarksOK
<1>12. MarksOK'
  <2>1. \A b \in DOMAIN drafts' : Pending(b)' => drafts'[b].mark <= drawn'
    BY <1>5, <1>7, <1>10 DEF BuildInv, MarksOK
  <2>2. \A b, c \in DOMAIN drafts' :
          Pending(b)' /\ Pending(c)' /\ b # c => drafts'[b].mark # drafts'[c].mark
    BY <1>7, <1>10 DEF BuildInv, MarksOK
  <2>3. \A i \in DOMAIN built' : built'[i].draft <= drawn'
    BY <1>4, <1>5, <1>8, <1>11 DEF BuildInv, MarksOK
  <2>4. ASSUME NEW i \in DOMAIN built', NEW b \in DOMAIN drafts', Pending(b)'
        PROVE  built'[i].draft # drafts'[b].mark
    <3>1. b \in DOMAIN drafts /\ b # x /\ Pending(b) /\ drafts'[b] = drafts[b]
      BY <1>7, <1>10, <2>4
    <3>2. CASE i = n
      BY <1>1, <1>4, <1>8, <3>1, <3>2 DEF BuildInv, MarksOK
    <3>3. CASE i # n
      BY <1>8, <3>1, <3>3 DEF BuildInv, MarksOK
    <3> QED BY <3>2, <3>3
  <2> QED BY <2>1, <2>2, <2>3, <2>4 DEF MarksOK
<1>13. AgentsOK'
  <2>1. ASSUME NEW i \in DOMAIN built', NEW j \in DOMAIN built', i # j
        PROVE  built'[i].draft # built'[j].draft /\ built'[i].slug # built'[j].slug
    <3>1. CASE i = n
      BY <1>4, <1>6, <1>8, <1>11, <2>1, <3>1
    <3>2. CASE j = n
      BY <1>4, <1>6, <1>8, <1>11, <2>1, <3>2
    <3>3. CASE i # n /\ j # n
      BY <1>8, <2>1, <3>3 DEF BuildInv, AgentsOK
    <3> QED BY <3>1, <3>2, <3>3
  <2>2. \A i \in DOMAIN built' : built'[i].slug \notin Shipped
    BY <1>4, <1>6, <1>8 DEF BuildInv, AgentsOK
  <2> QED BY <2>1, <2>2 DEF AgentsOK
<1> QED BY <1>9, <1>12, <1>13 DEF BuildInv

LEMMA LostInv ==
  ASSUME BuildInv, LostCase PROVE BuildInv'
<1>1. drafts' = <<>> /\ built' = <<>> /\ drawn' = drawn
  BY DEF LostCase
<1>2. drafts' \in Seq(Draft \cup {Gone}) /\ built' \in Seq(Agent)
  BY <1>1, EmptySeq
<1> QED BY <1>1, <1>2 DEF BuildInv, BuilderTypes, MarksOK, AgentsOK

LEMMA BuildStep ==
  ASSUME BuildInv, [Next]_vars PROVE BuildInv'
<1>1. ASSUME UNCHANGED build PROVE BuildInv'
  BY <1>1 DEF build, BuildInv, BuilderTypes, MarksOK, AgentsOK, Pending
<1>2. BuilderTypes
  BY DEF BuildInv
<1> QED BY <1>1, <1>2, BuildCases, DrawnInv, RewrittenInv, AddedInv, LostInv

\* The draft a tenant is led back to is its last one.
LEMMA LandingDraft ==
  ASSUME BuilderTypes, NEW t \in Tenants, _builder_landing(t).resume # 0
  PROVE  Drawable(t, _builder_landing(t).resume)
<1> DEFINE I == InProgress(t)
           last == CHOOSE b \in I : \A x \in I : x <= b
<1>1. I # {} /\ _builder_landing(t).resume = last
  BY DEF _builder_landing
<1>2. Len(drafts) \in Nat /\ I \subseteq 1..Len(drafts)
  BY LenProperties DEF InProgress, BuilderTypes
<1>3. \E b \in I : \A x \in I : x <= b
  <2> HIDE DEF I
  <2> QED BY <1>1, <1>2, GreatestNumber
<1>4. last \in I
  <2> HIDE DEF I
  <2> QED BY <1>3
<1> HIDE DEF last
<1> QED BY <1>1, <1>4 DEF InProgress

\* What the page of a draft shows.
LEMMA DraftPage ==
  ASSUME BuilderTypes, NEW t \in Tenants, NEW b, Drawable(t, b)
  PROVE  /\ builder_content(t, b).draft = b
         /\ builder_content(t, b).shows = _build_draft_res(b).shows
         /\ builder_content(t, b).forms = {"build_change", "build_create"}
              <=> drafts[b].stage = "done"
<1>1. builder_content(t, b) = _builder_draft(b)
  BY DEF builder_content
<1>2. drafts[b].stage \in Stage
  BY PendingDraft DEF Drawable, Draft
<1>3. /\ _builder_draft(b).draft = b
      /\ _builder_draft(b).shows = _build_draft_res(b).shows
  BY DEF _builder_draft, _build_draft_res
<1>4. _builder_draft(b).forms = {"build_change", "build_create"} <=> drafts[b].stage = "done"
  <2>1. CASE drafts[b].stage = "q1"
    <3>1. _builder_draft(b).forms = {"build_answer"}
      BY <2>1 DEF _builder_draft
    <3>2. "build_change" \notin {"build_answer"}
      OBVIOUS
    <3> QED BY <2>1, <3>1, <3>2
  <2>2. CASE drafts[b].stage = "q2"
    <3>1. _builder_draft(b).forms = {"build_answer2"}
      BY <2>2 DEF _builder_draft
    <3>2. "build_change" \notin {"build_answer2"}
      OBVIOUS
    <3> QED BY <2>2, <3>1, <3>2
  <2>3. CASE drafts[b].stage = "done"
    BY <2>3 DEF _builder_draft
  <2> QED BY <1>2, <2>1, <2>2, <2>3 DEF Stage
<1> QED BY <1>1, <1>3, <1>4

LEMMA BuildInvariant == Spec => []BuildInv
<1>1. Init => BuildInv
  <2> SUFFICES ASSUME Init PROVE BuildInv
    OBVIOUS
  <2>1. drafts = <<>> /\ drawn = 0 /\ built = <<>>
    BY DEF Init, BuilderInit
  <2>2. drafts \in Seq(Draft \cup {Gone}) /\ built \in Seq(Agent)
    BY <2>1, EmptySeq
  <2> QED BY <2>1, <2>2 DEF BuildInv, BuilderTypes, MarksOK, AgentsOK
<1>2. BuildInv /\ [Next]_vars => BuildInv'
  BY BuildStep
<1> QED BY <1>1, <1>2, PTL DEF Spec

\* One draft becomes one agent (server.py, _build_confirm), at an address no
\* other agent has (the slug loop), through the chat card or the page, and the
\* builder leads a tenant back to a draft of its own that is none yet.
THEOREM OneAgentPerDraftHolds == Spec => []OneAgentPerDraft
<1>1. BuildInv => OneAgentPerDraft
  <2> SUFFICES ASSUME BuildInv, NEW t \in Tenants, _builder_landing(t).resume # 0
               PROVE  LET last == _builder_landing(t).resume
                          page == builder_content(t, last)
                      IN /\ page.draft = last /\ drafts[last].tenant = t
                         /\ \A i \in DOMAIN built : built[i].draft # drafts[last].mark
                         /\ page.shows = _build_draft_res(last).shows
                         /\ page.forms = {"build_change", "build_create"}
                              <=> drafts[last].stage = "done"
    BY DEF BuildInv, AgentsOK, OneAgentPerDraft
  <2> DEFINE last == _builder_landing(t).resume
  <2>1. BuilderTypes /\ Drawable(t, last)
    BY LandingDraft DEF BuildInv
  <2> HIDE DEF last
  <2>2. /\ builder_content(t, last).draft = last
        /\ builder_content(t, last).shows = _build_draft_res(last).shows
        /\ builder_content(t, last).forms = {"build_change", "build_create"}
             <=> drafts[last].stage = "done"
    BY <2>1, DraftPage
  <2>3. drafts[last].tenant = t /\ \A i \in DOMAIN built : built[i].draft # drafts[last].mark
    BY <2>1 DEF Drawable, Pending, BuildInv, MarksOK
  <2> QED BY <2>2, <2>3 DEF last
<1> QED BY <1>1, BuildInvariant, PTL

-----------------------------------------------------------------------------
(* The types of the process.                                               *)

Types == Typed /\ BuildInv /\ restarts \in Nat /\ convs \in Seq(Conv)
         /\ mode \in [Tenants -> Mode] /\ yeses \subseteq Runs
         /\ filed \subseteq Runs /\ lost \subseteq filed
         /\ told \subseteq Runs \X {"sent", "dismissed"}

LEMMA HistoryTypes ==
  ASSUME Types, [Next]_vars
  PROVE  /\ yeses' \subseteq Runs /\ filed' \subseteq Runs /\ lost' \subseteq filed'
         /\ told' \subseteq Runs \X {"sent", "dismissed"}
<1>1. CASE AnswerCase
  <2>1. PICK e, action, by : Answers(e, action, by)
    BY <1>1 DEF AnswerCase
  <2>2. /\ DOMAIN e \subseteq Runs
        /\ filed' = filed \cup {r \in DOMAIN e : e[r].sent}
        /\ lost'  = lost \cup {r \in DOMAIN e : e[r].sent /\ ~e[r].ok}
        /\ yeses' = yeses \cup {r \in DOMAIN e : action = "approve" /\ runs[r].gate = "none"}
        /\ told' = told \/ \E r \in DOMAIN e : told' = told \cup {<<r, Word(action)>>}
    BY <2>1 DEF Answers, Settle, Tell
  <2>3. Word(action) \in {"sent", "dismissed"}
    BY DEF Word
  <2>4. told' \subseteq Runs \X {"sent", "dismissed"}
    BY <2>2, <2>3 DEF Types
  <2>5. yeses' \subseteq Runs /\ filed' \subseteq Runs /\ lost' \subseteq filed'
    BY <2>2 DEF Types
  <2> QED BY <2>4, <2>5
<1>2. CASE ArriveCase \/ RestartCase \/ QuietCase
  <2>1. UNCHANGED <<yeses, filed, lost, told>>
    BY <1>2 DEF ArriveCase, Arrive, RestartCase, Restart, QuietCase
  <2> QED BY <2>1 DEF Types
<1> QED BY <1>1, <1>2, StepCases DEF Types

\* A conversation of the list, and the same one changed.
LEMMA ConvChanged ==
  ASSUME NEW s \in Seq(Conv), NEW c \in DOMAIN s
  PROVE  /\ \A n \in Nat : [s EXCEPT ![c].pending = n] \in Seq(Conv)
         /\ \A n \in Nat, o \in {"none", "approved", "dismissed"} :
              [s EXCEPT ![c].pending = n, ![c].outcome = o] \in Seq(Conv)
         /\ \A o \in {"none", "approved", "dismissed"} :
              [s EXCEPT ![c].outcome = o] \in Seq(Conv)
         /\ [s EXCEPT ![c].tenant = NoTenant] \in Seq(Conv)
         /\ s[c] \in Conv
<1>1. s[c] \in Conv
  BY ElementOfSeq, LenProperties
<1>2. /\ \A n \in Nat : [s[c] EXCEPT !.pending = n] \in Conv
      /\ \A n \in Nat, o \in {"none", "approved", "dismissed"} :
           [s[c] EXCEPT !.pending = n, !.outcome = o] \in Conv
      /\ \A o \in {"none", "approved", "dismissed"} : [s[c] EXCEPT !.outcome = o] \in Conv
      /\ [s[c] EXCEPT !.tenant = NoTenant] \in Conv
  BY <1>1 DEF Conv
<1>3. \A e \in Conv : [s EXCEPT ![c] = e] \in Seq(Conv)
  BY OneOther
<1>4. \A n \in Nat : [s EXCEPT ![c].pending = n] \in Seq(Conv)
  BY <1>2, <1>3
<1>5. \A n \in Nat, o \in {"none", "approved", "dismissed"} :
        [s EXCEPT ![c].pending = n, ![c].outcome = o] \in Seq(Conv)
  <2> SUFFICES ASSUME NEW n \in Nat, NEW o \in {"none", "approved", "dismissed"}
               PROVE  [s EXCEPT ![c].pending = n, ![c].outcome = o] \in Seq(Conv)
    OBVIOUS
  <2>1. [s EXCEPT ![c].pending = n, ![c].outcome = o]
          = [s EXCEPT ![c] = [s[c] EXCEPT !.pending = n, !.outcome = o]]
    OBVIOUS
  <2> QED BY <1>2, <1>3, <2>1
<1>6. \A o \in {"none", "approved", "dismissed"} : [s EXCEPT ![c].outcome = o] \in Seq(Conv)
  BY <1>2, <1>3
<1>7. [s EXCEPT ![c].tenant = NoTenant] \in Seq(Conv)
  BY <1>2, <1>3
<1> QED BY <1>1, <1>4, <1>5, <1>6, <1>7

LEMMA SayTypes ==
  ASSUME convs \in Seq(Conv), NEW t \in Tenants, NEW c, NEW card \in Nat, Say(t, c, card)
  PROVE  convs' \in Seq(Conv)
<1>1. CASE Own(t, c)
  <2>1. c \in DOMAIN convs
    BY <1>1 DEF Own
  <2>2. convs' = convs \/ convs' = [convs EXCEPT ![c].pending = card]
    BY <1>1 DEF Say
  <2>3. \A n \in Nat : [convs EXCEPT ![c].pending = n] \in Seq(Conv)
    BY <2>1, ConvChanged
  <2> QED BY <2>2, <2>3
<1>2. CASE ~Own(t, c)
  <2>1. [tenant |-> t, pending |-> card, outcome |-> "none"] \in Conv
    BY DEF Conv
  <2>2. convs' = Append(convs, [tenant |-> t, pending |-> card, outcome |-> "none"])
    BY <1>2 DEF Say
  <2> QED BY <2>1, <2>2, OneMore
<1> QED BY <1>1, <1>2

LEMMA AnsweredTypes ==
  ASSUME convs \in Seq(Conv), NEW t \in Tenants, NEW c, NEW card, NEW action,
         Answered(t, c, card, action)
  PROVE  convs' \in Seq(Conv)
<1>1. CASE Own(t, c) /\ convs[c].pending = card
  <2> DEFINE o == CASE action \in {"approve", "edit"} -> "approved"
                    [] action = "reject"              -> "dismissed"
                    [] OTHER                          -> convs[c].outcome
  <2>1. convs' = [convs EXCEPT ![c].pending = NoCard, ![c].outcome = o]
    BY <1>1 DEF Answered
  <2>2. c \in DOMAIN convs /\ convs[c] \in Conv /\ NoCard \in Nat
    BY <1>1, ConvChanged DEF Own, NoCard
  <2>3. o \in {"none", "approved", "dismissed"}
    BY <2>2 DEF Conv
  <2> HIDE DEF o
  <2> QED BY <2>1, <2>2, <2>3, ConvChanged
<1>2. CASE ~(Own(t, c) /\ convs[c].pending = card)
  BY <1>2 DEF Answered
<1> QED BY <1>1, <1>2

LEMMA ConvTypes ==
  ASSUME Types, [Next]_vars
  PROVE  convs' \in Seq(Conv)
<1>0. convs \in Seq(Conv) /\ Len(cards) + 1 \in Nat /\ NoCard \in Nat
  BY LenProperties DEF Types, Typed, NoCard
<1>1. ASSUME NEW t \in Tenants, Talk(t) PROVE convs' \in Seq(Conv)
  <2>1. ASSUME NEW c, Chat(t, c) PROVE convs' \in Seq(Conv)
    BY <1>0, <2>1, SayTypes DEF Chat
  <2>2. ASSUME NEW c, NEW r, ChatProposes(t, c, r) PROVE convs' \in Seq(Conv)
    BY <1>0, <2>2, SayTypes DEF ChatProposes
  <2>3. ASSUME NEW c, DeleteConv(t, c) PROVE convs' \in Seq(Conv)
    BY <1>0, <2>3, ConvChanged DEF DeleteConv, Own
  <2>4. ASSUME NEW c, NEW card, NEW action,
               ConfirmLate(t, c, card, action) \/ ConfirmDecides(t, c, card, action)
        PROVE  convs' \in Seq(Conv)
    <3>1. Answered(t, c, card, action) \/ convs' = convs
      BY <2>4 DEF ConfirmLate, ConfirmDecides
    <3> QED BY <1>0, <3>1, AnsweredTypes
  <2>5. ASSUME NEW c, NEW card, ConfirmUnknown(t, c, card) PROVE convs' \in Seq(Conv)
    BY <1>0, <2>5 DEF ConfirmUnknown
  <2> QED BY <1>1, <2>1, <2>2, <2>3, <2>4, <2>5 DEF Talk
<1>2. ASSUME NEW t \in Tenants, Build(t) PROVE convs' \in Seq(Conv)
  <2>1. ASSUME NEW c, DrawInChat(t, c) PROVE convs' \in Seq(Conv)
    BY <1>0, <2>1, SayTypes DEF DrawInChat
  <2>2. ASSUME NEW c, NEW b, AddInChat(t, c, b) PROVE convs' \in Seq(Conv)
    BY <1>0, <2>2, ConvChanged DEF AddInChat, Own
  <2>3. ASSUME UNCHANGED talk PROVE convs' \in Seq(Conv)
    BY <1>0, <2>3 DEF talk
  <2> QED BY <1>2, <2>1, <2>2, <2>3 DEF Build
<1>3. ASSUME Restart PROVE convs' \in Seq(Conv)
  <2>1. convs' = <<>>
    BY <1>3 DEF Restart
  <2> QED BY <2>1, EmptySeq
<1>4. ASSUME Outside \/ (\E t \in Tenants : Answer(t)) \/ UNCHANGED vars
      PROVE  convs' \in Seq(Conv)
  BY <1>0, <1>4 DEF Outside, Answer, talk, vars
<1> QED BY <1>1, <1>2, <1>3, <1>4 DEF Next

LEMMA TypesStep ==
  ASSUME Types, [Next]_vars PROVE Types'
<1>1. Typed' /\ BuildInv'
  BY NextTyped, BuildStep DEF Types
<1>2. restarts' \in Nat
  <2>1. restarts' = restarts \/ restarts' = restarts + 1
    <3>1. ASSUME Outside \/ UNCHANGED vars PROVE restarts' = restarts
      BY <3>1 DEF Outside, vars
    <3>2. ASSUME NEW t \in Tenants, Answer(t) \/ Talk(t) \/ Build(t)
          PROVE  restarts' = restarts
      BY <3>2 DEF Answer, Talk, Build
    <3>3. ASSUME Restart PROVE restarts' = restarts + 1
      BY <3>3 DEF Restart
    <3> QED BY <3>1, <3>2, <3>3 DEF Next
  <2> QED BY <2>1 DEF Types
<1>3. mode' \in [Tenants -> Mode]
  BY ModeStep DEF Types
<1> QED BY <1>1, <1>2, <1>3, HistoryTypes, ConvTypes DEF Types

LEMMA TypesInvariant == Spec => []Types
<1>1. Init => Types
  <2> SUFFICES ASSUME Init PROVE Types
    OBVIOUS
  <2>1. Typed
    BY InitTyped
  <2>2. drafts = <<>> /\ drawn = 0 /\ built = <<>> /\ convs = <<>> /\ restarts = 0
    BY DEF Init, BuilderInit, ChatInit
  <2>3. /\ drafts \in Seq(Draft \cup {Gone}) /\ built \in Seq(Agent)
        /\ convs \in Seq(Conv)
    BY <2>2, EmptySeq
  <2>4. BuildInv
    BY <2>2, <2>3 DEF BuildInv, BuilderTypes, MarksOK, AgentsOK
  <2>5. /\ mode \in [Tenants -> Mode] /\ yeses = {} /\ filed = {} /\ lost = {} /\ told = {}
    BY DEF Init, ApprovalsInit, Mode
  <2> QED BY <2>1, <2>2, <2>3, <2>4, <2>5 DEF Types
<1>2. Types /\ [Next]_vars => Types'
  BY TypesStep
<1> QED BY <1>1, <1>2, PTL DEF Spec

\* Every store of the control plane's process keeps its type.
THEOREM WorkspaceTypes == Spec => []TypeOK
<1>1. Types => TypeOK
  BY DEF Types, Typed, BuildInv, TypeOK, ApprovalsTypes, ChatTypes
<1> QED BY <1>1, TypesInvariant, PTL

-----------------------------------------------------------------------------
(* Cards that wait.                                                        *)

\* A decision on an open gate is stamped on it, however it ends.
LEMMA OpenEnding ==
  ASSUME NEW r, NEW action, NEW actor, NEW end \in Endings(r, action, actor),
         runs[r].gate = "none"
  PROVE  end.row.gate = action
<1>1. CASE action = "reject"
  BY <1>1 DEF Endings, Ending
<1>2. CASE action # "reject"
  <2>1. end.row \in {[state |-> s, gate |-> action, actor |-> actor] :
                       s \in {"acted", "acting", "awaiting_gate"}}
    BY <1>2 DEF Endings, Ending
  <2> QED BY <2>1
<1> QED BY <1>1, <1>2

LEMMA CardsStep ==
  ASSUME Types, [Next]_vars, NEW card \in proposals, card \notin proposals',
         runs'[cards[card]] = runs[cards[card]], runs[cards[card]].gate = "none",
         Awaiting(cards[card]), restarts' = restarts
  PROVE  Owner[cards[card]] \notin known
<1>1. ASSUME NEW t \in Tenants, Talk(t) PROVE Owner[cards[card]] \notin known
  <2>1. ASSUME NEW c, Chat(t, c) \/ DeleteConv(t, c) \/ \E r \in Runs : ChatProposes(t, c, r)
        PROVE  FALSE
    BY <2>1 DEF Chat, DeleteConv, ChatProposes
  <2>2. ASSUME NEW c, NEW k, NEW action, ConfirmLate(t, c, k, action)
        PROVE  FALSE
    BY <2>2 DEF ConfirmLate
  <2>3. ASSUME NEW c, NEW k, NEW action \in Action \cup {""}, ConfirmDecides(t, c, k, action)
        PROVE  FALSE
    <3> DEFINE r == cards[k]
               decision == IF action = "" THEN "approve" ELSE action
    <3>1. k = card
      BY <2>3 DEF ConfirmDecides
    <3>2. PICK end \in Endings(r, decision, t) : Settle([x \in {r} |-> end], decision)
      BY <2>3 DEF ConfirmDecides
    <3>3. r \in Runs
      <4>1. card \in DOMAIN cards /\ cards \in Seq(Runs)
        BY DEF Types, Typed
      <4> QED BY <3>1, <4>1, CardRun
    <3>4. decision \in Action /\ "none" \notin Action
      BY DEF Action
    <3>5. runs[r].gate = "none" /\ runs'[r] = runs[r]
      BY <3>1
    <3> HIDE DEF r, decision
    <3>6. runs'[r] = end.row
      BY <3>2, <3>3 DEF Settle
    <3>7. end.row.gate = decision
      BY <3>2, <3>5, OpenEnding
    <3> QED BY <3>4, <3>5, <3>6, <3>7
  <2>4. ASSUME NEW c, NEW k, ConfirmUnknown(t, c, k)
        PROVE  Owner[cards[card]] \notin known
    BY <2>4 DEF ConfirmUnknown
  <2> QED BY <1>1, <2>1, <2>2, <2>3, <2>4 DEF Talk
<1>2. ASSUME NEW t \in Tenants, Build(t) PROVE FALSE
  BY <1>2 DEF Build, AddInChat, talk
<1>3. ASSUME Restart PROVE FALSE
  BY <1>3 DEF Restart, Types
<1>4. ASSUME Outside \/ (\E t \in Tenants : Answer(t)) \/ UNCHANGED vars PROVE FALSE
  BY <1>4 DEF Outside, Answer, talk, vars
<1> QED BY <1>1, <1>2, <1>3, <1>4 DEF Next

\* A card whose run still waits is spent only when the registry has lost its
\* tenant, or when the process goes (server.py, confirm()).
THEOREM WaitingCardsKeptHolds == Spec => WaitingCardsKept
<1>1. Types /\ [Next]_vars =>
        [\A card \in proposals \ proposals' :
           runs'[cards[card]] = runs[cards[card]] /\ runs[cards[card]].gate = "none"
           /\ Awaiting(cards[card])
           => Owner[cards[card]] \notin known \/ restarts' # restarts]_vars
  BY CardsStep
<1> QED BY <1>1, TypesInvariant, PTL DEF Spec, WaitingCardsKept
=============================================================================
