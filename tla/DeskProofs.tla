------------------------------ MODULE DeskProofs ------------------------------
(***************************************************************************)
(* For any tenants, lists, connections, files, open pages and restarts: a  *)
(* form left open names the row it shows until a row of its list goes, no  *)
(* skill goes live unasked, the yes is with an approver until one is       *)
(* revoked, files lie in folders that are there, the trail tells the       *)
(* settings, and the handlers take what the pages offer.                   *)
(***************************************************************************)
EXTENDS DeskPages, SequenceTheorems, FiniteSetTheorems, WellFoundedInduction, TLAPS

-----------------------------------------------------------------------------
(* Lists.                                                                  *)

\* Every element of the new list was in the old one, or is the row e.
LEMMA AppendRow ==
  ASSUME NEW S, NEW s \in Seq(S), NEW e \in S
  PROVE  /\ Append(s, e) \in Seq(S)
         /\ \A j \in DOMAIN s : j \in DOMAIN Append(s, e) /\ Append(s, e)[j] = s[j]
         /\ \A j \in DOMAIN Append(s, e) : Append(s, e)[j] = e \/ \E n \in DOMAIN s : Append(s, e)[j] = s[n]
  BY AppendProperties

\* A row that is taken out; the others stay.
LEMMA RemoveRow ==
  ASSUME NEW S, NEW s \in Seq(S), NEW i \in DOMAIN s
  PROVE  /\ RemoveAt(s, i) \in Seq(S) /\ Len(RemoveAt(s, i)) = Len(s) - 1
         /\ \A j \in DOMAIN RemoveAt(s, i) : \E n \in DOMAIN s : RemoveAt(s, i)[j] = s[n]
         /\ \A n \in DOMAIN s : n # i => \E j \in DOMAIN RemoveAt(s, i) : RemoveAt(s, i)[j] = s[n]
<1> DEFINE r == RemoveAt(s, i)
<1>1. i \in 1..Len(s) /\ Len(s) \in Nat
  BY LenProperties
<1>2. /\ r \in Seq(S) /\ Len(r) = Len(s) - 1
      /\ \A j \in 1..Len(r) : r[j] = s[IF j < i THEN j ELSE j + 1]
  <2> DEFINE a == SubSeq(s, 1, i - 1)
             b == SubSeq(s, i + 1, Len(s))
  <2>1. /\ a \in Seq(S) /\ Len(a) = i - 1
        /\ \A j \in 1..(i - 1) : a[j] = s[j]
    BY <1>1, SubSeqProperties
  <2>2. /\ b \in Seq(S) /\ Len(b) = Len(s) - i
        /\ \A j \in 1..(Len(s) - i) : b[j] = s[i + j]
    BY <1>1, SubSeqProperties
  <2>3. /\ a \o b \in Seq(S) /\ Len(a \o b) = Len(a) + Len(b)
        /\ \A j \in 1..(Len(a) + Len(b)) :
             (a \o b)[j] = IF j <= Len(a) THEN a[j] ELSE b[j - Len(a)]
    BY <2>1, <2>2, ConcatProperties
  <2>4. r = a \o b
    BY DEF RemoveAt
  <2> HIDE DEF a, b, r
  <2>5. r \in Seq(S) /\ Len(r) = Len(s) - 1
    BY <1>1, <2>1, <2>2, <2>3, <2>4
  <2>6. ASSUME NEW j \in 1..Len(r)
        PROVE  r[j] = s[IF j < i THEN j ELSE j + 1]
    <3>1. CASE j < i
      BY <1>1, <2>1, <2>2, <2>3, <2>4, <2>5, <3>1
    <3>2. CASE ~(j < i)
      <4>1. j - Len(a) \in 1..(Len(s) - i)
        BY <1>1, <2>1, <2>5, <3>2
      <4>2. r[j] = b[j - Len(a)]
        BY <1>1, <2>1, <2>2, <2>3, <2>4, <2>5, <3>2
      <4>3. b[j - Len(a)] = s[i + (j - Len(a))]
        BY <2>2, <4>1
      <4>4. i + (j - Len(a)) = j + 1
        BY <1>1, <2>1, <2>5
      <4> QED BY <3>2, <4>2, <4>3, <4>4
    <3> QED BY <3>1, <3>2
  <2> QED BY <2>5, <2>6
<1>3. \A j \in DOMAIN r : j \in 1..(Len(s) - 1)
  BY <1>1, <1>2, LenProperties
<1>4. \A j \in DOMAIN r : \E n \in DOMAIN s : r[j] = s[n]
  <2> SUFFICES ASSUME NEW j \in DOMAIN r PROVE \E n \in DOMAIN s : r[j] = s[n]
    OBVIOUS
  <2> DEFINE n == IF j < i THEN j ELSE j + 1
  <2>1. n \in 1..Len(s)
    BY <1>1, <1>3
  <2>2. n \in DOMAIN s
    BY <2>1, LenProperties
  <2>3. r[j] = s[n]
    BY <1>2, <1>3
  <2> QED BY <2>2, <2>3
<1>5. \A n \in DOMAIN s : n # i => \E j \in DOMAIN r : r[j] = s[n]
  <2> SUFFICES ASSUME NEW n \in DOMAIN s, n # i PROVE \E j \in DOMAIN r : r[j] = s[n]
    OBVIOUS
  <2> DEFINE j == IF n < i THEN n ELSE n - 1
  <2>0. n \in 1..Len(s)
    BY LenProperties
  <2>1. j \in 1..Len(r)
    BY <1>1, <1>2, <2>0
  <2>2. r[j] = s[n]
    BY <1>1, <1>2, <2>0, <2>1
  <2>3. j \in DOMAIN r
    BY <1>2, <2>1, LenProperties
  <2> QED BY <2>2, <2>3
<1> HIDE DEF r
<1> QED BY <1>2, <1>4, <1>5 DEF r

\* A row that is written over.
LEMMA WriteRow ==
  ASSUME NEW S, NEW s \in Seq(S), NEW i \in DOMAIN s, NEW e \in S
  PROVE  /\ [s EXCEPT ![i] = e] \in Seq(S)
         /\ DOMAIN [s EXCEPT ![i] = e] = DOMAIN s
         /\ \A j \in DOMAIN s : [s EXCEPT ![i] = e][j] = IF j = i THEN e ELSE s[j]
<1>1. i \in 1..Len(s)
  BY LenProperties
<1> QED BY <1>1, ExceptSeq

\* A sequence over a set is one over a larger set.
LEMMA WiderSeq ==
  ASSUME NEW S, NEW T, S \subseteq T, NEW s \in Seq(S)
  PROVE  s \in Seq(T)
<1>1. \A i \in 1..Len(s) : s[i] \in T
  BY ElementOfSeq
<1> QED BY <1>1, LenProperties, SeqDef

-----------------------------------------------------------------------------
(* Types.                                                                  *)

RowsOK ==
  /\ rows \in [Tenants -> [Kinds -> Seq(AnyRow)]]
  /\ \A t \in Tenants, k \in Kinds : rows[t][k] \in Seq(Rows(k))

ListsOK == RowsOK /\ made \in Nat /\ pages \subseteq Page

AgentOK == cfg \in [Tenants -> Cfg] /\ agentOn \in BOOLEAN

WiresOK == /\ conn \in [Tenants -> [Conns -> {"none", "on", "paused", "off"}]]
           /\ prop \in [Tenants -> [Props -> {"waiting", "approved", "declined"}]]

FilesOK == /\ shelf \in [Tenants -> SUBSET [id : Nat, name : FileNames,
                                            folder : {Files} \cup Folders]]
           /\ folders \in [Tenants -> SUBSET Folders]

SmallOK == small \in [Tenants -> [phone : BOOLEAN, onboarded : BOOLEAN, notes : Nat]]

ConsentOK == asked \in [Tenants -> SUBSET Nat] /\ misled \in [Tenants -> SUBSET Nat]

HandoverOK == /\ assign \in [Tenants -> {Nobody} \cup Typed["people"]]
              /\ revoked \in [Tenants -> BOOLEAN]

LogOK == log \in [Tenants -> [Subjects -> Seq(Words)]]

BoundsOK == asks \in 0..MaxAsks /\ restarts \in 0..MaxRestarts

\* The type invariant by the groups of variables a form works on.
LEMMA TypeParts ==
  /\ TypeOK <=> /\ ListsOK /\ AgentOK /\ WiresOK /\ FilesOK /\ SmallOK
                /\ ConsentOK /\ HandoverOK /\ LogOK /\ BoundsOK
  /\ TypeOK' <=> /\ ListsOK' /\ AgentOK' /\ WiresOK' /\ FilesOK' /\ SmallOK'
                 /\ ConsentOK' /\ HandoverOK' /\ LogOK' /\ BoundsOK'
  BY DEF TypeOK, ListsOK, RowsOK, AgentOK, WiresOK, FilesOK, SmallOK, ConsentOK,
         HandoverOK, LogOK, BoundsOK

\* The rows of one list are rows.
LEMMA RowsAreRows ==
  ASSUME NEW k \in Kinds, NEW list \in Seq(Rows(k))
  PROVE  list \in Seq(AnyRow)
<1>1. Rows(k) \subseteq AnyRow
  BY DEF Rows, AnyRow
<1> QED BY <1>1, WiderSeq

\* A list that is put in its place leaves the others where they are.
LEMMA PutList ==
  ASSUME RowsOK, NEW t \in Tenants, NEW k \in Kinds, NEW list \in Seq(Rows(k)),
         Put(t, k, list)
  PROVE  /\ RowsOK'
         /\ rows'[t][k] = list
         /\ \A u \in Tenants, l \in Kinds : u # t \/ l # k => rows'[u][l] = rows[u][l]
<1>1. list \in Seq(AnyRow)
  BY RowsAreRows
<1>2. rows' = [rows EXCEPT ![t][k] = list]
  BY DEF Put
<1>3. rows' \in [Tenants -> [Kinds -> Seq(AnyRow)]]
  BY <1>1, <1>2 DEF RowsOK
<1>4. rows'[t][k] = list
  BY <1>2 DEF RowsOK
<1>5. \A u \in Tenants, l \in Kinds : u # t \/ l # k => rows'[u][l] = rows[u][l]
  BY <1>2 DEF RowsOK
<1>6. \A u \in Tenants, l \in Kinds : rows'[u][l] \in Seq(Rows(l))
  BY <1>4, <1>5 DEF RowsOK
<1> QED BY <1>3, <1>4, <1>5, <1>6 DEF RowsOK

\* What ships is typed, and its rows are numbered from one.
LEMMA ShippedRows ==
  ASSUME NEW k \in Kinds
  PROVE  Shipped[k] \in Seq(Rows(k))
  BY ShippedAssumption

\* Seeded or not, a list has rows.
LEMMA SeededRows ==
  ASSUME RowsOK, NEW t \in Tenants, NEW k \in Kinds
  PROVE  ListOf(t, k) \in Seq(Rows(k))
<1>1. "skills" \in Kinds
  BY DEF Kinds
<1> QED BY <1>1, ShippedRows DEF ListOf, seed_skills, RowsOK

\* A line on the trail.
LEMMA LogLine ==
  ASSUME LogOK, NEW t \in Tenants, NEW subject \in Subjects, NEW word \in Words,
         log_decision(t, subject, word)
  PROVE  LogOK'
<1>1. Append(log[t][subject], word) \in Seq(Words)
  BY AppendProperties DEF LogOK
<1>2. log' = [log EXCEPT ![t][subject] = Append(log[t][subject], word)]
  BY DEF log_decision
<1> QED BY <1>1, <1>2 DEF LogOK

\* Pages whose list lost a row are the same pages.
LEMMA LosePages ==
  ASSUME pages \subseteq Page, NEW t, NEW k, Lose(t, k)
  PROVE  pages' \subseteq Page
<1> SUFFICES ASSUME NEW q \in pages' PROVE q \in Page
  OBVIOUS
<1>1. PICK p \in pages : q = IF p.tenant = t /\ p.kind = k
                             THEN [p EXCEPT !.lost = TRUE] ELSE p
  BY DEF Lose
<1>2. p \in Page
  OBVIOUS
<1>3. [p EXCEPT !.lost = TRUE] \in Page
  BY <1>2 DEF Page
<1> QED BY <1>1, <1>2, <1>3

\* A row more.
LEMMA AddTypes ==
  ASSUME ListsOK, NEW t \in Tenants, NEW k \in Kinds, NEW name \in Typed[k],
         NEW on \in BOOLEAN, AddTo(t, k, name, on)
  PROVE  /\ RowsOK' /\ made' \in Nat
         /\ rows'[t][k] = Append(rows[t][k], Row(made + 1, name, on))
         /\ \A u \in Tenants, l \in Kinds : u # t \/ l # k => rows'[u][l] = rows[u][l]
<1> DEFINE row == Row(made + 1, name, on)
<1>1. row \in Rows(k)
  BY DEF ListsOK, Row, Rows
<1>2. rows[t][k] \in Seq(Rows(k))
  BY DEF ListsOK, RowsOK
<1>3. Append(rows[t][k], row) \in Seq(Rows(k))
  BY <1>1, <1>2, AppendRow
<1>4. Put(t, k, Append(rows[t][k], row)) /\ made' = made + 1
  BY DEF AddTo
<1>5. made' \in Nat
  BY <1>4 DEF ListsOK
<1> HIDE DEF row
<1>6. /\ RowsOK'
      /\ rows'[t][k] = Append(rows[t][k], row)
      /\ \A u \in Tenants, l \in Kinds : u # t \/ l # k => rows'[u][l] = rows[u][l]
  BY <1>3, <1>4, PutList DEF ListsOK
<1> QED BY <1>5, <1>6 DEF row

\* A press names a row of the list, or had better.
LEMMA PressAt ==
  ASSUME ListsOK, NEW t \in Tenants, NEW k \in Kinds, NEW b \in Presses(t, k)
  PROVE  b.saw \in Nat
<1>1. CASE \E i \in DOMAIN ListOf(t, k) : b = [at |-> i, saw |-> ListOf(t, k)[i].id]
  <2>1. PICK i \in DOMAIN ListOf(t, k) : b = [at |-> i, saw |-> ListOf(t, k)[i].id]
    BY <1>1
  <2> DEFINE list == ListOf(t, k)
  <2>3. list \in Seq(Rows(k))
    BY SeededRows DEF ListsOK
  <2> HIDE DEF list
  <2>4. list[i] \in Rows(k)
    BY <2>3, ElementOfSeq, LenProperties DEF list
  <2>2. ListOf(t, k)[i] \in Rows(k)
    BY <2>4 DEF list
  <2> QED BY <2>1, <2>2 DEF Rows
<1>2. CASE \E p \in pages : \E i \in DOMAIN p.ids : b = [at |-> i, saw |-> p.ids[i]]
  <2>0. PICK p \in pages : \E i \in DOMAIN p.ids : b = [at |-> i, saw |-> p.ids[i]]
    BY <1>2
  <2>1. PICK i \in DOMAIN p.ids : b = [at |-> i, saw |-> p.ids[i]]
    BY <2>0
  <2>2. p.ids \in Seq(Nat)
    BY DEF ListsOK, Page
  <2>3. p.ids[i] \in Nat
    BY <2>2, ElementOfSeq, LenProperties
  <2> QED BY <2>1, <2>3
<1> QED BY <1>1, <1>2 DEF Presses

\* A row written over.
LEMMA WriteTypes ==
  ASSUME ListsOK, NEW t \in Tenants, NEW k \in Kinds, NEW list \in Seq(Rows(k)),
         NEW i \in DOMAIN list, NEW row \in Rows(k),
         Put(t, k, [list EXCEPT ![i] = row])
  PROVE  /\ RowsOK'
         /\ rows'[t][k] = [list EXCEPT ![i] = row]
         /\ \A u \in Tenants, l \in Kinds : u # t \/ l # k => rows'[u][l] = rows[u][l]
<1>1. [list EXCEPT ![i] = row] \in Seq(Rows(k))
  BY WriteRow
<1> QED BY <1>1, PutList DEF ListsOK

\* A row taken out.
LEMMA RemoveTypes ==
  ASSUME ListsOK, NEW t \in Tenants, NEW k \in Kinds, NEW list \in Seq(Rows(k)),
         NEW i \in DOMAIN list, Put(t, k, RemoveAt(list, i))
  PROVE  /\ RowsOK'
         /\ rows'[t][k] = RemoveAt(list, i)
         /\ \A u \in Tenants, l \in Kinds : u # t \/ l # k => rows'[u][l] = rows[u][l]
<1>1. RemoveAt(list, i) \in Seq(Rows(k))
  BY RemoveRow
<1> QED BY <1>1, PutList DEF ListsOK

\* A row of a list, and the same row switched or reworded.
LEMMA RowAt ==
  ASSUME NEW k \in Kinds, NEW list \in Seq(Rows(k)), NEW i \in DOMAIN list
  PROVE  /\ list[i] \in Rows(k)
         /\ \A on \in BOOLEAN : /\ [list[i] EXCEPT !.on = on] \in Rows(k)
                                /\ [list[i] EXCEPT !.on = on].id = list[i].id
                                /\ [list[i] EXCEPT !.on = on].on = on
                                /\ [list[i] EXCEPT !.on = on].name = list[i].name
         /\ \A name \in Typed[k] : /\ [list[i] EXCEPT !.name = name] \in Rows(k)
                                   /\ [list[i] EXCEPT !.name = name].id = list[i].id
<1>1. list[i] \in Rows(k)
  BY ElementOfSeq, LenProperties
<1> QED BY <1>1 DEF Rows

\* The ids on a page.
LEMMA IdsTyped ==
  ASSUME NEW k \in Kinds, NEW list \in Seq(Rows(k))
  PROVE  /\ Ids(list) \in Seq(Nat) /\ DOMAIN Ids(list) = DOMAIN list
         /\ \A i \in DOMAIN list : Ids(list)[i] = list[i].id
<1>1. \A i \in DOMAIN list : list[i].id \in Nat
  BY RowAt DEF Rows
<1>2. DOMAIN list = 1..Len(list) /\ Len(list) \in Nat
  BY LenProperties
<1>3. Ids(list) = [i \in 1..Len(list) |-> list[i].id]
  BY <1>2 DEF Ids
<1> QED BY <1>1, <1>2, <1>3, SeqDef

-----------------------------------------------------------------------------
(* Every form keeps the types.                                             *)

LEMMA AskTypes ==
  ASSUME BoundsOK, Ask
  PROVE  BoundsOK'
  BY DeskAssumption DEF BoundsOK, Ask

\* The groups a step leaves alone keep their types.
LEMMA Untouched ==
  /\ ListsOK /\ UNCHANGED <<lists, pages>> => ListsOK'
  /\ RowsOK /\ UNCHANGED rows => RowsOK'
  /\ AgentOK /\ UNCHANGED agent => AgentOK'
  /\ WiresOK /\ UNCHANGED wires => WiresOK'
  /\ FilesOK /\ UNCHANGED files => FilesOK'
  /\ SmallOK /\ UNCHANGED small => SmallOK'
  /\ ConsentOK /\ UNCHANGED consent => ConsentOK'
  /\ HandoverOK /\ UNCHANGED handover => HandoverOK'
  /\ LogOK /\ UNCHANGED log => LogOK'
  /\ BoundsOK /\ UNCHANGED <<asks, restarts>> => BoundsOK'
<1>1. ListsOK /\ UNCHANGED <<lists, pages>> => ListsOK'
  BY DEF lists, ListsOK, RowsOK
<1>2. RowsOK /\ UNCHANGED rows => RowsOK'
  BY DEF RowsOK
<1>3. AgentOK /\ UNCHANGED agent => AgentOK'
  BY DEF agent, AgentOK
<1>4. WiresOK /\ UNCHANGED wires => WiresOK'
  BY DEF wires, WiresOK
<1>5. FilesOK /\ UNCHANGED files => FilesOK'
  BY DEF files, FilesOK
<1>6. SmallOK /\ UNCHANGED small => SmallOK'
  BY DEF SmallOK
<1>7. ConsentOK /\ UNCHANGED consent => ConsentOK'
  BY DEF consent, ConsentOK
<1>8. HandoverOK /\ UNCHANGED handover => HandoverOK'
  BY DEF handover, HandoverOK
<1>9. LogOK /\ UNCHANGED log => LogOK'
  BY DEF LogOK
<1>10. BoundsOK /\ UNCHANGED <<asks, restarts>> => BoundsOK'
  BY DEF BoundsOK
<1> QED BY <1>1, <1>2, <1>3, <1>4, <1>5, <1>6, <1>7, <1>8, <1>9, <1>10

\* The words and subjects the trail is made of.
LEMMA Vocabulary ==
  /\ {"people", "skills", "routines", "rules"} = Kinds
  /\ {"added", "removed", "told", "took", "gave", "paused", "on", "off", "changed",
      "passed", "approved", "declined", "live", "draft", "handed"} = Words
  /\ {"rule", "told", "tool", "learn", "limit", "checks", "agent", "skill",
      "handover", "file"} \subseteq Subjects
  /\ Conns \subseteq Subjects /\ Props \subseteq Subjects
  BY DEF Kinds, Words, Subjects, Topics

LEMMA PersonToggleTypes ==
  ASSUME TypeOK, NEW t \in Tenants, PersonToggle(t)
  PROVE  ListsOK' /\ HandoverOK'
<1> USE TypeParts, Vocabulary
<1> DEFINE ppl == rows[t]["people"]
<1>1. PICK b \in Presses(t, "people") :
        /\ b.at \in DOMAIN ppl
        /\ Put(t, "people", [ppl EXCEPT ![b.at] = [ppl[b.at] EXCEPT !.on = ~ppl[b.at].on]])
        /\ revoked' = [revoked EXCEPT ![t] = revoked[t] \/ ppl[b.at].on]
  BY DEF PersonToggle
<1>2. ppl \in Seq(Rows("people"))
  BY DEF ListsOK, RowsOK
<1> HIDE DEF ppl
<1>3. ppl[b.at] \in Rows("people") /\ [ppl[b.at] EXCEPT !.on = ~ppl[b.at].on] \in Rows("people")
  <2>1. ppl[b.at] \in Rows("people")
    BY <1>1, <1>2, RowAt
  <2>2. (~ppl[b.at].on) \in BOOLEAN
    OBVIOUS
  <2>3. [ppl[b.at] EXCEPT !.on = ~ppl[b.at].on] \in Rows("people")
    BY <1>1, <1>2, <2>2, RowAt
  <2> QED BY <2>1, <2>3
<1>4. RowsOK'
  BY <1>1, <1>2, <1>3, WriteTypes
<1>5. made' = made /\ pages' = pages /\ assign' = assign
  BY DEF PersonToggle
<1>6. (revoked[t] \/ ppl[b.at].on) \in BOOLEAN
  OBVIOUS
<1>7. revoked' \in [Tenants -> BOOLEAN]
  BY <1>1, <1>6 DEF HandoverOK
<1> QED BY <1>4, <1>5, <1>7 DEF ListsOK, HandoverOK

LEMMA PersonDelTypes ==
  ASSUME TypeOK, NEW t \in Tenants, PersonDel(t)
  PROVE  ListsOK' /\ HandoverOK'
<1> USE TypeParts, Vocabulary
<1> DEFINE ppl == rows[t]["people"]
<1>1. PICK b \in Presses(t, "people") :
        /\ b.at \in DOMAIN ppl
        /\ Put(t, "people", RemoveAt(ppl, b.at))
        /\ revoked' = [revoked EXCEPT ![t] = revoked[t] \/ ppl[b.at].on]
  BY DEF PersonDel
<1>2. ppl \in Seq(Rows("people"))
  BY DEF ListsOK, RowsOK
<1> HIDE DEF ppl
<1>3. RowsOK'
  BY <1>1, <1>2, RemoveTypes
<1>4. made' = made /\ assign' = assign /\ Lose(t, "people")
  BY DEF PersonDel
<1>5. pages' \subseteq Page
  BY <1>4, LosePages DEF ListsOK
<1>6. (revoked[t] \/ ppl[b.at].on) \in BOOLEAN
  OBVIOUS
<1>7. revoked' \in [Tenants -> BOOLEAN]
  BY <1>1, <1>6 DEF HandoverOK
<1> QED BY <1>3, <1>4, <1>5, <1>7 DEF ListsOK, HandoverOK

LEMMA TeamTypes ==
  ASSUME TypeOK, NEW t \in Tenants, Team(t)
  PROVE  TypeOK'
<1> USE TypeParts, Vocabulary
<1>0. AgentOK' /\ WiresOK' /\ FilesOK' /\ SmallOK' /\ ConsentOK' /\ BoundsOK'
  BY Untouched, AskTypes DEF Team, PersonAdd, PersonToggle, PersonDel, Assign
<1>1. CASE PersonAdd(t)
  <2>1. PICK name \in Typed["people"] : AddTo(t, "people", name, FALSE)
    BY <1>1 DEF PersonAdd
  <2>2. RowsOK' /\ made' \in Nat
    BY <2>1, AddTypes
  <2>3. ListsOK' /\ HandoverOK' /\ LogOK'
    BY <1>1, <2>2, Untouched DEF PersonAdd, ListsOK
  <2> QED BY <1>0, <2>3
<1>2. CASE PersonToggle(t)
  <2>1. LogOK'
    BY <1>2, Untouched DEF PersonToggle
  <2> QED BY <1>0, <1>2, <2>1, PersonToggleTypes
<1>3. CASE PersonDel(t)
  <2>1. LogOK'
    BY <1>3, Untouched DEF PersonDel
  <2> QED BY <1>0, <1>3, <2>1, PersonDelTypes
<1>4. CASE Assign(t)
  <2>1. PICK name \in {Nobody} \cup Typed["people"] :
          /\ assign' = [assign EXCEPT ![t] = name]
          /\ IF name = Nobody THEN UNCHANGED log ELSE log_decision(t, "handover", "handed")
    BY <1>4 DEF Assign
  <2>2. LogOK'
    BY <2>1, LogLine, Untouched
  <2>3. HandoverOK'
    BY <1>4, <2>1 DEF Assign, HandoverOK
  <2>4. ListsOK'
    BY <1>4, Untouched DEF Assign
  <2> QED BY <1>0, <2>2, <2>3, <2>4
<1> QED BY <1>1, <1>2, <1>3, <1>4 DEF Team

\* seed_skills as a list: what ListOf gives for the skills.
LEMMA SeededSkills ==
  ASSUME RowsOK, NEW t \in Tenants
  PROVE  /\ seed_skills(t) \in Seq(Rows("skills"))
         /\ ListOf(t, "skills") = seed_skills(t)
<1>1. "skills" \in Kinds
  BY DEF Kinds
<1> QED BY <1>1, SeededRows DEF ListOf

LEMMA SkillActTypes ==
  ASSUME TypeOK, NEW t \in Tenants, NEW act \in {"live", "draft", "del"}, SkillAct(t, act)
  PROVE  ListsOK' /\ ConsentOK' /\ LogOK'
<1> USE TypeParts, Vocabulary
<1> DEFINE lst == seed_skills(t)
<1>1. PICK b \in Presses(t, "skills") :
        /\ b.at \in DOMAIN lst
        /\ Consent(t, b, lst[b.at].id, act)
        /\ Put(t, "skills", IF act = "del" THEN RemoveAt(lst, b.at)
                            ELSE [lst EXCEPT ![b.at] = [lst[b.at] EXCEPT !.on = (act = "live")]])
        /\ log_decision(t, "skill", IF act = "del" THEN "removed" ELSE act)
  BY DEF SkillAct
<1>2. lst \in Seq(Rows("skills"))
  BY SeededSkills DEF ListsOK
<1> HIDE DEF lst
<1>3. lst[b.at] \in Rows("skills") /\ [lst[b.at] EXCEPT !.on = (act = "live")] \in Rows("skills")
  BY <1>1, <1>2, RowAt
<1>4. RowsOK'
  <2>1. CASE act = "del"
    BY <1>1, <1>2, <2>1, RemoveTypes
  <2>2. CASE act # "del"
    BY <1>1, <1>2, <1>3, <2>2, WriteTypes
  <2> QED BY <2>1, <2>2
<1>5. made' = made /\ (Lose(t, "skills") \/ UNCHANGED pages)
  BY DEF SkillAct
<1>6. pages' \subseteq Page
  BY <1>5, LosePages DEF ListsOK
<1>7. ConsentOK'
  <2>1. b.saw \in Nat
    BY PressAt
  <2>2. lst[b.at].id \in Nat
    BY <1>3 DEF Rows
  <2>3. asked' = [asked EXCEPT ![t] = IF act = "live" THEN asked[t] \cup {b.saw} ELSE asked[t]]
    BY <1>1 DEF Consent
  <2>4. misled' = [misled EXCEPT ![t] = IF lst[b.at].id # b.saw
                                        THEN misled[t] \cup {lst[b.at].id} ELSE misled[t]]
    BY <1>1 DEF Consent
  <2>5. asked' \in [Tenants -> SUBSET Nat]
    BY <2>1, <2>3 DEF ConsentOK
  <2>6. misled' \in [Tenants -> SUBSET Nat]
    BY <2>2, <2>4 DEF ConsentOK
  <2> QED BY <2>5, <2>6 DEF ConsentOK
<1>8. LogOK'
  BY <1>1, LogLine
<1> QED BY <1>4, <1>5, <1>6, <1>7, <1>8 DEF ListsOK

\* Some number of a set of numbers is the least.
LEMMA LeastOf ==
  ASSUME NEW I, I \subseteq Nat, I # {}
  PROVE  \E i \in I : \A j \in I : i <= j
<1> DEFINE R == OpToRel(<, Nat)
<1>1. IsWellFoundedOn(R, Nat)
  BY NatLessThanWellFounded
<1>2. \A i, j \in Nat : <<j, i>> \in R <=> j < i
  BY DEF OpToRel
<1> HIDE DEF R
<1>3. PICK i \in I : \A j \in I : ~(<<j, i>> \in R)
  BY <1>1, WFMin
<1>4. i \in Nat
  OBVIOUS
<1>5. ASSUME NEW j \in I PROVE i <= j
  <2>1. j \in Nat
    OBVIOUS
  <2>2. ~(j < i)
    BY <1>2, <1>3, <1>4, <2>1
  <2> QED BY <1>4, <2>1, <2>2
<1> QED BY <1>5

\* The first row with a title is a row with it.
LEMMA FirstTitled ==
  ASSUME NEW lst \in Seq(AnyRow), NEW title, TitledSo(lst, title) # {}
  PROVE  /\ First(TitledSo(lst, title)) \in DOMAIN lst
         /\ lst[First(TitledSo(lst, title))].name = title
<1> DEFINE I == TitledSo(lst, title)
<1>1. I \subseteq DOMAIN lst /\ \A i \in I : lst[i].name = title
  BY DEF TitledSo
<1>2. DOMAIN lst \subseteq Nat
  BY LenProperties
<1>3. \E i \in I : \A j \in I : i <= j
  <2>1. I \subseteq Nat /\ I # {}
    BY <1>1, <1>2
  <2> HIDE DEF I
  <2> QED BY <2>1, LeastOf
<1>4. First(I) \in I
  BY <1>3 DEF First
<1> QED BY <1>1, <1>4

LEMMA ProcedureSaveTypes ==
  ASSUME TypeOK, NEW t \in Tenants, NEW mode \in {"live", "draft"}, ProcedureSave(t, mode)
  PROVE  ListsOK' /\ ConsentOK'
<1> USE TypeParts, Vocabulary
<1> DEFINE lst == rows[t]["skills"]
<1>1. PICK title \in Typed["skills"] :
        /\ IF TitledSo(lst, title) = {}
           THEN AddTo(t, "skills", title, SaysLive(mode))
           ELSE LET i == First(TitledSo(lst, title)) IN
                /\ Put(t, "skills",
                       [lst EXCEPT ![i] = [lst[i] EXCEPT !.on = lst[i].on \/ SaysLive(mode)]])
                /\ UNCHANGED made
        /\ asked' = [asked EXCEPT ![t] =
                       IF mode = "live"
                       THEN asked[t] \cup {IF TitledSo(lst, title) = {} THEN made + 1
                                           ELSE lst[First(TitledSo(lst, title))].id}
                       ELSE asked[t]]
  BY DEF ProcedureSave
<1>2. lst \in Seq(Rows("skills")) /\ lst \in Seq(AnyRow)
  BY DEF ListsOK, RowsOK
<1>3. pages' = pages /\ misled' = misled
  BY DEF ProcedureSave
<1>4. SaysLive(mode) \in BOOLEAN
  BY DEF SaysLive
<1>5. CASE TitledSo(lst, title) = {}
  <2>1. AddTo(t, "skills", title, SaysLive(mode))
    BY <1>1, <1>5
  <2>2. RowsOK' /\ made' \in Nat
    BY <1>4, <2>1, AddTypes
  <2>3. asked' \in [Tenants -> SUBSET Nat]
    BY <1>1, <1>5 DEF ConsentOK, ListsOK
  <2> QED BY <1>3, <2>2, <2>3 DEF ListsOK, ConsentOK
<1>6. CASE TitledSo(lst, title) # {}
  <2> DEFINE i == First(TitledSo(lst, title))
  <2>1. i \in DOMAIN lst
    BY <1>2, <1>6, FirstTitled
  <2>2. /\ Put(t, "skills",
               [lst EXCEPT ![i] = [lst[i] EXCEPT !.on = lst[i].on \/ SaysLive(mode)]])
        /\ made' = made
    BY <1>1, <1>6
  <2>3. asked' = [asked EXCEPT ![t] = IF mode = "live" THEN asked[t] \cup {lst[i].id}
                                      ELSE asked[t]]
    BY <1>1, <1>6
  <2> HIDE DEF i, lst
  <2>4. (lst[i].on \/ SaysLive(mode)) \in BOOLEAN
    OBVIOUS
  <2>5. /\ lst[i] \in Rows("skills")
        /\ [lst[i] EXCEPT !.on = lst[i].on \/ SaysLive(mode)] \in Rows("skills")
    BY <1>2, <2>1, <2>4, RowAt
  <2>6. RowsOK'
    BY <1>2, <2>1, <2>2, <2>5, WriteTypes
  <2>7. lst[i].id \in Nat
    BY <2>5 DEF Rows
  <2>8. asked' \in [Tenants -> SUBSET Nat]
    BY <2>3, <2>7 DEF ConsentOK
  <2> QED BY <1>3, <2>2, <2>6, <2>8 DEF ListsOK, ConsentOK
<1> QED BY <1>5, <1>6

LEMMA SkillTypes ==
  ASSUME TypeOK, NEW t \in Tenants, SkillForms(t)
  PROVE  TypeOK'
<1> USE TypeParts, Vocabulary
<1>1. ASSUME NEW act \in {"live", "draft", "del"}, SkillAct(t, act)
      PROVE  TypeOK'
  <2>1. /\ AgentOK' /\ WiresOK' /\ FilesOK' /\ SmallOK' /\ HandoverOK' /\ BoundsOK'
    BY <1>1, Untouched, AskTypes DEF SkillAct
  <2> QED BY <1>1, <2>1, SkillActTypes
<1>2. ASSUME NEW mode \in {"live", "draft"}, ProcedureSave(t, mode)
      PROVE  TypeOK'
  <2>1. /\ AgentOK' /\ WiresOK' /\ FilesOK' /\ SmallOK' /\ HandoverOK' /\ LogOK' /\ BoundsOK'
    BY <1>2, Untouched, AskTypes DEF ProcedureSave
  <2> QED BY <1>2, <2>1, ProcedureSaveTypes
<1> QED BY <1>1, <1>2 DEF SkillForms

LEMMA RoutineTypes ==
  ASSUME TypeOK, NEW t \in Tenants, RoutineForms(t)
  PROVE  TypeOK'
<1> USE TypeParts, Vocabulary
<1> DEFINE rs == rows[t]["routines"]
<1>0. /\ AgentOK' /\ WiresOK' /\ FilesOK' /\ SmallOK' /\ ConsentOK' /\ HandoverOK'
      /\ LogOK' /\ BoundsOK'
  BY Untouched, AskTypes DEF RoutineForms, RoutineAdd, RoutineToggle, RoutineEdit, RoutineDel
<1>1. rs \in Seq(Rows("routines"))
  BY DEF ListsOK, RowsOK
<1>2. CASE RoutineAdd(t)
  <2>1. PICK text \in Typed["routines"] : AddTo(t, "routines", text, TRUE)
    BY <1>2 DEF RoutineAdd
  <2>2. RowsOK' /\ made' \in Nat
    BY <2>1, AddTypes
  <2>3. ListsOK'
    BY <1>2, <2>2 DEF RoutineAdd, ListsOK
  <2> QED BY <1>0, <2>3
<1>3. CASE RoutineToggle(t)
  <2>1. PICK b \in Presses(t, "routines") :
          /\ b.at \in DOMAIN rs
          /\ Put(t, "routines", [rs EXCEPT ![b.at] = [rs[b.at] EXCEPT !.on = ~rs[b.at].on]])
    BY <1>3 DEF RoutineToggle
  <2> HIDE DEF rs
  <2>2. (~rs[b.at].on) \in BOOLEAN
    OBVIOUS
  <2>3. [rs[b.at] EXCEPT !.on = ~rs[b.at].on] \in Rows("routines")
    BY <1>1, <2>1, <2>2, RowAt
  <2>4. RowsOK'
    BY <1>1, <2>1, <2>3, WriteTypes
  <2>5. ListsOK'
    BY <1>3, <2>4 DEF RoutineToggle, ListsOK
  <2> QED BY <1>0, <2>5
<1>4. CASE RoutineEdit(t)
  <2>1. PICK b \in Presses(t, "routines"), text \in Typed["routines"] :
          /\ b.at \in DOMAIN rs
          /\ Put(t, "routines", [rs EXCEPT ![b.at] = [rs[b.at] EXCEPT !.name = text]])
    BY <1>4 DEF RoutineEdit
  <2> HIDE DEF rs
  <2>2. [rs[b.at] EXCEPT !.name = text] \in Rows("routines")
    BY <1>1, <2>1, RowAt
  <2>3. RowsOK'
    BY <1>1, <2>1, <2>2, WriteTypes
  <2>4. ListsOK'
    BY <1>4, <2>3 DEF RoutineEdit, ListsOK
  <2> QED BY <1>0, <2>4
<1>5. CASE RoutineDel(t)
  <2>1. PICK b \in Presses(t, "routines") :
          b.at \in DOMAIN rs /\ Put(t, "routines", RemoveAt(rs, b.at))
    BY <1>5 DEF RoutineDel
  <2> HIDE DEF rs
  <2>2. RowsOK'
    BY <1>1, <2>1, RemoveTypes
  <2>3. pages' \subseteq Page
    BY <1>5, LosePages DEF RoutineDel, ListsOK
  <2>4. ListsOK'
    BY <1>5, <2>2, <2>3 DEF RoutineDel, ListsOK
  <2> QED BY <1>0, <2>4
<1> QED BY <1>2, <1>3, <1>4, <1>5 DEF RoutineForms

LEMMA RuleTypes ==
  ASSUME TypeOK, NEW t \in Tenants, RuleForms(t)
  PROVE  TypeOK'
<1> USE TypeParts, Vocabulary
<1> DEFINE rules == rows[t]["rules"]
<1>0. /\ AgentOK' /\ WiresOK' /\ FilesOK' /\ SmallOK' /\ ConsentOK' /\ HandoverOK' /\ BoundsOK'
  BY Untouched, AskTypes DEF RuleForms, AddRule, DelRule
<1>1. LogOK'
  BY LogLine DEF RuleForms, AddRule, DelRule
<1>2. rules \in Seq(Rows("rules"))
  BY DEF ListsOK, RowsOK
<1>3. CASE AddRule(t)
  <2>1. PICK text \in Typed["rules"] : AddTo(t, "rules", text, TRUE)
    BY <1>3 DEF AddRule
  <2>2. RowsOK' /\ made' \in Nat
    BY <2>1, AddTypes
  <2>3. ListsOK'
    BY <1>3, <2>2 DEF AddRule, ListsOK
  <2> QED BY <1>0, <1>1, <2>3
<1>4. CASE DelRule(t)
  <2>1. PICK b \in Presses(t, "rules") :
          b.at \in DOMAIN rules /\ Put(t, "rules", RemoveAt(rules, b.at))
    BY <1>4 DEF DelRule
  <2> HIDE DEF rules
  <2>2. RowsOK'
    BY <1>2, <2>1, RemoveTypes
  <2>3. pages' \subseteq Page
    BY <1>4, LosePages DEF DelRule, ListsOK
  <2>4. ListsOK'
    BY <1>4, <2>2, <2>3 DEF DelRule, ListsOK
  <2> QED BY <1>0, <1>1, <2>4
<1> QED BY <1>3, <1>4 DEF RuleForms

LEMMA AgentTypes ==
  ASSUME TypeOK, NEW t \in Tenants, AgentForms(t)
  PROVE  TypeOK'
<1> USE TypeParts, Vocabulary
<1>0. /\ ListsOK' /\ WiresOK' /\ FilesOK' /\ SmallOK' /\ ConsentOK' /\ HandoverOK' /\ BoundsOK'
  BY Untouched, AskTypes DEF AgentForms, SetInstructions, SwitchTool, SetLearning, SetLimit,
                             RunChecks, SwitchAgent
<1>1. LogOK'
  BY LogLine DEF AgentForms, SetInstructions, SwitchTool, SetLearning, SetLimit, RunChecks,
                 SwitchAgent
<1>2. AgentOK'
  <2>1. cfg[t] \in Cfg
    BY DEF AgentOK
  <2>2. CASE SetInstructions(t)
    BY <2>1, <2>2 DEF SetInstructions, AgentOK, Cfg
  <2>3. CASE SwitchTool(t)
    BY <2>1, <2>3 DEF SwitchTool, AgentOK, Cfg
  <2>4. CASE SetLearning(t)
    BY <2>1, <2>4 DEF SetLearning, AgentOK, Cfg
  <2>5. CASE SetLimit(t)
    BY <2>1, <2>5 DEF SetLimit, AgentOK, Cfg
  <2>6. CASE RunChecks(t)
    BY <2>1, <2>6 DEF RunChecks, AgentOK, Cfg
  <2>7. CASE SwitchAgent(t)
    BY <2>7 DEF SwitchAgent, AgentOK
  <2> QED BY <2>2, <2>3, <2>4, <2>5, <2>6, <2>7 DEF AgentForms
<1> QED BY <1>0, <1>1, <1>2

LEMMA WireTypes ==
  ASSUME TypeOK, NEW t \in Tenants, WireForms(t)
  PROVE  TypeOK'
<1> USE TypeParts, Vocabulary
<1>0. /\ ListsOK' /\ AgentOK' /\ FilesOK' /\ SmallOK' /\ ConsentOK' /\ HandoverOK' /\ BoundsOK'
  BY Untouched, AskTypes DEF WireForms, ConnAct, PropAct
<1>1. ASSUME NEW act \in ConnActs, ConnAct(t, act)
      PROVE  WiresOK' /\ LogOK'
  <2>1. PICK c \in Conns : /\ conn' = [conn EXCEPT ![t][c] = ConnBecomes(act)]
                           /\ log_decision(t, c, ConnBecomes(act))
    BY <1>1 DEF ConnAct
  <2>2. ConnBecomes(act) \in {"paused", "off", "on"}
    BY DEF ConnBecomes, ConnActs
  <2>3. LogOK'
    BY <2>1, <2>2, LogLine
  <2>4. WiresOK'
    BY <1>1, <2>1, <2>2 DEF ConnAct, WiresOK
  <2> QED BY <2>3, <2>4
<1>2. ASSUME NEW action \in {"approved", "declined"}, PropAct(t, action)
      PROVE  WiresOK' /\ LogOK'
  <2>1. PICK p \in Props : /\ prop' = [prop EXCEPT ![t][p] = action]
                           /\ log_decision(t, p, action)
    BY <1>2 DEF PropAct
  <2>2. LogOK'
    BY <2>1, LogLine
  <2>3. WiresOK'
    BY <1>2, <2>1 DEF PropAct, WiresOK
  <2> QED BY <2>2, <2>3
<1> QED BY <1>0, <1>1, <1>2 DEF WireForms

LEMMA FileTypes ==
  ASSUME TypeOK, NEW t \in Tenants, FileForms(t)
  PROVE  TypeOK'
<1> USE TypeParts, Vocabulary
<1>0. /\ RowsOK' /\ pages' = pages /\ AgentOK' /\ WiresOK' /\ SmallOK' /\ ConsentOK'
      /\ HandoverOK' /\ BoundsOK'
  BY Untouched, AskTypes DEF FileForms, FileUpload, FileLink, FileNote, FileFolder, FileDel,
                             Shelve, lists, ListsOK
<1>1. ASSUME NEW name \in FileNames, NEW folder \in folders[t] \cup {Files},
             Shelve(t, name, folder)
      PROVE  made' \in Nat /\ FilesOK' /\ LogOK'
  <2>1. folder \in {Files} \cup Folders
    BY DEF FilesOK
  <2>2. [id |-> made + 1, name |-> name, folder |-> folder]
          \in [id : Nat, name : FileNames, folder : {Files} \cup Folders]
    BY <2>1 DEF ListsOK
  <2>3. made' \in Nat
    BY <1>1 DEF Shelve, ListsOK
  <2>4. FilesOK'
    BY <1>1, <2>2 DEF Shelve, FilesOK
  <2>5. LogOK'
    BY <1>1, LogLine DEF Shelve
  <2> QED BY <2>3, <2>4, <2>5
<1>2. CASE FileUpload(t) \/ FileLink(t) \/ FileNote(t)
  BY <1>0, <1>1, <1>2 DEF FileUpload, FileLink, FileNote, ListsOK
<1>3. CASE FileFolder(t)
  <2>1. FilesOK'
    BY <1>3 DEF FileFolder, FilesOK
  <2>2. LogOK' /\ ListsOK'
    BY <1>3, Untouched DEF FileFolder
  <2> QED BY <1>0, <2>1, <2>2
<1>4. CASE FileDel(t)
  <2>1. FilesOK'
    BY <1>4 DEF FileDel, FilesOK
  <2>2. LogOK' /\ ListsOK'
    BY <1>4, LogLine, Untouched DEF FileDel
  <2> QED BY <1>0, <2>1, <2>2
<1> QED BY <1>2, <1>3, <1>4 DEF FileForms

LEMMA SmallTypes ==
  ASSUME TypeOK, NEW t \in Tenants, SmallForms(t)
  PROVE  TypeOK'
<1> USE TypeParts
<1>0. /\ ListsOK' /\ AgentOK' /\ WiresOK' /\ FilesOK' /\ ConsentOK' /\ HandoverOK' /\ LogOK'
      /\ BoundsOK'
  BY Untouched, AskTypes DEF SmallForms, OnboardPhone, OnboardingDone, EvNote
<1>1. SmallOK'
  <2>1. small[t].notes + 1 \in Nat
    BY DEF SmallOK
  <2>2. CASE OnboardPhone(t)
    BY <2>2 DEF OnboardPhone, SmallOK
  <2>3. CASE OnboardingDone(t)
    BY <2>3 DEF OnboardingDone, SmallOK
  <2>4. CASE EvNote(t)
    BY <2>1, <2>4 DEF EvNote, SmallOK
  <2> QED BY <2>2, <2>3, <2>4 DEF SmallForms
<1> QED BY <1>0, <1>1

LEMMA OpenPageTypes ==
  ASSUME TypeOK, NEW t \in Tenants, NEW k \in Kinds, OpenPage(t, k)
  PROVE  TypeOK'
<1> USE TypeParts
<1>0. /\ AgentOK' /\ WiresOK' /\ FilesOK' /\ SmallOK' /\ ConsentOK' /\ HandoverOK' /\ LogOK'
      /\ BoundsOK'
  BY Untouched DEF OpenPage
<1>1. ListOf(t, k) \in Seq(Rows(k))
  BY SeededRows DEF ListsOK
<1>2. RowsOK'
  BY <1>1, PutList DEF OpenPage, ListsOK
<1>3. Ids(ListOf(t, k)) \in Seq(Nat)
  BY <1>1, IdsTyped
<1>4. pages' \subseteq Page
  <2>1. [tenant |-> t, kind |-> k, ids |-> Ids(ListOf(t, k)), lost |-> FALSE] \in Page
    BY <1>3 DEF Page
  <2>2. pages' = pages \cup
          {[tenant |-> t, kind |-> k, ids |-> Ids(ListOf(t, k)), lost |-> FALSE]}
    BY DEF OpenPage
  <2> QED BY <2>1, <2>2 DEF ListsOK
<1> QED BY <1>0, <1>2, <1>4 DEF OpenPage, ListsOK

\* What a list is after a restart.
LEMMA RestartRows ==
  ASSUME RowsOK, Restart, NEW t \in Tenants, NEW k \in Kinds
  PROVE  rows'[t][k] = CASE k = "people" -> Shipped["people"]
                         [] k = "skills" -> <<>>
                         [] OTHER -> rows[t][k]
  BY DEF Restart, RestartWith, RowsOK, Kinds

LEMMA RestartTypes ==
  ASSUME TypeOK, Restart
  PROVE  TypeOK'
<1> USE TypeParts, Vocabulary
<1>0. AgentOK' /\ ConsentOK'
  BY Untouched DEF Restart, RestartWith, agent
<1>1. /\ Shipped["people"] \in Seq(Rows("people")) /\ Shipped["people"] \in Seq(AnyRow)
      /\ <<>> \in Seq(Rows("skills")) /\ <<>> \in Seq(AnyRow)
  BY ShippedRows, RowsAreRows, EmptySeq
<1>2. rows' \in [Tenants -> [Kinds -> Seq(AnyRow)]]
  BY <1>1 DEF Restart, RestartWith, ListsOK, RowsOK
<1>3. \A t \in Tenants, k \in Kinds : rows'[t][k] \in Seq(Rows(k))
  BY <1>1, RestartRows DEF ListsOK, RowsOK
<1>4. pages' \subseteq Page
  <2> SUFFICES ASSUME NEW q \in pages' PROVE q \in Page
    OBVIOUS
  <2>1. PICK p \in pages :
          q = [p EXCEPT !.lost = p.lost \/ p.kind \in {"people", "skills"}]
    BY DEF Restart, RestartWith
  <2>2. (p.lost \/ p.kind \in {"people", "skills"}) \in BOOLEAN
    OBVIOUS
  <2>3. p \in Page
    BY DEF ListsOK
  <2> QED BY <2>1, <2>2, <2>3 DEF Page
<1>5. ListsOK'
  BY <1>2, <1>3, <1>4 DEF Restart, RestartWith, ListsOK, RowsOK
<1>6. WiresOK' /\ FilesOK'
  BY DEF Restart, RestartWith, WiresOK, FilesOK
<1>7. SmallOK'
  BY DEF Restart, RestartWith, SmallOK
<1>8. HandoverOK'
  BY DEF Restart, RestartWith, HandoverOK
<1>9. LogOK'
  BY EmptySeq DEF Restart, RestartWith, EmptyLog, LogOK
<1>10. BoundsOK'
  <2>1. restarts \in 0..MaxRestarts /\ MaxRestarts \in Nat
    BY DeskAssumption DEF BoundsOK
  <2>2. restarts < MaxRestarts /\ restarts' = restarts + 1 /\ asks' = asks
    BY DEF Restart, RestartWith
  <2>3. restarts' \in 0..MaxRestarts
    BY <2>1, <2>2
  <2> QED BY <2>2, <2>3 DEF BoundsOK
<1> QED BY <1>0, <1>5, <1>6, <1>7, <1>8, <1>9, <1>10

\* Of five numbers one is the greatest.
LEMMA GreatestOfFive ==
  ASSUME NEW a \in Nat, NEW b \in Nat, NEW c \in Nat, NEW d \in Nat, NEW e \in Nat
  PROVE  \E x \in {a, b, c, d, e} : \A y \in {a, b, c, d, e} : x >= y
<1> DEFINE p == IF a >= b THEN a ELSE b
           q == IF c >= d THEN c ELSE d
           r == IF p >= q THEN p ELSE q
           x == IF r >= e THEN r ELSE e
<1>1. x \in {a, b, c, d, e}
  OBVIOUS
<1>2. x >= a /\ x >= b /\ x >= c /\ x >= d /\ x >= e
  OBVIOUS
<1> HIDE DEF x
<1>3. \A y \in {a, b, c, d, e} : x >= y
  BY <1>2
<1> QED BY <1>1, <1>3

\* The longest list that ships, whatever it is, gives the first free id.
LEMMA MadeTyped ==
  Max({Len(Shipped[k]) : k \in Kinds} \cup {Len(ShippedFiles)}) \in Nat
<1> DEFINE a == Len(Shipped["people"])
           b == Len(Shipped["skills"])
           c == Len(Shipped["routines"])
           d == Len(Shipped["rules"])
           e == Len(ShippedFiles)
           S == {Len(Shipped[k]) : k \in Kinds} \cup {e}
<1>1. S = {a, b, c, d, e}
  BY DEF Kinds
<1>2. a \in Nat /\ b \in Nat /\ c \in Nat /\ d \in Nat /\ e \in Nat
  BY ShippedRows, ShelfAssumption, LenProperties DEF Kinds
<1> HIDE DEF a, b, c, d, e, S
<1>3. \E x \in S : \A y \in S : x >= y
  BY <1>1, <1>2, GreatestOfFive
<1>4. S \subseteq Nat
  BY <1>1, <1>2
<1>5. Max(S) \in S
  BY <1>3 DEF Max
<1> QED BY <1>4, <1>5 DEF S, e

LEMMA InitTypes ==
  ASSUME Init
  PROVE  TypeOK
<1> USE TypeParts, Vocabulary
<1>1. \A k \in Kinds : Shipped[k] \in Seq(Rows(k)) /\ Shipped[k] \in Seq(AnyRow)
  BY ShippedRows, RowsAreRows
<1>2. \A k \in Kinds : <<>> \in Seq(Rows(k)) /\ <<>> \in Seq(AnyRow)
  BY EmptySeq
<1>3. RowsOK
  BY <1>1, <1>2 DEF Init, RowsOK
<1>4. ListsOK
  BY <1>3, MadeTyped DEF Init, ListsOK
<1>5. AgentOK
  BY DEF Init, AgentOK, Cfg
<1>6. WiresOK
  BY DEF Init, WiresOK
<1>7. FilesOK
  <2>1. \A i \in DOMAIN ShippedFiles : i \in Nat /\ ShippedFiles[i] \in FileNames
    BY ShelfAssumption, LenProperties, ElementOfSeq
  <2> QED BY <2>1 DEF Init, FilesOK
<1>8. SmallOK
  BY DEF Init, SmallOK
<1>9. ConsentOK /\ HandoverOK
  BY DEF Init, ConsentOK, HandoverOK
<1>10. LogOK
  BY EmptySeq DEF Init, EmptyLog, LogOK
<1>11. BoundsOK
  BY DeskAssumption DEF Init, BoundsOK
<1> QED BY <1>4, <1>5, <1>6, <1>7, <1>8, <1>9, <1>10, <1>11

\* A step that leaves everything alone.
LEMMA StutterTypes ==
  ASSUME TypeOK, UNCHANGED vars
  PROVE  TypeOK'
  BY TypeParts, Untouched DEF vars, lists, agent, wires, files, consent, handover

\* Every store of the control plane keeps its type.
THEOREM DeskTypes == Spec => []TypeOK
<1>1. Init => TypeOK
  BY InitTypes
<1>2. TypeOK /\ [Next]_vars => TypeOK'
  BY TeamTypes, SkillTypes, RoutineTypes, RuleTypes, AgentTypes, WireTypes, FileTypes,
     SmallTypes, OpenPageTypes, RestartTypes, StutterTypes DEF Next
<1> QED BY <1>1, <1>2, PTL DEF Spec

-----------------------------------------------------------------------------
(* Files and folders.                                                      *)

FolderOK == \A t \in Tenants : \A f \in shelf[t] : f.folder \in {Files} \cup folders[t]

\* A file put into a folder that is offered.
LEMMA ShelveKeepsFolders ==
  ASSUME FilesOK, FolderOK, NEW t \in Tenants, NEW name,
         NEW folder \in folders[t] \cup {Files}, Shelve(t, name, folder)
  PROVE  FolderOK'
<1> DEFINE new == [id |-> made + 1, name |-> name, folder |-> folder]
<1>1. shelf' = [shelf EXCEPT ![t] = shelf[t] \cup {new}] /\ folders' = folders
  BY DEF Shelve
<1>2. new.folder = folder
  OBVIOUS
<1> HIDE DEF new
<1> SUFFICES ASSUME NEW u \in Tenants, NEW f \in shelf'[u]
             PROVE  f.folder \in {Files} \cup folders'[u]
  BY DEF FolderOK
<1>3. f \in shelf[u] \/ (u = t /\ f = new)
  BY <1>1 DEF FilesOK
<1> QED BY <1>1, <1>2, <1>3 DEF FolderOK

LEMMA FolderStep ==
  ASSUME FilesOK, FolderOK, Next
  PROVE  FolderOK'
<1>1. ASSUME NEW t \in Tenants, FileUpload(t) \/ FileLink(t) \/ FileNote(t)
      PROVE  FolderOK'
  BY <1>1, ShelveKeepsFolders DEF FileUpload, FileLink, FileNote
<1>2. ASSUME NEW t \in Tenants, FileFolder(t)
      PROVE  FolderOK'
  <2>1. PICK name \in Folders \ folders[t] :
          folders' = [folders EXCEPT ![t] = folders[t] \cup {name}]
    BY <1>2 DEF FileFolder
  <2>2. shelf' = shelf
    BY <1>2 DEF FileFolder
  <2>3. \A u \in Tenants : folders[u] \subseteq folders'[u]
    BY <2>1 DEF FilesOK
  <2> QED BY <2>2, <2>3 DEF FolderOK
<1>3. ASSUME NEW t \in Tenants, FileDel(t)
      PROVE  FolderOK'
  <2>1. PICK name \in FileNames :
          shelf' = [shelf EXCEPT ![t] = {f \in shelf[t] : f.name # name}]
    BY <1>3 DEF FileDel
  <2>2. folders' = folders
    BY <1>3 DEF FileDel
  <2>3. \A u \in Tenants : shelf'[u] \subseteq shelf[u]
    BY <2>1 DEF FilesOK
  <2> QED BY <2>2, <2>3 DEF FolderOK
<1>4. CASE UNCHANGED <<shelf, folders>>
  BY <1>4 DEF FolderOK
<1>5. ASSUME NEW t \in Tenants,
             Team(t) \/ SkillForms(t) \/ RoutineForms(t) \/ RuleForms(t)
      PROVE  UNCHANGED <<shelf, folders>>
  BY <1>5 DEF Team, PersonAdd, PersonToggle, PersonDel, Assign, SkillForms, SkillAct,
              ProcedureSave, RoutineForms, RoutineAdd, RoutineToggle, RoutineEdit, RoutineDel,
              RuleForms, AddRule, DelRule, files
<1>6. ASSUME NEW t \in Tenants, AgentForms(t) \/ WireForms(t) \/ SmallForms(t)
      PROVE  UNCHANGED <<shelf, folders>>
  BY <1>6 DEF AgentForms, SetInstructions, SwitchTool, SetLearning, SetLimit, RunChecks,
              SwitchAgent, WireForms, ConnAct, PropAct, SmallForms, OnboardPhone,
              OnboardingDone, EvNote, files
<1>7. ASSUME NEW t \in Tenants, NEW k \in Kinds, OpenPage(t, k)
      PROVE  UNCHANGED <<shelf, folders>>
  BY <1>7 DEF OpenPage, files
<1>8. Restart => UNCHANGED <<shelf, folders>>
  BY DEF Restart, RestartWith
<1> QED BY <1>1, <1>2, <1>3, <1>4, <1>5, <1>6, <1>7, <1>8 DEF Next, FileForms

\* A file lies in a folder the Files page offers, across every restart.
THEOREM FilesKeepTheirFolderHolds == Spec => []FilesKeepTheirFolder
<1>1. Init => FolderOK
  BY DEF Init, FolderOK
<1>2. TypeOK /\ FolderOK /\ [Next]_vars => FolderOK'
  <2>1. TypeOK => FilesOK
    BY TypeParts
  <2>2. UNCHANGED vars /\ FolderOK => FolderOK'
    BY DEF vars, FolderOK
  <2> QED BY <2>1, <2>2, FolderStep
<1>3. FolderOK => FilesKeepTheirFolder
  BY DEF FolderOK, FilesKeepTheirFolder, memory_content
<1> QED BY <1>1, <1>2, <1>3, DeskTypes, PTL DEF Spec

-----------------------------------------------------------------------------
(* The yes of a waiting case.                                              *)

MayIn(list, name) ==
  name = Nobody \/ \E i \in DOMAIN list : list[i].on /\ list[i].name = name

YesOK == \A t \in Tenants : ~revoked[t] => MayIn(rows[t]["people"], assign[t])

\* Every approver of one list is one of another.
Covers(old, new) ==
  \A i \in DOMAIN old : old[i].on =>
    \E j \in DOMAIN new : new[j].on /\ new[j].name = old[i].name

LEMMA StillMay ==
  ASSUME NEW old, NEW new, NEW name, MayIn(old, name), Covers(old, new)
  PROVE  MayIn(new, name)
  BY DEF MayIn, Covers

\* Whatever is put in the place of one list, the others stay.
LEMMA PutElsewhere ==
  ASSUME RowsOK, NEW t \in Tenants, NEW k \in Kinds, NEW list, Put(t, k, list)
  PROVE  \A u \in Tenants, l \in Kinds : u # t \/ l # k => rows'[u][l] = rows[u][l]
  BY DEF Put, RowsOK

\* What the forms of the other lists leave alone.
LEMMA OtherLists ==
  ASSUME RowsOK, NEW t \in Tenants
  PROVE  /\ Team(t) => \A u \in Tenants, l \in Kinds \ {"people"} : rows'[u][l] = rows[u][l]
         /\ SkillForms(t) => \A u \in Tenants, l \in Kinds \ {"skills"} : rows'[u][l] = rows[u][l]
         /\ RoutineForms(t) =>
              \A u \in Tenants, l \in Kinds \ {"routines"} : rows'[u][l] = rows[u][l]
         /\ RuleForms(t) => \A u \in Tenants, l \in Kinds \ {"rules"} : rows'[u][l] = rows[u][l]
         /\ AgentForms(t) \/ WireForms(t) \/ FileForms(t) \/ SmallForms(t) => rows' = rows
<1> USE Vocabulary
<1>1. Team(t) => \A u \in Tenants, l \in Kinds \ {"people"} : rows'[u][l] = rows[u][l]
  <2>1. Team(t) => (\E list : Put(t, "people", list)) \/ rows' = rows
    BY DEF Team, PersonAdd, PersonToggle, PersonDel, Assign, AddTo, lists
  <2> QED BY <2>1, PutElsewhere
<1>2. SkillForms(t) => \A u \in Tenants, l \in Kinds \ {"skills"} : rows'[u][l] = rows[u][l]
  <2>1. SkillForms(t) => \E list : Put(t, "skills", list)
    BY DEF SkillForms, SkillAct, ProcedureSave, AddTo
  <2> QED BY <2>1, PutElsewhere
<1>3. RoutineForms(t) =>
        \A u \in Tenants, l \in Kinds \ {"routines"} : rows'[u][l] = rows[u][l]
  <2>1. RoutineForms(t) => \E list : Put(t, "routines", list)
    BY DEF RoutineForms, RoutineAdd, RoutineToggle, RoutineEdit, RoutineDel, AddTo
  <2> QED BY <2>1, PutElsewhere
<1>4. RuleForms(t) => \A u \in Tenants, l \in Kinds \ {"rules"} : rows'[u][l] = rows[u][l]
  <2>1. RuleForms(t) => \E list : Put(t, "rules", list)
    BY DEF RuleForms, AddRule, DelRule, AddTo
  <2> QED BY <2>1, PutElsewhere
<1>5. AgentForms(t) \/ WireForms(t) \/ FileForms(t) \/ SmallForms(t) => rows' = rows
  BY DEF AgentForms, SetInstructions, SwitchTool, SetLearning, SetLimit, RunChecks,
         SwitchAgent, WireForms, ConnAct, PropAct, FileForms, FileUpload, FileLink, FileNote,
         FileFolder, FileDel, Shelve, SmallForms, OnboardPhone, OnboardingDone, EvNote, lists
<1> QED BY <1>1, <1>2, <1>3, <1>4, <1>5

\* Looking at a list changes no list but the skills.
LEMMA LookingAt ==
  ASSUME RowsOK, NEW t \in Tenants, NEW k \in Kinds, OpenPage(t, k)
  PROVE  /\ rows'[t][k] = ListOf(t, k)
         /\ \A u \in Tenants, l \in Kinds \ {"skills"} : rows'[u][l] = rows[u][l]
<1>1. Put(t, k, ListOf(t, k)) /\ ListOf(t, k) \in Seq(Rows(k))
  BY SeededRows DEF OpenPage
<1>2. rows'[t][k] = ListOf(t, k)
  BY <1>1, PutList
<1>3. k # "skills" => ListOf(t, k) = rows[t][k]
  BY DEF ListOf
<1>4. \A u \in Tenants, l \in Kinds : u # t \/ l # k => rows'[u][l] = rows[u][l]
  BY <1>1, PutElsewhere
<1> QED BY <1>2, <1>3, <1>4

LEMMA YesStep ==
  ASSUME TypeOK, YesOK, Next
  PROVE  YesOK'
<1> USE TypeParts, Vocabulary
<1>0. RowsOK
  BY DEF ListsOK
<1>1. ASSUME assign' = assign,
             \A u \in Tenants : ~revoked'[u] =>
               ~revoked[u] /\ Covers(rows[u]["people"], rows'[u]["people"])
      PROVE  YesOK'
  BY <1>1, StillMay DEF YesOK
<1>2. ASSUME \A u \in Tenants : rows'[u]["people"] = rows[u]["people"],
             assign' = assign, revoked' = revoked
      PROVE  YesOK'
  BY <1>2 DEF YesOK
<1>10. \A list : Covers(list, list)
  BY DEF Covers
<1>3. ASSUME NEW t \in Tenants, PersonAdd(t)
      PROVE  YesOK'
  <2>1. PICK name \in Typed["people"] : AddTo(t, "people", name, FALSE)
    BY <1>3 DEF PersonAdd
  <2>2. /\ rows'[t]["people"] = Append(rows[t]["people"], Row(made + 1, name, FALSE))
        /\ \A u \in Tenants : u # t => rows'[u]["people"] = rows[u]["people"]
    BY <2>1, AddTypes
  <2>3. rows[t]["people"] \in Seq(Rows("people")) /\ Row(made + 1, name, FALSE) \in Rows("people")
    BY DEF ListsOK, RowsOK, Row, Rows
  <2> DEFINE row == Row(made + 1, name, FALSE)
             ppl == rows[t]["people"]
  <2>6. ppl \in Seq(Rows("people")) /\ row \in Rows("people") /\ rows'[t]["people"] = Append(ppl, row)
    BY <2>2, <2>3
  <2> HIDE DEF row, ppl
  <2>7. \A i \in DOMAIN ppl : i \in DOMAIN Append(ppl, row) /\ Append(ppl, row)[i] = ppl[i]
    BY <2>6, AppendRow
  <2>4. Covers(rows[t]["people"], rows'[t]["people"])
    BY <2>6, <2>7 DEF Covers, ppl
  <2>5. assign' = assign /\ revoked' = revoked
    BY <1>3 DEF PersonAdd, handover
  <2> QED BY <1>1, <1>10, <2>2, <2>4, <2>5
<1>4. ASSUME NEW t \in Tenants, PersonToggle(t)
      PROVE  YesOK'
  <2> DEFINE ppl == rows[t]["people"]
  <2>1. PICK b \in Presses(t, "people") :
          /\ b.at \in DOMAIN ppl
          /\ Put(t, "people", [ppl EXCEPT ![b.at] = [ppl[b.at] EXCEPT !.on = ~ppl[b.at].on]])
          /\ revoked' = [revoked EXCEPT ![t] = revoked[t] \/ ppl[b.at].on]
    BY <1>4 DEF PersonToggle
  <2>2. ppl \in Seq(Rows("people"))
    BY DEF ListsOK, RowsOK
  <2>3. (~ppl[b.at].on) \in BOOLEAN
    OBVIOUS
  <2> DEFINE row == [ppl[b.at] EXCEPT !.on = ~ppl[b.at].on]
  <2>4. row \in Rows("people")
    <3> HIDE DEF ppl
    <3> QED BY <2>1, <2>2, <2>3, RowAt
  <2>5. /\ rows'[t]["people"] = [ppl EXCEPT ![b.at] = row]
        /\ \A u \in Tenants : u # t => rows'[u]["people"] = rows[u]["people"]
    <3> HIDE DEF ppl
    <3> QED BY <2>1, <2>2, <2>4, WriteTypes
  <2>6. assign' = assign
    BY <1>4 DEF PersonToggle
  <2>7. /\ revoked'[t] = (revoked[t] \/ ppl[b.at].on)
        /\ \A u \in Tenants : u # t => revoked'[u] = revoked[u]
    BY <2>1 DEF HandoverOK
  <2>8. /\ DOMAIN rows'[t]["people"] = DOMAIN ppl
        /\ \A i \in DOMAIN ppl : i # b.at => rows'[t]["people"][i] = ppl[i]
    <3> HIDE DEF ppl, row
    <3> QED BY <2>1, <2>2, <2>4, <2>5, WriteRow
  <2>9. ~revoked'[t] => ~revoked[t] /\ Covers(ppl, rows'[t]["people"])
    BY <2>7, <2>8 DEF Covers
  <2> QED BY <1>1, <1>10, <2>5, <2>6, <2>7, <2>9
<1>5. ASSUME NEW t \in Tenants, PersonDel(t)
      PROVE  YesOK'
  <2> DEFINE ppl == rows[t]["people"]
  <2>1. PICK b \in Presses(t, "people") :
          /\ b.at \in DOMAIN ppl
          /\ Put(t, "people", RemoveAt(ppl, b.at))
          /\ revoked' = [revoked EXCEPT ![t] = revoked[t] \/ ppl[b.at].on]
    BY <1>5 DEF PersonDel
  <2>2. ppl \in Seq(Rows("people"))
    BY DEF ListsOK, RowsOK
  <2>3. /\ rows'[t]["people"] = RemoveAt(ppl, b.at)
        /\ \A u \in Tenants : u # t => rows'[u]["people"] = rows[u]["people"]
    <3> HIDE DEF ppl
    <3> QED BY <2>1, <2>2, RemoveTypes
  <2>4. assign' = assign
    BY <1>5 DEF PersonDel
  <2>5. /\ revoked'[t] = (revoked[t] \/ ppl[b.at].on)
        /\ \A u \in Tenants : u # t => revoked'[u] = revoked[u]
    BY <2>1 DEF HandoverOK
  <2>6. \A n \in DOMAIN ppl : n # b.at =>
          \E j \in DOMAIN rows'[t]["people"] : rows'[t]["people"][j] = ppl[n]
    <3> HIDE DEF ppl
    <3> QED BY <2>1, <2>2, <2>3, RemoveRow
  <2>7. ~revoked'[t] => ~revoked[t] /\ Covers(ppl, rows'[t]["people"])
    BY <2>5, <2>6 DEF Covers
  <2> QED BY <1>1, <1>10, <2>3, <2>4, <2>5, <2>7
<1>6. ASSUME NEW t \in Tenants, Assign(t)
      PROVE  YesOK'
  <2>1. PICK name \in {Nobody} \cup Typed["people"] :
          MayHold(t, name) /\ assign' = [assign EXCEPT ![t] = name]
    BY <1>6 DEF Assign
  <2>2. rows' = rows /\ revoked' = [revoked EXCEPT ![t] = FALSE]
    BY <1>6 DEF Assign, lists
  <2>3. MayIn(rows[t]["people"], name)
    BY <2>1 DEF MayHold, MayIn, Approvers
  <2> QED BY <2>1, <2>2, <2>3 DEF YesOK, HandoverOK
<1>7. ASSUME NEW t \in Tenants,
             \/ SkillForms(t) \/ RoutineForms(t) \/ RuleForms(t)
             \/ AgentForms(t) \/ WireForms(t) \/ FileForms(t) \/ SmallForms(t)
      PROVE  YesOK'
  <2>1. \A u \in Tenants : rows'[u]["people"] = rows[u]["people"]
    BY <1>0, <1>7, OtherLists
  <2>2. SkillForms(t) \/ RoutineForms(t) \/ RuleForms(t) => assign' = assign /\ revoked' = revoked
    BY DEF SkillForms, SkillAct, ProcedureSave, RoutineForms, RoutineAdd, RoutineToggle,
           RoutineEdit, RoutineDel, RuleForms, AddRule, DelRule, handover
  <2>3. AgentForms(t) \/ WireForms(t) \/ FileForms(t) \/ SmallForms(t)
          => assign' = assign /\ revoked' = revoked
    BY DEF AgentForms, SetInstructions, SwitchTool, SetLearning, SetLimit, RunChecks,
           SwitchAgent, WireForms, ConnAct, PropAct, FileForms, FileUpload, FileLink, FileNote,
           FileFolder, FileDel, Shelve, SmallForms, OnboardPhone, OnboardingDone, EvNote,
           handover
  <2> QED BY <1>2, <1>7, <2>1, <2>2, <2>3
<1>8. ASSUME NEW t \in Tenants, NEW k \in Kinds, OpenPage(t, k)
      PROVE  YesOK'
  <2>1. \A u \in Tenants : rows'[u]["people"] = rows[u]["people"]
    BY <1>0, <1>8, LookingAt
  <2>2. assign' = assign /\ revoked' = revoked
    BY <1>8 DEF OpenPage, handover
  <2> QED BY <1>2, <2>1, <2>2
<1>9. Restart => YesOK'
  BY DEF Restart, RestartWith, YesOK
<1> QED BY <1>3, <1>4, <1>5, <1>6, <1>7, <1>8, <1>9 DEF Next, Team

\* The yes of a waiting case is with somebody who may say yes, until somebody
\* lost theirs.
THEOREM YesWithAnApproverHolds == Spec => []YesWithAnApprover
<1>1. Init => YesOK
  BY DEF Init, YesOK, MayIn
<1>2. TypeOK /\ YesOK /\ [Next]_vars => YesOK'
  <2>1. UNCHANGED vars /\ YesOK => YesOK'
    BY DEF vars, YesOK
  <2> QED BY <2>1, YesStep
<1>3. YesOK => YesWithAnApprover
  BY DEF YesOK, MayIn, YesWithAnApprover, Approvers, assign_options
<1> QED BY <1>1, <1>2, <1>3, DeskTypes, PTL DEF Spec

-----------------------------------------------------------------------------
(* Forms left open.                                                        *)

\* Every row of one list is where it was in another.
Keeps(old, new) == \A i \in DOMAIN old : i \in DOMAIN new /\ new[i].id = old[i].id

LEMMA FormsKept ==
  ASSUME OldFormsNameTheirRow,
         \A p \in pages' : ~p.lost =>
           \/ p \in pages /\ Keeps(rows[p.tenant][p.kind], rows'[p.tenant][p.kind])
           \/ p.ids = Ids(rows'[p.tenant][p.kind])
  PROVE  OldFormsNameTheirRow'
<1> SUFFICES ASSUME NEW p \in pages', ~p.lost, NEW i \in DOMAIN p.ids
             PROVE  /\ i \in DOMAIN rows'[p.tenant][p.kind]
                    /\ rows'[p.tenant][p.kind][i].id = p.ids[i]
  BY DEF OldFormsNameTheirRow
<1>1. CASE p \in pages /\ Keeps(rows[p.tenant][p.kind], rows'[p.tenant][p.kind])
  BY <1>1 DEF OldFormsNameTheirRow, Keeps
<1>2. CASE p.ids = Ids(rows'[p.tenant][p.kind])
  BY <1>2 DEF Ids
<1> QED BY <1>1, <1>2

\* A list that lost a row takes the pages that show it out of date.
LEMMA LosingForms ==
  ASSUME TypeOK, OldFormsNameTheirRow, NEW t \in Tenants, NEW k \in Kinds, Lose(t, k),
         \A u \in Tenants, l \in Kinds : u # t \/ l # k => rows'[u][l] = rows[u][l]
  PROVE  OldFormsNameTheirRow'
<1> SUFFICES ASSUME NEW q \in pages', ~q.lost
             PROVE  q \in pages /\ Keeps(rows[q.tenant][q.kind], rows'[q.tenant][q.kind])
  BY FormsKept
<1>1. PICK p \in pages : q = IF p.tenant = t /\ p.kind = k
                             THEN [p EXCEPT !.lost = TRUE] ELSE p
  BY DEF Lose
<1>2. p \in Page
  BY DEF TypeOK
<1>3. q = p /\ ~(p.tenant = t /\ p.kind = k)
  BY <1>1, <1>2 DEF Page
<1>4. p.tenant \in Tenants /\ p.kind \in Kinds
  BY <1>2 DEF Page
<1> QED BY <1>3, <1>4 DEF Keeps

\* Nothing goes: no page is out of date.
LEMMA KeepingForms ==
  ASSUME TypeOK, OldFormsNameTheirRow, pages' = pages,
         \A u \in Tenants, l \in Kinds : Keeps(rows[u][l], rows'[u][l])
  PROVE  OldFormsNameTheirRow'
<1>1. \A p \in pages : p.tenant \in Tenants /\ p.kind \in Kinds
  BY DEF TypeOK, Page
<1> QED BY <1>1, FormsKept

\* One list may change by keeping its rows.
LEMMA KeepingOneList ==
  ASSUME TypeOK, OldFormsNameTheirRow, pages' = pages, NEW t \in Tenants, NEW k \in Kinds,
         Keeps(rows[t][k], rows'[t][k]),
         \A u \in Tenants, l \in Kinds : u # t \/ l # k => rows'[u][l] = rows[u][l]
  PROVE  OldFormsNameTheirRow'
<1>1. \A u \in Tenants, l \in Kinds : Keeps(rows[u][l], rows'[u][l])
  BY DEF Keeps
<1> QED BY <1>1, KeepingForms

\* A row more at the end.
LEMMA AddingForms ==
  ASSUME TypeOK, OldFormsNameTheirRow, pages' = pages, NEW t \in Tenants, NEW k \in Kinds,
         NEW name \in Typed[k], NEW on \in BOOLEAN, AddTo(t, k, name, on)
  PROVE  OldFormsNameTheirRow'
<1> USE TypeParts
<1> DEFINE row == Row(made + 1, name, on)
           list == rows[t][k]
<1>1. /\ rows'[t][k] = Append(list, row)
      /\ \A u \in Tenants, l \in Kinds : u # t \/ l # k => rows'[u][l] = rows[u][l]
  BY AddTypes
<1>2. list \in Seq(Rows(k)) /\ row \in Rows(k)
  BY DEF ListsOK, RowsOK, Row, Rows
<1> HIDE DEF row, list
<1>3. Keeps(list, Append(list, row))
  BY <1>2, AppendRow DEF Keeps
<1>4. Keeps(rows[t][k], rows'[t][k])
  BY <1>1, <1>3 DEF list
<1> QED BY <1>1, <1>4, KeepingOneList

\* A row written over, in the list as a reader would see it.
LEMMA WritingForms ==
  ASSUME TypeOK, OldFormsNameTheirRow, pages' = pages, NEW t \in Tenants, NEW k \in Kinds,
         NEW list \in Seq(Rows(k)), list = rows[t][k] \/ rows[t][k] = <<>>,
         NEW i \in DOMAIN list, NEW row \in Rows(k), row.id = list[i].id,
         Put(t, k, [list EXCEPT ![i] = row])
  PROVE  OldFormsNameTheirRow'
<1> USE TypeParts
<1>1. /\ rows'[t][k] = [list EXCEPT ![i] = row]
      /\ \A u \in Tenants, l \in Kinds : u # t \/ l # k => rows'[u][l] = rows[u][l]
  BY WriteTypes
<1>2. Keeps(list, [list EXCEPT ![i] = row])
  BY WriteRow DEF Keeps
<1>3. Keeps(<<>>, [list EXCEPT ![i] = row])
  BY DEF Keeps
<1>4. Keeps(rows[t][k], rows'[t][k])
  BY <1>1, <1>2, <1>3
<1> QED BY <1>1, <1>4, KeepingOneList

LEMMA FormsStep ==
  ASSUME TypeOK, OldFormsNameTheirRow, Next
  PROVE  OldFormsNameTheirRow'
<1> USE TypeParts, Vocabulary
<1>0. RowsOK
  BY DEF ListsOK
<1>1. ASSUME NEW t \in Tenants, Team(t)
      PROVE  OldFormsNameTheirRow'
  <2> DEFINE ppl == rows[t]["people"]
  <2>0. ppl \in Seq(Rows("people"))
    BY DEF ListsOK, RowsOK
  <2>1. CASE PersonAdd(t)
    <3>1. pages' = pages /\ \E name \in Typed["people"] : AddTo(t, "people", name, FALSE)
      BY <2>1 DEF PersonAdd
    <3> QED BY <3>1, AddingForms
  <2>2. CASE PersonToggle(t)
    <3>1. PICK b \in Presses(t, "people") :
            /\ b.at \in DOMAIN ppl
            /\ Put(t, "people", [ppl EXCEPT ![b.at] = [ppl[b.at] EXCEPT !.on = ~ppl[b.at].on]])
      BY <2>2 DEF PersonToggle
    <3>2. (~ppl[b.at].on) \in BOOLEAN /\ ppl = rows[t]["people"]
      OBVIOUS
    <3>3. pages' = pages
      BY <2>2 DEF PersonToggle
    <3> HIDE DEF ppl
    <3> DEFINE row == [ppl[b.at] EXCEPT !.on = ~ppl[b.at].on]
    <3>4. row \in Rows("people") /\ row.id = ppl[b.at].id
      <4>1. row \in Rows("people")
        BY <2>0, <3>1, <3>2, RowAt
      <4>2. ppl[b.at] \in Rows("people")
        BY <2>0, <3>1, <3>2, RowAt
      <4>3. row.id = ppl[b.at].id
        BY <4>2 DEF Rows
      <4> QED BY <4>1, <4>3
    <3> HIDE DEF row
    <3>5. Put(t, "people", [ppl EXCEPT ![b.at] = row])
      BY <3>1 DEF row
    <3> QED BY <2>0, <3>1, <3>2, <3>3, <3>4, <3>5, WritingForms
  <2>3. CASE PersonDel(t)
    <3>1. Lose(t, "people") /\ \E list : Put(t, "people", list)
      BY <2>3 DEF PersonDel
    <3> QED BY <1>0, <3>1, PutElsewhere, LosingForms
  <2>4. CASE Assign(t)
    <3>1. rows' = rows /\ pages' = pages
      BY <2>4 DEF Assign, lists
    <3> QED BY <3>1, KeepingForms DEF Keeps
  <2> QED BY <1>1, <2>1, <2>2, <2>3, <2>4 DEF Team
<1>2. ASSUME NEW t \in Tenants, SkillForms(t)
      PROVE  OldFormsNameTheirRow'
  <2>1. ASSUME NEW act \in {"live", "draft", "del"}, SkillAct(t, act), act # "del"
        PROVE  OldFormsNameTheirRow'
    <3> DEFINE lst == seed_skills(t)
    <3>1. PICK b \in Presses(t, "skills") :
            /\ b.at \in DOMAIN lst
            /\ Put(t, "skills", [lst EXCEPT ![b.at] = [lst[b.at] EXCEPT !.on = (act = "live")]])
      BY <2>1 DEF SkillAct
    <3>2. lst \in Seq(Rows("skills"))
      BY <1>0, SeededSkills
    <3>3. lst = rows[t]["skills"] \/ rows[t]["skills"] = <<>>
      BY DEF seed_skills
    <3>4. pages' = pages
      BY <2>1 DEF SkillAct
    <3> HIDE DEF lst
    <3> DEFINE row == [lst[b.at] EXCEPT !.on = (act = "live")]
    <3>5. row \in Rows("skills") /\ row.id = lst[b.at].id
      <4>1. row \in Rows("skills")
        BY <3>1, <3>2, RowAt
      <4>2. lst[b.at] \in Rows("skills")
        BY <3>1, <3>2, RowAt
      <4>3. row.id = lst[b.at].id
        BY <4>2 DEF Rows
      <4> QED BY <4>1, <4>3
    <3> HIDE DEF row
    <3>6. Put(t, "skills", [lst EXCEPT ![b.at] = row])
      BY <3>1 DEF row
    <3> QED BY <3>1, <3>2, <3>3, <3>4, <3>5, <3>6, WritingForms
  <2>2. ASSUME SkillAct(t, "del")
        PROVE  OldFormsNameTheirRow'
    <3>1. Lose(t, "skills") /\ \E list : Put(t, "skills", list)
      BY <2>2 DEF SkillAct
    <3> QED BY <1>0, <3>1, PutElsewhere, LosingForms
  <2>3. ASSUME NEW mode \in {"live", "draft"}, ProcedureSave(t, mode)
        PROVE  OldFormsNameTheirRow'
    <3> DEFINE lst == rows[t]["skills"]
    <3>1. PICK title \in Typed["skills"] :
            IF TitledSo(lst, title) = {}
            THEN AddTo(t, "skills", title, SaysLive(mode))
            ELSE LET i == First(TitledSo(lst, title)) IN
                 Put(t, "skills",
                     [lst EXCEPT ![i] = [lst[i] EXCEPT !.on = lst[i].on \/ SaysLive(mode)]])
      BY <2>3 DEF ProcedureSave
    <3>2. lst \in Seq(Rows("skills")) /\ lst \in Seq(AnyRow) /\ lst = rows[t]["skills"]
      BY DEF ListsOK, RowsOK
    <3>3. pages' = pages /\ SaysLive(mode) \in BOOLEAN
      BY <2>3 DEF ProcedureSave, SaysLive
    <3>4. CASE TitledSo(lst, title) = {}
      BY <3>1, <3>3, <3>4, AddingForms
    <3>5. CASE TitledSo(lst, title) # {}
      <4> DEFINE i == First(TitledSo(lst, title))
                 row == [lst[i] EXCEPT !.on = lst[i].on \/ SaysLive(mode)]
      <4>1. i \in DOMAIN lst
        BY <3>2, <3>5, FirstTitled
      <4>2. Put(t, "skills", [lst EXCEPT ![i] = row])
        BY <3>1, <3>5
      <4>3. (lst[i].on \/ SaysLive(mode)) \in BOOLEAN
        OBVIOUS
      <4>4. row \in Rows("skills") /\ row.id = lst[i].id
        <5> HIDE DEF i, lst
        <5>1. row \in Rows("skills")
          BY <3>2, <4>1, <4>3, RowAt
        <5>2. lst[i] \in Rows("skills")
          BY <3>2, <4>1, RowAt
        <5>3. row.id = lst[i].id
          BY <5>2 DEF Rows
        <5> QED BY <5>1, <5>3
      <4> HIDE DEF i, lst, row
      <4> QED BY <3>2, <3>3, <4>1, <4>2, <4>4, WritingForms
    <3> QED BY <3>4, <3>5
  <2> QED BY <1>2, <2>1, <2>2, <2>3 DEF SkillForms
<1>3. ASSUME NEW t \in Tenants, RoutineForms(t)
      PROVE  OldFormsNameTheirRow'
  <2> DEFINE rs == rows[t]["routines"]
  <2>0. rs \in Seq(Rows("routines")) /\ rs = rows[t]["routines"]
    BY DEF ListsOK, RowsOK
  <2>1. CASE RoutineAdd(t)
    <3>1. pages' = pages /\ \E text \in Typed["routines"] : AddTo(t, "routines", text, TRUE)
      BY <2>1 DEF RoutineAdd
    <3> QED BY <3>1, AddingForms
  <2>2. CASE RoutineToggle(t)
    <3>1. PICK b \in Presses(t, "routines") :
            /\ b.at \in DOMAIN rs
            /\ Put(t, "routines", [rs EXCEPT ![b.at] = [rs[b.at] EXCEPT !.on = ~rs[b.at].on]])
      BY <2>2 DEF RoutineToggle
    <3>2. (~rs[b.at].on) \in BOOLEAN
      OBVIOUS
    <3>3. pages' = pages
      BY <2>2 DEF RoutineToggle
    <3> HIDE DEF rs
    <3> DEFINE row == [rs[b.at] EXCEPT !.on = ~rs[b.at].on]
    <3>4. row \in Rows("routines") /\ row.id = rs[b.at].id
      <4>1. row \in Rows("routines")
        BY <2>0, <3>1, <3>2, RowAt
      <4>2. rs[b.at] \in Rows("routines")
        BY <2>0, <3>1, <3>2, RowAt
      <4>3. row.id = rs[b.at].id
        BY <4>2 DEF Rows
      <4> QED BY <4>1, <4>3
    <3> HIDE DEF row
    <3>5. Put(t, "routines", [rs EXCEPT ![b.at] = row])
      BY <3>1 DEF row
    <3> QED BY <2>0, <3>1, <3>3, <3>4, <3>5, WritingForms
  <2>3. CASE RoutineEdit(t)
    <3>1. PICK b \in Presses(t, "routines"), text \in Typed["routines"] :
            /\ b.at \in DOMAIN rs
            /\ Put(t, "routines", [rs EXCEPT ![b.at] = [rs[b.at] EXCEPT !.name = text]])
      BY <2>3 DEF RoutineEdit
    <3>2. pages' = pages
      BY <2>3 DEF RoutineEdit
    <3> HIDE DEF rs
    <3> DEFINE row == [rs[b.at] EXCEPT !.name = text]
    <3>3. row \in Rows("routines") /\ row.id = rs[b.at].id
      <4>1. row \in Rows("routines")
        BY <2>0, <3>1, RowAt
      <4>2. rs[b.at] \in Rows("routines")
        BY <2>0, <3>1, RowAt
      <4>3. row.id = rs[b.at].id
        BY <4>2 DEF Rows
      <4> QED BY <4>1, <4>3
    <3> HIDE DEF row
    <3>4. Put(t, "routines", [rs EXCEPT ![b.at] = row])
      BY <3>1 DEF row
    <3> QED BY <2>0, <3>1, <3>2, <3>3, <3>4, WritingForms
  <2>4. CASE RoutineDel(t)
    <3>1. Lose(t, "routines") /\ \E list : Put(t, "routines", list)
      BY <2>4 DEF RoutineDel
    <3> QED BY <1>0, <3>1, PutElsewhere, LosingForms
  <2> QED BY <1>3, <2>1, <2>2, <2>3, <2>4 DEF RoutineForms
<1>4. ASSUME NEW t \in Tenants, RuleForms(t)
      PROVE  OldFormsNameTheirRow'
  <2>1. CASE AddRule(t)
    <3>1. pages' = pages /\ \E text \in Typed["rules"] : AddTo(t, "rules", text, TRUE)
      BY <2>1 DEF AddRule
    <3> QED BY <3>1, AddingForms
  <2>2. CASE DelRule(t)
    <3>1. Lose(t, "rules") /\ \E list : Put(t, "rules", list)
      BY <2>2 DEF DelRule
    <3> QED BY <1>0, <3>1, PutElsewhere, LosingForms
  <2> QED BY <1>4, <2>1, <2>2 DEF RuleForms
<1>5. ASSUME NEW t \in Tenants, AgentForms(t) \/ WireForms(t) \/ FileForms(t) \/ SmallForms(t)
      PROVE  OldFormsNameTheirRow'
  <2>1. rows' = rows
    BY <1>0, <1>5, OtherLists
  <2>2. pages' = pages
    BY <1>5 DEF AgentForms, SetInstructions, SwitchTool, SetLearning, SetLimit, RunChecks,
           SwitchAgent, WireForms, ConnAct, PropAct, FileForms, FileUpload, FileLink, FileNote,
           FileFolder, FileDel, Shelve, SmallForms, OnboardPhone, OnboardingDone, EvNote
  <2> QED BY <2>1, <2>2, KeepingForms DEF Keeps
<1>6. ASSUME NEW t \in Tenants, NEW k \in Kinds, OpenPage(t, k)
      PROVE  OldFormsNameTheirRow'
  <2>1. /\ rows'[t][k] = ListOf(t, k)
        /\ \A u \in Tenants, l \in Kinds : u # t \/ l # k => rows'[u][l] = rows[u][l]
    BY <1>0, <1>6, LookingAt, PutElsewhere DEF OpenPage
  <2>2. Keeps(rows[t][k], ListOf(t, k))
    BY DEF Keeps, ListOf, seed_skills
  <2> SUFFICES ASSUME NEW p \in pages'
               PROVE  \/ p \in pages /\ Keeps(rows[p.tenant][p.kind], rows'[p.tenant][p.kind])
                      \/ p.ids = Ids(rows'[p.tenant][p.kind])
    BY FormsKept
  <2>3. p \in pages \/ p = [tenant |-> t, kind |-> k, ids |-> Ids(ListOf(t, k)), lost |-> FALSE]
    BY <1>6 DEF OpenPage
  <2>4. CASE p \in pages
    <3>1. p.tenant \in Tenants /\ p.kind \in Kinds
      BY <2>4 DEF ListsOK, Page
    <3> QED BY <2>1, <2>2, <2>4, <3>1 DEF Keeps
  <2>5. CASE p = [tenant |-> t, kind |-> k, ids |-> Ids(ListOf(t, k)), lost |-> FALSE]
    BY <2>1, <2>5
  <2> QED BY <2>3, <2>4, <2>5
<1>7. ASSUME Restart
      PROVE  OldFormsNameTheirRow'
  <2> SUFFICES ASSUME NEW q \in pages', ~q.lost
               PROVE  q \in pages /\ Keeps(rows[q.tenant][q.kind], rows'[q.tenant][q.kind])
    BY FormsKept
  <2>1. PICK p \in pages : q = [p EXCEPT !.lost = p.lost \/ p.kind \in {"people", "skills"}]
    BY <1>7 DEF Restart, RestartWith
  <2>2. p \in Page
    BY DEF ListsOK
  <2>3. q.lost = (p.lost \/ p.kind \in {"people", "skills"})
    BY <2>1, <2>2 DEF Page
  <2>4. p.lost = FALSE /\ p.kind \notin {"people", "skills"}
    BY <2>2, <2>3 DEF Page
  <2>5. q = p
    BY <2>1, <2>2, <2>4 DEF Page
  <2>6. p.tenant \in Tenants /\ p.kind \in Kinds
    BY <2>2 DEF Page
  <2>7. rows'[p.tenant][p.kind] = rows[p.tenant][p.kind]
    BY <1>0, <1>7, <2>4, <2>6, RestartRows
  <2> QED BY <2>5, <2>7 DEF Keeps
<1> QED BY <1>1, <1>2, <1>3, <1>4, <1>5, <1>6, <1>7 DEF Next

\* A page left open names the rows it shows until a row of its list goes.
THEOREM OldFormsNameTheirRowHolds == Spec => []OldFormsNameTheirRow
<1>1. Init => OldFormsNameTheirRow
  BY DEF Init, OldFormsNameTheirRow
<1>2. TypeOK /\ OldFormsNameTheirRow /\ [Next]_vars => OldFormsNameTheirRow'
  <2>1. UNCHANGED vars /\ OldFormsNameTheirRow => OldFormsNameTheirRow'
    BY DEF vars, OldFormsNameTheirRow
  <2> QED BY <2>1, FormsStep
<1> QED BY <1>1, <1>2, DeskTypes, PTL DEF Spec

-----------------------------------------------------------------------------
(* Nothing live unasked.                                                   *)

ShippedLive ==
  {Shipped["skills"][j].id : j \in {n \in DOMAIN Shipped["skills"] : Shipped["skills"][n].on}}

\* The live rows of a list are among these, or were shipped live.
LiveOK(list, ids) == \A i \in DOMAIN list : list[i].on => list[i].id \in ids \cup ShippedLive

LEMMA LiveParts ==
  /\ NothingLiveUnasked <=> \A t \in Tenants : LiveOK(rows[t]["skills"], asked[t] \cup misled[t])
  /\ NothingLiveUnasked' <=>
       \A t \in Tenants : LiveOK(rows'[t]["skills"], asked'[t] \cup misled'[t])
  BY DEF NothingLiveUnasked, LiveOK, ShippedLive

\* What ships live is live by right.
LEMMA SeededLive ==
  ASSUME NEW t \in Tenants, NEW ids, LiveOK(rows[t]["skills"], ids)
  PROVE  LiveOK(seed_skills(t), ids)
<1>1. LiveOK(Shipped["skills"], ids)
  BY DEF LiveOK, ShippedLive
<1> QED BY <1>1 DEF seed_skills

LEMMA LiveWritten ==
  ASSUME NEW list \in Seq(Rows("skills")), NEW i \in DOMAIN list, NEW row \in Rows("skills"),
         NEW ids, NEW more, LiveOK(list, ids), ids \subseteq more,
         row.on => row.id \in more \cup ShippedLive
  PROVE  LiveOK([list EXCEPT ![i] = row], more)
<1> DEFINE new == [list EXCEPT ![i] = row]
<1>1. /\ DOMAIN new = DOMAIN list
      /\ \A j \in DOMAIN list : new[j] = IF j = i THEN row ELSE list[j]
  BY WriteRow
<1> HIDE DEF new
<1>2. LiveOK(new, more)
  BY <1>1 DEF LiveOK
<1> QED BY <1>2 DEF new

LEMMA LiveRemoved ==
  ASSUME NEW list \in Seq(Rows("skills")), NEW i \in DOMAIN list,
         NEW ids, NEW more, LiveOK(list, ids), ids \subseteq more
  PROVE  LiveOK(RemoveAt(list, i), more)
<1>1. \A j \in DOMAIN RemoveAt(list, i) : \E n \in DOMAIN list : RemoveAt(list, i)[j] = list[n]
  BY RemoveRow
<1> QED BY <1>1 DEF LiveOK

LEMMA LiveAdded ==
  ASSUME NEW list \in Seq(Rows("skills")), NEW row \in Rows("skills"),
         NEW ids, NEW more, LiveOK(list, ids), ids \subseteq more,
         row.on => row.id \in more
  PROVE  LiveOK(Append(list, row), more)
<1>1. \A j \in DOMAIN Append(list, row) :
        Append(list, row)[j] = row \/ \E n \in DOMAIN list : Append(list, row)[j] = list[n]
  BY AppendRow
<1> QED BY <1>1 DEF LiveOK

\* Only the skills of one tenant change: what was asked of it is all that grows.
LEMMA LiveElsewhere ==
  ASSUME TypeOK, NothingLiveUnasked, NEW t \in Tenants,
         \A u \in Tenants : u # t => /\ rows'[u]["skills"] = rows[u]["skills"]
                                     /\ asked'[u] = asked[u] /\ misled'[u] = misled[u],
         LiveOK(rows'[t]["skills"], asked'[t] \cup misled'[t])
  PROVE  NothingLiveUnasked'
<1>1. ASSUME NEW u \in Tenants
      PROVE  LiveOK(rows'[u]["skills"], asked'[u] \cup misled'[u])
  <2>1. CASE u = t
    BY <2>1
  <2>2. CASE u # t
    BY <2>2, LiveParts
  <2> QED BY <2>1, <2>2
<1> QED BY <1>1, LiveParts

LEMMA SkillActLive ==
  ASSUME TypeOK, NothingLiveUnasked, NEW t \in Tenants,
         NEW act \in {"live", "draft", "del"}, SkillAct(t, act)
  PROVE  NothingLiveUnasked'
<1> USE TypeParts, Vocabulary
<1> DEFINE lst == seed_skills(t)
           ids == asked[t] \cup misled[t]
           more == asked'[t] \cup misled'[t]
<1>1. PICK b \in Presses(t, "skills") :
        /\ b.at \in DOMAIN lst
        /\ Consent(t, b, lst[b.at].id, act)
        /\ Put(t, "skills", IF act = "del" THEN RemoveAt(lst, b.at)
                            ELSE [lst EXCEPT ![b.at] = [lst[b.at] EXCEPT !.on = (act = "live")]])
  BY DEF SkillAct
<1>2. lst \in Seq(Rows("skills"))
  BY SeededSkills DEF ListsOK
<1>3. LiveOK(lst, ids)
  BY SeededLive, LiveParts
<1>4. /\ \A u \in Tenants : u # t => asked'[u] = asked[u] /\ misled'[u] = misled[u]
      /\ asked'[t] = IF act = "live" THEN asked[t] \cup {b.saw} ELSE asked[t]
      /\ misled'[t] = IF lst[b.at].id # b.saw THEN misled[t] \cup {lst[b.at].id} ELSE misled[t]
  BY <1>1 DEF Consent, ConsentOK
<1>5. ids \subseteq more /\ (act = "live" => lst[b.at].id \in more)
  BY <1>4
<1>6. \A u \in Tenants : u # t => rows'[u]["skills"] = rows[u]["skills"]
  BY <1>1, PutElsewhere DEF ListsOK
<1> HIDE DEF lst, ids, more
<1>7. lst[b.at] \in Rows("skills")
  BY <1>1, <1>2, RowAt
<1>8. LiveOK(rows'[t]["skills"], more)
  <2>1. CASE act = "del"
    <3>1. Put(t, "skills", RemoveAt(lst, b.at))
      BY <1>1, <2>1
    <3>2. rows'[t]["skills"] = RemoveAt(lst, b.at)
      BY <1>1, <1>2, <3>1, RemoveTypes
    <3> QED BY <1>1, <1>2, <1>3, <1>5, <3>2, LiveRemoved
  <2>2. CASE act # "del"
    <3> DEFINE row == [lst[b.at] EXCEPT !.on = (act = "live")]
    <3>1. row \in Rows("skills")
      BY <1>1, <1>2, RowAt
    <3>2. row.id = lst[b.at].id /\ row.on = (act = "live")
      BY <1>7 DEF Rows
    <3>3. Put(t, "skills", [lst EXCEPT ![b.at] = row])
      BY <1>1, <2>2
    <3> HIDE DEF row
    <3>4. rows'[t]["skills"] = [lst EXCEPT ![b.at] = row]
      <4> DEFINE i == b.at
      <4>1. i \in DOMAIN lst /\ Put(t, "skills", [lst EXCEPT ![i] = row])
        BY <1>1, <3>3
      <4> HIDE DEF i
      <4>2. rows'[t]["skills"] = [lst EXCEPT ![i] = row]
        BY <1>2, <3>1, <4>1, WriteTypes
      <4> QED BY <4>2 DEF i
    <3>5. row.on => row.id \in more \cup ShippedLive
      BY <1>5, <3>2
    <3> QED BY <1>1, <1>2, <1>3, <1>5, <3>1, <3>4, <3>5, LiveWritten
  <2> QED BY <2>1, <2>2
<1> QED BY <1>4, <1>6, <1>8, LiveElsewhere DEF more

LEMMA ProcedureSaveLive ==
  ASSUME TypeOK, NothingLiveUnasked, NEW t \in Tenants, NEW mode \in {"live", "draft"},
         ProcedureSave(t, mode)
  PROVE  NothingLiveUnasked'
<1> USE TypeParts, Vocabulary
<1> DEFINE lst == rows[t]["skills"]
           ids == asked[t] \cup misled[t]
           more == asked'[t] \cup misled'[t]
<1>1. PICK title \in Typed["skills"] :
        /\ IF TitledSo(lst, title) = {}
           THEN AddTo(t, "skills", title, SaysLive(mode))
           ELSE LET i == First(TitledSo(lst, title)) IN
                Put(t, "skills",
                    [lst EXCEPT ![i] = [lst[i] EXCEPT !.on = lst[i].on \/ SaysLive(mode)]])
        /\ asked' = [asked EXCEPT ![t] =
                       IF mode = "live"
                       THEN asked[t] \cup {IF TitledSo(lst, title) = {} THEN made + 1
                                           ELSE lst[First(TitledSo(lst, title))].id}
                       ELSE asked[t]]
  BY DEF ProcedureSave
<1>2. lst \in Seq(Rows("skills")) /\ lst \in Seq(AnyRow)
  BY DEF ListsOK, RowsOK
<1>3. LiveOK(lst, ids) /\ misled' = misled
  BY LiveParts DEF ProcedureSave
<1>4. /\ \A u \in Tenants : u # t => asked'[u] = asked[u] /\ misled'[u] = misled[u]
      /\ ids \subseteq more
  BY <1>1, <1>3 DEF ConsentOK
<1>5. SaysLive(mode) \in BOOLEAN /\ (SaysLive(mode) => mode = "live")
  BY DEF SaysLive
<1>6. /\ LiveOK(rows'[t]["skills"], more)
      /\ \A u \in Tenants : u # t => rows'[u]["skills"] = rows[u]["skills"]
  <2>1. CASE TitledSo(lst, title) = {}
    <3> DEFINE row == Row(made + 1, title, SaysLive(mode))
    <3>1. AddTo(t, "skills", title, SaysLive(mode))
      BY <1>1, <2>1
    <3>2. /\ rows'[t]["skills"] = Append(lst, row)
          /\ \A u \in Tenants : u # t => rows'[u]["skills"] = rows[u]["skills"]
      BY <1>5, <3>1, AddTypes
    <3>3. row \in Rows("skills")
      BY <1>5 DEF ListsOK, Row, Rows
    <3>4. row.on = SaysLive(mode) /\ row.id = made + 1
      BY DEF Row
    <3>5. mode = "live" => made + 1 \in more
      BY <1>1, <2>1 DEF ConsentOK
    <3>6. row.on => row.id \in more
      BY <1>5, <3>4, <3>5
    <3> HIDE DEF row, lst, ids, more
    <3> QED BY <1>2, <1>3, <1>4, <3>2, <3>3, <3>6, LiveAdded
  <2>2. CASE TitledSo(lst, title) # {}
    <3> DEFINE i == First(TitledSo(lst, title))
               row == [lst[i] EXCEPT !.on = lst[i].on \/ SaysLive(mode)]
    <3>1. i \in DOMAIN lst
      BY <1>2, <2>2, FirstTitled
    <3>2. Put(t, "skills", [lst EXCEPT ![i] = row])
      BY <1>1, <2>2
    <3>3. mode = "live" => lst[i].id \in more
      BY <1>1, <2>2 DEF ConsentOK
    <3>4. (lst[i].on \/ SaysLive(mode)) \in BOOLEAN
      OBVIOUS
    <3>5. row \in Rows("skills") /\ lst[i] \in Rows("skills")
      <4> HIDE DEF i, lst
      <4> QED BY <1>2, <3>1, <3>4, RowAt
    <3>6. row.id = lst[i].id /\ row.on = (lst[i].on \/ SaysLive(mode))
      <4> HIDE DEF i, lst
      <4> QED BY <3>5 DEF Rows
    <3>7. lst = rows[t]["skills"]
      OBVIOUS
    <3> HIDE DEF i, row, lst, ids, more
    <3>8. /\ rows'[t]["skills"] = [lst EXCEPT ![i] = row]
          /\ \A u \in Tenants : u # t => rows'[u]["skills"] = rows[u]["skills"]
      BY <1>2, <3>1, <3>2, <3>5, WriteTypes
    <3>9. row.on => row.id \in more \cup ShippedLive
      <4>1. CASE lst[i].on
        BY <1>3, <1>4, <3>1, <3>6, <4>1 DEF LiveOK
      <4>2. CASE ~lst[i].on
        BY <1>5, <3>3, <3>6, <4>2
      <4> QED BY <4>1, <4>2
    <3> QED BY <1>2, <1>3, <1>4, <3>1, <3>5, <3>8, <3>9, LiveWritten
  <2> QED BY <2>1, <2>2
<1> QED BY <1>4, <1>6, LiveElsewhere

LEMMA LiveStep ==
  ASSUME TypeOK, NothingLiveUnasked, Next
  PROVE  NothingLiveUnasked'
<1> USE TypeParts, Vocabulary
<1>0. RowsOK
  BY DEF ListsOK
<1>1. ASSUME NEW t \in Tenants, SkillForms(t)
      PROVE  NothingLiveUnasked'
  BY <1>1, SkillActLive, ProcedureSaveLive DEF SkillForms
<1>2. ASSUME NEW t \in Tenants,
             \/ Team(t) \/ RoutineForms(t) \/ RuleForms(t) \/ AgentForms(t)
             \/ WireForms(t) \/ FileForms(t) \/ SmallForms(t)
      PROVE  NothingLiveUnasked'
  <2>1. \A u \in Tenants : rows'[u]["skills"] = rows[u]["skills"]
    BY <1>0, <1>2, OtherLists DEF Kinds
  <2>2. asked' = asked /\ misled' = misled
    BY <1>2 DEF Team, PersonAdd, PersonToggle, PersonDel, Assign, RoutineForms, RoutineAdd,
           RoutineToggle, RoutineEdit, RoutineDel, RuleForms, AddRule, DelRule, AgentForms,
           SetInstructions, SwitchTool, SetLearning, SetLimit, RunChecks, SwitchAgent,
           WireForms, ConnAct, PropAct, FileForms, FileUpload, FileLink, FileNote, FileFolder,
           FileDel, Shelve, SmallForms, OnboardPhone, OnboardingDone, EvNote, consent
  <2> QED BY <2>1, <2>2, LiveParts
<1>3. ASSUME NEW t \in Tenants, NEW k \in Kinds, OpenPage(t, k)
      PROVE  NothingLiveUnasked'
  <2>1. asked' = asked /\ misled' = misled
    BY <1>3 DEF OpenPage, consent
  <2>2. /\ rows'[t][k] = ListOf(t, k)
        /\ \A u \in Tenants : u # t \/ "skills" # k => rows'[u]["skills"] = rows[u]["skills"]
    BY <1>0, <1>3, LookingAt, PutElsewhere DEF OpenPage
  <2>3. rows'[t]["skills"] = rows[t]["skills"] \/ rows'[t]["skills"] = seed_skills(t)
    BY <2>2 DEF ListOf
  <2>4. LiveOK(rows'[t]["skills"], asked[t] \cup misled[t])
    BY <2>3, SeededLive, LiveParts
  <2> QED BY <2>1, <2>2, <2>4, LiveElsewhere
<1>4. ASSUME Restart
      PROVE  NothingLiveUnasked'
  <2>1. \A t \in Tenants : rows'[t]["skills"] = <<>>
    BY <1>0, <1>4 DEF Restart, RestartWith, RowsOK
  <2> QED BY <2>1, LiveParts DEF LiveOK
<1> QED BY <1>1, <1>2, <1>3, <1>4 DEF Next

\* A live skill was shipped live, asked for, or reached by an out-of-date form.
THEOREM NothingLiveUnaskedHolds == Spec => []NothingLiveUnasked
<1>1. Init => NothingLiveUnasked
  <2> SUFFICES ASSUME Init, NEW t \in Tenants PROVE rows[t]["skills"] = <<>>
    BY LiveParts DEF LiveOK
  <2> QED BY Vocabulary DEF Init
<1>2. TypeOK /\ NothingLiveUnasked /\ [Next]_vars => NothingLiveUnasked'
  <2>1. UNCHANGED vars /\ NothingLiveUnasked => NothingLiveUnasked'
    BY DEF vars, NothingLiveUnasked
  <2> QED BY <2>1, LiveStep
<1> QED BY <1>1, <1>2, DeskTypes, PTL DEF Spec

-----------------------------------------------------------------------------
(* The trail.                                                              *)

\* How often a word stands in a list of lines.
SaidIn(lines, word) == Cardinality({i \in DOMAIN lines : lines[i] = word})

\* What the last line says.
ToldIn(lines, otherwise) == IF lines = <<>> THEN otherwise ELSE Last(lines)

\* A line more is one more of its word, and of no other.
LEMMA SaidOnceMore ==
  ASSUME NEW lines \in Seq(Words), NEW word \in Words, NEW other
  PROVE  /\ SaidIn(lines, other) \in Nat
         /\ SaidIn(Append(lines, word), word) = SaidIn(lines, word) + 1
         /\ other # word => SaidIn(Append(lines, word), other) = SaidIn(lines, other)
<1> DEFINE n == Len(lines)
           more == Append(lines, word)
           At(list, w) == {i \in DOMAIN list : list[i] = w}
<1>1. n \in Nat /\ DOMAIN lines = 1..n
  BY LenProperties
<1>2. /\ more \in Seq(Words) /\ Len(more) = n + 1
      /\ \A i \in 1..n : more[i] = lines[i]
      /\ more[n + 1] = word
  BY AppendProperties
<1>3. DOMAIN more = 1..(n + 1)
  BY <1>2, LenProperties
<1> HIDE DEF n, more
<1>4. \A w : IsFiniteSet(At(lines, w))
  BY <1>1, FS_Interval, FS_Subset
<1>5. \A w : Cardinality(At(lines, w)) \in Nat
  BY <1>4, FS_CardinalityType
<1>6. At(more, word) = At(lines, word) \cup {n + 1}
  BY <1>1, <1>2, <1>3
<1>7. n + 1 \notin At(lines, word)
  BY <1>1
<1>8. other # word => At(more, other) = At(lines, other)
  BY <1>1, <1>2, <1>3
<1>9. Cardinality(At(more, word)) = Cardinality(At(lines, word)) + 1
  <2> HIDE DEF At
  <2> QED BY <1>4, <1>6, <1>7, FS_AddElement
<1> QED BY <1>5, <1>8, <1>9 DEF SaidIn, more

\* A trail with nothing in it.
LEMMA NothingSaid ==
  ASSUME NEW word
  PROVE  SaidIn(<<>>, word) = 0
<1>1. {i \in DOMAIN <<>> : <<>>[i] = word} = {}
  OBVIOUS
<1> QED BY <1>1, FS_EmptySet DEF SaidIn

\* The last line is the one just written.
LEMMA ToldLast ==
  ASSUME NEW lines \in Seq(Words), NEW word \in Words, NEW otherwise
  PROVE  /\ ToldIn(Append(lines, word), otherwise) = word
         /\ ToldIn(<<>>, otherwise) = otherwise
         /\ Append(lines, word) # <<>>
         /\ Len(Append(lines, word)) = Len(lines) + 1
<1>1. /\ Append(lines, word) # <<>>
      /\ Len(Append(lines, word)) = Len(lines) + 1
      /\ Append(lines, word)[Len(lines) + 1] = word
  BY AppendProperties
<1> QED BY <1>1 DEF ToldIn, Last

\* A decision is one line, about one thing, of one tenant.
LEMMA LineWritten ==
  ASSUME LogOK, NEW t \in Tenants, NEW subject \in Subjects, NEW word \in Words,
         log_decision(t, subject, word)
  PROVE  /\ log[t][subject] \in Seq(Words)
         /\ log'[t][subject] = Append(log[t][subject], word)
         /\ \A u \in Tenants, s \in Subjects : u # t \/ s # subject => log'[u][s] = log[u][s]
  BY DEF LogOK, log_decision

RulesTold(lines, n) ==
  n + SaidIn(lines, "removed") = Len(Shipped["rules"]) + SaidIn(lines, "added")

ToolsTold(lines, off) == Cardinality(off) + SaidIn(lines, "gave") = SaidIn(lines, "took")

LearningTold(lines, learn) == learn = (ToldIn(lines, "on") = "on")

OnceTold(lines, done) == done = (lines # <<>>)

AgentTold(t) ==
  /\ RulesTold(log[t]["rule"], Len(rows[t]["rules"]))
  /\ ToolsTold(log[t]["tool"], cfg[t].toolsOff)
  /\ LearningTold(log[t]["learn"], cfg[t].learn)
  /\ OnceTold(log[t]["told"], cfg[t].told)
  /\ OnceTold(log[t]["limit"], cfg[t].limit)
  /\ OnceTold(log[t]["checks"], cfg[t].checked)

ConnTold(t, c) ==
  conn[t][c] = ToldIn(log[t][c], IF c \in ConnDefs THEN "on" ELSE "none")

PropTold(t, p) == prop[t][p] = ToldIn(log[t][p], "waiting") /\ Len(log[t][p]) <= 1

\* The inductive invariant: the property, and that finitely many tools are off.
TrailOK ==
  \A t \in Tenants :
    /\ restarts = 0 => AgentTold(t)
    /\ \A c \in Conns : ConnTold(t, c)
    /\ \A p \in Props : PropTold(t, p)
    /\ IsFiniteSet(cfg[t].toolsOff)

LEMMA TrailParts ==
  TrailOK => TrailTellsTheSettings
<1>1. \A t \in Tenants : AgentTold(t) => TrailTellsAgent(t)
  BY Zenon DEF AgentTold, TrailTellsAgent, RulesTold, ToolsTold, LearningTold, OnceTold,
               Said, SaidIn, Told, ToldIn
<1>2. \A t \in Tenants, c \in Conns :
        ConnTold(t, c) => conn[t][c] = Told(t, c, IF c \in ConnDefs THEN "on" ELSE "none")
  BY Zenon DEF ConnTold, Told, ToldIn
<1>3. \A t \in Tenants, p \in Props :
        PropTold(t, p) => prop[t][p] = Told(t, p, "waiting") /\ Len(log[t][p]) <= 1
  BY Zenon DEF PropTold, Told, ToldIn
<1> QED BY Zenon, <1>1, <1>2, <1>3 DEF TrailOK, TrailTellsTheSettings

Settings == <<cfg, conn, prop, restarts>>

\* What no line is about stays as it was told.
LEMMA AgentStays ==
  ASSUME NEW t, AgentTold(t), cfg'[t] = cfg[t], rows'[t]["rules"] = rows[t]["rules"],
         \A s \in {"rule", "tool", "learn", "told", "limit", "checks"} : log'[t][s] = log[t][s]
  PROVE  AgentTold(t)'
<1>1. /\ log'[t]["rule"] = log[t]["rule"] /\ log'[t]["tool"] = log[t]["tool"]
      /\ log'[t]["learn"] = log[t]["learn"] /\ log'[t]["told"] = log[t]["told"]
      /\ log'[t]["limit"] = log[t]["limit"] /\ log'[t]["checks"] = log[t]["checks"]
  OBVIOUS
<1> QED BY Zenon, <1>1 DEF AgentTold, RulesTold, ToolsTold, LearningTold, OnceTold, SaidIn, ToldIn

LEMMA WiresStay ==
  ASSUME NEW t
  PROVE  /\ \A c : ConnTold(t, c) /\ conn'[t][c] = conn[t][c] /\ log'[t][c] = log[t][c]
                     => ConnTold(t, c)'
         /\ \A p : PropTold(t, p) /\ prop'[t][p] = prop[t][p] /\ log'[t][p] = log[t][p]
                     => PropTold(t, p)'
<1>1. \A c : ConnTold(t, c) /\ conn'[t][c] = conn[t][c] /\ log'[t][c] = log[t][c]
               => ConnTold(t, c)'
  BY Zenon DEF ConnTold, ToldIn
<1>2. \A p : PropTold(t, p) /\ prop'[t][p] = prop[t][p] /\ log'[t][p] = log[t][p]
               => PropTold(t, p)'
  BY Zenon DEF PropTold, ToldIn
<1> QED BY <1>1, <1>2

\* The subjects are told apart.
LEMMA SubjectsApart ==
  /\ \A c \in Conns : c \in Subjects /\ c \notin Topics /\ c \notin Props
  /\ \A p \in Props : p \in Subjects /\ p \notin Topics /\ p \notin Conns
  /\ Topics \subseteq Subjects
  BY SubjectsAssumption DEF Subjects

\* A step that changes no setting and tells of none.
LEMMA UntoldStep ==
  ASSUME TrailOK, UNCHANGED Settings,
         \A u \in Tenants : rows'[u]["rules"] = rows[u]["rules"],
         \A u \in Tenants, s \in Subjects \ {"agent", "skill", "handover", "file"} :
           log'[u][s] = log[u][s]
  PROVE  TrailOK'
<1>0. cfg' = cfg /\ conn' = conn /\ prop' = prop /\ restarts' = restarts
  BY DEF Settings
<1>1. \A s \in {"rule", "tool", "learn", "told", "limit", "checks"} :
        s \in Subjects \ {"agent", "skill", "handover", "file"}
  BY DEF Subjects, Topics
<1>2. \A s \in Conns \cup Props : s \in Subjects \ {"agent", "skill", "handover", "file"}
  BY SubjectsApart DEF Topics
<1>3. ASSUME NEW t \in Tenants
      PROVE  /\ restarts' = 0 => AgentTold(t)'
             /\ \A c \in Conns : ConnTold(t, c)'
             /\ \A p \in Props : PropTold(t, p)'
             /\ IsFiniteSet(cfg'[t].toolsOff)
  <2>1. restarts' = 0 => AgentTold(t)'
    BY <1>0, <1>1, AgentStays DEF TrailOK
  <2>2. \A c \in Conns : ConnTold(t, c)'
    BY <1>0, <1>2, WiresStay DEF TrailOK
  <2>3. \A p \in Props : PropTold(t, p)'
    BY <1>0, <1>2, WiresStay DEF TrailOK
  <2> QED BY <1>0, <2>1, <2>2, <2>3 DEF TrailOK
<1> QED BY Zenon, <1>3 DEF TrailOK

\* A step that tells of the agent of one tenant.
LEMMA AgentStep ==
  ASSUME TrailOK, LogOK, NEW t \in Tenants, NEW topic \in Topics, NEW word \in Words,
         log_decision(t, topic, word), UNCHANGED <<conn, prop, restarts>>,
         \A u \in Tenants : u # t => cfg'[u] = cfg[u] /\ rows'[u]["rules"] = rows[u]["rules"],
         IsFiniteSet(cfg'[t].toolsOff),
         restarts = 0 => AgentTold(t)'
  PROVE  TrailOK'
<1>1. \A u \in Tenants, s \in Subjects : u # t \/ s # topic => log'[u][s] = log[u][s]
  BY LineWritten, SubjectsApart
<1>2. \A u \in Tenants : u # t =>
        \A s \in {"rule", "tool", "learn", "told", "limit", "checks"} : log'[u][s] = log[u][s]
  BY <1>1 DEF Subjects, Topics
<1>3. \A u \in Tenants, s \in Conns \cup Props : log'[u][s] = log[u][s]
  BY <1>1, SubjectsApart
<1>4. ASSUME NEW u \in Tenants
      PROVE  /\ restarts' = 0 => AgentTold(u)'
             /\ \A c \in Conns : ConnTold(u, c)'
             /\ \A p \in Props : PropTold(u, p)'
             /\ IsFiniteSet(cfg'[u].toolsOff)
  <2>1. restarts' = 0 => AgentTold(u)'
    <3>1. CASE u = t
      BY <3>1
    <3>2. CASE u # t
      BY <1>2, <3>2, AgentStays DEF TrailOK
    <3> QED BY <3>1, <3>2
  <2>2. \A c \in Conns : ConnTold(u, c)'
    BY <1>3, WiresStay DEF TrailOK
  <2>3. \A p \in Props : PropTold(u, p)'
    BY <1>3, WiresStay DEF TrailOK
  <2>4. IsFiniteSet(cfg'[u].toolsOff)
    <3>1. CASE u = t
      BY <3>1
    <3>2. CASE u # t
      BY <3>2 DEF TrailOK
    <3> QED BY <3>1, <3>2
  <2> QED BY <2>1, <2>2, <2>3, <2>4
<1> QED BY Zenon, <1>4 DEF TrailOK

\* A rule more, and the line that says so.
LEMMA AddRuleTold ==
  ASSUME TypeOK, TrailOK, NEW t \in Tenants, AddRule(t)
  PROVE  TrailOK'
<1> USE TypeParts, Vocabulary
<1>1. PICK text \in Typed["rules"] : AddTo(t, "rules", text, TRUE)
  BY DEF AddRule
<1>2. /\ rows'[t]["rules"] = Append(rows[t]["rules"], Row(made + 1, text, TRUE))
      /\ \A u \in Tenants : u # t => rows'[u]["rules"] = rows[u]["rules"]
  BY <1>1, AddTypes
<1>3. log_decision(t, "rule", "added") /\ cfg' = cfg /\ UNCHANGED <<conn, prop, restarts>>
  BY DEF AddRule, agent, wires, Ask
<1>4. rows[t]["rules"] \in Seq(AnyRow) /\ Row(made + 1, text, TRUE) \in AnyRow
  BY DEF ListsOK, RowsOK, Row, AnyRow
<1>5. /\ Len(rows[t]["rules"]) \in Nat
      /\ Len(rows'[t]["rules"]) = Len(rows[t]["rules"]) + 1
  BY <1>2, <1>4, AppendProperties, LenProperties
<1>6. ASSUME restarts = 0
      PROVE  AgentTold(t)'
  <2> DEFINE lines == log[t]["rule"]
  <2>1. /\ lines \in Seq(Words) /\ log'[t]["rule"] = Append(lines, "added")
        /\ \A s \in Subjects : s # "rule" => log'[t][s] = log[t][s]
    BY <1>3, LineWritten
  <2>2. AgentTold(t)
    BY <1>6 DEF TrailOK
  <2> HIDE DEF lines
  <2>3. /\ SaidIn(Append(lines, "added"), "added") = SaidIn(lines, "added") + 1
        /\ SaidIn(Append(lines, "added"), "removed") = SaidIn(lines, "removed")
        /\ SaidIn(lines, "added") \in Nat /\ SaidIn(lines, "removed") \in Nat
    BY <2>1, SaidOnceMore
  <2>4. RulesTold(lines, Len(rows[t]["rules"]))
    BY <2>2 DEF AgentTold, lines
  <2>5. Len(Shipped["rules"]) \in Nat
    BY ShippedRows, LenProperties
  <2>6. \A n, x, y, z \in Nat : n + x = z + y => (n + 1) + x = z + (y + 1)
    OBVIOUS
  <2> DEFINE n == Len(rows[t]["rules"])
  <2>7. RulesTold(Append(lines, "added"), Len(rows'[t]["rules"]))
    <3>1. n \in Nat /\ Len(rows'[t]["rules"]) = n + 1 /\ RulesTold(lines, n)
      BY <1>5, <2>4
    <3> HIDE DEF n
    <3> QED BY <2>3, <2>5, <2>6, <3>1 DEF RulesTold
  <2>8. /\ log'[t]["tool"] = log[t]["tool"] /\ log'[t]["learn"] = log[t]["learn"]
        /\ log'[t]["told"] = log[t]["told"] /\ log'[t]["limit"] = log[t]["limit"]
        /\ log'[t]["checks"] = log[t]["checks"]
    BY <2>1 DEF Subjects, Topics
  <2> QED BY Zenon, <1>3, <2>1, <2>2, <2>7, <2>8
          DEF AgentTold, ToolsTold, LearningTold, OnceTold, SaidIn, ToldIn
<1>7. IsFiniteSet(cfg'[t].toolsOff)
  BY <1>3 DEF TrailOK
<1>8. "rule" \in Topics /\ "added" \in Words
  BY DEF Topics, Words
<1> QED BY <1>2, <1>3, <1>6, <1>7, <1>8, AgentStep

\* A rule less, and the line that says so.
LEMMA DelRuleTold ==
  ASSUME TypeOK, TrailOK, NEW t \in Tenants, DelRule(t)
  PROVE  TrailOK'
<1> USE TypeParts, Vocabulary
<1> DEFINE list == rows[t]["rules"]
<1>1. PICK b \in Presses(t, "rules") :
        b.at \in DOMAIN list /\ Put(t, "rules", RemoveAt(list, b.at))
  BY DEF DelRule
<1>2. list \in Seq(Rows("rules"))
  BY DEF ListsOK, RowsOK
<1>3. /\ rows'[t]["rules"] = RemoveAt(list, b.at)
      /\ \A u \in Tenants : u # t => rows'[u]["rules"] = rows[u]["rules"]
  BY <1>1, <1>2, RemoveTypes
<1>4. log_decision(t, "rule", "removed") /\ cfg' = cfg /\ UNCHANGED <<conn, prop, restarts>>
  BY DEF DelRule, agent, wires, Ask
<1>5. /\ Len(list) \in Nat /\ Len(list) >= 1
      /\ Len(rows'[t]["rules"]) = Len(list) - 1
  <2> HIDE DEF list
  <2>1. Len(RemoveAt(list, b.at)) = Len(list) - 1
    BY <1>1, <1>2, RemoveRow
  <2>2. b.at \in 1..Len(list) /\ Len(list) \in Nat
    BY <1>1, <1>2, LenProperties
  <2> QED BY <1>3, <2>1, <2>2
<1>6. ASSUME restarts = 0
      PROVE  AgentTold(t)'
  <2> DEFINE lines == log[t]["rule"]
  <2>1. /\ lines \in Seq(Words) /\ log'[t]["rule"] = Append(lines, "removed")
        /\ \A s \in Subjects : s # "rule" => log'[t][s] = log[t][s]
    BY <1>4, LineWritten
  <2>2. AgentTold(t)
    BY <1>6 DEF TrailOK
  <2> HIDE DEF lines
  <2>3. /\ SaidIn(Append(lines, "removed"), "removed") = SaidIn(lines, "removed") + 1
        /\ SaidIn(Append(lines, "removed"), "added") = SaidIn(lines, "added")
        /\ SaidIn(lines, "added") \in Nat /\ SaidIn(lines, "removed") \in Nat
    BY <2>1, SaidOnceMore
  <2>4. RulesTold(lines, Len(list))
    BY <2>2 DEF AgentTold, lines
  <2>5. Len(Shipped["rules"]) \in Nat
    BY ShippedRows, LenProperties
  <2>6. \A n, x, y, z \in Nat : n >= 1 /\ n + x = z + y => (n - 1) + (x + 1) = z + y
    OBVIOUS
  <2> HIDE DEF list
  <2>7. RulesTold(Append(lines, "removed"), Len(rows'[t]["rules"]))
    BY <1>5, <2>3, <2>4, <2>5, <2>6 DEF RulesTold
  <2>8. /\ log'[t]["tool"] = log[t]["tool"] /\ log'[t]["learn"] = log[t]["learn"]
        /\ log'[t]["told"] = log[t]["told"] /\ log'[t]["limit"] = log[t]["limit"]
        /\ log'[t]["checks"] = log[t]["checks"]
    BY <2>1 DEF Subjects, Topics
  <2> QED BY Zenon, <1>4, <2>1, <2>2, <2>7, <2>8
          DEF AgentTold, ToolsTold, LearningTold, OnceTold, SaidIn, ToldIn
<1>7. IsFiniteSet(cfg'[t].toolsOff)
  BY <1>4 DEF TrailOK
<1>8. "rule" \in Topics /\ "removed" \in Words
  BY DEF Topics, Words
<1> QED BY <1>3, <1>4, <1>6, <1>7, <1>8, AgentStep

\* A tool is taken or given back, and the line says which.
LEMMA SwitchToolTold ==
  ASSUME TypeOK, TrailOK, NEW t \in Tenants, SwitchTool(t)
  PROVE  TrailOK'
<1> USE TypeParts, Vocabulary
<1> DEFINE off == cfg[t].toolsOff
           lines == log[t]["tool"]
<1>0. /\ rows' = rows /\ UNCHANGED <<conn, prop, restarts>>
      /\ IsFiniteSet(off) /\ off \subseteq Tools /\ cfg[t] \in Cfg
  BY DEF SwitchTool, lists, wires, Ask, TrailOK, AgentOK, Cfg
<1>1. PICK tool \in Tools :
        \/ /\ tool \in off /\ cfg' = [cfg EXCEPT ![t].toolsOff = off \ {tool}]
           /\ log_decision(t, "tool", "gave")
        \/ /\ tool \notin off /\ cfg' = [cfg EXCEPT ![t].toolsOff = off \cup {tool}]
           /\ log_decision(t, "tool", "took")
  BY DEF SwitchTool
<1>2. \E now \in SUBSET Tools, word \in {"gave", "took"} :
        /\ cfg' = [cfg EXCEPT ![t].toolsOff = now] /\ IsFiniteSet(now)
        /\ log_decision(t, "tool", word)
        /\ word = "gave" => Cardinality(now) = Cardinality(off) - 1
        /\ word = "took" => Cardinality(now) = Cardinality(off) + 1
  <2> HIDE DEF off
  <2>1. CASE tool \in off
    <3>1. /\ IsFiniteSet(off \ {tool})
          /\ Cardinality(off \ {tool}) = Cardinality(off) - 1
      BY <1>0, <2>1, FS_RemoveElement
    <3>2. /\ cfg' = [cfg EXCEPT ![t].toolsOff = off \ {tool}]
          /\ log_decision(t, "tool", "gave")
      BY <1>1, <2>1
    <3>3. off \ {tool} \in SUBSET Tools /\ "gave" # "took"
      BY <1>0
    <3> QED BY Zenon, <3>1, <3>2, <3>3
  <2>2. CASE tool \notin off
    <3>1. /\ IsFiniteSet(off \cup {tool})
          /\ Cardinality(off \cup {tool}) = Cardinality(off) + 1
      BY <1>0, <2>2, FS_AddElement
    <3>2. /\ cfg' = [cfg EXCEPT ![t].toolsOff = off \cup {tool}]
          /\ log_decision(t, "tool", "took")
      BY <1>1, <2>2
    <3>3. off \cup {tool} \in SUBSET Tools /\ "gave" # "took"
      BY <1>0
    <3> QED BY Zenon, <3>1, <3>2, <3>3
  <2> QED BY <2>1, <2>2
<1>3. PICK now \in SUBSET Tools, word \in {"gave", "took"} :
        /\ cfg' = [cfg EXCEPT ![t].toolsOff = now] /\ IsFiniteSet(now)
        /\ log_decision(t, "tool", word)
        /\ word = "gave" => Cardinality(now) = Cardinality(off) - 1
        /\ word = "took" => Cardinality(now) = Cardinality(off) + 1
  BY <1>2
<1>4. /\ cfg'[t].toolsOff = now /\ cfg'[t].learn = cfg[t].learn /\ cfg'[t].told = cfg[t].told
      /\ cfg'[t].limit = cfg[t].limit /\ cfg'[t].checked = cfg[t].checked
      /\ \A u \in Tenants : u # t => cfg'[u] = cfg[u]
  <2>1. cfg'[t] = [cfg[t] EXCEPT !.toolsOff = now] /\ \A u \in Tenants : u # t => cfg'[u] = cfg[u]
    BY <1>3 DEF AgentOK
  <2> QED BY <1>0, <2>1 DEF Cfg
<1>5. "tool" \in Topics /\ word \in Words
  BY DEF Topics, Words
<1>6. ASSUME restarts = 0
      PROVE  AgentTold(t)'
  <2>1. /\ lines \in Seq(Words) /\ log'[t]["tool"] = Append(lines, word)
        /\ \A s \in Subjects : s # "tool" => log'[t][s] = log[t][s]
    BY <1>3, LineWritten
  <2>2. AgentTold(t)
    BY <1>6 DEF TrailOK
  <2>3. ToolsTold(lines, off)
    BY <2>2 DEF AgentTold
  <2>4. Cardinality(off) \in Nat
    BY <1>0, FS_CardinalityType
  <2> HIDE DEF off, lines
  <2>5. SaidIn(lines, "gave") \in Nat /\ SaidIn(lines, "took") \in Nat
    BY <2>1, SaidOnceMore
  <2>6. ToolsTold(Append(lines, word), now)
    <3>1. CASE word = "gave"
      <4>1. /\ SaidIn(Append(lines, word), "gave") = SaidIn(lines, "gave") + 1
            /\ SaidIn(Append(lines, word), "took") = SaidIn(lines, "took")
        BY <1>5, <2>1, <3>1, SaidOnceMore
      <4>2. \A n, x, y \in Nat : n + x = y => (n - 1) + (x + 1) = y
        OBVIOUS
      <4> QED BY <1>3, <2>3, <2>4, <2>5, <3>1, <4>1, <4>2 DEF ToolsTold
    <3>2. CASE word = "took"
      <4>1. /\ SaidIn(Append(lines, word), "took") = SaidIn(lines, "took") + 1
            /\ SaidIn(Append(lines, word), "gave") = SaidIn(lines, "gave")
        BY <1>5, <2>1, <3>2, SaidOnceMore
      <4>2. \A n, x, y \in Nat : n + x = y => (n + 1) + x = y + 1
        OBVIOUS
      <4> QED BY <1>3, <2>3, <2>4, <2>5, <3>2, <4>1, <4>2 DEF ToolsTold
    <3> QED BY <3>1, <3>2
  <2>7. /\ log'[t]["rule"] = log[t]["rule"] /\ log'[t]["learn"] = log[t]["learn"]
        /\ log'[t]["told"] = log[t]["told"] /\ log'[t]["limit"] = log[t]["limit"]
        /\ log'[t]["checks"] = log[t]["checks"]
    BY <2>1 DEF Subjects, Topics
  <2> QED BY Zenon, <1>0, <1>4, <2>1, <2>2, <2>6, <2>7
          DEF AgentTold, RulesTold, LearningTold, OnceTold, SaidIn, ToldIn
<1>7. IsFiniteSet(cfg'[t].toolsOff)
  BY <1>3, <1>4
<1> QED BY <1>0, <1>3, <1>4, <1>5, <1>6, <1>7, AgentStep

\* The other fields of an agent's settings.
LEMMA FieldSet ==
  ASSUME AgentOK, NEW t \in Tenants
  PROVE  /\ cfg' = [cfg EXCEPT ![t].told = TRUE] =>
              /\ cfg'[t].toolsOff = cfg[t].toolsOff /\ cfg'[t].learn = cfg[t].learn
              /\ cfg'[t].told = TRUE /\ cfg'[t].limit = cfg[t].limit
              /\ cfg'[t].checked = cfg[t].checked
         /\ cfg' = [cfg EXCEPT ![t].limit = TRUE] =>
              /\ cfg'[t].toolsOff = cfg[t].toolsOff /\ cfg'[t].learn = cfg[t].learn
              /\ cfg'[t].told = cfg[t].told /\ cfg'[t].limit = TRUE
              /\ cfg'[t].checked = cfg[t].checked
         /\ cfg' = [cfg EXCEPT ![t].checked = TRUE] =>
              /\ cfg'[t].toolsOff = cfg[t].toolsOff /\ cfg'[t].learn = cfg[t].learn
              /\ cfg'[t].told = cfg[t].told /\ cfg'[t].limit = cfg[t].limit
              /\ cfg'[t].checked = TRUE
         /\ \A on \in BOOLEAN : cfg' = [cfg EXCEPT ![t].learn = on] =>
              /\ cfg'[t].toolsOff = cfg[t].toolsOff /\ cfg'[t].learn = on
              /\ cfg'[t].told = cfg[t].told /\ cfg'[t].limit = cfg[t].limit
              /\ cfg'[t].checked = cfg[t].checked
<1>1. cfg[t] \in Cfg
  BY DEF AgentOK
<1>2. /\ cfg' = [cfg EXCEPT ![t].told = TRUE] => cfg'[t] = [cfg[t] EXCEPT !.told = TRUE]
      /\ cfg' = [cfg EXCEPT ![t].limit = TRUE] => cfg'[t] = [cfg[t] EXCEPT !.limit = TRUE]
      /\ cfg' = [cfg EXCEPT ![t].checked = TRUE] => cfg'[t] = [cfg[t] EXCEPT !.checked = TRUE]
      /\ \A on \in BOOLEAN :
           cfg' = [cfg EXCEPT ![t].learn = on] => cfg'[t] = [cfg[t] EXCEPT !.learn = on]
  BY DEF AgentOK
<1> QED BY <1>1, <1>2 DEF Cfg

\* A field that is set once is set when its first line is written.
LEMMA OnceAgain ==
  ASSUME NEW lines \in Seq(Words), NEW word \in Words, NEW done, done = TRUE
  PROVE  OnceTold(Append(lines, word), done)
<1>1. Append(lines, word) # <<>>
  BY ToldLast
<1> QED BY <1>1 DEF OnceTold

\* The instructions, the limit and the checks: set, and told.
LEMMA SetOnceTold ==
  ASSUME TypeOK, TrailOK, NEW t \in Tenants,
         SetInstructions(t) \/ SetLimit(t) \/ RunChecks(t)
  PROVE  TrailOK'
<1> USE TypeParts, Vocabulary
<1>1. /\ rows' = rows /\ UNCHANGED <<conn, prop, restarts>>
      /\ IsFiniteSet(cfg[t].toolsOff)
  BY DEF SetInstructions, SetLimit, RunChecks, lists, wires, Ask, TrailOK
<1>2. \A u \in Tenants : u # t => cfg'[u] = cfg[u]
  BY DEF SetInstructions, SetLimit, RunChecks, AgentOK
<1>3. CASE SetInstructions(t)
  <2>1. log_decision(t, "told", "told") /\ cfg' = [cfg EXCEPT ![t].told = TRUE]
    BY <1>3 DEF SetInstructions
  <2>2. /\ log[t]["told"] \in Seq(Words) /\ log'[t]["told"] = Append(log[t]["told"], "told")
        /\ \A s \in Subjects : s # "told" => log'[t][s] = log[t][s]
    BY <2>1, LineWritten
  <2>3. /\ log'[t]["rule"] = log[t]["rule"] /\ log'[t]["tool"] = log[t]["tool"]
        /\ log'[t]["learn"] = log[t]["learn"] /\ log'[t]["limit"] = log[t]["limit"]
        /\ log'[t]["checks"] = log[t]["checks"]
    BY <2>2 DEF Subjects, Topics
  <2>4. /\ cfg'[t].toolsOff = cfg[t].toolsOff /\ cfg'[t].learn = cfg[t].learn
        /\ cfg'[t].told = TRUE /\ cfg'[t].limit = cfg[t].limit
        /\ cfg'[t].checked = cfg[t].checked
    BY <2>1, FieldSet
  <2>5. "told" \in Topics /\ "told" \in Words
    BY DEF Topics, Words
  <2>6. OnceTold(log'[t]["told"], cfg'[t].told)
    BY <2>2, <2>4, <2>5, OnceAgain
  <2>7. AgentTold(t) => AgentTold(t)'
    <3>1. AgentTold(t) => /\ OnceTold(log'[t]["limit"], cfg'[t].limit)
                          /\ OnceTold(log'[t]["checks"], cfg'[t].checked)
      BY Zenon, <2>3, <2>4 DEF AgentTold
    <3>2. AgentTold(t) => /\ RulesTold(log'[t]["rule"], Len(rows'[t]["rules"]))
                          /\ ToolsTold(log'[t]["tool"], cfg'[t].toolsOff)
                          /\ LearningTold(log'[t]["learn"], cfg'[t].learn)
      BY Zenon, <1>1, <2>3, <2>4 DEF AgentTold
    <3> QED BY Zenon, <2>6, <3>1, <3>2 DEF AgentTold
  <2>8. /\ \A u \in Tenants : u # t => cfg'[u] = cfg[u] /\ rows'[u]["rules"] = rows[u]["rules"]
        /\ IsFiniteSet(cfg'[t].toolsOff)
        /\ restarts = 0 => AgentTold(t)'
    BY <1>1, <1>2, <2>4, <2>7 DEF TrailOK
  <2> QED BY Zenon, <1>1, <2>1, <2>5, <2>8, AgentStep
<1>4. CASE SetLimit(t)
  <2>1. log_decision(t, "limit", "changed") /\ cfg' = [cfg EXCEPT ![t].limit = TRUE]
    BY <1>4 DEF SetLimit
  <2>2. /\ log[t]["limit"] \in Seq(Words) /\ log'[t]["limit"] = Append(log[t]["limit"], "changed")
        /\ \A s \in Subjects : s # "limit" => log'[t][s] = log[t][s]
    BY <2>1, LineWritten
  <2>3. /\ log'[t]["rule"] = log[t]["rule"] /\ log'[t]["tool"] = log[t]["tool"]
        /\ log'[t]["learn"] = log[t]["learn"] /\ log'[t]["told"] = log[t]["told"]
        /\ log'[t]["checks"] = log[t]["checks"]
    BY <2>2 DEF Subjects, Topics
  <2>4. /\ cfg'[t].toolsOff = cfg[t].toolsOff /\ cfg'[t].learn = cfg[t].learn
        /\ cfg'[t].told = cfg[t].told /\ cfg'[t].limit = TRUE
        /\ cfg'[t].checked = cfg[t].checked
    BY <2>1, FieldSet
  <2>5. "limit" \in Topics /\ "changed" \in Words
    BY DEF Topics, Words
  <2>6. OnceTold(log'[t]["limit"], cfg'[t].limit)
    BY <2>2, <2>4, <2>5, OnceAgain
  <2>7. AgentTold(t) => AgentTold(t)'
    <3>1. AgentTold(t) => /\ OnceTold(log'[t]["told"], cfg'[t].told)
                          /\ OnceTold(log'[t]["checks"], cfg'[t].checked)
      BY Zenon, <2>3, <2>4 DEF AgentTold
    <3>2. AgentTold(t) => /\ RulesTold(log'[t]["rule"], Len(rows'[t]["rules"]))
                          /\ ToolsTold(log'[t]["tool"], cfg'[t].toolsOff)
                          /\ LearningTold(log'[t]["learn"], cfg'[t].learn)
      BY Zenon, <1>1, <2>3, <2>4 DEF AgentTold
    <3> QED BY Zenon, <2>6, <3>1, <3>2 DEF AgentTold
  <2>8. /\ \A u \in Tenants : u # t => cfg'[u] = cfg[u] /\ rows'[u]["rules"] = rows[u]["rules"]
        /\ IsFiniteSet(cfg'[t].toolsOff)
        /\ restarts = 0 => AgentTold(t)'
    BY <1>1, <1>2, <2>4, <2>7 DEF TrailOK
  <2> QED BY Zenon, <1>1, <2>1, <2>5, <2>8, AgentStep
<1>5. CASE RunChecks(t)
  <2>1. log_decision(t, "checks", "passed") /\ cfg' = [cfg EXCEPT ![t].checked = TRUE]
    BY <1>5 DEF RunChecks
  <2>2. /\ log[t]["checks"] \in Seq(Words) /\ log'[t]["checks"] = Append(log[t]["checks"], "passed")
        /\ \A s \in Subjects : s # "checks" => log'[t][s] = log[t][s]
    BY <2>1, LineWritten
  <2>3. /\ log'[t]["rule"] = log[t]["rule"] /\ log'[t]["tool"] = log[t]["tool"]
        /\ log'[t]["learn"] = log[t]["learn"] /\ log'[t]["told"] = log[t]["told"]
        /\ log'[t]["limit"] = log[t]["limit"]
    BY <2>2 DEF Subjects, Topics
  <2>4. /\ cfg'[t].toolsOff = cfg[t].toolsOff /\ cfg'[t].learn = cfg[t].learn
        /\ cfg'[t].told = cfg[t].told /\ cfg'[t].limit = cfg[t].limit
        /\ cfg'[t].checked = TRUE
    BY <2>1, FieldSet
  <2>5. "checks" \in Topics /\ "passed" \in Words
    BY DEF Topics, Words
  <2>6. OnceTold(log'[t]["checks"], cfg'[t].checked)
    BY <2>2, <2>4, <2>5, OnceAgain
  <2>7. AgentTold(t) => AgentTold(t)'
    <3>1. AgentTold(t) => /\ OnceTold(log'[t]["told"], cfg'[t].told)
                          /\ OnceTold(log'[t]["limit"], cfg'[t].limit)
      BY Zenon, <2>3, <2>4 DEF AgentTold
    <3>2. AgentTold(t) => /\ RulesTold(log'[t]["rule"], Len(rows'[t]["rules"]))
                          /\ ToolsTold(log'[t]["tool"], cfg'[t].toolsOff)
                          /\ LearningTold(log'[t]["learn"], cfg'[t].learn)
      BY Zenon, <1>1, <2>3, <2>4 DEF AgentTold
    <3> QED BY Zenon, <2>6, <3>1, <3>2 DEF AgentTold
  <2>8. /\ \A u \in Tenants : u # t => cfg'[u] = cfg[u] /\ rows'[u]["rules"] = rows[u]["rules"]
        /\ IsFiniteSet(cfg'[t].toolsOff)
        /\ restarts = 0 => AgentTold(t)'
    BY <1>1, <1>2, <2>4, <2>7 DEF TrailOK
  <2> QED BY Zenon, <1>1, <2>1, <2>5, <2>8, AgentStep
<1> QED BY <1>3, <1>4, <1>5

\* Learning is paused or resumed, and the last line says which.
LEMMA SetLearningTold ==
  ASSUME TypeOK, TrailOK, NEW t \in Tenants, SetLearning(t)
  PROVE  TrailOK'
<1> USE TypeParts, Vocabulary
<1>1. /\ rows' = rows /\ UNCHANGED <<conn, prop, restarts>>
      /\ IsFiniteSet(cfg[t].toolsOff)
  BY DEF SetLearning, lists, wires, Ask, TrailOK
<1>2. \A u \in Tenants : u # t => cfg'[u] = cfg[u]
  BY DEF SetLearning, AgentOK
<1>3. PICK on \in BOOLEAN :
        cfg' = [cfg EXCEPT ![t].learn = on] /\ log_decision(t, "learn", IF on THEN "on" ELSE "paused")
  BY DEF SetLearning
<1> DEFINE word == IF on THEN "on" ELSE "paused"
<1>4. "learn" \in Topics /\ word \in Words /\ on = (word = "on")
  BY DEF Topics, Words
<1>5. log_decision(t, "learn", word)
  BY <1>3
<1> HIDE DEF word
<1>6. /\ log[t]["learn"] \in Seq(Words) /\ log'[t]["learn"] = Append(log[t]["learn"], word)
      /\ \A s \in Subjects : s # "learn" => log'[t][s] = log[t][s]
  BY <1>4, <1>5, LineWritten
<1>7. /\ log'[t]["rule"] = log[t]["rule"] /\ log'[t]["tool"] = log[t]["tool"]
      /\ log'[t]["told"] = log[t]["told"] /\ log'[t]["limit"] = log[t]["limit"]
      /\ log'[t]["checks"] = log[t]["checks"]
  BY <1>6 DEF Subjects, Topics
<1>8. /\ cfg'[t].toolsOff = cfg[t].toolsOff /\ cfg'[t].learn = on
      /\ cfg'[t].told = cfg[t].told /\ cfg'[t].limit = cfg[t].limit
      /\ cfg'[t].checked = cfg[t].checked
  BY <1>3, FieldSet
<1>9. ToldIn(Append(log[t]["learn"], word), "on") = word
  BY <1>4, <1>6, ToldLast
<1>10. LearningTold(log'[t]["learn"], cfg'[t].learn)
  BY Zenon, <1>4, <1>6, <1>8, <1>9 DEF LearningTold
<1>11. AgentTold(t) => AgentTold(t)'
  BY Zenon, <1>1, <1>7, <1>8, <1>10
     DEF AgentTold, RulesTold, ToolsTold, OnceTold, SaidIn
<1> QED BY <1>1, <1>2, <1>4, <1>5, <1>8, <1>11, AgentStep DEF TrailOK

\* A connection changes with its line.
LEMMA ConnActTold ==
  ASSUME TypeOK, TrailOK, NEW t \in Tenants, NEW act \in ConnActs, ConnAct(t, act)
  PROVE  TrailOK'
<1> USE TypeParts, Vocabulary
<1>1. /\ rows' = rows /\ cfg' = cfg /\ prop' = prop /\ restarts' = restarts
  BY DEF ConnAct, lists, agent, Ask
<1> DEFINE word == ConnBecomes(act)
<1>2. PICK c \in Conns :
        conn' = [conn EXCEPT ![t][c] = word] /\ log_decision(t, c, word)
  BY DEF ConnAct
<1>3. word \in Words
  BY DEF ConnBecomes, Words
<1> HIDE DEF word
<1>4. /\ log[t][c] \in Seq(Words) /\ log'[t][c] = Append(log[t][c], word)
      /\ \A u \in Tenants, s \in Subjects : u # t \/ s # c => log'[u][s] = log[u][s]
  BY <1>2, <1>3, LineWritten, SubjectsApart
<1>5. /\ conn'[t][c] = word
      /\ \A u \in Tenants, d \in Conns : u # t \/ d # c => conn'[u][d] = conn[u][d]
  BY <1>2 DEF WiresOK
<1>6. ASSUME NEW u \in Tenants
      PROVE  /\ restarts' = 0 => AgentTold(u)'
             /\ \A d \in Conns : ConnTold(u, d)'
             /\ \A p \in Props : PropTold(u, p)'
             /\ IsFiniteSet(cfg'[u].toolsOff)
  <2>1. \A s \in {"rule", "tool", "learn", "told", "limit", "checks"} : log'[u][s] = log[u][s]
    BY <1>4, SubjectsApart DEF Topics
  <2>2. restarts' = 0 => AgentTold(u)'
    BY <1>1, <2>1, AgentStays DEF TrailOK
  <2>3. \A p \in Props : PropTold(u, p)'
    BY <1>1, <1>4, SubjectsApart, WiresStay DEF TrailOK
  <2>4. ASSUME NEW d \in Conns
        PROVE  ConnTold(u, d)'
    <3>1. CASE u = t /\ d = c
      <4>1. ToldIn(log'[t][c], IF c \in ConnDefs THEN "on" ELSE "none") = word
        BY <1>3, <1>4, ToldLast
      <4> QED BY Zenon, <1>5, <3>1, <4>1 DEF ConnTold
    <3>2. CASE ~(u = t /\ d = c)
      <4>1. conn'[u][d] = conn[u][d] /\ log'[u][d] = log[u][d]
        BY <1>4, <1>5, <3>2, SubjectsApart
      <4> QED BY <4>1, WiresStay DEF TrailOK
    <3> QED BY <3>1, <3>2
  <2> QED BY <1>1, <2>2, <2>3, <2>4 DEF TrailOK
<1> QED BY Zenon, <1>6 DEF TrailOK

\* A proposal is decided with its line, its first and its last.
LEMMA PropActTold ==
  ASSUME TypeOK, TrailOK, NEW t \in Tenants, NEW action \in {"approved", "declined"},
         PropAct(t, action)
  PROVE  TrailOK'
<1> USE TypeParts, Vocabulary
<1>1. /\ rows' = rows /\ cfg' = cfg /\ conn' = conn /\ restarts' = restarts
  BY DEF PropAct, lists, agent, Ask
<1>2. PICK p \in Props :
        /\ prop[t][p] = "waiting"
        /\ prop' = [prop EXCEPT ![t][p] = action] /\ log_decision(t, p, action)
  BY DEF PropAct, PropTakes
<1>3. action \in Words /\ "waiting" \notin Words
  BY DEF Words
<1>4. /\ log[t][p] \in Seq(Words) /\ log'[t][p] = Append(log[t][p], action)
      /\ \A u \in Tenants, s \in Subjects : u # t \/ s # p => log'[u][s] = log[u][s]
  BY <1>2, <1>3, LineWritten, SubjectsApart
<1>5. /\ prop'[t][p] = action
      /\ \A u \in Tenants, q \in Props : u # t \/ q # p => prop'[u][q] = prop[u][q]
  BY <1>2 DEF WiresOK
<1>6. log[t][p] = <<>>
  <2>1. ToldIn(log[t][p], "waiting") = "waiting"
    BY <1>2 DEF TrailOK, PropTold
  <2> SUFFICES ASSUME log[t][p] # <<>> PROVE FALSE
    OBVIOUS
  <2>2. log[t][p][Len(log[t][p])] = "waiting"
    BY <2>1 DEF ToldIn, Last
  <2> DEFINE lines == log[t][p]
  <2>3. lines \in Seq(Words) /\ lines # <<>>
    BY <1>4
  <2> HIDE DEF lines
  <2>4. Len(lines) \in 1..Len(lines)
    BY <2>3, EmptySeq, LenProperties
  <2>5. lines[Len(lines)] \in Words
    BY <2>3, <2>4, ElementOfSeq
  <2> QED BY <1>3, <2>2, <2>5 DEF lines
<1>7. PropTold(t, p)'
  <2>1. /\ ToldIn(log'[t][p], "waiting") = action
        /\ Len(log'[t][p]) = Len(log[t][p]) + 1
    BY <1>3, <1>4, ToldLast
  <2>2. Len(log'[t][p]) <= 1
    BY <1>6, <2>1
  <2> QED BY Zenon, <1>5, <2>1, <2>2 DEF PropTold
<1>8. ASSUME NEW u \in Tenants
      PROVE  /\ restarts' = 0 => AgentTold(u)'
             /\ \A c \in Conns : ConnTold(u, c)'
             /\ \A q \in Props : PropTold(u, q)'
             /\ IsFiniteSet(cfg'[u].toolsOff)
  <2>1. \A s \in {"rule", "tool", "learn", "told", "limit", "checks"} : log'[u][s] = log[u][s]
    BY <1>4, SubjectsApart DEF Topics
  <2>2. restarts' = 0 => AgentTold(u)'
    BY <1>1, <2>1, AgentStays DEF TrailOK
  <2>3. \A c \in Conns : ConnTold(u, c)'
    BY <1>1, <1>4, SubjectsApart, WiresStay DEF TrailOK
  <2>4. ASSUME NEW q \in Props
        PROVE  PropTold(u, q)'
    <3>1. CASE u = t /\ q = p
      BY <1>7, <3>1
    <3>2. CASE ~(u = t /\ q = p)
      <4>1. prop'[u][q] = prop[u][q] /\ log'[u][q] = log[u][q]
        BY <1>4, <1>5, <3>2, SubjectsApart
      <4> QED BY <4>1, WiresStay DEF TrailOK
    <3> QED BY <3>1, <3>2
  <2> QED BY <1>1, <2>2, <2>3, <2>4 DEF TrailOK
<1> QED BY Zenon, <1>8 DEF TrailOK

\* An empty trail tells what a program that has just started has.
LEMMA EmptyTrail ==
  ASSUME NEW t \in Tenants, log'[t] = [s \in Subjects |-> <<>>],
         conn'[t] = [c \in Conns |-> IF c \in ConnDefs THEN "on" ELSE "none"],
         prop'[t] = [p \in Props |-> "waiting"]
  PROVE  (\A c \in Conns : ConnTold(t, c)') /\ (\A p \in Props : PropTold(t, p)')
<1>1. \A s \in Subjects : log'[t][s] = <<>>
  OBVIOUS
<1>2. \A c \in Conns : /\ log'[t][c] = <<>>
                       /\ conn'[t][c] = IF c \in ConnDefs THEN "on" ELSE "none"
  BY <1>1, SubjectsApart
<1>3. \A p \in Props : log'[t][p] = <<>> /\ prop'[t][p] = "waiting"
  BY <1>1, SubjectsApart
<1>4. Len(<<>>) <= 1
  OBVIOUS
<1>5. \A c \in Conns : ConnTold(t, c)'
  BY <1>2 DEF ConnTold, ToldIn
<1>6. \A p \in Props : PropTold(t, p)'
  <2> SUFFICES ASSUME NEW p \in Props PROVE PropTold(t, p)'
    OBVIOUS
  <2>1. log'[t][p] = <<>> /\ prop'[t][p] = "waiting" /\ Len(log'[t][p]) <= 1
    BY <1>3, <1>4
  <2> QED BY Zenon, <2>1 DEF PropTold, ToldIn
<1> QED BY <1>5, <1>6

LEMMA RestartTold ==
  ASSUME TypeOK, TrailOK, Restart
  PROVE  TrailOK'
<1> USE TypeParts
<1>1. cfg' = cfg /\ restarts' # 0
  <2>1. cfg' = cfg /\ restarts' = restarts + 1
    BY DEF Restart, RestartWith
  <2>2. restarts \in Nat
    BY DeskAssumption DEF BoundsOK
  <2> QED BY <2>1, <2>2
<1>2. \A t \in Tenants :
        /\ log'[t] = [s \in Subjects |-> <<>>]
        /\ conn'[t] = [c \in Conns |-> IF c \in ConnDefs THEN "on" ELSE "none"]
        /\ prop'[t] = [p \in Props |-> "waiting"]
  BY DEF Restart, RestartWith, EmptyLog
<1>3. \A t \in Tenants : (\A c \in Conns : ConnTold(t, c)') /\ (\A p \in Props : PropTold(t, p)')
  BY <1>2, EmptyTrail
<1>4. \A t \in Tenants : IsFiniteSet(cfg'[t].toolsOff)
  BY <1>1 DEF TrailOK
<1> QED BY Zenon, <1>1, <1>3, <1>4 DEF TrailOK

LEMMA InitTold ==
  ASSUME Init
  PROVE  TrailOK
<1>1. ASSUME NEW t \in Tenants
      PROVE  /\ AgentTold(t)
             /\ \A c \in Conns : ConnTold(t, c)
             /\ \A p \in Props : PropTold(t, p)
             /\ IsFiniteSet(cfg[t].toolsOff)
  <2>1. \A s \in Subjects : log[t][s] = <<>>
    BY DEF Init, EmptyLog
  <2>2. /\ log[t]["rule"] = <<>> /\ log[t]["tool"] = <<>> /\ log[t]["learn"] = <<>>
        /\ log[t]["told"] = <<>> /\ log[t]["limit"] = <<>> /\ log[t]["checks"] = <<>>
    BY <2>1 DEF Subjects, Topics
  <2>3. cfg[t] = [told |-> FALSE, toolsOff |-> {}, learn |-> TRUE,
                  limit |-> FALSE, checked |-> FALSE]
    BY DEF Init
  <2>4. rows[t]["rules"] = Shipped["rules"]
    BY DEF Init, Kinds
  <2>5. \A word : SaidIn(<<>>, word) = 0
    BY NothingSaid
  <2>6. Len(Shipped["rules"]) \in Nat
    BY ShippedRows, Vocabulary, LenProperties
  <2>7. RulesTold(log[t]["rule"], Len(rows[t]["rules"]))
    BY <2>2, <2>4, <2>5, <2>6 DEF RulesTold
  <2>8. cfg[t].toolsOff = {} /\ Cardinality({}) = 0 /\ IsFiniteSet({})
    BY <2>3, FS_EmptySet
  <2>9. ToolsTold(log[t]["tool"], cfg[t].toolsOff)
    BY <2>2, <2>5, <2>8 DEF ToolsTold
  <2>10. LearningTold(log[t]["learn"], cfg[t].learn)
    <3>1. cfg[t].learn = TRUE /\ ToldIn(log[t]["learn"], "on") = "on"
      BY <2>2, <2>3 DEF ToldIn
    <3>2. (ToldIn(log[t]["learn"], "on") = "on") = TRUE
      BY <3>1
    <3> QED BY <3>1, <3>2 DEF LearningTold
  <2>11. /\ OnceTold(log[t]["told"], cfg[t].told) /\ OnceTold(log[t]["limit"], cfg[t].limit)
         /\ OnceTold(log[t]["checks"], cfg[t].checked)
    <3>1. cfg[t].told = FALSE /\ cfg[t].limit = FALSE /\ cfg[t].checked = FALSE
      BY <2>3
    <3>2. /\ (log[t]["told"] # <<>>) = FALSE /\ (log[t]["limit"] # <<>>) = FALSE
          /\ (log[t]["checks"] # <<>>) = FALSE
      BY <2>2
    <3> QED BY <3>1, <3>2 DEF OnceTold
  <2>12. \A c \in Conns : ConnTold(t, c)
    <3>1. \A c \in Conns : /\ log[t][c] = <<>>
                           /\ conn[t][c] = IF c \in ConnDefs THEN "on" ELSE "none"
      BY <2>1, SubjectsApart DEF Init
    <3> QED BY <3>1 DEF ConnTold, ToldIn
  <2>13. \A p \in Props : PropTold(t, p)
    <3>1. \A p \in Props : log[t][p] = <<>> /\ prop[t][p] = "waiting"
      BY <2>1, SubjectsApart DEF Init
    <3>2. Len(<<>>) <= 1
      OBVIOUS
    <3> QED BY Zenon, <3>1, <3>2 DEF PropTold, ToldIn
  <2> QED BY <2>7, <2>8, <2>9, <2>10, <2>11, <2>12, <2>13 DEF AgentTold
<1> QED BY Zenon, <1>1 DEF TrailOK

LEMMA TrailStep ==
  ASSUME TypeOK, TrailOK, Next
  PROVE  TrailOK'
<1> USE TypeParts, Vocabulary
<1> DEFINE Elsewhere == \A u \in Tenants, s \in Subjects \ {"agent", "skill", "handover", "file"} :
                          log'[u][s] = log[u][s]
<1>0. RowsOK
  BY DEF ListsOK
<1>1. ASSUME NEW t \in Tenants, NEW s \in {"agent", "skill", "handover", "file"},
             NEW word \in Words, log_decision(t, s, word)
      PROVE  Elsewhere
  BY <1>1, LineWritten
<1>2. ASSUME log' = log
      PROVE  Elsewhere
  BY <1>2
<1>3. ASSUME NEW t \in Tenants, Team(t)
      PROVE  TrailOK'
  <2>1. \A u \in Tenants : rows'[u]["rules"] = rows[u]["rules"]
    BY <1>0, <1>3, OtherLists DEF Kinds
  <2>2. UNCHANGED Settings
    BY <1>3 DEF Team, PersonAdd, PersonToggle, PersonDel, Assign, agent, wires, Ask, Settings
  <2>3. log' = log \/ log_decision(t, "handover", "handed")
    BY <1>3 DEF Team, PersonAdd, PersonToggle, PersonDel, Assign
  <2>4. Elsewhere
    BY <1>1, <1>2, <2>3 DEF Words
  <2> QED BY <2>1, <2>2, <2>4, UntoldStep
<1>4. ASSUME NEW t \in Tenants, SkillForms(t)
      PROVE  TrailOK'
  <2>1. \A u \in Tenants : rows'[u]["rules"] = rows[u]["rules"]
    BY <1>0, <1>4, OtherLists DEF Kinds
  <2>2. UNCHANGED Settings
    BY <1>4 DEF SkillForms, SkillAct, ProcedureSave, agent, wires, Ask, Settings
  <2>3. log' = log \/ \E word \in Words : log_decision(t, "skill", word)
    <3>1. CASE \E mode \in {"live", "draft"} : ProcedureSave(t, mode)
      BY <3>1 DEF ProcedureSave
    <3>2. CASE \E act \in {"live", "draft", "del"} : SkillAct(t, act)
      <4>1. PICK act \in {"live", "draft", "del"} : SkillAct(t, act)
        BY <3>2
      <4>2. log_decision(t, "skill", IF act = "del" THEN "removed" ELSE act)
        BY <4>1 DEF SkillAct
      <4>3. (IF act = "del" THEN "removed" ELSE act) \in Words
        BY DEF Words
      <4> QED BY <4>2, <4>3
    <3> QED BY <1>4, <3>1, <3>2 DEF SkillForms
  <2>4. Elsewhere
    BY <1>1, <1>2, <2>3
  <2> QED BY <2>1, <2>2, <2>4, UntoldStep
<1>5. ASSUME NEW t \in Tenants, RoutineForms(t) \/ SmallForms(t)
      PROVE  TrailOK'
  <2>1. \A u \in Tenants : rows'[u]["rules"] = rows[u]["rules"]
    BY <1>0, <1>5, OtherLists DEF Kinds
  <2>2. UNCHANGED Settings /\ log' = log
    BY <1>5 DEF RoutineForms, RoutineAdd, RoutineToggle, RoutineEdit, RoutineDel, SmallForms,
           OnboardPhone, OnboardingDone, EvNote, agent, wires, Ask, Settings
  <2> QED BY <1>2, <2>1, <2>2, UntoldStep
<1>6. ASSUME NEW t \in Tenants, FileForms(t)
      PROVE  TrailOK'
  <2>1. \A u \in Tenants : rows'[u]["rules"] = rows[u]["rules"]
    BY <1>0, <1>6, OtherLists
  <2>2. UNCHANGED Settings
    BY <1>6 DEF FileForms, FileUpload, FileLink, FileNote, FileFolder, FileDel, Shelve,
           agent, wires, Ask, Settings
  <2>3. log' = log \/ \E word \in {"added", "removed"} : log_decision(t, "file", word)
    BY <1>6 DEF FileForms, FileUpload, FileLink, FileNote, FileFolder, FileDel, Shelve
  <2>4. Elsewhere
    BY <1>1, <1>2, <2>3 DEF Words
  <2> QED BY <2>1, <2>2, <2>4, UntoldStep
<1>7. ASSUME NEW t \in Tenants, SwitchAgent(t)
      PROVE  TrailOK'
  <2>1. rows' = rows /\ UNCHANGED Settings
    BY <1>7 DEF SwitchAgent, lists, wires, Ask, Settings
  <2>2. \E word \in {"on", "off"} : log_decision(t, "agent", word)
    BY <1>7 DEF SwitchAgent
  <2>3. Elsewhere
    BY <1>1, <2>2 DEF Words
  <2> QED BY <2>1, <2>3, UntoldStep
<1>8. ASSUME NEW t \in Tenants, AgentForms(t)
      PROVE  TrailOK'
  BY <1>7, <1>8, SetOnceTold, SwitchToolTold, SetLearningTold DEF AgentForms
<1>9. ASSUME NEW t \in Tenants, RuleForms(t)
      PROVE  TrailOK'
  BY <1>9, AddRuleTold, DelRuleTold DEF RuleForms
<1>10. ASSUME NEW t \in Tenants, WireForms(t)
       PROVE  TrailOK'
  BY <1>10, ConnActTold, PropActTold DEF WireForms
<1>11. ASSUME NEW t \in Tenants, NEW k \in Kinds, OpenPage(t, k)
       PROVE  TrailOK'
  <2>1. \A u \in Tenants : rows'[u]["rules"] = rows[u]["rules"]
    BY <1>0, <1>11, LookingAt DEF Kinds
  <2>2. UNCHANGED Settings /\ log' = log
    BY <1>11 DEF OpenPage, agent, wires, Settings
  <2> QED BY <1>2, <2>1, <2>2, UntoldStep
<1>12. ASSUME Restart
       PROVE  TrailOK'
  BY <1>12, RestartTold
<1> QED BY <1>3, <1>4, <1>5, <1>6, <1>8, <1>9, <1>10, <1>11, <1>12 DEF Next

\* Read from its beginning, a tenant's trail gives the settings as they are.
THEOREM TrailTellsTheSettingsHolds == Spec => []TrailTellsTheSettings
<1>1. Init => TrailOK
  BY InitTold
<1>2. TypeOK /\ TrailOK /\ [Next]_vars => TrailOK'
  <2>1. UNCHANGED vars /\ TrailOK => TrailOK'
    <3> SUFFICES ASSUME UNCHANGED vars, TrailOK PROVE TrailOK'
      OBVIOUS
    <3>1. /\ UNCHANGED Settings
          /\ \A u \in Tenants : rows'[u]["rules"] = rows[u]["rules"]
          /\ \A u \in Tenants, s \in Subjects \ {"agent", "skill", "handover", "file"} :
               log'[u][s] = log[u][s]
      BY DEF vars, Settings
    <3> QED BY <3>1, UntoldStep
  <2> QED BY <2>1, TrailStep
<1> QED BY <1>1, <1>2, DeskTypes, TrailParts, PTL DEF Spec

-----------------------------------------------------------------------------
(* What a page offers.                                                     *)

\* Step one of the first run is the connections page.
LEMMA FirstStep ==
  ASSUME NEW t
  PROVE  welcome_render(t, 1).buttons
           = connections_hub(t).buttons \cup {Button("onboarding_done", "next", "skip")}
<1>1. Min({3, 1}) = 1
  BY DEF Min
<1>2. Max({1, 1}) = 1
  BY DEF Max
<1> DEFINE hub == connections_hub(t).buttons
           skip == {Button("onboarding_done", "next", "skip")}
<1> HIDE DEF hub, skip
<1>3. welcome_render(t, 1) = [buttons |-> (IF Max({1, Min({3, 1})}) = 1 THEN hub ELSE {}) \cup skip,
                              forward |-> IF Max({1, Min({3, 1})}) < 3 THEN Max({1, Min({3, 1})}) + 1 ELSE 0,
                              back |-> Max({1, Min({3, 1})}) - 1]
  BY DEF welcome_render, hub, skip
<1>4. welcome_render(t, 1).buttons = hub \cup skip
  BY <1>1, <1>2, <1>3
<1> QED BY <1>4 DEF hub, skip

\* The connections page offers what the state of each connection allows.
LEMMA HubTaken ==
  ASSUME WiresOK, NEW t \in Tenants, NEW b \in connections_hub(t).buttons
  PROVE  ConnTakes(conn[t][b.of], b.act)
<1> DEFINE live == {c \in Conns : conn[t][c] \in {"on", "paused"}}
<1>1. \A c \in Conns : conn[t][c] \in {"none", "on", "paused", "off"}
  BY DEF WiresOK
<1>2. \/ \E c \in live : b = Button("conn_act", c, IF conn[t][c] = "paused" THEN "resume" ELSE "pause")
      \/ \E c \in live : b = Button("conn_act", c, "disconnect")
      \/ \E c \in Conns \ live : b = Button("conn_act", c, "connect")
  BY DEF connections_hub
<1>3. ASSUME NEW c \in live,
             b = Button("conn_act", c, IF conn[t][c] = "paused" THEN "resume" ELSE "pause")
      PROVE  ConnTakes(conn[t][b.of], b.act)
  <2>1. b.of = c /\ b.act = IF conn[t][c] = "paused" THEN "resume" ELSE "pause"
    BY <1>3 DEF Button
  <2> QED BY <2>1 DEF ConnTakes
<1>4. ASSUME NEW c \in live, b = Button("conn_act", c, "disconnect")
      PROVE  ConnTakes(conn[t][b.of], b.act)
  BY <1>4 DEF Button, ConnTakes
<1>5. ASSUME NEW c \in Conns \ live, b = Button("conn_act", c, "connect")
      PROVE  ConnTakes(conn[t][b.of], b.act)
  BY <1>1, <1>5 DEF Button, ConnTakes
<1> QED BY <1>2, <1>3, <1>4, <1>5

\* A proposal that still shows its two buttons is waiting.
LEMMA PropTaken ==
  ASSUME NEW t, NEW p
  PROVE  /\ \A b \in prop_card(t, p).buttons : b.of = p /\ PropTakes(prop[t][b.of])
         /\ (prop[t][p] = "waiting") <=> (prop_card(t, p).buttons # {})
<1>1. prop_card(t, p).buttons = prop_row(t, p)
  BY DEF prop_card
<1>2. \A b \in prop_row(t, p) : b.of = p /\ prop[t][p] = "waiting"
  BY DEF prop_row, Button
<1>3. (prop[t][p] = "waiting") <=> (prop_row(t, p) # {})
  BY DEF prop_row
<1> QED BY <1>1, <1>2, <1>3 DEF PropTakes

\* A switch on the skills page turns the row it stands next to.
LEMMA SkillTaken ==
  ASSUME ListsOK, NEW t \in Tenants, NEW b \in skills_hub(t).buttons
  PROVE  /\ [at |-> b.of, saw |-> seed_skills(t)[b.of].id] \in Presses(t, "skills")
         /\ b.act # "del" => seed_skills(t)[b.of].on # (b.act = "live")
<1> DEFINE procs == seed_skills(t)
<1>1. ListOf(t, "skills") = procs
  BY DEF ListOf
<1>2. procs \in Seq(Rows("skills"))
  BY <1>1, SeededRows, Vocabulary DEF ListsOK
<1>3. \/ \E i \in DOMAIN procs : b = Button("skill_act", i, IF procs[i].on THEN "draft" ELSE "live")
      \/ \E i \in DOMAIN procs : b = Button("skill_act", i, "del")
  BY DEF skills_hub
<1> HIDE DEF procs
<1>4. \A i \in DOMAIN procs : [at |-> i, saw |-> procs[i].id] \in Presses(t, "skills")
  BY <1>1 DEF Presses
<1>5. \A i \in DOMAIN procs : procs[i].on \in BOOLEAN
  BY <1>2, RowAt, Vocabulary DEF Rows
<1>6. ASSUME NEW i \in DOMAIN procs,
             b = Button("skill_act", i, IF procs[i].on THEN "draft" ELSE "live")
      PROVE  /\ [at |-> b.of, saw |-> procs[b.of].id] \in Presses(t, "skills")
             /\ procs[b.of].on # (b.act = "live")
  <2>1. b.of = i /\ b.act = IF procs[i].on THEN "draft" ELSE "live"
    BY <1>6 DEF Button
  <2> QED BY <1>4, <1>5, <2>1
<1>7. ASSUME NEW i \in DOMAIN procs, b = Button("skill_act", i, "del")
      PROVE  /\ [at |-> b.of, saw |-> procs[b.of].id] \in Presses(t, "skills")
             /\ b.act = "del"
  BY <1>4, <1>7 DEF Button
<1> QED BY <1>3, <1>6, <1>7 DEF procs

\* The agent's page offers the other side of each switch.
LEMMA AgentTaken ==
  ASSUME AgentOK, NEW t \in Tenants, NEW b \in agent_settings_content(t).buttons
  PROVE  /\ b.form = "tool" => (b.act = "gave") = (b.of \in cfg[t].toolsOff)
         /\ b.form = "learn" => (b.act = "on") # cfg[t].learn
<1> DEFINE rules == rows[t]["rules"]
           texts == {rules[i].name : i \in DOMAIN rules}
<1>1. \/ \E i \in DOMAIN rules : b = Button("del_rule", i, "del")
      \/ \E text \in Typed["rules"] \ texts : b = Button("add_rule", text, "add")
      \/ \E tool \in Tools :
           b = Button("tool", tool, IF tool \in cfg[t].toolsOff THEN "gave" ELSE "took")
      \/ b = Button("learn", "learn", IF cfg[t].learn THEN "paused" ELSE "on")
  BY DEF agent_settings_content
<1>2. cfg[t].learn \in BOOLEAN
  BY DEF AgentOK, Cfg
<1>3. CASE \E i \in DOMAIN rules : b = Button("del_rule", i, "del")
  BY <1>3 DEF Button
<1>4. CASE \E text \in Typed["rules"] \ texts : b = Button("add_rule", text, "add")
  BY <1>4 DEF Button
<1>5. CASE \E tool \in Tools :
             b = Button("tool", tool, IF tool \in cfg[t].toolsOff THEN "gave" ELSE "took")
  BY <1>5 DEF Button
<1>6. CASE b = Button("learn", "learn", IF cfg[t].learn THEN "paused" ELSE "on")
  BY <1>2, <1>6 DEF Button
<1> QED BY <1>1, <1>3, <1>4, <1>5, <1>6

\* The desk's own page, which does not seed, lists rows of the skills page.
LEMMA SameStore ==
  ASSUME NEW t, NEW i \in DOMAIN kyc_builder(t), ListsOK, t \in Tenants
  PROVE  kyc_builder(t)[i].on = (i \in skills_hub(t).live)
<1>1. kyc_builder(t) # <<>>
  BY DEF kyc_builder
<1>2. seed_skills(t) = kyc_builder(t)
  BY <1>1 DEF kyc_builder, seed_skills
<1>3. skills_hub(t).live = {j \in DOMAIN seed_skills(t) : seed_skills(t)[j].on}
  BY DEF skills_hub
<1> DEFINE list == kyc_builder(t)
<1>4. list \in Seq(Rows("skills"))
  BY Vocabulary DEF ListsOK, RowsOK, kyc_builder
<1> HIDE DEF list
<1>5. list[i].on \in BOOLEAN
  BY <1>4, RowAt, Vocabulary DEF Rows, list
<1>6. (i \in skills_hub(t).live) <=> kyc_builder(t)[i].on
  BY <1>2, <1>3
<1>7. kyc_builder(t)[i].on \in BOOLEAN
  BY <1>5 DEF list
<1> HIDE DEF list
<1>8. CASE kyc_builder(t)[i].on
  BY Zenon, <1>6, <1>7, <1>8
<1>9. CASE ~kyc_builder(t)[i].on
  <2>1. kyc_builder(t)[i].on = FALSE
    BY <1>7, <1>9
  <2>2. (i \in skills_hub(t).live) = FALSE
    BY <1>6, <1>9
  <2> QED BY Zenon, <2>1, <2>2
<1> QED BY Zenon, <1>8, <1>9

\* While the checklist asks for the store, its page offers to connect it.
LEMMA ChecklistTaken ==
  ASSUME NEW t, NEW done \in onboarding_checklist(t), ~done.store
  PROVE  Button("conn_act", YourStore, "connect") \in welcome_render(t, 1).buttons
<1>1. conn[t][YourStore] \notin {"on", "paused"}
  <2> DEFINE held == conn[t][YourStore] \in {"on", "paused"}
             team == Len(rows[t]["people"]) >= 2
             said == [store |-> held, phone |-> small[t].phone, team |-> team]
  <2>1. onboarding_checklist(t) = IF said.store /\ said.phone /\ said.team THEN {} ELSE {said}
    BY Zenon DEF onboarding_checklist
  <2>2. done = said
    <3> HIDE DEF said
    <3> QED BY <2>1
  <2>3. \A x, y, z : [store |-> x, phone |-> y, team |-> z].store = x
    OBVIOUS
  <2>4. said.store = held
    <3> HIDE DEF held, team
    <3> QED BY Zenon, <2>3
  <2> HIDE DEF said
  <2>5. ~held
    BY Zenon, <2>2, <2>4
  <2> QED BY <2>5
<1>2. Button("conn_act", YourStore, "connect") \in connections_hub(t).buttons
  BY <1>1, StoreAssumption DEF connections_hub
<1> QED BY <1>2, FirstStep

\* Running and paused routines are all the routines.
LEMMA AllScheduled ==
  ASSUME NEW list, NEW S, list \in Seq(S)
  PROVE  Cardinality({i \in DOMAIN list : list[i].on})
           + Cardinality({i \in DOMAIN list : ~list[i].on}) = Len(list)
<1> DEFINE on == {i \in DOMAIN list : list[i].on}
           off == {i \in DOMAIN list : ~list[i].on}
<1>1. DOMAIN list = 1..Len(list) /\ Len(list) \in Nat
  BY LenProperties
<1>2. IsFiniteSet(1..Len(list)) /\ Cardinality(1..Len(list)) = Len(list)
  BY <1>1, FS_Interval
<1>3. IsFiniteSet(on) /\ IsFiniteSet(off)
  BY <1>1, <1>2, FS_Subset
<1>4. on \cup off = 1..Len(list) /\ on \cap off = {}
  BY <1>1
<1> HIDE DEF on, off
<1>5. Cardinality(on \cup off) = Cardinality(on) + Cardinality(off) - Cardinality(on \cap off)
  BY <1>3, FS_Union
<1>6. Cardinality(on \cap off) = 0
  BY <1>4, FS_EmptySet
<1>7. Cardinality(on) \in Nat /\ Cardinality(off) \in Nat
  BY <1>3, FS_CardinalityType
<1>8. \A a, b \in Nat : a + b - 0 = a + b
  OBVIOUS
<1>9. Cardinality(on) + Cardinality(off) = Len(list)
  BY <1>2, <1>4, <1>5, <1>6, <1>7, <1>8
<1> QED BY <1>9 DEF on, off

LEMMA ButtonsTaken ==
  ASSUME TypeOK
  PROVE  ButtonsAreTaken
<1> USE TypeParts
<1> SUFFICES ASSUME NEW t \in Tenants
    PROVE
    /\ \A b \in connections_hub(t).buttons \cup welcome_render(t, 1).buttons :
         b.form = "conn_act" => ConnTakes(conn[t][b.of], b.act)
    /\ \A p \in Props : \A b \in prop_card(t, p).buttons : PropTakes(prop[t][b.of])
    /\ \A b \in skills_hub(t).buttons :
         /\ [at |-> b.of, saw |-> seed_skills(t)[b.of].id] \in Presses(t, "skills")
         /\ b.act # "del" => seed_skills(t)[b.of].on # (b.act = "live")
    /\ \A name \in assign_options(t) : MayHold(t, name)
    /\ \A b \in agent_settings_content(t).buttons :
         /\ b.form = "tool" => (b.act = "gave") = (b.of \in cfg[t].toolsOff)
         /\ b.form = "learn" => (b.act = "on") # cfg[t].learn
    /\ props_waiting(t) = Cardinality({p \in Props : prop_card(t, p).buttons # {}})
    /\ \A i \in DOMAIN kyc_builder(t) : kyc_builder(t)[i].on = (i \in skills_hub(t).live)
    /\ \A done \in onboarding_checklist(t) :
         ~done.store => Button("conn_act", YourStore, "connect")
                          \in welcome_render(t, 1).buttons
    /\ scheduled_content(t).running + scheduled_content(t).paused
         = Len(rows[t]["routines"])
  BY Zenon DEF ButtonsAreTaken
<1>1. \A b \in connections_hub(t).buttons \cup welcome_render(t, 1).buttons :
         b.form = "conn_act" => ConnTakes(conn[t][b.of], b.act)
  <2> SUFFICES ASSUME NEW b \in connections_hub(t).buttons \cup welcome_render(t, 1).buttons,
                      b.form = "conn_act"
               PROVE  ConnTakes(conn[t][b.of], b.act)
    OBVIOUS
  <2>1. b \in connections_hub(t).buttons \/ b = Button("onboarding_done", "next", "skip")
    BY FirstStep
  <2>2. b # Button("onboarding_done", "next", "skip")
    BY DEF Button
  <2> QED BY <2>1, <2>2, HubTaken
<1>2. \A p \in Props : \A b \in prop_card(t, p).buttons : PropTakes(prop[t][b.of])
  BY PropTaken
<1>3. \A name \in assign_options(t) : MayHold(t, name)
  BY DEF assign_options, MayHold
<1>4. props_waiting(t) = Cardinality({p \in Props : prop_card(t, p).buttons # {}})
  <2>1. {p \in Props : prop[t][p] = "waiting"} = {p \in Props : prop_card(t, p).buttons # {}}
    BY PropTaken
  <2> QED BY <2>1 DEF props_waiting
<1>5. scheduled_content(t).running + scheduled_content(t).paused = Len(rows[t]["routines"])
  <2> DEFINE list == rows[t]["routines"]
  <2>1. list \in Seq(AnyRow)
    BY Vocabulary DEF ListsOK, RowsOK
  <2>2. /\ scheduled_content(t).running = Cardinality({i \in DOMAIN list : list[i].on})
        /\ scheduled_content(t).paused = Cardinality({i \in DOMAIN list : ~list[i].on})
    BY DEF scheduled_content
  <2> HIDE DEF list
  <2>3. Cardinality({i \in DOMAIN list : list[i].on})
           + Cardinality({i \in DOMAIN list : ~list[i].on}) = Len(list)
    BY <2>1, AllScheduled
  <2> QED BY <2>2, <2>3 DEF list
<1> QED BY <1>1, <1>2, <1>3, <1>4, <1>5, SkillTaken, AgentTaken, SameStore, ChecklistTaken

\* The buttons of a page just loaded are ones the handlers take, and its counts
\* are counts of the rows they act on.
THEOREM ButtonsAreTakenHolds == Spec => []ButtonsAreTaken
<1>1. TypeOK => ButtonsAreTaken
  BY ButtonsTaken
<1> QED BY <1>1, DeskTypes, PTL
===============================================================================
