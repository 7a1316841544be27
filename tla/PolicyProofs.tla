----------------------------- MODULE PolicyProofs -----------------------------
(***************************************************************************)
(* Proofs about PolicyGate and CaseViews for any number of merchants, runs *)
(* and days and any limits: types, the daily cap, that a second response   *)
(* is filed only for cards that waited side by side, and that the pages    *)
(* tell the truth about the runs: what is offered, done, kept and next.    *)
(***************************************************************************)
EXTENDS CaseViews, FiniteSetTheorems, SequenceTheorems, TLAPS

\* The row a webhook adds.
NewRow(d, claim, state, why) ==
  [dispute |-> d, claim |-> claim, state |-> state, why |-> why,
   qualified |-> state \notin {"received", "suppressed"} /\ claim # NoClaim,
   gate |-> NotStarted, gatedOn |-> 0,
   answered |-> {i \in DOMAIN runs : SaidYes(runs[i])}]

\* The indices of the ledger.
LEMMA Indices ==
  ASSUME TypeOK
  PROVE  /\ Len(runs) \in Nat
         /\ DOMAIN runs = 1 .. Len(runs)
         /\ \A i \in DOMAIN runs : runs[i] \in Row
  BY LenProperties, ElementOfSeq DEF TypeOK

LEMMA UpToNat == \A n \in Nat : 1 .. n \subseteq Nat
  OBVIOUS

LEMMA UpToNext ==
  \A n \in Nat : 1 .. (n + 1) = (1 .. n) \cup {n + 1} /\ n + 1 \notin 1 .. n
  OBVIOUS

LEMMA RoomForOne ==
  \A a, b \in Nat : (~(a >= b) => a < b) /\ (a < b => a + 1 <= b)
  OBVIOUS

LEMMA NotAtMost == \A a, b, c \in Nat : ~(a - b <= c) => a - b > c
  OBVIOUS

LEMMA AppendRow ==
  ASSUME NEW seq \in Seq(Row), NEW new \in Row
  PROVE  /\ Append(seq, new) \in Seq(Row)
         /\ Len(Append(seq, new)) = Len(seq) + 1
         /\ \A i \in 1 .. Len(seq) : Append(seq, new)[i] = seq[i]
         /\ Append(seq, new)[Len(seq) + 1] = new
  BY AppendProperties

\* What a webhook adds is a row, and the rest of the ledger stays.
LEMMA AddStep ==
  ASSUME TypeOK, NEW d \in Dispute, NEW claim \in Claims \cup {NoClaim},
         NEW state \in RunState,
         NEW why \in SafetyReasons \cup {"", "not_actionable"},
         Add(d, claim, state, why)
  PROVE  /\ runs' \in Seq(Row)
         /\ Len(runs') = Len(runs) + 1
         /\ DOMAIN runs' = 1 .. (Len(runs) + 1)
         /\ \A i \in DOMAIN runs : runs'[i] = runs[i]
         /\ runs'[Len(runs) + 1] = NewRow(d, claim, state, why)
<1> DEFINE new == NewRow(d, claim, state, why)
<1>1. runs \in Seq(Row) /\ Len(runs) \in Nat /\ DOMAIN runs = 1 .. Len(runs)
  BY Indices DEF TypeOK
<1>2. {i \in DOMAIN runs : SaidYes(runs[i])} \in SUBSET Nat
  <2>1. DOMAIN runs \subseteq Nat
    BY <1>1, UpToNat, Zenon
  <2> QED
    BY <2>1, Zenon
<1>3. new \in Row
  BY <1>2 DEF NewRow, Row, NotStarted
<1>4. runs' = Append(runs, new)
  BY DEF Add, NewRow
<1> HIDE DEF new
<1>5. /\ runs' \in Seq(Row)
      /\ Len(runs') = Len(runs) + 1
      /\ \A i \in 1 .. Len(runs) : runs'[i] = runs[i]
      /\ runs'[Len(runs) + 1] = new
  <2>1. /\ Append(runs, new) \in Seq(Row)
        /\ Len(Append(runs, new)) = Len(runs) + 1
        /\ \A i \in 1 .. Len(runs) : Append(runs, new)[i] = runs[i]
        /\ Append(runs, new)[Len(runs) + 1] = new
    BY <1>1, <1>3, AppendRow, Zenon
  <2> QED
    BY <1>4, <2>1, Zenon
<1>6. DOMAIN runs' = 1 .. Len(runs')
  BY <1>5, LenProperties
<1> QED
  BY <1>1, <1>5, <1>6 DEF new

\* The verdict is a reason or none.
LEMMA SafetyTypes ==
  ASSUME NEW d \in Dispute, NEW claim, NEW crm \in {"open", "no_order", "order_closed"}
  PROVE  Safety(d, claim, crm) \in SafetyReasons \cup {""}
  BY DEF Safety, SafetyReasons

\* A step that replaces one row by a row leaves the others alone.
LEMMA ReplaceStep ==
  ASSUME TypeOK, NEW i \in DOMAIN runs, NEW new \in Row, runs' = [runs EXCEPT ![i] = new]
  PROVE  /\ runs' \in Seq(Row)
         /\ DOMAIN runs' = DOMAIN runs
         /\ runs'[i] = new
         /\ \A j \in DOMAIN runs : j # i => runs'[j] = runs[j]
<1>1. runs \in Seq(Row) /\ DOMAIN runs = 1 .. Len(runs)
  BY Indices DEF TypeOK
<1>2. /\ runs' \in Seq(Row)
      /\ Len(runs') = Len(runs)
      /\ \A j \in 1 .. Len(runs) : runs'[j] = IF j = i THEN new ELSE runs[j]
  BY <1>1, ExceptSeq
<1>3. DOMAIN runs' = 1 .. Len(runs')
  BY <1>2, LenProperties
<1> QED
  BY <1>1, <1>2, <1>3

\* A decision writes the stamp and the state of one run.
LEMMA DecideStep ==
  ASSUME TypeOK, NEW i \in DOMAIN runs, NEW gate \in GateAction, NEW state \in RunState,
         Decide(i, gate, state)
  PROVE  /\ runs' \in Seq(Row)
         /\ DOMAIN runs' = DOMAIN runs
         /\ runs'[i].dispute = runs[i].dispute /\ runs'[i].claim = runs[i].claim
         /\ runs'[i].qualified = runs[i].qualified
         /\ runs'[i].answered = runs[i].answered
         /\ runs'[i].state = state /\ runs'[i].gate = gate
         /\ \A j \in DOMAIN runs : j # i => runs'[j] = runs[j]
<1> DEFINE new == [runs[i] EXCEPT !.gate = gate, !.gatedOn = today, !.state = state]
<1>1. runs[i] \in Row /\ today \in Nat
  BY Indices DEF TypeOK
<1>2. new \in Row
  BY <1>1 DEF Row
<1>3. runs' = [runs EXCEPT ![i] = new]
  BY DEF Decide
<1>4. /\ new.dispute = runs[i].dispute /\ new.claim = runs[i].claim
      /\ new.qualified = runs[i].qualified /\ new.answered = runs[i].answered
      /\ new.state = state /\ new.gate = gate
  BY <1>1 DEF Row
<1> HIDE DEF new
<1>5. /\ runs' \in Seq(Row)
      /\ DOMAIN runs' = DOMAIN runs
      /\ runs'[i] = new
      /\ \A j \in DOMAIN runs : j # i => runs'[j] = runs[j]
  BY <1>2, <1>3, ReplaceStep
<1> QED
  BY <1>4, <1>5

\* A move writes the state of one run.
LEMMA MoveStep ==
  ASSUME TypeOK, NEW i \in DOMAIN runs, NEW from, NEW to \in RunState, Move(i, from, to)
  PROVE  /\ runs' \in Seq(Row)
         /\ DOMAIN runs' = DOMAIN runs
         /\ runs'[i] = [runs[i] EXCEPT !.state = to]
         /\ \A j \in DOMAIN runs : j # i => runs'[j] = runs[j]
<1> DEFINE new == [runs[i] EXCEPT !.state = to]
<1>1. runs[i] \in Row
  BY Indices
<1>2. new \in Row
  BY <1>1 DEF Row
<1>3. runs' = [runs EXCEPT ![i] = new]
  BY DEF Move
<1> HIDE DEF new
<1>4. /\ runs' \in Seq(Row)
      /\ DOMAIN runs' = DOMAIN runs
      /\ runs'[i] = new
      /\ \A j \in DOMAIN runs : j # i => runs'[j] = runs[j]
  BY <1>2, <1>3, ReplaceStep
<1> QED
  BY <1>4 DEF new

\* Every step keeps the types.
LEMMA StepTypes == TypeOK /\ [Next]_vars => TypeOK'
<1> SUFFICES ASSUME TypeOK, [Next]_vars PROVE TypeOK'
  OBVIOUS
<1>1. today \in Nat
  BY DEF TypeOK
<1>2. CASE Arrive
  <2>1. PICK d \in [merchant : Merchants, order : Orders, reason : Reasons, day : 0..MaxDay] :
          \/ Unconfirmed(d)
          \/ \E claim \in Claims :
               \/ \E crm \in {"open", "no_order", "order_closed"} : Suppress(d, claim, crm)
               \/ Qualify(d, claim)
               \/ CrmDown(d, claim)
    BY <1>2 DEF Arrive
  <2>2. d \in Dispute
    BY LimitsAssumption DEF Dispute
  <2>3. CASE Unconfirmed(d)
    <3>1. PICK state \in RunState, why \in SafetyReasons \cup {"", "not_actionable"} :
            Add(d, NoClaim, state, why)
      BY <2>3 DEF Unconfirmed, RunState
    <3>2. runs' \in Seq(Row)
      BY <2>2, <3>1, AddStep
    <3> QED
      BY <1>1, <2>3, <3>2 DEF Unconfirmed, TypeOK
  <2>4. ASSUME NEW claim \in Claims, NEW crm \in {"open", "no_order", "order_closed"},
               Suppress(d, claim, crm)
        PROVE  TypeOK'
    <3>1. "suppressed" \in RunState
      BY DEF RunState
    <3>2. Safety(d, claim, crm) \in SafetyReasons \cup {"", "not_actionable"}
      BY <2>2, SafetyTypes
    <3>3. runs' \in Seq(Row)
      BY <2>2, <2>4, <3>1, <3>2, AddStep DEF Suppress
    <3> QED
      BY <1>1, <2>4, <3>3 DEF Suppress, TypeOK
  <2>5. ASSUME NEW claim \in Claims, Qualify(d, claim) PROVE TypeOK'
    <3>1. PICK state \in RunState : Add(d, claim, state, "")
      BY <2>5 DEF Qualify, RunState
    <3>2. runs' \in Seq(Row)
      BY <2>2, <3>1, AddStep
    <3>3. today' = today
      BY <2>5, Zenon DEF Qualify
    <3> QED
      BY <1>1, <3>2, <3>3 DEF TypeOK
  <2>6. ASSUME NEW claim \in Claims, CrmDown(d, claim) PROVE TypeOK'
    <3>1. runs' \in Seq(Row)
      BY <2>2, <2>6, AddStep DEF CrmDown, RunState
    <3> QED
      BY <1>1, <2>6, <3>1 DEF CrmDown, TypeOK
  <2> QED
    BY <2>1, <2>3, <2>4, <2>5, <2>6
<1>3. ASSUME NEW i \in DOMAIN runs, NEW gate \in GateAction, NEW state \in RunState,
             Decide(i, gate, state)
      PROVE  TypeOK'
  BY <1>1, <1>3, DecideStep DEF Decide, TypeOK
<1>4. ASSUME NEW i \in DOMAIN runs, NEW from, NEW to \in RunState, Move(i, from, to)
      PROVE  TypeOK'
  BY <1>1, <1>4, MoveStep DEF Move, TypeOK
<1>5. ASSUME NEW i \in DOMAIN runs, Settle(i) PROVE TypeOK'
  BY <1>3, <1>4, <1>5
  DEF Settle, Yes, Reject, TimeOut, FailStalled, Resolve, GateAction, Answers, RunState
<1>6. CASE NextDay
  BY <1>1, <1>6 DEF NextDay, TypeOK
<1>7. CASE UNCHANGED vars
  BY <1>7 DEF vars, TypeOK
<1> QED
  BY <1>2, <1>5, <1>6, <1>7 DEF Next

\* Every run of the ledger is a well-formed row in every behaviour.
THEOREM PolicyTypes == Spec => []TypeOK
<1>1. Init => TypeOK
  BY DEF Init, TypeOK
<1> QED
  BY <1>1, StepTypes, PTL DEF Spec

-----------------------------------------------------------------------------
\* The states a run can be in by what is stamped on it: nobody was asked or
\* answered yet, a yes is filed, parked or failed, an edit may still wait, and
\* a no or a time-out is the end.
StatesOf(gate) ==
  CASE gate = "approve" -> {"acting", "acted", "resolved", "failed"}
    [] gate = "edit"    -> {"awaiting_gate", "acting", "acted", "resolved", "failed"}
    [] gate = "reject"  -> {"rejected"}
    [] gate = "timeout" -> {"timed_out"}
    [] OTHER -> {"received", "suppressed", "running", "checked", "awaiting_gate", "failed"}

\* Every step adds a run, decides one, moves one, or leaves the ledger alone.
\* Only a run that safety() let through is added as qualified.
AddCase ==
  \E d \in Dispute, claim \in Claims \cup {NoClaim}, state \in RunState,
     why \in SafetyReasons \cup {"", "not_actionable"} :
    /\ Add(d, claim, state, why)
    /\ state \in StatesOf(NotStarted)
    /\ state = "awaiting_gate" => claim # NoClaim
    /\ state \notin {"received", "suppressed"} /\ claim # NoClaim
         => Safety(d, claim, "open") = ""

DecideCase ==
  \E i \in DOMAIN runs, gate \in GateAction, state \in RunState :
    Decide(i, gate, state) /\ state \in StatesOf(gate)

MoveCase ==
  \E i \in DOMAIN runs, to \in {"failed", "resolved"} :
    /\ \E from \in SUBSET RunState : Move(i, from, to)
    /\ runs[i].state \in IF to = "resolved" THEN {"acted"} ELSE StallStates

LEMMA StepCases ==
  TypeOK /\ [Next]_vars => AddCase \/ DecideCase \/ MoveCase \/ UNCHANGED runs
<1> SUFFICES ASSUME TypeOK, [Next]_vars
             PROVE  AddCase \/ DecideCase \/ MoveCase \/ UNCHANGED runs
  OBVIOUS
<1>1. CASE Arrive
  <2>1. PICK d \in [merchant : Merchants, order : Orders, reason : Reasons, day : 0..MaxDay] :
          \/ Unconfirmed(d)
          \/ \E claim \in Claims :
               \/ \E crm \in {"open", "no_order", "order_closed"} : Suppress(d, claim, crm)
               \/ Qualify(d, claim)
               \/ CrmDown(d, claim)
    BY <1>1 DEF Arrive
  <2>2. d \in Dispute
    BY LimitsAssumption DEF Dispute
  <2>3. CASE Unconfirmed(d)
    <3>1. PICK state \in {"suppressed", "failed", "received"},
               why \in SafetyReasons \cup {"", "not_actionable"} : Add(d, NoClaim, state, why)
      BY <2>3 DEF Unconfirmed
    <3>2. /\ state \in RunState /\ state # "awaiting_gate"
          /\ state \in StatesOf(NotStarted)
      BY DEF RunState, StatesOf, NotStarted
    <3> QED
      BY <2>2, <3>1, <3>2 DEF AddCase
  <2>4. ASSUME NEW claim \in Claims, NEW crm \in {"open", "no_order", "order_closed"},
               Suppress(d, claim, crm)
        PROVE  AddCase
    <3>1. Add(d, claim, "suppressed", Safety(d, claim, crm))
      BY <2>4 DEF Suppress
    <3>2. Safety(d, claim, crm) \in SafetyReasons \cup {"", "not_actionable"}
      BY <2>2, SafetyTypes
    <3>3. "suppressed" \in RunState /\ "suppressed" \in StatesOf(NotStarted)
      BY DEF RunState, StatesOf, NotStarted
    <3> QED
      BY <2>2, <3>1, <3>2, <3>3 DEF AddCase
  <2>5. ASSUME NEW claim \in Claims, Qualify(d, claim) PROVE AddCase
    <3>1. Safety(d, claim, "open") = ""
      BY <2>5 DEF Qualify
    <3>2. PICK state \in {"awaiting_gate", "failed", "running", "checked"} :
            Add(d, claim, state, "")
      BY <2>5 DEF Qualify
    <3>3. state \in RunState /\ claim # NoClaim /\ state \in StatesOf(NotStarted)
      BY NoClaimAssumption DEF RunState, StatesOf, NotStarted
    <3> QED
      BY <2>2, <3>1, <3>2, <3>3 DEF AddCase
  <2>6. ASSUME NEW claim \in Claims, CrmDown(d, claim) PROVE AddCase
    <3>1. Add(d, claim, "received", "")
      BY <2>6 DEF CrmDown
    <3>2. "received" \in RunState /\ "received" \in StatesOf(NotStarted)
      BY DEF RunState, StatesOf, NotStarted
    <3> QED
      BY <2>2, <3>1, <3>2 DEF AddCase
  <2> QED
    BY <2>1, <2>3, <2>4, <2>5, <2>6
<1>2. ASSUME NEW i \in DOMAIN runs, Settle(i) PROVE DecideCase \/ MoveCase
  <2>1. CASE Yes(i) \/ Reject(i) \/ TimeOut(i)
    BY <2>1 DEF Yes, Reject, TimeOut, DecideCase, GateAction, Answers, RunState, StatesOf
  <2>2. CASE FailStalled(i)
    <3>1. StallStates \in SUBSET RunState /\ runs[i].state \in StallStates
      BY <2>2 DEF FailStalled, Move, StallStates, RunState
    <3> QED
      BY <2>2, <3>1 DEF FailStalled, MoveCase
  <2>3. CASE Resolve(i)
    <3>1. {"acted"} \in SUBSET RunState /\ runs[i].state = "acted"
      BY <2>3 DEF Resolve, Move, RunState
    <3> QED
      BY <2>3, <3>1 DEF Resolve, MoveCase
  <2> QED
    BY <1>2, <2>1, <2>2, <2>3 DEF Settle
<1>3. CASE NextDay \/ UNCHANGED vars
  BY <1>3 DEF NextDay, vars
<1> QED
  BY <1>1, <1>2, <1>3 DEF Next

-----------------------------------------------------------------------------
\* A run that passed safety() never counts as suppressed, and only such a run
\* ever waits at the gate or is filed.
QualifiedOK ==
  \A i \in DOMAIN runs :
    /\ runs[i].qualified => runs[i].state # "suppressed"
    /\ runs[i].state \in {"awaiting_gate", "acted", "resolved"} => runs[i].qualified

\* What a run saw answered when it arrived stays answered.
AnsweredOK ==
  \A j \in DOMAIN runs : \A i \in runs[j].answered :
    i \in DOMAIN runs /\ SaidYes(runs[i])

\* A run that passed has no answered rival in the window...
WindowOK ==
  \A i, j \in DOMAIN runs :
    /\ i \in runs[j].answered /\ runs[j].qualified
    /\ runs[i].dispute.order = runs[j].dispute.order
    /\ runs[i].dispute.reason = runs[j].dispute.reason
    => runs[j].dispute.day - runs[i].gatedOn > Window

\* ... and no filed one with its claim.
ClaimOK ==
  \A i, j \in DOMAIN runs :
    /\ i \in runs[j].answered /\ runs[j].qualified /\ Filed(runs[i])
    /\ runs[i].dispute.merchant = runs[j].dispute.merchant
    => runs[i].claim # runs[j].claim

IInv == QualifiedOK /\ AnsweredOK /\ WindowOK /\ ClaimOK

LEMMA SafetyPasses ==
  ASSUME NEW d, NEW claim, Safety(d, claim, "open") = ""
  PROVE  /\ Blockers(d, claim) = {}
         /\ ~(Cardinality(SameDay(d)) >= PerDay)
  BY DEF Safety

\* A new run: nothing it saw answered blocked it.
LEMMA AddIInv == TypeOK /\ IInv /\ AddCase => IInv'
<1> SUFFICES ASSUME TypeOK, IInv, AddCase PROVE IInv'
  OBVIOUS
<1>1. PICK d \in Dispute, claim \in Claims \cup {NoClaim}, state \in RunState,
           why \in SafetyReasons \cup {"", "not_actionable"} :
         /\ Add(d, claim, state, why)
         /\ state \in StatesOf(NotStarted)
         /\ state = "awaiting_gate" => claim # NoClaim
         /\ state \notin {"received", "suppressed"} /\ claim # NoClaim
              => Safety(d, claim, "open") = ""
  BY DEF AddCase
<1> DEFINE n == Len(runs) + 1
           new == NewRow(d, claim, state, why)
<1>2. /\ DOMAIN runs' = 1 .. n
      /\ \A i \in DOMAIN runs : runs'[i] = runs[i]
      /\ runs'[n] = new
  BY <1>1, AddStep
<1>3. DOMAIN runs = 1 .. Len(runs) /\ Len(runs) \in Nat
  BY Indices
<1>4. DOMAIN runs' = DOMAIN runs \cup {n} /\ n \notin DOMAIN runs
  BY <1>2, <1>3, UpToNext
<1>5. /\ new.dispute = d /\ new.claim = claim /\ new.state = state
      /\ new.qualified = (state \notin {"received", "suppressed"} /\ claim # NoClaim)
      /\ new.answered = {i \in DOMAIN runs : SaidYes(runs[i])}
  BY DEF NewRow
<1>6. \A i \in new.answered : i \in DOMAIN runs /\ SaidYes(runs[i])
  BY <1>5
<1>7. new.qualified => \A i \in DOMAIN runs :
        ~RecentlyCountered(d, runs[i]) /\ ~ClaimHandled(d, claim, runs[i])
  BY <1>1, <1>5, SafetyPasses DEF Blockers
<1> HIDE DEF n, new
<1>8. QualifiedOK'
  BY <1>1, <1>2, <1>4, <1>5 DEF IInv, QualifiedOK, StatesOf, NotStarted
<1>9. AnsweredOK'
  BY <1>2, <1>4, <1>6 DEF IInv, AnsweredOK
<1>10. \A i, j \in DOMAIN runs' : i \in runs'[j].answered => i \in DOMAIN runs
  BY <1>2, <1>4, <1>6 DEF IInv, AnsweredOK
<1>11. WindowOK'
  <2> SUFFICES ASSUME NEW i \in DOMAIN runs', NEW j \in DOMAIN runs',
                      i \in runs'[j].answered, runs'[j].qualified,
                      runs'[i].dispute.order = runs'[j].dispute.order,
                      runs'[i].dispute.reason = runs'[j].dispute.reason
               PROVE  runs'[j].dispute.day - runs'[i].gatedOn > Window
    BY DEF WindowOK
  <2>1. i \in DOMAIN runs /\ runs'[i] = runs[i]
    BY <1>2, <1>10
  <2>2. CASE j \in DOMAIN runs
    BY <1>2, <2>1, <2>2 DEF IInv, WindowOK
  <2>3. CASE j = n
    <3>1. /\ runs[i] \in Row /\ d.day \in Nat
          /\ SaidYes(runs[i]) /\ ~RecentlyCountered(d, runs[i])
      BY <1>2, <1>6, <1>7, <2>1, <2>3, Indices DEF Dispute
    <3>2. ~(d.day - runs[i].gatedOn <= Window)
      BY <1>2, <1>5, <2>1, <2>3, <3>1 DEF RecentlyCountered
    <3>3. runs[i].gatedOn \in Nat
      BY <3>1 DEF Row
    <3>4. d.day - runs[i].gatedOn > Window
      BY <3>1, <3>2, <3>3, NotAtMost, LimitsAssumption, Zenon
    <3>5. runs'[j].dispute.day = d.day /\ runs'[i] = runs[i]
      BY <1>2, <1>5, <2>1, <2>3
    <3> QED
      BY <3>4, <3>5, Zenon
  <2> QED
    BY <1>4, <2>2, <2>3
<1>12. ClaimOK'
  <2> SUFFICES ASSUME NEW i \in DOMAIN runs', NEW j \in DOMAIN runs',
                      i \in runs'[j].answered, runs'[j].qualified, Filed(runs'[i]),
                      runs'[i].dispute.merchant = runs'[j].dispute.merchant
               PROVE  runs'[i].claim # runs'[j].claim
    BY DEF ClaimOK
  <2>1. i \in DOMAIN runs /\ runs'[i] = runs[i]
    BY <1>2, <1>10
  <2>2. CASE j \in DOMAIN runs
    BY <1>2, <2>1, <2>2 DEF IInv, ClaimOK
  <2>3. CASE j = n
    BY <1>2, <1>5, <1>7, <2>1, <2>3 DEF ClaimHandled
  <2> QED
    BY <1>4, <2>2, <2>3
<1> QED
  BY <1>8, <1>9, <1>11, <1>12 DEF IInv

\* A decision stamps a run nobody has seen answered.
LEMMA DecideIInv == TypeOK /\ IInv /\ DecideCase => IInv'
<1> SUFFICES ASSUME TypeOK, IInv, DecideCase PROVE IInv'
  OBVIOUS
<1>1. PICK k \in DOMAIN runs, gate \in GateAction, state \in RunState :
        Decide(k, gate, state) /\ state # "suppressed"
  BY DEF DecideCase, StatesOf, GateAction, Answers
<1>2. /\ DOMAIN runs' = DOMAIN runs
      /\ \A j \in DOMAIN runs : j # k => runs'[j] = runs[j]
  BY <1>1, DecideStep
<1>4. runs[k].state = "awaiting_gate" /\ ~SaidYes(runs[k])
  BY <1>1 DEF Decide, SaidYes, NotStarted
<1>5. /\ runs'[k].dispute = runs[k].dispute /\ runs'[k].claim = runs[k].claim
      /\ runs'[k].qualified = runs[k].qualified /\ runs'[k].answered = runs[k].answered
      /\ runs'[k].state = state
  BY <1>1, DecideStep
<1>6. \A j \in DOMAIN runs :
        /\ runs'[j].dispute = runs[j].dispute /\ runs'[j].claim = runs[j].claim
        /\ runs'[j].qualified = runs[j].qualified /\ runs'[j].answered = runs[j].answered
  BY <1>2, <1>5
<1>7. \A j \in DOMAIN runs : \A i \in runs'[j].answered :
        i \in DOMAIN runs /\ i # k /\ runs'[i] = runs[i]
  BY <1>2, <1>4, <1>6 DEF IInv, AnsweredOK
<1>8. QualifiedOK'
  <2> SUFFICES ASSUME NEW j \in DOMAIN runs
               PROVE  /\ runs'[j].qualified => runs'[j].state # "suppressed"
                      /\ runs'[j].state \in {"awaiting_gate", "acted", "resolved"}
                           => runs'[j].qualified
    BY <1>2 DEF QualifiedOK
  <2>1. /\ runs[j].qualified => runs[j].state # "suppressed"
        /\ runs[j].state \in {"awaiting_gate", "acted", "resolved"} => runs[j].qualified
    BY DEF IInv, QualifiedOK
  <2>2. CASE j = k
    BY <1>1, <1>4, <1>5, <2>1, <2>2
  <2>3. CASE j # k
    BY <1>2, <2>1, <2>3
  <2> QED
    BY <2>2, <2>3
<1>9. AnsweredOK'
  BY <1>2, <1>6, <1>7 DEF IInv, AnsweredOK
<1>10. WindowOK'
  BY <1>2, <1>6, <1>7 DEF IInv, WindowOK
<1>11. ClaimOK'
  BY <1>2, <1>6, <1>7 DEF IInv, ClaimOK
<1> QED
  BY <1>8, <1>9, <1>10, <1>11 DEF IInv

\* A move files nothing that was not filed before.
LEMMA MoveIInv == TypeOK /\ IInv /\ MoveCase => IInv'
<1> SUFFICES ASSUME TypeOK, IInv, MoveCase PROVE IInv'
  OBVIOUS
<1>1. PICK k \in DOMAIN runs, to \in {"failed", "resolved"} :
        /\ \E from \in SUBSET RunState : Move(k, from, to)
        /\ to = "resolved" => runs[k].state = "acted"
  BY DEF MoveCase
<1>2. PICK from \in SUBSET RunState : Move(k, from, to)
  BY <1>1
<1>3. to \in RunState
  BY DEF RunState
<1>4. /\ DOMAIN runs' = DOMAIN runs
      /\ runs'[k] = [runs[k] EXCEPT !.state = to]
      /\ \A j \in DOMAIN runs : j # k => runs'[j] = runs[j]
  BY <1>2, <1>3, MoveStep
<1>5. runs[k] \in Row
  BY Indices
<1>6. /\ runs'[k].dispute = runs[k].dispute /\ runs'[k].claim = runs[k].claim
      /\ runs'[k].qualified = runs[k].qualified /\ runs'[k].answered = runs[k].answered
      /\ runs'[k].gate = runs[k].gate /\ runs'[k].gatedOn = runs[k].gatedOn
      /\ runs'[k].state = to
  BY <1>4, <1>5 DEF Row
<1>7. \A j \in DOMAIN runs :
        /\ runs'[j].dispute = runs[j].dispute /\ runs'[j].claim = runs[j].claim
        /\ runs'[j].qualified = runs[j].qualified /\ runs'[j].answered = runs[j].answered
        /\ runs'[j].gate = runs[j].gate /\ runs'[j].gatedOn = runs[j].gatedOn
        /\ Filed(runs'[j]) => Filed(runs[j])
  BY <1>1, <1>4, <1>6 DEF Filed
<1>8. QualifiedOK'
  <2> SUFFICES ASSUME NEW j \in DOMAIN runs
               PROVE  /\ runs'[j].qualified => runs'[j].state # "suppressed"
                      /\ runs'[j].state \in {"awaiting_gate", "acted", "resolved"}
                           => runs'[j].qualified
    BY <1>4 DEF QualifiedOK
  <2>1. /\ runs[j].qualified => runs[j].state # "suppressed"
        /\ runs[j].state \in {"awaiting_gate", "acted", "resolved"} => runs[j].qualified
    BY DEF IInv, QualifiedOK
  <2>2. CASE j = k
    BY <1>1, <1>6, <2>1, <2>2
  <2>3. CASE j # k
    BY <1>4, <2>1, <2>3
  <2> QED
    BY <2>2, <2>3
<1>9. AnsweredOK'
  BY <1>4, <1>7 DEF IInv, AnsweredOK, SaidYes
<1>10. WindowOK'
  BY <1>4, <1>7 DEF IInv, WindowOK
<1>11. ClaimOK'
  BY <1>4, <1>7 DEF IInv, ClaimOK
<1> QED
  BY <1>8, <1>9, <1>10, <1>11 DEF IInv

LEMMA IInvHolds == Spec => []IInv
<1>1. Init => IInv
  BY DEF Init, IInv, QualifiedOK, AnsweredOK, WindowOK, ClaimOK
<1>2. TypeOK /\ IInv /\ UNCHANGED runs => IInv'
  BY DEF IInv, QualifiedOK, AnsweredOK, WindowOK, ClaimOK
<1>3. TypeOK /\ IInv /\ [Next]_vars => IInv'
  BY <1>2, StepCases, AddIInv, DecideIInv, MoveIInv
<1> QED
  BY <1>1, <1>3, PolicyTypes, PTL DEF Spec

\* Inside the window a second response to one order and reason is filed only
\* for cards that waited side by side: whatever fails, settles or comes late.
THEOREM SecondOnlyIfBothWaitedHolds == Spec => []SecondOnlyIfBothWaited
<1>1. IInv => SecondOnlyIfBothWaited
  BY DEF IInv, QualifiedOK, WindowOK, SecondOnlyIfBothWaited, Filed
<1> QED
  BY <1>1, IInvHolds, PTL

\* A claim a merchant has answered is answered again only for such cards.
THEOREM ClaimAnsweredOnceHolds == Spec => []ClaimAnsweredOnce
<1>1. IInv => ClaimAnsweredOnce
  BY DEF IInv, QualifiedOK, ClaimOK, ClaimAnsweredOnce, Filed
<1> QED
  BY <1>1, IInvHolds, PTL

-----------------------------------------------------------------------------
\* The sets the cap counts are finite.
LEMMA FiniteLedger == ASSUME TypeOK PROVE IsFiniteSet(DOMAIN runs)
  BY Indices, FS_Interval

LEMMA SameDayFinite == ASSUME TypeOK, NEW d PROVE IsFiniteSet(SameDay(d))
<1>1. SameDay(d) \subseteq DOMAIN runs
  BY DEF SameDay
<1> QED
  BY <1>1, FiniteLedger, FS_Subset

LEMMA QualifiedFinite ==
  ASSUME TypeOK, NEW m, NEW day PROVE IsFiniteSet(Qualified(m, day))
<1>1. Qualified(m, day) \subseteq DOMAIN runs
  BY DEF Qualified
<1> QED
  BY <1>1, FiniteLedger, FS_Subset

\* The runs of one merchant's day that passed are among those that count.
LEMMA QualifiedBelow ==
  ASSUME TypeOK, IInv, NEW d \in Dispute, Cardinality(SameDay(d)) < PerDay
  PROVE  Cardinality(Qualified(d.merchant, d.day)) < PerDay
<1>1. Qualified(d.merchant, d.day) \subseteq SameDay(d)
  BY DEF Qualified, SameDay, IInv, QualifiedOK
<1>2. /\ Cardinality(Qualified(d.merchant, d.day)) <= Cardinality(SameDay(d))
      /\ Cardinality(Qualified(d.merchant, d.day)) \in Nat
      /\ Cardinality(SameDay(d)) \in Nat
  BY <1>1, SameDayFinite, FS_Subset, FS_CardinalityType
<1> QED
  BY <1>2, LimitsAssumption

\* A step that adds no qualified run leaves every count as it was.
LEMMA SameQualified ==
  ASSUME DOMAIN runs' = DOMAIN runs, NEW m, NEW day,
         \A j \in DOMAIN runs : /\ runs'[j].qualified = runs[j].qualified
                                /\ runs'[j].dispute = runs[j].dispute
  PROVE  Qualified(m, day)' = Qualified(m, day)
  BY DEF Qualified

\* One more run of the day, and only when the day had room.
LEMMA AddCap == TypeOK /\ IInv /\ DailyCapHolds /\ AddCase => DailyCapHolds'
<1> SUFFICES ASSUME TypeOK, IInv, DailyCapHolds, AddCase,
                    NEW m \in Merchants, NEW day \in 0..MaxDay
             PROVE  Cardinality(Qualified(m, day)') <= PerDay
  BY DEF DailyCapHolds
<1>1. PICK d \in Dispute, claim \in Claims \cup {NoClaim}, state \in RunState,
           why \in SafetyReasons \cup {"", "not_actionable"} :
         /\ Add(d, claim, state, why)
         /\ state \notin {"received", "suppressed"} /\ claim # NoClaim
              => Safety(d, claim, "open") = ""
  BY DEF AddCase
<1> DEFINE n == Len(runs) + 1
           new == NewRow(d, claim, state, why)
           old == Qualified(m, day)
<1>2. /\ DOMAIN runs' = 1 .. n
      /\ \A i \in DOMAIN runs : runs'[i] = runs[i]
      /\ runs'[n] = new
  BY <1>1, AddStep
<1>3. DOMAIN runs' = DOMAIN runs \cup {n} /\ n \notin DOMAIN runs
  BY <1>2, Indices, UpToNext
<1>4. /\ new.dispute = d
      /\ new.qualified = (state \notin {"received", "suppressed"} /\ claim # NoClaim)
  BY DEF NewRow
<1>5. IsFiniteSet(old) /\ Cardinality(old) \in Nat /\ Cardinality(old) <= PerDay
  BY QualifiedFinite, FS_CardinalityType DEF DailyCapHolds
<1> HIDE DEF n, new
<1>6. CASE new.qualified /\ d.merchant = m /\ d.day = day
  <2>1. Cardinality(SameDay(d)) < PerDay
    <3>1. Safety(d, claim, "open") = ""
      BY <1>1, <1>4, <1>6
    <3>2. ~(Cardinality(SameDay(d)) >= PerDay)
      BY <3>1, SafetyPasses
    <3>3. Cardinality(SameDay(d)) \in Nat
      BY SameDayFinite, FS_CardinalityType
    <3> QED
      BY <3>2, <3>3, RoomForOne, LimitsAssumption, Zenon
  <2>2. Cardinality(old) < PerDay
    BY <1>6, <2>1, QualifiedBelow
  <2>3. Qualified(m, day)' = old \cup {n}
    BY <1>2, <1>3, <1>4, <1>6 DEF Qualified
  <2>4. n \notin old
    BY <1>3 DEF Qualified
  <2>5. Cardinality(old \cup {n}) = Cardinality(old) + 1
    BY <1>5, <2>4, FS_AddElement, Zenon
  <2>6. Cardinality(Qualified(m, day)') = Cardinality(old) + 1
    BY <2>3, <2>5, Zenon
  <2> QED
    BY <1>5, <2>2, <2>6, RoomForOne, LimitsAssumption, Zenon
<1>7. CASE ~(new.qualified /\ d.merchant = m /\ d.day = day)
  <2>1. Qualified(m, day)' = old
    BY <1>2, <1>3, <1>4, <1>7 DEF Qualified
  <2> QED
    BY <1>5, <2>1
<1> QED
  BY <1>6, <1>7

\* Decisions and moves change no count.
LEMMA OtherCap ==
  TypeOK /\ IInv /\ DailyCapHolds /\ (DecideCase \/ MoveCase \/ UNCHANGED runs)
    => DailyCapHolds'
<1> SUFFICES ASSUME TypeOK, DailyCapHolds, DecideCase \/ MoveCase \/ UNCHANGED runs
             PROVE  DailyCapHolds'
  OBVIOUS
<1>1. /\ DOMAIN runs' = DOMAIN runs
      /\ \A j \in DOMAIN runs : /\ runs'[j].qualified = runs[j].qualified
                                /\ runs'[j].dispute = runs[j].dispute
  <2>1. CASE DecideCase
    BY <2>1, DecideStep DEF DecideCase
  <2>2. CASE MoveCase
    <3>1. PICK k \in DOMAIN runs, to \in {"failed", "resolved"} :
            \E from \in SUBSET RunState : Move(k, from, to)
      BY <2>2 DEF MoveCase
    <3>2. to \in RunState
      BY DEF RunState
    <3>3. runs[k] \in Row
      BY Indices
    <3>4. /\ DOMAIN runs' = DOMAIN runs
          /\ runs'[k] = [runs[k] EXCEPT !.state = to]
          /\ \A j \in DOMAIN runs : j # k => runs'[j] = runs[j]
      BY <3>1, <3>2, MoveStep
    <3>5. runs'[k].qualified = runs[k].qualified /\ runs'[k].dispute = runs[k].dispute
      BY <3>3, <3>4 DEF Row
    <3> QED
      BY <3>4, <3>5
  <2>3. CASE UNCHANGED runs
    BY <2>3
  <2> QED
    BY <2>1, <2>2, <2>3
<1>2. \A m \in Merchants, day \in 0..MaxDay : Qualified(m, day)' = Qualified(m, day)
  BY <1>1, SameQualified
<1> QED
  BY <1>2 DEF DailyCapHolds

\* No merchant gets more drafts for the disputes of one day than the policy
\* allows, for any number of merchants, runs and days.
THEOREM DailyCapIsKept == Spec => []DailyCapHolds
<1>1. Init => DailyCapHolds
  <2> SUFFICES ASSUME Init, NEW m \in Merchants, NEW day \in 0..MaxDay
               PROVE  Cardinality(Qualified(m, day)) <= PerDay
    BY DEF DailyCapHolds
  <2>1. Qualified(m, day) = {}
    BY DEF Init, Qualified
  <2> QED
    BY <2>1, FS_EmptySet, LimitsAssumption
<1>2. TypeOK /\ IInv /\ DailyCapHolds /\ [Next]_vars => DailyCapHolds'
  BY StepCases, AddCap, OtherCap
<1> QED
  BY <1>1, <1>2, PolicyTypes, IInvHolds, PTL DEF Spec
-----------------------------------------------------------------------------
(* The pages.                                                              *)

\* What is stamped on a run and where it stands agree.
GateTellsState == \A i \in DOMAIN runs : runs[i].state \in StatesOf(runs[i].gate)

\* What a decision, a move or an idle step can do to the runs there are.
Decided(j) ==
  /\ runs[j].state = "awaiting_gate" /\ runs[j].gate = NotStarted
  /\ runs'[j].gate \in GateAction /\ runs'[j].state \in StatesOf(runs'[j].gate)

Moved(j) ==
  /\ runs'[j].gate = runs[j].gate
  /\ \/ runs[j].state \in StallStates /\ runs'[j].state = "failed"
     \/ runs[j].state = "acted" /\ runs'[j].state = "resolved"

LEMMA RunSteps ==
  ASSUME TypeOK, DecideCase \/ MoveCase \/ UNCHANGED runs
  PROVE  /\ DOMAIN runs' = DOMAIN runs
         /\ \A j \in DOMAIN runs :
              /\ runs'[j].dispute = runs[j].dispute
              /\ runs'[j] = runs[j] \/ Decided(j) \/ Moved(j)
<1>1. CASE DecideCase
  <2>1. PICK k \in DOMAIN runs, gate \in GateAction, state \in RunState :
          Decide(k, gate, state) /\ state \in StatesOf(gate)
    BY <1>1 DEF DecideCase
  <2>2. /\ DOMAIN runs' = DOMAIN runs
        /\ runs'[k].dispute = runs[k].dispute
        /\ runs'[k].state = state /\ runs'[k].gate = gate
        /\ \A j \in DOMAIN runs : j # k => runs'[j] = runs[j]
    BY <2>1, DecideStep
  <2>3. Decided(k)
    BY <2>1, <2>2 DEF Decide, Decided
  <2> QED
    BY <2>2, <2>3
<1>2. CASE MoveCase
  <2>1. PICK k \in DOMAIN runs, to \in {"failed", "resolved"} :
          /\ \E from \in SUBSET RunState : Move(k, from, to)
          /\ runs[k].state \in IF to = "resolved" THEN {"acted"} ELSE StallStates
    BY <1>2 DEF MoveCase
  <2>2. PICK from \in SUBSET RunState : Move(k, from, to)
    BY <2>1
  <2>3. to \in RunState
    BY DEF RunState
  <2>4. /\ DOMAIN runs' = DOMAIN runs
        /\ runs'[k] = [runs[k] EXCEPT !.state = to]
        /\ \A j \in DOMAIN runs : j # k => runs'[j] = runs[j]
    BY <2>2, <2>3, MoveStep
  <2>5. runs[k] \in Row
    BY Indices
  <2>6. /\ runs'[k].dispute = runs[k].dispute
        /\ runs'[k].gate = runs[k].gate /\ runs'[k].state = to
    BY <2>4, <2>5 DEF Row
  <2>7. Moved(k)
    BY <2>1, <2>6 DEF Moved
  <2> QED
    BY <2>4, <2>6, <2>7
<1>3. CASE UNCHANGED runs
  BY <1>3
<1> QED
  BY <1>1, <1>2, <1>3

\* A webhook leaves the runs there are alone.
LEMMA AddLeaves ==
  ASSUME TypeOK, AddCase
  PROVE  /\ DOMAIN runs' = DOMAIN runs \cup {Len(runs) + 1}
         /\ Len(runs) + 1 \notin DOMAIN runs
         /\ \A j \in DOMAIN runs : runs'[j] = runs[j]
         /\ runs'[Len(runs) + 1].gate = NotStarted
         /\ runs'[Len(runs) + 1].state \in StatesOf(NotStarted)
<1>1. PICK d \in Dispute, claim \in Claims \cup {NoClaim}, state \in RunState,
           why \in SafetyReasons \cup {"", "not_actionable"} :
         Add(d, claim, state, why) /\ state \in StatesOf(NotStarted)
  BY DEF AddCase
<1>2. /\ DOMAIN runs' = 1 .. (Len(runs) + 1)
      /\ \A i \in DOMAIN runs : runs'[i] = runs[i]
      /\ runs'[Len(runs) + 1] = NewRow(d, claim, state, why)
  BY <1>1, AddStep
<1>3. DOMAIN runs' = DOMAIN runs \cup {Len(runs) + 1} /\ Len(runs) + 1 \notin DOMAIN runs
  BY <1>2, Indices, UpToNext
<1>4. NewRow(d, claim, state, why).gate = NotStarted
      /\ NewRow(d, claim, state, why).state = state
  BY DEF NewRow
<1> QED
  BY <1>1, <1>2, <1>3, <1>4

LEMMA GateTells == Spec => []GateTellsState
<1>1. Init => GateTellsState
  BY DEF Init, GateTellsState
<1>2. TypeOK /\ GateTellsState /\ [Next]_vars => GateTellsState'
  <2> SUFFICES ASSUME TypeOK, GateTellsState, [Next]_vars PROVE GateTellsState'
    OBVIOUS
  <2>1. CASE AddCase
    BY <2>1, AddLeaves DEF GateTellsState
  <2>2. CASE DecideCase \/ MoveCase \/ UNCHANGED runs
    <3> SUFFICES ASSUME NEW j \in DOMAIN runs
                 PROVE  runs'[j].state \in StatesOf(runs'[j].gate)
      BY <2>2, RunSteps DEF GateTellsState
    <3>1. runs[j].state \in StatesOf(runs[j].gate)
      BY DEF GateTellsState
    <3>2. CASE Moved(j)
      BY <3>1, <3>2 DEF Moved, StatesOf, StallStates
    <3>3. runs'[j] = runs[j] \/ Decided(j) \/ Moved(j)
      BY <2>2, RunSteps
    <3> QED
      BY <3>1, <3>2, <3>3 DEF Decided
  <2> QED
    BY <2>1, <2>2, StepCases
<1> QED
  BY <1>1, <1>2, PolicyTypes, PTL DEF Spec

-----------------------------------------------------------------------------
\* Every button the pages show is under a waiting reply.
LEMMA OfferedWaits == Offered \subseteq Waiting
<1>1. \A o \in Cases : CasePageOffers(o) \cup DeskOffers(o) \subseteq Waiting
  BY DEF CasePageOffers, WorkProductOffers, DeskOffers
<1>2. \A tool, wanted : TargetRun(tool, wanted) \subseteq Waiting
  BY DEF TargetRun, FirstWaiting, NewestWaiting
<1>3. ChatOffers \subseteq Waiting
  BY <1>2 DEF ChatOffers
<1> QED
  BY <1>1, <1>3 DEF Offered, ApprovalsOffers

\* A button on whatever page is one the decision handler takes, for any runs:
\* only an edit whose comparison died waits with a stamp on it.
THEOREM OffersAreTakenHolds == Spec => []OffersAreTaken
<1>1. TypeOK /\ GateTellsState => OffersAreTaken
  <2> SUFFICES ASSUME TypeOK, GateTellsState, NEW i \in Offered, i \in DecisionLines
               PROVE  runs[i].gate = "edit"
    BY DEF OffersAreTaken
  <2>1. i \in DOMAIN runs /\ runs[i].state = "awaiting_gate" /\ runs[i].gate # NotStarted
    BY OfferedWaits DEF Waiting, InState, DecisionLines
  <2>2. "awaiting_gate" \in StatesOf(runs[i].gate)
    BY <2>1 DEF GateTellsState
  <2>3. runs[i].gate \in GateAction
    BY <2>1, Indices DEF Row
  <2> QED
    BY <2>2, <2>3 DEF StatesOf, GateAction, Answers
<1> QED
  BY <1>1, PolicyTypes, GateTells, PTL

\* What is stamped on a run, by where it stands.
LEMMA StampOf ==
  ASSUME TypeOK, GateTellsState, NEW i \in DOMAIN runs
  PROVE  /\ Filed(runs[i]) => SaidYes(runs[i]) /\ runs[i].gate \in Answers
         /\ runs[i].gate # NotStarted => runs[i].gate \in GateAction
         /\ SaidYes(runs[i]) =>
              runs[i].state \in {"awaiting_gate", "acting", "acted", "resolved", "failed"}
<1>1. runs[i].state \in StatesOf(runs[i].gate)
  BY DEF GateTellsState
<1>2. runs[i].gate \in GateAction \cup {NotStarted}
  BY Indices DEF Row
<1> QED
  BY <1>1, <1>2 DEF StatesOf, Filed, SaidYes, GateAction, Answers, NotStarted

\* A case that reads Done hides no yes the bank never got, and its chip in
\* History says how each of them ended.
THEOREM DoneMeansAnsweredHolds == Spec => []DoneMeansAnswered
<1>1. TypeOK /\ GateTellsState => DoneMeansAnswered
  <2> SUFFICES ASSUME TypeOK, GateTellsState, NEW o \in Cases, RailCases[o] = "done"
               PROVE  /\ \A i \in CaseOf(o) \cap SaidSent : "outcome" \in RunPage(i).steps
                      /\ CaseOf(o) \cap SaidSent # {} => JourneyChip(o) \in {"kept", "lost"}
    BY DEF DoneMeansAnswered
  <2>1. CaseStatus(o) = "done"
    BY DEF RailCases
  <2>2. /\ CaseOf(o) \cap Waiting = {}
        /\ CaseOf(o) \cap WithAPerson = {}
        /\ CaseOf(o) \subseteq InState(Terminal)
    BY <2>1 DEF CaseStatus
  <2>3. ASSUME NEW i \in CaseOf(o) \cap SaidSent
        PROVE  HasOutcome(i)
    <3>1. i \in DOMAIN runs /\ SaidYes(runs[i])
      BY DEF SaidSent, DecisionLines
    <3>2. runs[i].state \in {"awaiting_gate", "acting", "acted", "resolved", "failed"}
      BY <3>1, StampOf
    <3>3. runs[i].state \in Terminal /\ runs[i].state # "failed"
      BY <2>2, <3>1 DEF InState, WithAPerson
    <3> QED
      BY <3>2, <3>3 DEF Terminal, HasOutcome
  <2>4. \A i \in CaseOf(o) \cap SaidSent : "outcome" \in RunPage(i).steps
    BY <2>3 DEF RunPage, Story
  <2>5. CaseOf(o) \cap SaidSent # {} => JourneyChip(o) \in {"kept", "lost"}
    BY <2>2, <2>3 DEF JourneyChip
  <2> QED
    BY <2>4, <2>5
<1> QED
  BY <1>1, PolicyTypes, GateTells, PTL

-----------------------------------------------------------------------------
\* A case never goes back, whatever happens to its runs, and a dispute that
\* comes in on another order does not touch it.
LEMMA CaseSteps ==
  ASSUME TypeOK, AddCase \/ DecideCase \/ MoveCase \/ UNCHANGED runs,
         NEW o, CaseOf(o)' = CaseOf(o)
  PROVE  \A j \in CaseOf(o) : /\ j \in DOMAIN runs /\ j \in DOMAIN runs'
                              /\ runs'[j] = runs[j] \/ Decided(j) \/ Moved(j)
  BY AddLeaves, RunSteps DEF CaseOf

LEMMA StatusForward ==
  ASSUME TypeOK, AddCase \/ DecideCase \/ MoveCase \/ UNCHANGED runs,
         NEW o, CaseOf(o)' = CaseOf(o)
  PROVE  /\ CaseStatus(o) # "need" => CaseStatus(o)' # "need"
         /\ CaseStatus(o) \in {"done", "person"} => CaseStatus(o)' = CaseStatus(o)
<1> DEFINE C == CaseOf(o)
           Is(S) == \E j \in C : runs[j].state \in S
           Becomes(S) == \E j \in C : runs'[j].state \in S
<1>1. \A j \in C : /\ j \in DOMAIN runs /\ j \in DOMAIN runs'
                   /\ runs'[j] = runs[j] \/ Decided(j) \/ Moved(j)
  BY CaseSteps
<1>2. \A j \in C : runs'[j].state = "awaiting_gate" => runs[j].state = "awaiting_gate"
  BY <1>1 DEF Decided, Moved
<1>3. \A j \in C : runs[j].state \in Terminal => runs'[j].state = runs[j].state
  BY <1>1 DEF Decided, Moved, Terminal, StallStates
<1>4. /\ (C \cap Waiting # {}) = Is({"awaiting_gate"})
      /\ (C \cap WithAPerson # {}) = Is({"timed_out", "failed"})
      /\ (C \subseteq InState(Terminal)) = ~(\E j \in C : runs[j].state \notin Terminal)
  BY <1>1 DEF Waiting, WithAPerson, InState
<1>5. /\ (C \cap Waiting' # {}) = Becomes({"awaiting_gate"})
      /\ (C \cap WithAPerson' # {}) = Becomes({"timed_out", "failed"})
      /\ (C \subseteq InState(Terminal)') = ~(\E j \in C : runs'[j].state \notin Terminal)
  BY <1>1 DEF Waiting, WithAPerson, InState
<1>6. CaseStatus(o) = IF Is({"awaiting_gate"}) THEN "need"
                      ELSE IF Is({"timed_out", "failed"}) THEN "person"
                      ELSE IF \E j \in C : runs[j].state \notin Terminal THEN "work"
                      ELSE "done"
  BY <1>4 DEF CaseStatus
<1>7. CaseStatus(o)' = IF Becomes({"awaiting_gate"}) THEN "need"
                       ELSE IF Becomes({"timed_out", "failed"}) THEN "person"
                       ELSE IF \E j \in C : runs'[j].state \notin Terminal THEN "work"
                       ELSE "done"
  BY <1>5 DEF CaseStatus
<1> HIDE DEF C
<1>8. ASSUME CaseStatus(o) # "need" PROVE CaseStatus(o)' # "need"
  BY <1>2, <1>6, <1>7, <1>8
<1>9. ASSUME CaseStatus(o) = "done" PROVE CaseStatus(o)' = "done"
  <2>1. \A j \in C : runs[j].state \in Terminal /\ runs'[j].state = runs[j].state
    BY <1>3, <1>6, <1>9
  <2> QED
    BY <1>6, <1>7, <1>9, <2>1
<1>10. ASSUME CaseStatus(o) = "person" PROVE CaseStatus(o)' = "person"
  <2>1. PICK j \in C : runs[j].state \in {"timed_out", "failed"}
    BY <1>6, <1>10
  <2>2. runs'[j].state = runs[j].state
    BY <1>3, <2>1 DEF Terminal
  <2>3. CaseStatus(o)' # "need"
    BY <1>8, <1>10
  <2> QED
    BY <1>7, <2>1, <2>2, <2>3
<1> QED
  BY <1>8, <1>9, <1>10

\* What is filed or settled stays filed or settled.
LEMMA MilesStay ==
  ASSUME TypeOK, AddCase \/ DecideCase \/ MoveCase \/ UNCHANGED runs, NEW o
  PROVE  /\ MileFiled(o) => MileFiled(o)'
         /\ MileSettled(o) => MileSettled(o)'
<1>1. \A j \in CaseOf(o) :
        /\ j \in CaseOf(o)'
        /\ runs'[j] = runs[j] \/ Decided(j) \/ Moved(j)
  BY AddLeaves, RunSteps DEF CaseOf
<1>2. \A j \in CaseOf(o) : /\ Filed(runs[j]) => Filed(runs'[j])
                           /\ HasOutcome(j) => HasOutcome(j)'
  BY <1>1 DEF Filed, HasOutcome, Decided, Moved, StallStates
<1>3. MileFiled(o) => MileFiled(o)'
  BY <1>1, <1>2 DEF MileFiled
<1>4. MileSettled(o) => MileSettled(o)'
  BY <1>1, <1>2 DEF MileSettled
<1> QED
  BY <1>3, <1>4

\* For any orders, disputes and days: a case goes forward only.
THEOREM CaseMovesForwardHolds == Spec => CaseMovesForward
<1>1. TypeOK /\ [Next]_vars =>
        [\A o \in Cases :
           /\ MileFiled(o) => MileFiled(o)'
           /\ MileSettled(o) => MileSettled(o)'
           /\ CaseOf(o)' = CaseOf(o) =>
                /\ CaseStatus(o) # "need" => CaseStatus(o)' # "need"
                /\ CaseStatus(o) \in {"done", "person"} => CaseStatus(o)' = CaseStatus(o)]_vars
  BY StepCases, MilesStay, StatusForward
<1> QED
  BY <1>1, PolicyTypes, PTL DEF Spec, CaseMovesForward

-----------------------------------------------------------------------------
(* The pages in order of time.                                             *)

\* A strict order on finitely many things has a least one.
LEMMA LeastOne ==
  ASSUME NEW S, IsFiniteSet(S), S # {}, NEW R,
         \A x, y, z \in S : <<x, y>> \in R /\ <<y, z>> \in R => <<x, z>> \in R,
         \A x \in S : <<x, x>> \notin R
  PROVE  \E x \in S : \A y \in S : <<y, x>> \notin R
<1> DEFINE below(x) == {y \in S : <<y, x>> \in R}
           T == {below(x) : x \in S}
<1>1. T \subseteq FiniteSubsetsOf(S) /\ T # {}
  <2>1. \A x \in S : below(x) \in SUBSET S
    OBVIOUS
  <2>2. \A x \in S : IsFiniteSet(below(x))
    BY <2>1, FS_Subset
  <2>3. \A x \in S : below(x) \in FiniteSubsetsOf(S)
    BY <2>1, <2>2 DEF FiniteSubsetsOf
  <2> HIDE DEF below
  <2> QED
    BY <2>3
<1>2. PICK m \in T : \A U \in T : <<U, m>> \notin StrictSubsetOrdering(S)
  <2>1. IsWellFoundedOn(StrictSubsetOrdering(S), FiniteSubsetsOf(S))
    BY FS_StrictSubsetOrderingWellFounded
  <2> HIDE DEF T
  <2> QED
    BY <1>1, <2>1, WFMin
<1>3. PICK x \in S : m = below(x)
  BY <1>2
<1>4. ASSUME NEW y \in S, <<y, x>> \in R
      PROVE  FALSE
  <2>1. below(y) \subseteq below(x) /\ y \in below(x) /\ y \notin below(y)
    BY <1>4
  <2>2. <<below(y), below(x)>> \in StrictSubsetOrdering(S)
    BY <2>1 DEF StrictSubsetOrdering
  <2> QED
    BY <1>2, <1>3, <2>2
<1> QED
  BY <1>4

LEMMA Below == \A a, b \in Nat : a <= b /\ a # b => a < b /\ a + 1 < b + 1 /\ a + 1 \in 1..b
  OBVIOUS

\* A strict total order puts finitely many things in a list.
LEMMA InOrder ==
  ASSUME NEW S, IsFiniteSet(S), NEW R,
         \A x, y, z \in S : <<x, y>> \in R /\ <<y, z>> \in R => <<x, z>> \in R,
         \A x \in S : <<x, x>> \notin R,
         \A x, y \in S : x = y \/ <<x, y>> \in R \/ <<y, x>> \in R
  PROVE  \E list \in [1..Cardinality(S) -> S] :
           \A m, n \in 1..Cardinality(S) : m < n => <<list[m], list[n]>> \in R
<1> DEFINE below(x) == {y \in S : <<y, x>> \in R}
           size == Cardinality(S)
           place == [x \in S |-> Cardinality(below(x)) + 1]
<1>1. size \in Nat /\ IsFiniteSet(1..size) /\ Cardinality(1..size) = size
  <2>1. size \in Nat
    BY FS_CardinalityType
  <2> HIDE DEF size
  <2>2. 1 \in Int /\ size \in Int
    BY <2>1
  <2>3. IsFiniteSet(1..size) /\ Cardinality(1..size) = IF 1 > size THEN 0 ELSE size - 1 + 1
    BY <2>2, FS_Interval
  <2> QED
    BY <2>1, <2>3
<1>2. \A x \in S : IsFiniteSet(below(x)) /\ Cardinality(below(x)) \in Nat
  BY FS_Subset, FS_CardinalityType
<1>3. ASSUME NEW x \in S PROVE Cardinality(below(x)) + 1 \in 1..size
  <2>1. below(x) \in SUBSET S /\ below(x) # S
    OBVIOUS
  <2>2. Cardinality(below(x)) <= size /\ Cardinality(below(x)) # size
    BY <2>1, FS_Subset
  <2> QED
    BY <1>1, <1>2, <2>2, Below, Zenon
<1>4. ASSUME NEW x \in S, NEW y \in S, <<x, y>> \in R
      PROVE  place[x] < place[y]
  <2>1. below(x) \in SUBSET below(y) /\ below(x) # below(y)
    BY <1>4
  <2>2. Cardinality(below(x)) <= Cardinality(below(y))
        /\ Cardinality(below(x)) # Cardinality(below(y))
    BY <1>2, <2>1, FS_Subset
  <2>3. Cardinality(below(x)) + 1 < Cardinality(below(y)) + 1
    BY <1>2, <2>2, Below, Zenon
  <2> QED
    BY <2>3
<1>5. place \in [S -> 1..size]
  BY <1>3
<1> HIDE DEF below, size, place
<1>6. place \in Injection(S, 1..size)
  <2> SUFFICES ASSUME NEW x \in S, NEW y \in S, place[x] = place[y] PROVE x = y
    BY <1>5 DEF Injection, IsInjective
  <2>1. place[x] \in Int
    BY <1>1, <1>5
  <2>2. <<x, y>> \notin R /\ <<y, x>> \notin R
    BY <1>4, <2>1
  <2> QED
    BY <2>2
<1>7. place \in Surjection(S, 1..size)
  BY <1>1, <1>6, FS_Injection DEF size
<1> DEFINE list == [n \in 1..size |-> CHOOSE x \in S : place[x] = n]
<1>8. \A n \in 1..size : list[n] \in S /\ place[list[n]] = n
  BY <1>7 DEF Surjection
<1>9. list \in [1..size -> S]
  BY <1>8
<1>10. ASSUME NEW m \in 1..size, NEW n \in 1..size, m < n
       PROVE  <<list[m], list[n]>> \in R
  <2> HIDE DEF list
  <2>1. place[list[m]] = m /\ place[list[n]] = n /\ list[m] \in S /\ list[n] \in S
    BY <1>8
  <2>2. m # n /\ ~(n < m)
    BY <1>1, <1>10
  <2>3. list[m] # list[n] /\ <<list[n], list[m]>> \notin R
    BY <1>4, <2>1, <2>2
  <2> QED
    BY <2>1, <2>3
<1> QED
  BY <1>9, <1>10 DEF size

\* Webhooks may be late: both orders of the pages are strict, and total.
EarlierPairs == {p \in (DOMAIN runs) \X (DOMAIN runs) : Earlier(p[1], p[2])}

NewerPairs == {p \in (DOMAIN runs) \X (DOMAIN runs) : Newer(p[1], p[2])}

LEMMA Dated ==
  ASSUME TypeOK, NEW i \in DOMAIN runs PROVE i \in Nat /\ runs[i].dispute.day \in Nat
<1>1. i \in Nat /\ runs[i] \in Row
  BY Indices
<1> QED
  BY <1>1 DEF Row, Dispute

LEMMA EarlierOrder ==
  ASSUME TypeOK
  PROVE  /\ \A x, y, z \in DOMAIN runs :
              <<x, y>> \in EarlierPairs /\ <<y, z>> \in EarlierPairs
                => <<x, z>> \in EarlierPairs
         /\ \A x \in DOMAIN runs : <<x, x>> \notin EarlierPairs
         /\ \A x, y \in DOMAIN runs :
              x = y \/ <<x, y>> \in EarlierPairs \/ <<y, x>> \in EarlierPairs
<1>1. \A x, y \in DOMAIN runs : <<x, y>> \in EarlierPairs <=> Earlier(x, y)
  BY DEF EarlierPairs
<1>2. \A x, y, z \in DOMAIN runs : Earlier(x, y) /\ Earlier(y, z) => Earlier(x, z)
  BY Dated DEF Earlier
<1>3. \A x \in DOMAIN runs : ~Earlier(x, x)
  BY Dated DEF Earlier
<1>4. \A x, y \in DOMAIN runs : x = y \/ Earlier(x, y) \/ Earlier(y, x)
  BY Dated DEF Earlier
<1> QED
  BY <1>1, <1>2, <1>3, <1>4

LEMMA NewerOrder ==
  ASSUME TypeOK
  PROVE  /\ \A x, y, z \in DOMAIN runs :
              <<x, y>> \in NewerPairs /\ <<y, z>> \in NewerPairs => <<x, z>> \in NewerPairs
         /\ \A x \in DOMAIN runs : <<x, x>> \notin NewerPairs
<1>1. \A x, y \in DOMAIN runs : <<x, y>> \in NewerPairs <=> Newer(x, y)
  BY DEF NewerPairs
<1>2. \A x, y, z \in DOMAIN runs : Newer(x, y) /\ Newer(y, z) => Newer(x, z)
  BY Dated DEF Newer
<1>3. \A x \in DOMAIN runs : ~Newer(x, x)
  BY Dated DEF Newer
<1> QED
  BY <1>1, <1>2, <1>3

LEMMA SomeRuns ==
  ASSUME TypeOK, NEW S \in SUBSET DOMAIN runs
  PROVE  IsFiniteSet(S) /\ Cardinality(S) \in Nat
  BY FiniteLedger, FS_Subset, FS_CardinalityType

\* The list a page sorts is those runs, each in its place.
LEMMA OldestFirstIs ==
  ASSUME TypeOK, NEW S \in SUBSET DOMAIN runs
  PROVE  /\ OldestFirst(S) \in [1..Cardinality(S) -> S]
         /\ \A m, n \in 1..Cardinality(S) :
              m < n => Earlier(OldestFirst(S)[m], OldestFirst(S)[n])
<1>1. PICK list \in [1..Cardinality(S) -> S] :
        \A m, n \in 1..Cardinality(S) : m < n => <<list[m], list[n]>> \in EarlierPairs
  <2>1. IsFiniteSet(S)
    BY SomeRuns
  <2>2. /\ \A x, y, z \in S : <<x, y>> \in EarlierPairs /\ <<y, z>> \in EarlierPairs
                                => <<x, z>> \in EarlierPairs
        /\ \A x \in S : <<x, x>> \notin EarlierPairs
        /\ \A x, y \in S : x = y \/ <<x, y>> \in EarlierPairs \/ <<y, x>> \in EarlierPairs
    BY EarlierOrder
  <2> QED
    BY <2>1, <2>2, InOrder
<1>2. \A m, n \in DOMAIN list : m < n => Earlier(list[m], list[n])
  BY <1>1 DEF EarlierPairs
<1> DEFINE Good(l) == \A m, n \in DOMAIN l : m < n => Earlier(l[m], l[n])
<1>3. \E l \in [1..Cardinality(S) -> S] : Good(l)
  BY <1>2
<1>4. OldestFirst(S) = CHOOSE l \in [1..Cardinality(S) -> S] : Good(l)
  BY DEF OldestFirst
<1> HIDE DEF Good
<1>5. OldestFirst(S) \in [1..Cardinality(S) -> S] /\ Good(OldestFirst(S))
  BY <1>3, <1>4
<1> QED
  BY <1>5 DEF Good

\* Every rupee "kept" on every page, and every verdict in the win rate, comes
\* from a filed reply a person said yes to, for any ledger.
LEMMA GoalIsAShare ==
  ASSUME NEW won \in Nat, NEW all \in Nat, won <= all, all # 0, (100 * won) \div all = 100
  PROVE  won = all
  OBVIOUS

THEOREM KeptWasSaidYesHolds == Spec => []KeptWasSaidYes
<1>1. TypeOK /\ GateTellsState => KeptWasSaidYes
  <2> SUFFICES ASSUME TypeOK, GateTellsState PROVE KeptWasSaidYes
    OBVIOUS
  <2>1. \A i \in DOMAIN runs :
          Filed(runs[i]) => SaidYes(runs[i]) /\ runs[i].gate \in Answers
    BY StampOf
  <2>2. \A i \in DOMAIN runs : Won(i) => HasOutcome(i) /\ Filed(runs[i])
    BY DEF Won, HasOutcome, Filed
  <2>3. Recovered = Influenced
    BY <2>1, <2>2 DEF Recovered, Influenced
  <2>4. Recovered = {i \in ActivityShown("resolved") : LedgerRow(i).verdict = "kept"}
    BY DEF Recovered, ActivityShown, InState, LedgerRow, Won, HasOutcome
  <2>5. Recovered = UNION {JourneyPage(o).kept : o \in Cases}
    <3>1. \A o : JourneyPage(o).kept = {i \in CaseOf(o) : Won(i)}
      BY DEF JourneyPage
    <3>2. \A i \in DOMAIN runs : i \in CaseOf(runs[i].dispute.order)
                                  /\ runs[i].dispute.order \in Cases
      BY DEF CaseOf, Cases
    <3>3. \A o : CaseOf(o) \subseteq DOMAIN runs
      BY DEF CaseOf
    <3> QED
      BY <3>1, <3>2, <3>3 DEF Recovered
  <2>6. ASSUME NEW n \in DOMAIN ImpactRows, ImpactRows[n].won
        PROVE  ImpactRows[n].gate \in {"approve", "edit"}
    <3> DEFINE sorted == OldestFirst(DOMAIN runs)
    <3>1. sorted \in [1..Cardinality(DOMAIN runs) -> DOMAIN runs]
      BY OldestFirstIs
    <3> HIDE DEF sorted
    <3>2. ImpactRows = [m \in DOMAIN sorted |->
                          [state |-> runs[sorted[m]].state, gate |-> runs[sorted[m]].gate,
                           won |-> Won(sorted[m])]]
      BY DEF ImpactRows, sorted
    <3>3. n \in DOMAIN sorted
      BY <2>6, <3>2
    <3>4. sorted[n] \in DOMAIN runs
      BY <3>1, <3>3
    <3>5. ImpactRows[n].gate = runs[sorted[n]].gate /\ Won(sorted[n])
      BY <2>6, <3>2, <3>3
    <3> QED
      BY <2>1, <2>2, <3>4, <3>5 DEF SaidYes
  <2>7. Outcomes \subseteq JobsDone \cap GatedByYou
    BY <2>1 DEF Outcomes, JobsDone, GatedByYou, InState, HasOutcome, Filed
  <2>8. ASSUME GoalNow = 100 PROVE Outcomes \subseteq Influenced
    <3>1. Recovered \in SUBSET Outcomes /\ Outcomes \in SUBSET DOMAIN runs
      BY DEF Recovered, Outcomes, Won
    <3>2. /\ IsFiniteSet(Outcomes) /\ Cardinality(Outcomes) \in Nat
          /\ Cardinality(Recovered) \in Nat
      BY <3>1, SomeRuns
    <3>3. Outcomes # {}
      BY <2>8 DEF GoalNow
    <3>4. Cardinality(Outcomes) # 0
      BY <3>2, <3>3, FS_EmptySet
    <3>5. Cardinality(Recovered) <= Cardinality(Outcomes)
      BY <3>1, <3>2, FS_Subset
    <3>6. (100 * Cardinality(Recovered)) \div Cardinality(Outcomes) = 100
      BY <2>8, <3>3 DEF GoalNow
    <3>7. Cardinality(Recovered) = Cardinality(Outcomes)
      BY <3>2, <3>4, <3>5, <3>6, GoalIsAShare, Zenon
    <3>8. Recovered = Outcomes
      BY <3>1, <3>2, <3>7, FS_Subset
    <3> QED
      BY <2>3, <3>8
  <2>9. JobsDone \subseteq BriefHandled
    BY DEF JobsDone, BriefHandled, InState
  <2>10. \A material \in SUBSET {i \in DOMAIN runs : runs[i].gate = "edit"} :
           JobsDone \subseteq Used(material) \cup Corrected(material)
    <3>1. \A i \in JobsDone : i \in DecisionLines /\ SaidYes(runs[i])
      BY <2>1 DEF JobsDone, InState, DecisionLines, Filed, Answers, NotStarted
    <3> QED
      BY <3>1 DEF Used, Corrected
  <2> QED
    BY <2>3, <2>4, <2>5, <2>6, <2>7, <2>8, <2>9, <2>10 DEF KeptWasSaidYes
<1> QED
  BY <1>1, PolicyTypes, GateTells, PTL

-----------------------------------------------------------------------------
(* From Home to the reply.                                                 *)

\* What the questions of the way come to in the chat.
LEMMA KeywordsSay ==
  /\ KeywordRoute(Phrases["approval"]) = "queue"
  /\ KeywordRoute(Phrases["sayYes"]) = "approve"
<1>1. Phrases["approval"] = {"my approval"} /\ Phrases["sayYes"] = {"say yes to"}
  BY DEF Phrases
<1> DEFINE Hears(says) == {i \in DOMAIN Tools : Tools[i].hears \cap says # {}}
<1>2. DOMAIN Tools = 1..8
  BY DEF Tools
<1>3. /\ Tools[1].hears = {"would have sent"} /\ Tools[2].hears = {"a person"}
      /\ Tools[3].hears = {"say yes to"} /\ Tools[4].hears = {"dismiss"}
      /\ Tools[5].hears = {"my approval"} /\ Tools[6].hears = {"metric"}
      /\ Tools[7].hears = {"proof"} /\ Tools[8].hears = {"list", "never arrived"}
  BY DEF Tools
<1>4. Tools[3].tool = "approve" /\ Tools[5].tool = "queue"
  BY DEF Tools
<1>5. Hears({"my approval"}) = {5} /\ Hears({"say yes to"}) = {3}
  <2>2. ASSUME NEW i \in 1..8
        PROVE  /\ "my approval" \in Tools[i].hears => i = 5
               /\ "say yes to" \in Tools[i].hears => i = 3
    <3>1. i = 1 \/ i = 2 \/ i = 3 \/ i = 4 \/ i = 5 \/ i = 6 \/ i = 7 \/ i = 8
      OBVIOUS
    <3>2. /\ "my approval" \notin Tools[1].hears /\ "my approval" \notin Tools[2].hears
          /\ "my approval" \notin Tools[3].hears /\ "my approval" \notin Tools[4].hears
          /\ "my approval" \notin Tools[6].hears /\ "my approval" \notin Tools[7].hears
          /\ "my approval" \notin Tools[8].hears
          /\ "say yes to" \notin Tools[1].hears /\ "say yes to" \notin Tools[2].hears
          /\ "say yes to" \notin Tools[4].hears /\ "say yes to" \notin Tools[5].hears
          /\ "say yes to" \notin Tools[6].hears /\ "say yes to" \notin Tools[7].hears
          /\ "say yes to" \notin Tools[8].hears
      BY <1>3, Zenon
    <3> QED
      BY <3>1, <3>2, Zenon
  <2>3. 3 \in DOMAIN Tools /\ 5 \in DOMAIN Tools
    BY <1>2
  <2>4. \A i \in DOMAIN Tools : /\ Tools[i].hears \cap {"my approval"} # {} => i = 5
                                /\ Tools[i].hears \cap {"say yes to"} # {} => i = 3
    BY <1>2, <2>2
  <2>5. /\ Tools[5].hears \cap {"my approval"} # {}
        /\ Tools[3].hears \cap {"say yes to"} # {}
    BY <1>3
  <2>6. Hears({"my approval"}) = {5}
    BY <2>3, <2>4, <2>5, Zenon
  <2>7. Hears({"say yes to"}) = {3}
    BY <2>3, <2>4, <2>5, Zenon
  <2> QED
    BY <2>6, <2>7
<1>6. Min({5}) = 5 /\ Min({3}) = 3
  BY DEF Min
<1> HIDE DEF Hears
<1>7. \A says : Hears(says) # {} => KeywordRoute(says) = Tools[Min(Hears(says))].tool
  BY DEF KeywordRoute, Hears
<1>8. KeywordRoute({"my approval"}) = "queue" /\ KeywordRoute({"say yes to"}) = "approve"
  BY <1>4, <1>5, <1>6, <1>7
<1> QED
  BY <1>1, <1>8

\* No guard objects to "What needs my approval?", no job is built for it, and
\* no open question of the day takes it.
LEMMA ApprovalIsAnswered ==
  /\ "queue" \in Replies(Phrases["approval"])
  /\ "sayYes" \in Cues(Phrases["approval"])
<1> DEFINE says == Phrases["approval"]
<1>1. says = {"my approval"}
  BY DEF Phrases
<1>2. Objections(says) = {}
  <2>1. ~MoneyAsked(says)
    BY <1>1 DEF MoneyAsked
  <2>2. DOMAIN Guards(says) = 1..9
    BY DEF Guards
  <2>3. \A i \in 1..9 : ~Guards(says)[i].objects
    <3> HIDE DEF says
    <3>1. /\ ~Guards(says)[1].objects /\ ~Guards(says)[2].objects
          /\ ~Guards(says)[3].objects /\ ~Guards(says)[4].objects
          /\ ~Guards(says)[5].objects /\ ~Guards(says)[6].objects
          /\ ~Guards(says)[7].objects /\ ~Guards(says)[8].objects
          /\ ~Guards(says)[9].objects
      BY <1>1, <2>1 DEF Guards
    <3> QED
      BY <3>1
  <2> QED
    BY <2>2, <2>3 DEF Objections
<1>3. "build" \notin says /\ StateTopic(says) = "none"
  BY <1>1 DEF StateTopic
<1>4. KeywordRoute(says) = "queue"
  BY KeywordsSay
<1> HIDE DEF says
<1>5. "queue" \in Replies(says)
  BY <1>2, <1>3, <1>4 DEF Replies, Ask
<1>6. "queue" \in DOMAIN CuesFor /\ "sayYes" \in CuesFor["queue"]
  BY DEF CuesFor
<1>7. "sayYes" \in Cues(says)
  BY <1>2, <1>5, <1>6 DEF Cues
<1> QED
  BY <1>5, <1>7 DEF says

\* Approvals come first among the chips of the day.
LEMMA FirstUrgent ==
  ASSUME NEW waiting \in BOOLEAN, NEW handed \in BOOLEAN, NEW settled \in BOOLEAN
  PROVE  /\ DOMAIN UrgentFirst(waiting, handed, settled) = 1..6
         /\ UrgentFirst(waiting, handed, settled)[1] = [ask |-> "approval", now |-> waiting]
  BY DEF UrgentFirst

\* While something waits, Home asks about it first.
LEMMA HomeAsks ==
  ASSUME Waiting # {}, NEW posts PROVE "approval" \in HomeChips(posts)
<1> DEFINE urgent == UrgentFirst(Waiting # {}, posts # {}, InState({"resolved"}) # {})
<1>1. PICK handed \in BOOLEAN, settled \in BOOLEAN :
        urgent = UrgentFirst(TRUE, handed, settled)
  BY Zenon
<1> HIDE DEF urgent
<1>2. DOMAIN urgent = 1..6 /\ urgent[1] = [ask |-> "approval", now |-> TRUE]
  BY <1>1, FirstUrgent, Zenon
<1>3. DOMAIN urgent = 1..6 /\ urgent[1].now /\ urgent[1].ask = "approval"
  BY <1>2
<1>4. 1 \in Due(urgent) /\ Due(urgent) \subseteq 1..6
  BY <1>3 DEF Due
<1>5. {k \in Due(urgent) : k < 1} = {}
  BY <1>4
<1>6. Cardinality({k \in Due(urgent) : k < 1}) < 4
  BY <1>5, FS_EmptySet
<1>7. "approval" \in Briefing(urgent)
  BY <1>3, <1>4, <1>6 DEF Briefing
<1> QED
  BY <1>7 DEF HomeChips, urgent

\* Some waiting reply is the oldest, and some is the newest.
LEMMA FirstAndNewest ==
  ASSUME TypeOK, Waiting # {}
  PROVE  FirstWaiting(Reasons) # {} /\ NewestThree # {}
<1>1. Waiting \in SUBSET DOMAIN runs /\ IsFiniteSet(Waiting)
  BY SomeRuns DEF Waiting, InState
<1>2. FirstWaiting(Reasons) # {}
  <2>1. PICK x \in Waiting : \A y \in Waiting : <<y, x>> \notin EarlierPairs
    <3>1. /\ \A a, b, c \in Waiting : <<a, b>> \in EarlierPairs /\ <<b, c>> \in EarlierPairs
                                        => <<a, c>> \in EarlierPairs
          /\ \A a \in Waiting : <<a, a>> \notin EarlierPairs
      BY <1>1, EarlierOrder
    <3> QED
      BY <1>1, <3>1, LeastOne
  <2>2. \A y \in Waiting \ {x} : Earlier(x, y)
    BY <1>1, <2>1, EarlierOrder DEF EarlierPairs
  <2>3. runs[x].dispute.reason \in Reasons
    BY <1>1, Indices DEF Row, Dispute
  <2> QED
    BY <2>2, <2>3 DEF FirstWaiting
<1>3. NewestThree # {}
  <2>1. PICK x \in Waiting : \A y \in Waiting : <<y, x>> \notin NewerPairs
    <3>1. /\ \A a, b, c \in Waiting : <<a, b>> \in NewerPairs /\ <<b, c>> \in NewerPairs
                                        => <<a, c>> \in NewerPairs
          /\ \A a \in Waiting : <<a, a>> \notin NewerPairs
      BY <1>1, NewerOrder
    <3> QED
      BY <1>1, <3>1, LeastOne
  <2>2. {j \in Waiting \ {x} : Newer(j, x)} = {}
    BY <1>1, <2>1 DEF NewerPairs
  <2>3. Cardinality({j \in Waiting \ {x} : Newer(j, x)}) < 3
    BY <2>2, FS_EmptySet
  <2> QED
    BY <2>3 DEF NewestThree
<1> QED
  BY <1>2, <1>3

\* While a reply waits, Home leads to it when keywords route: for any ledger,
\* whatever the review channel was told.
THEOREM HomeLeadsToTheReplyHolds == Spec => []HomeLeadsToTheReply
<1>1. TypeOK => HomeLeadsToTheReply
  <2> SUFFICES ASSUME TypeOK, Waiting # {}, NEW posts \in SUBSET WithAPerson
               PROVE  \E question \in HomeChips(posts) :
                        LET says == Phrases[question]
                            tool == KeywordRoute(says)
                            shown == TargetRun(tool, Reasons)
                        IN /\ tool \in Replies(says)
                           /\ shown # {} /\ \A i \in shown : i \in WorkProductOffers(i)
                           /\ Cardinality(ToolShows(tool, Reasons)) = RailPending
                           /\ RailPending = Brief.waiting /\ RailPending = Headline.waiting
                           /\ AgentNeedsYou /\ NewestThree # {}
                           /\ \E cue \in Cues(says) :
                                TargetRun(KeywordRoute(Phrases[cue]), Reasons) = shown
    BY DEF HomeLeadsToTheReply
  <2> DEFINE says == Phrases["approval"]
  <2>1. "approval" \in HomeChips(posts)
    BY HomeAsks
  <2>2. KeywordRoute(says) = "queue" /\ "queue" \in Replies(says)
    BY KeywordsSay, ApprovalIsAnswered
  <2>3. TargetRun("queue", Reasons) = FirstWaiting(Reasons)
        /\ TargetRun("approve", Reasons) = FirstWaiting(Reasons)
    BY DEF TargetRun
  <2>4. FirstWaiting(Reasons) # {} /\ NewestThree # {}
    BY FirstAndNewest
  <2>5. \A i \in FirstWaiting(Reasons) : i \in WorkProductOffers(i)
    BY DEF FirstWaiting, WorkProductOffers
  <2>6. Cardinality(ToolShows("queue", Reasons)) = RailPending
    BY DEF ToolShows, RailPending
  <2>7. RailPending = Brief.waiting /\ RailPending = Headline.waiting /\ AgentNeedsYou
    BY DEF RailPending, Brief, Headline, AgentNeedsYou
  <2>8. "sayYes" \in Cues(says) /\ KeywordRoute(Phrases["sayYes"]) = "approve"
    BY KeywordsSay, ApprovalIsAnswered
  <2> HIDE DEF says
  <2>9. \E cue \in Cues(says) :
          TargetRun(KeywordRoute(Phrases[cue]), Reasons) = FirstWaiting(Reasons)
    BY <2>3, <2>8
  <2> QED
    BY <2>1, <2>2, <2>3, <2>4, <2>5, <2>6, <2>7, <2>9 DEF says
<1> QED
  BY <1>1, PolicyTypes, PTL

=============================================================================
