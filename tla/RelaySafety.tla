---------------------------- MODULE RelaySafety ----------------------------
(***************************************************************************)
(* Safety of Relay, proved from the types.  Through every race, fault and  *)
(* restart: nothing is filed unasked, the stamp on the gate tells the      *)
(* state, a run has one card, the table trails memory, nothing fails in    *)
(* silence, a life of the process files a response once, a dispute has two *)
(* runs at most.  While the process lives: what is filed is what was       *)
(* decided, one dispute has one card, and Relay implements RunPromise.     *)
(***************************************************************************)
EXTENDS RelayTypes

-----------------------------------------------------------------------------
(* Nothing is filed unasked.                                               *)

\* A handler on its way to the CRM carries words someone asked for.
AskedInv ==
  /\ NothingFiledUnasked
  /\ hpc \in FilingPoints => AskedFor(hrun, harg)

\* One more text on an order is the last of the run's texts.
LEMMA OneMoreText ==
  ASSUME TypeInv, NEW r \in RunIds, NEW text \in Texts,
         filed' = [filed EXCEPT ![r] = Append(@, text)]
  PROVE  \A q \in RunIds : \A i \in DOMAIN filed'[q] :
           \/ i \in DOMAIN filed[q] /\ filed'[q][i] = filed[q][i]
           \/ q = r /\ filed'[q][i] = text
<1>0. filed \in [RunIds -> Seq(Texts)]
  BY DEF TypeInv, TypeOK, PipelineTypeOK
<1>1. filed[r] \in Seq(Texts)
  BY <1>0
<1>2. /\ DOMAIN filed[r] = 1..Len(filed[r]) /\ Len(filed[r]) \in Nat
      /\ DOMAIN Append(filed[r], text) = 1..(Len(filed[r]) + 1)
      /\ Append(filed[r], text)[Len(filed[r]) + 1] = text
      /\ \A i \in 1..Len(filed[r]) : Append(filed[r], text)[i] = filed[r][i]
  BY <1>1
<1>3. ASSUME NEW i \in DOMAIN Append(filed[r], text)
      PROVE  \/ i \in DOMAIN filed[r] /\ Append(filed[r], text)[i] = filed[r][i]
             \/ Append(filed[r], text)[i] = text
  BY <1>2
<1>4. filed'[r] = Append(filed[r], text)
  BY <1>0
<1>5. \A q \in RunIds : q # r => filed'[q] = filed[q]
  BY <1>0
<1> QED
  BY <1>3, <1>4, <1>5

LEMMA AskedInit == Init => AskedInv
  BY DEF Init, PipelineInit, AskedInv, NothingFiledUnasked, FilingPoints

LEMMA AskedStarts ==
  ASSUME TypeInv, AskedInv, Starts
  PROVE  AskedInv'
<1> USE DEF AskedInv, NothingFiledUnasked, AskedFor, FilingPoints
<1>1. ASSUME NEW k \in Keys, Deliver(k) PROVE AskedInv'
  BY <1>1 DEF Deliver, Begin, worldVars
<1>2. ASSUME NEW r \in RunIds, Approve(r) \/ Edit(r) \/ Reject(r) PROVE AskedInv'
  <2>1. PICK action \in Answers : asked' = [asked EXCEPT ![r] = @ \cup {action}]
    BY <1>2 DEF Approve, Edit, Reject, Answer, Answers
  <2>2. /\ filed' = filed
        /\ hpc' \in FilingPoints =>
             /\ hrun' = r
             /\ \E a \in asked'[r] \cap DOMAIN DecisionText : harg' = DecisionText[a]
    BY <1>2 DEF Approve, Edit, Reject, Answer, Begin, TypeInv, TypeOK,
                PipelineTypeOK, DecisionText
  <2>3. \A q \in RunIds : asked[q] \subseteq asked'[q]
    BY <2>1 DEF TypeInv, TypeOK, PipelineTypeOK
  <2> QED
    BY <2>2, <2>3
<1>3. ASSUME NEW r \in RunIds, RecordResolution(r) PROVE AskedInv'
  BY <1>3 DEF RecordResolution, Begin, handlerVars, worldVars
<1> QED
  BY <1>1, <1>2, <1>3 DEF Starts

LEMMA AskedContinues ==
  ASSUME TypeInv, AskedInv, Continues
  PROVE  AskedInv'
<1> USE DEF AskedInv, NothingFiledUnasked, AskedFor, FilingPoints
<1>1. CASE FileNote \/ PortLoses
  <2>1. /\ asked' = asked
        /\ hpc' \in FilingPoints => hpc \in FilingPoints /\ hrun' = hrun /\ harg' = harg
    BY <1>1 DEF FileNote, PortLoses, At, Goto, Raise, Finish
  <2>2. CASE filed' = filed
    BY <2>1, <2>2
  <2>3. CASE filed' # filed
    <3>1. hpc = "note" /\ filed' = [filed EXCEPT ![hrun] = Append(@, harg)]
      BY <1>1, <2>3 DEF FileNote, PortLoses, At
    <3>2. hrun \in RunIds /\ harg \in Texts
      BY <3>1 DEF TypeInv, HandlerOK
    <3> QED
      BY <2>1, <3>1, <3>2, OneMoreText
  <2> QED
    BY <2>2, <2>3
<1>2. CASE Confirm \/ PassSafety \/ Draft \/ PassChecks \/ FailChecks \/ ModelDies
           \/ PostCard \/ PostEscalation
  BY <1>2 DEF Confirm, PassSafety, Draft, PassChecks, FailChecks, ModelDies,
              PostCard, PostEscalation, Transition, EscalateWith, Goto, Raise,
              Finish, worldVars
<1>3. CASE Suppress \/ Surface \/ Fail \/ Rejected \/ Settle \/ Resolve \/ ModelRaises
           \/ PortRefuses
  BY <1>3 DEF Suppress, Surface, Fail, Rejected, Settle, Resolve, ModelRaises,
              PortRefuses, TransitionAndSave, Raise, Finish, worldVars
<1>4. CASE Approved \/ Diff \/ Edited \/ Act
  BY <1>4 DEF Approved, Diff, Edited, Act, Transition, At, Goto, Raise, Finish,
              worldVars
<1> QED
  BY <1>1, <1>2, <1>3, <1>4 DEF Continues

LEMMA AskedStep == TypeInv /\ AskedInv /\ [Next]_vars => AskedInv'
<1> SUFFICES ASSUME TypeInv, AskedInv, [Next]_vars PROVE AskedInv'
  OBVIOUS
<1>1. CASE HandlerStarts
  BY <1>1, AskedStarts DEF HandlerStarts
<1>2. CASE HandlerContinues
  BY <1>2, AskedContinues DEF HandlerContinues
<1>3. CASE SweepStarts \/ SweepContinues
  BY <1>3 DEF SweepStarts, StartSweep, SweepContinues, Sweeps, VisitWorking,
              VisitWaiting, VisitRest, SweepPosts, SweepPostFails, CloseTimedOut,
              CloseStalled, EndSweep, handlerVars, worldVars, AskedInv,
              NothingFiledUnasked, AskedFor
<1>4. CASE Crash
  BY <1>4 DEF Crash, Finish, worldVars, AskedInv, NothingFiledUnasked, AskedFor,
              FilingPoints
<1>5. CASE TimePasses \/ UNCHANGED vars
  BY <1>5 DEF TimePasses, GateExpires, vars, handlerVars, worldVars, AskedInv,
              NothingFiledUnasked, AskedFor
<1> QED
  BY <1>1, <1>2, <1>3, <1>4, <1>5 DEF Next

\* Nothing reaches the bank unless a person asked for those very words on that
\* very run: no failure, time-out, sweep or restart files on its own, and no
\* path files the draft of an edited run (_act).
THEOREM NothingFiledUnaskedHolds == Spec => []NothingFiledUnasked
<1>1. AskedInv => NothingFiledUnasked
  BY DEF AskedInv
<1>2. Spec => []AskedInv
  BY AskedInit, AskedStep, AlwaysTypeInv, PTL DEF Spec
<1> QED
  BY <1>1, <1>2, PTL

-----------------------------------------------------------------------------
(* The stamp tells the state.                                              *)

\* While a decision is carried out, its stamp is on the run.
StampInv ==
  /\ GateTellsTheState
  /\ hpc = "approving" => mem[hrun].gate = "approve"
  /\ hpc \in {"diff", "editing"} => mem[hrun].gate = "edit"
  /\ hpc = "rejecting" => mem[hrun].gate = "reject"

\* A row keeps the story when a legal edge is taken with the right stamp ...
LEMMA MoveKeepsStory ==
  ASSUME NEW row \in Row, GateOf(row), NEW to \in RunState, to \in Legal[row.state],
         to = "approved" => row.gate = "approve",
         to = "edited" => row.gate = "edit",
         to = "rejected" => row.gate = "reject",
         to # "timed_out"
  PROVE  GateOf([row EXCEPT !.state = to])
  BY DEF GateOf, Legal, RunState, Row

\* ... and the table keeps it when the row is saved.
LEMMA SaveKeepsStory ==
  ASSUME NEW r \in RunIds, db \in [RunIds -> Row], Save(r),
         \A q \in RunIds : GateOf(mem'[q]) /\ GateOf(db[q])
  PROVE  \A q \in RunIds : GateOf(db'[q])
  BY DEF Save

LEMMA StampInit == Init => StampInv
  BY DEF Init, LedgerInit, PipelineInit, StampInv, GateTellsTheState, GateOf, NoRow,
         NewRow

\* A transition of the run a handler or a sweep works on.
LEMMA SetStateKeepsStory ==
  ASSUME TypeInv, GateTellsTheState, NEW r \in RunIds, NEW to \in RunState,
         Moves(r, to), SetState(r, to),
         to = "approved" => mem[r].gate = "approve",
         to = "edited" => mem[r].gate = "edit",
         to = "rejected" => mem[r].gate = "reject",
         to # "timed_out"
  PROVE  /\ \A q \in RunIds : GateOf(mem'[q])
         /\ \A q \in RunIds : mem'[q].gate = mem[q].gate
<1>1. mem \in [RunIds -> Row]
  BY DEF TypeInv, TypeOK, LedgerTypeOK
<1>2. mem' = [mem EXCEPT ![r] = [mem[r] EXCEPT !.state = to]]
  BY DEF SetState
<1>3. GateOf([mem[r] EXCEPT !.state = to])
  BY <1>1, MoveKeepsStory DEF Moves, GateTellsTheState
<1> QED
  BY <1>1, <1>2, <1>3 DEF GateTellsTheState, Row

LEMMA StampStarts ==
  ASSUME TypeInv, StampInv, Starts
  PROVE  StampInv'
<1>0. mem \in [RunIds -> Row] /\ db \in [RunIds -> Row]
  BY DEF TypeInv, TypeOK, LedgerTypeOK
<1>1. ASSUME NEW k \in Keys, Deliver(k) PROVE StampInv'
  <2>1. GateOf(NewRow(k))
    BY DEF GateOf, NewRow
  <2> QED
    BY <1>0, <1>1, <2>1 DEF Deliver, Insert, Begin, StampInv, GateTellsTheState
<1>2. ASSUME NEW r \in RunIds, Approve(r) \/ Edit(r) \/ Reject(r) PROVE StampInv'
  <2>1. PICK action \in Answers, point \in {"approving", "diff", "rejecting"} :
          /\ mem[r].state = "awaiting_gate"
          /\ mem' = [mem EXCEPT ![r].gate = action]
          /\ db' = db
          /\ hpc' = point /\ hrun' = r
          /\ action = "approve" <=> point = "approving"
          /\ action = "edit" <=> point = "diff"
          /\ action = "reject" <=> point = "rejecting"
    BY <1>2 DEF Approve, Edit, Reject, Answer, Stamp, Begin, Answers
  <2>2. \A q \in RunIds : GateOf(mem'[q])
    BY <1>0, <2>1 DEF StampInv, GateTellsTheState, GateOf, Row
  <2> QED
    BY <1>0, <2>1, <2>2 DEF StampInv, GateTellsTheState, Row, Answers
<1>3. ASSUME NEW r \in RunIds, RecordResolution(r) PROVE StampInv'
  BY <1>3 DEF RecordResolution, Begin, handlerVars, StampInv, GateTellsTheState
<1> QED
  BY <1>1, <1>2, <1>3 DEF Starts

LEMMA StampTransition ==
  ASSUME TypeInv, StampInv, hrun \in RunIds,
         NEW to \in RunState, NEW next \in {"draft", "check", "card", "acting", "note"},
         Transition(to, next),
         to = "approved" => mem[hrun].gate = "approve",
         to = "edited" => mem[hrun].gate = "edit",
         to \notin {"rejected", "timed_out"}
  PROVE  StampInv'
<1>1. CASE Moves(hrun, to)
  <2>1. \A q \in RunIds : GateOf(mem'[q])
    BY <1>1, SetStateKeepsStory DEF Transition, StampInv
  <2> QED
    BY <1>1, <2>1 DEF Transition, Goto, StampInv, GateTellsTheState
<1>2. CASE ~Moves(hrun, to)
  BY <1>2 DEF Transition, Raise, Finish, StampInv, GateTellsTheState
<1> QED
  BY <1>1, <1>2

LEMMA StampTransitionAndSave ==
  ASSUME TypeInv, StampInv, hrun \in RunIds, NEW to \in RunState,
         TransitionAndSave(to),
         to = "rejected" => mem[hrun].gate = "reject",
         to \notin {"approved", "edited", "timed_out"}
  PROVE  StampInv'
<1>1. CASE Moves(hrun, to)
  <2>1. \A q \in RunIds : GateOf(mem'[q])
    BY <1>1, SetStateKeepsStory DEF TransitionAndSave, StampInv
  <2>2. \A q \in RunIds : GateOf(db'[q])
    BY <1>1, <2>1, SaveKeepsStory
       DEF TransitionAndSave, StampInv, GateTellsTheState, TypeInv, TypeOK,
           LedgerTypeOK
  <2> QED
    BY <2>1, <2>2 DEF TransitionAndSave, Finish, StampInv, GateTellsTheState
<1>2. CASE ~Moves(hrun, to)
  BY <1>2 DEF TransitionAndSave, Finish, StampInv, GateTellsTheState
<1> QED
  BY <1>1, <1>2

LEMMA StampContinues ==
  ASSUME TypeInv, StampInv, Continues
  PROVE  StampInv'
<1>0. hpc # "idle" => hrun \in RunIds
  BY DEF TypeInv, HandlerOK
<1>1. CASE PassSafety \/ Draft \/ PassChecks \/ Act
  BY <1>0, <1>1, StampTransition DEF PassSafety, Draft, PassChecks, Act, At, RunState
<1>2. CASE Approved \/ Edited
  BY <1>0, <1>2, StampTransition DEF Approved, Edited, At, RunState, StampInv
<1>3. CASE Suppress \/ Surface \/ Fail \/ Settle
  BY <1>0, <1>3, StampTransitionAndSave
     DEF Suppress, Surface, Fail, Settle, At, RunState
<1>4. CASE Rejected
  BY <1>0, <1>4, StampTransitionAndSave DEF Rejected, At, RunState, StampInv
<1>5. CASE Resolve
  <2>1. CASE mem[hrun].state = "acted"
    BY <1>0, <1>5, <2>1, StampTransitionAndSave DEF Resolve, At, RunState
  <2>2. CASE mem[hrun].state # "acted"
    BY <1>5, <2>2 DEF Resolve, Finish, ledgerVars, StampInv, GateTellsTheState
  <2> QED
    BY <2>1, <2>2
<1>6. CASE Confirm \/ FailChecks \/ ModelDies \/ PostCard \/ PostEscalation
           \/ Diff \/ ModelRaises \/ FileNote \/ PortRefuses \/ PortLoses
  BY <1>6 DEF Confirm, FailChecks, ModelDies, PostCard, PostEscalation, Diff,
              ModelRaises, FileNote, PortRefuses, PortLoses, EscalateWith, At, Goto,
              Raise, Finish, ledgerVars, StampInv, GateTellsTheState
<1> QED
  BY <1>1, <1>2, <1>3, <1>4, <1>5, <1>6 DEF Continues

\* A sweep stamps an unstamped run only, so no decision in progress changes.
LEMMA StampSweeps ==
  ASSUME TypeInv, StampInv, Sweeps, UNCHANGED handlerVars
  PROVE  StampInv'
<1>0. /\ mem \in [RunIds -> Row] /\ db \in [RunIds -> Row]
      /\ hpc # "idle" => hrun \in RunIds
  BY DEF TypeInv, TypeOK, LedgerTypeOK, HandlerOK
<1>1. CASE VisitWorking \/ VisitWaiting \/ SweepPosts \/ SweepPostFails \/ EndSweep
  BY <1>1 DEF VisitWorking, VisitWaiting, SweepPosts, SweepPostFails, EndSweep,
              ledgerVars, handlerVars, StampInv, GateTellsTheState
<1>2. ASSUME NEW to \in {"resolved", "failed"}, NEW r \in RunIds,
             Moves(r, to), SetState(r, to), Save(r)
      PROVE  StampInv'
  <2>1. /\ \A q \in RunIds : GateOf(mem'[q])
        /\ \A q \in RunIds : mem'[q].gate = mem[q].gate
    BY <1>2, SetStateKeepsStory DEF RunState, StampInv
  <2>2. \A q \in RunIds : GateOf(db'[q])
    BY <1>0, <1>2, <2>1, SaveKeepsStory DEF StampInv, GateTellsTheState
  <2> QED
    BY <1>0, <2>1, <2>2 DEF handlerVars, StampInv, GateTellsTheState
<1>3. CASE VisitRest
  <2>0. scur \in RunIds
    <3>1. Visiting
      BY <1>3 DEF VisitRest
    <3> QED
      BY <3>1, MaxRunsAssumption
         DEF Visiting, TypeInv, TypeOK, SupervisorTypeOK, RunIds
  <2>1. CASE mem[scur].state = "acted" /\ scur \in outcome
    BY <1>2, <1>3, <2>0, <2>1 DEF VisitRest, Moves, Legal, RunState
  <2>2. CASE ~(mem[scur].state = "acted" /\ scur \in outcome)
    BY <1>3, <2>2 DEF VisitRest, handlerVars, StampInv, GateTellsTheState
  <2> QED
    BY <2>1, <2>2
<1>4. CASE CloseTimedOut
  <2>0. scur \in RunIds
    BY <1>4 DEF CloseTimedOut, TypeInv, SweepOK
  <2>1. CASE mem[scur].gate = "none"
    <3>1. /\ \A q \in RunIds : GateOf(mem'[q])
          /\ \A q \in RunIds : mem[q].gate # "none" => mem'[q].gate = mem[q].gate
      BY <1>0, <1>4, <2>0, <2>1
         DEF CloseTimedOut, StampInv, GateTellsTheState, GateOf, Row
    <3>2. \A q \in RunIds : GateOf(db'[q])
      BY <1>0, <1>4, <2>0, <2>1, <3>1, SaveKeepsStory
         DEF CloseTimedOut, StampInv, GateTellsTheState
    <3> QED
      BY <1>0, <3>1, <3>2 DEF handlerVars, StampInv, GateTellsTheState
  <2>2. CASE mem[scur].gate # "none"
    BY <1>4, <2>2 DEF CloseTimedOut, handlerVars, StampInv, GateTellsTheState
  <2> QED
    BY <2>1, <2>2
<1>5. CASE CloseStalled
  <2>0. scur \in RunIds
    BY <1>5 DEF CloseStalled, TypeInv, SweepOK
  <2>1. CASE Moves(scur, "failed")
    BY <1>2, <1>5, <2>0, <2>1 DEF CloseStalled
  <2>2. CASE ~Moves(scur, "failed")
    BY <1>5, <2>2 DEF CloseStalled, handlerVars, StampInv, GateTellsTheState
  <2> QED
    BY <2>1, <2>2
<1> QED
  BY <1>1, <1>3, <1>4, <1>5 DEF Sweeps

LEMMA StampStep == TypeInv /\ StampInv /\ [Next]_vars => StampInv'
<1> SUFFICES ASSUME TypeInv, StampInv, [Next]_vars PROVE StampInv'
  OBVIOUS
<1>1. CASE HandlerStarts
  BY <1>1, StampStarts DEF HandlerStarts
<1>2. CASE HandlerContinues
  BY <1>2, StampContinues DEF HandlerContinues
<1>3. CASE SweepContinues
  BY <1>3, StampSweeps DEF SweepContinues
<1>4. CASE SweepStarts \/ TimePasses \/ UNCHANGED vars
  BY <1>4 DEF SweepStarts, StartSweep, TimePasses, GateExpires, vars, ledgerVars,
              handlerVars, StampInv, GateTellsTheState
<1>5. CASE Crash
  BY <1>5 DEF Crash, Hydrate, Finish, StampInv, GateTellsTheState
<1> QED
  BY <1>1, <1>2, <1>3, <1>4, <1>5 DEF Next

\* In memory and in the run table, a row's stamp matches its state: nobody's
\* approve ends in a rejected run, and no time-out hides a decision
\* (record_gate, transition, save).
THEOREM GateTellsTheStateHolds == Spec => []GateTellsTheState
<1>1. StampInv => GateTellsTheState
  BY DEF StampInv
<1>2. Spec => []StampInv
  BY StampInit, StampStep, AlwaysTypeInv, PTL DEF Spec
<1> QED
  BY <1>1, <1>2, PTL
-----------------------------------------------------------------------------
(* What every step does to the rows.                                       *)

\* The run a handler, the supervisor or the bank is at.
Working(r) == \/ hpc # "idle" /\ r = hrun
              \/ spc = "close" /\ sarg # "gate_timeout" /\ r = scur
              \/ mem[r].state = "acted"

\* A run fails because its handler escalated it or it was found parked, and
\* waits at the gate because its handler surfaced it.
Cause(r, to) ==
  /\ to = "failed" => \/ hpc = "fail" /\ r = hrun
                      \/ spc = "close" /\ sarg # "gate_timeout" /\ r = scur
  /\ to = "awaiting_gate" => hpc = "surface" /\ r = hrun

DeliverCase == \E k \in Keys : Deliver(k)

MoveCase ==
  \E r \in RunIds, to \in RunState \ {"timed_out"} :
    /\ Working(r) /\ Cause(r, to) /\ Moves(r, to) /\ SetState(r, to)
    /\ to \in DOMAIN Promise!Needs => mem[r].gate = Promise!Needs[to]
    /\ Save(r) \/ db' = db
    /\ UNCHANGED <<byIdem, done, nextId, worldVars>>

AnswerCase ==
  \E r \in RunIds, action \in Answers :
    /\ mem[r].state = "awaiting_gate" /\ mem[r].gate = "none"
    /\ Stamp(r, action)
    /\ UNCHANGED <<db, byIdem, done, nextId, cards, filed, posts>>

ExpireCase ==
  /\ spc = "close" /\ sarg = "gate_timeout" /\ mem[scur].gate = "none"
  /\ mem' = [mem EXCEPT ![scur].gate = "timeout", ![scur].state = "timed_out"]
  /\ Save(scur)
  /\ UNCHANGED <<byIdem, done, nextId, worldVars>>

KeepCase == UNCHANGED <<mem, db, byIdem, nextId>>

LEMMA MoveContinues ==
  ASSUME TypeInv, StampInv, Continues
  PROVE  MoveCase \/ KeepCase
<1>0. hpc # "idle" => hrun \in RunIds
  BY DEF TypeInv, HandlerOK
<1>1. ASSUME NEW to \in RunState \ {"timed_out"}, NEW next, hpc # "idle",
             to \in DOMAIN Promise!Needs => mem[hrun].gate = Promise!Needs[to],
             Cause(hrun, to), Transition(to, next) \/ TransitionAndSave(to)
      PROVE  MoveCase \/ KeepCase
  BY <1>0, <1>1 DEF Transition, TransitionAndSave, RestOfLedger, worldVars, MoveCase,
                    KeepCase, Working
<1>2. CASE PassSafety \/ Draft \/ PassChecks \/ Act \/ Suppress \/ Surface \/ Fail
           \/ Settle
  BY <1>1, <1>2 DEF PassSafety, Draft, PassChecks, Act, Suppress, Surface, Fail,
                    Settle, At, RunState, Promise!Needs, Cause
<1>3. CASE Approved \/ Edited \/ Rejected
  BY <1>1, <1>3 DEF Approved, Edited, Rejected, At, RunState, Promise!Needs, StampInv, Cause
<1>4. CASE Resolve
  BY <1>1, <1>4 DEF Resolve, At, RunState, Promise!Needs, Cause, ledgerVars, KeepCase
<1>5. CASE Confirm \/ FailChecks \/ ModelDies \/ PostCard \/ PostEscalation
           \/ Diff \/ ModelRaises \/ FileNote \/ PortRefuses \/ PortLoses
  BY <1>5 DEF Confirm, FailChecks, ModelDies, PostCard, PostEscalation, Diff,
              ModelRaises, FileNote, PortRefuses, PortLoses, EscalateWith,
              ledgerVars, KeepCase
<1> QED
  BY <1>2, <1>3, <1>4, <1>5 DEF Continues

LEMMA MoveSweeps ==
  ASSUME TypeInv, Sweeps
  PROVE  MoveCase \/ ExpireCase \/ KeepCase
<1>1. CASE VisitWorking \/ VisitWaiting \/ SweepPosts \/ SweepPostFails \/ EndSweep
  BY <1>1 DEF VisitWorking, VisitWaiting, SweepPosts, SweepPostFails, EndSweep,
              ledgerVars, KeepCase
<1>2. CASE VisitRest
  <2>0. scur \in RunIds
    BY <1>2, MaxRunsAssumption
       DEF VisitRest, Visiting, TypeInv, TypeOK, SupervisorTypeOK, RunIds
  <2>1. CASE mem[scur].state = "acted" /\ scur \in outcome
    <3>1. Moves(scur, "resolved") /\ "resolved" \in RunState \ {"timed_out"}
          /\ "resolved" \notin DOMAIN Promise!Needs
      BY <2>1 DEF Moves, Legal, RunState, Promise!Needs
    <3> QED
      BY <1>2, <2>0, <2>1, <3>1
         DEF VisitRest, RestOfLedger, worldVars, MoveCase, Working, Cause
  <2>2. CASE ~(mem[scur].state = "acted" /\ scur \in outcome)
    BY <1>2, <2>2 DEF VisitRest, RestOfLedger, KeepCase
  <2> QED
    BY <2>1, <2>2
<1>3. CASE CloseTimedOut
  BY <1>3 DEF CloseTimedOut, RestOfLedger, worldVars, ExpireCase, KeepCase
<1>4. CASE CloseStalled
  <2>0. scur \in RunIds
    BY <1>4 DEF CloseStalled, TypeInv, SweepOK
  <2>1. "failed" \in RunState \ {"timed_out"} /\ "failed" \notin DOMAIN Promise!Needs
        /\ sarg # "gate_timeout" /\ spc = "close"
    BY <1>4 DEF CloseStalled, StallStates, RunState, Promise!Needs
  <2> QED
    BY <1>4, <2>0, <2>1
       DEF CloseStalled, RestOfLedger, worldVars, MoveCase, KeepCase, Working, Cause
<1> QED
  BY <1>1, <1>2, <1>3, <1>4 DEF Sweeps

\* Every step is one of these: a new row, a move along an edge, an answer, a
\* time-out, a restart, or nothing that a row shows.
LEMMA RowCases ==
  ASSUME TypeInv, StampInv, [Next]_vars
  PROVE  DeliverCase \/ MoveCase \/ AnswerCase \/ ExpireCase \/ KeepCase \/ Crash
<1>1. CASE HandlerStarts
  BY <1>1 DEF HandlerStarts, Starts, DeliverCase, RecordResolution, AnswerCase,
              KeepCase, Approve, Edit, Reject, Answer, RestOfLedger, Answers
<1>2. CASE HandlerContinues
  BY <1>2, MoveContinues DEF HandlerContinues
<1>3. CASE SweepContinues
  BY <1>3, MoveSweeps DEF SweepContinues
<1>4. CASE SweepStarts \/ TimePasses \/ UNCHANGED vars
  BY <1>4 DEF SweepStarts, StartSweep, TimePasses, GateExpires, vars, ledgerVars,
              KeepCase
<1> QED
  BY <1>1, <1>2, <1>3, <1>4 DEF Next

-----------------------------------------------------------------------------
(* Rows, and who works on them.                                            *)

\* An id yet to come has no row and no card, a row that is not there is blank,
\* and nobody works on a run that is not there.
RowsInv ==
  /\ \A r \in RunIds : r >= nextId => mem[r] = NoRow /\ db[r] = NoRow /\ cards[r] = 0
  /\ \A r \in RunIds : /\ mem[r].key = NoKey => mem[r] = NoRow
                       /\ db[r].key = NoKey => db[r] = NoRow
  /\ hpc # "idle" => InMemory(hrun) /\ hrun < nextId
  /\ spc \in {"post", "close"} => InMemory(scur)

LEMMA RowsInit == Init => RowsInv
  BY DEF Init, LedgerInit, PipelineInit, SupervisorInit, RowsInv, NoRow, NewRow

\* A run that is worked on has a row.
LEMMA WorkedHasRow ==
  ASSUME TypeInv, RowsInv, NEW r \in RunIds, Working(r)
  PROVE  InMemory(r) /\ r < nextId
<1>1. InMemory(r)
  BY DEF Working, RowsInv, InMemory, NoRow, NewRow
<1>2. nextId \in Nat /\ r \in Nat
  BY MaxRunsAssumption DEF TypeInv, TypeOK, LedgerTypeOK, RunIds
<1> QED
  BY <1>1, <1>2 DEF RowsInv, InMemory, NoRow, NewRow

\* The part of the invariant that the rows keep.
BlankRows ==
  /\ \A r \in RunIds : r >= nextId => mem[r] = NoRow /\ db[r] = NoRow
  /\ \A r \in RunIds : /\ mem[r].key = NoKey => mem[r] = NoRow
                       /\ db[r].key = NoKey => db[r] = NoRow

LEMMA BlankRowsStep ==
  ASSUME TypeInv, StampInv, RowsInv, [Next]_vars
  PROVE  /\ BlankRows'
         /\ nextId' \in Nat /\ nextId' >= nextId
         /\ Crash \/ \A r \in RunIds : InMemory(r) => InMemory(r)'
<1>0. /\ mem \in [RunIds -> Row] /\ db \in [RunIds -> Row]
      /\ nextId \in Nat /\ \A r \in RunIds : r \in Nat
      /\ spc = "close" => scur \in RunIds
      /\ BlankRows
  <2>1. nextId \in 1..(MaxRuns + 1) /\ BlankRows
    BY DEF TypeInv, TypeOK, LedgerTypeOK, RowsInv, BlankRows
  <2>2. nextId \in Nat /\ \A r \in RunIds : r \in Nat
    BY <2>1, MaxRunsAssumption DEF RunIds
  <2> QED
    BY <2>1, <2>2 DEF TypeInv, TypeOK, LedgerTypeOK, SweepOK
<1>1. CASE DeliverCase
  <2>1. PICK k \in Keys : Deliver(k)
    BY <1>1 DEF DeliverCase
  <2>2. /\ mem' = [mem EXCEPT ![nextId] = NewRow(k)]
        /\ db' = db \/ db' = [db EXCEPT ![nextId] = NewRow(k)]
        /\ nextId' = nextId + 1 /\ NewRow(k).key # NoKey
    BY <2>1, KeysAssumption DEF Deliver, Insert, NewRow
  <2> QED
    BY <1>0, <2>2 DEF BlankRows, InMemory
<1>2. ASSUME NEW r \in RunIds, InMemory(r), r < nextId, nextId' = nextId,
             mem'[r].key = mem[r].key, mem' \in [RunIds -> Row],
             \A q \in RunIds : q # r => mem'[q] = mem[q],
             Save(r) \/ db' = db
      PROVE  BlankRows' /\ \A q \in RunIds : InMemory(q) => InMemory(q)'
  <2>1. db' = db \/ db' = [db EXCEPT ![r] = mem'[r]]
    BY <1>2 DEF Save
  <2> QED
    BY <1>0, <1>2, <2>1 DEF BlankRows, InMemory
<1>3. CASE MoveCase
  <2>1. PICK r \in RunIds, to \in RunState :
          Working(r) /\ SetState(r, to) /\ (Save(r) \/ db' = db) /\ nextId' = nextId
    BY <1>3 DEF MoveCase
  <2>2. mem \in [RunIds -> Row]
    BY <1>0
  <2>3. mem' \in [RunIds -> Row]
    BY <2>1, <2>2, SetStateType
  <2>4. mem'[r].key = mem[r].key /\ \A q \in RunIds : q # r => mem'[q] = mem[q]
    BY <2>1, <2>2 DEF SetState, Row
  <2>5. InMemory(r) /\ r < nextId
    BY <2>1, WorkedHasRow
  <2>6. nextId' \in Nat /\ nextId' >= nextId
    BY <1>0, <2>1
  <2> QED
    BY <1>2, <2>1, <2>3, <2>4, <2>5, <2>6
<1>4. CASE AnswerCase
  <2>1. PICK r \in RunIds, action \in Answers :
          mem[r].state = "awaiting_gate" /\ Stamp(r, action) /\ db' = db /\ nextId' = nextId
    BY <1>4 DEF AnswerCase
  <2>2. InMemory(r) /\ r < nextId
    BY <1>0, <2>1 DEF BlankRows, InMemory, NoRow, NewRow
  <2>3. mem' \in [RunIds -> Row]
    BY <1>0, <2>1 DEF Stamp, Row, GateAction
  <2> QED
    BY <1>0, <1>2, <2>1, <2>2, <2>3 DEF Stamp, Row
<1>5. CASE ExpireCase
  <2>1. scur \in RunIds /\ InMemory(scur) /\ scur < nextId
    BY <1>0, <1>5 DEF ExpireCase, RowsInv, InMemory, NoRow, NewRow
  <2>2. mem' \in [RunIds -> Row]
    <3>1. mem \in [RunIds -> Row]
      BY <1>0
    <3>2. mem' = [mem EXCEPT ![scur] = [mem[scur] EXCEPT !.gate = "timeout",
                                                         !.state = "timed_out"]]
      BY <1>5, <2>1, <3>1 DEF ExpireCase, Row
    <3>3. [mem[scur] EXCEPT !.gate = "timeout", !.state = "timed_out"] \in Row
      BY <2>1, <3>1 DEF Row, GateAction, RunState
    <3> QED
      BY <2>1, <3>1, <3>2, <3>3
  <2> QED
    BY <1>0, <1>2, <1>5, <2>1, <2>2 DEF ExpireCase, Row
<1>6. CASE KeepCase
  BY <1>0, <1>6 DEF KeepCase, BlankRows, InMemory
<1>7. CASE Crash
  BY <1>0, <1>7 DEF Crash, Hydrate, BlankRows
<1> QED
  BY <1>0, <1>1, <1>3, <1>4, <1>5, <1>6, <1>7, RowCases
     DEF MoveCase, AnswerCase, ExpireCase

\* A handler goes on with the run it was at, starts on one that has a row, or
\* ends.
LEMMA HandlerAt ==
  ASSUME TypeInv, StampInv, RowsInv, [Next]_vars
  PROVE  \/ hpc' = "idle"
         \/ hpc # "idle" /\ hrun' = hrun /\ ~Crash
         \/ DeliverCase /\ hrun' = nextId
         \/ hpc = "idle" /\ hrun' \in RunIds /\ InMemory(hrun') /\ ~Crash
<1>1. CASE HandlerStarts
  <2>1. ASSUME NEW k \in Keys, Deliver(k) PROVE DeliverCase /\ hrun' = nextId
    BY <2>1 DEF Deliver, Begin, DeliverCase
  <2>2. ASSUME NEW r \in RunIds, Approve(r) \/ Edit(r) \/ Reject(r)
        PROVE  hpc = "idle" /\ hrun' = r /\ InMemory(r)
    BY <2>2 DEF Approve, Edit, Reject, Answer, Begin, At, RowsInv, InMemory, NoRow, NewRow
  <2>3. ASSUME NEW r \in RunIds, RecordResolution(r)
        PROVE  hpc = "idle" /\ (hpc' = "idle" \/ (hrun' = r /\ InMemory(r)))
    BY <2>3 DEF RecordResolution, Begin, At, handlerVars
  <2>4. ~Crash
    BY <1>1, RelayAssumption DEF HandlerStarts, Crash, TypeInv, TypeOK
  <2> QED
    BY <1>1, <2>1, <2>2, <2>3, <2>4 DEF HandlerStarts, Starts
<1>2. CASE HandlerContinues
  <2>1. ~Crash
    BY <1>2, RelayAssumption DEF HandlerContinues, Crash, TypeInv, TypeOK
  <2>2. hpc' = "idle" \/ hrun' = hrun
    BY <1>2 DEF HandlerContinues, Continues, Confirm, PassSafety, Draft, PassChecks,
         Act, Suppress, Surface, Fail, Settle, Approved, Edited, Rejected, Resolve,
         FailChecks, ModelDies, PostCard, PostEscalation, Diff, ModelRaises, FileNote,
         PortRefuses, PortLoses, EscalateWith, Transition, TransitionAndSave, Goto,
         Raise, Finish
  <2>3. hpc # "idle"
    BY <1>2 DEF HandlerContinues, Continues, Confirm, PassSafety, Draft, PassChecks,
         Act, Suppress, Surface, Fail, Settle, Approved, Edited, Rejected, Resolve,
         FailChecks, ModelDies, PostCard, PostEscalation, Diff, ModelRaises, FileNote,
         PortRefuses, PortLoses, At, SeamAt, CallKind, CallingOut
  <2> QED
    BY <2>1, <2>2, <2>3
<1>3. CASE SweepContinues \/ SweepStarts \/ TimePasses \/ UNCHANGED vars
  BY <1>3, RelayAssumption
     DEF SweepContinues, SweepStarts, TimePasses, GateExpires, handlerVars, vars,
         Crash, TypeInv, TypeOK
<1>4. CASE Crash
  BY <1>4 DEF Crash, Finish
<1> QED
  BY <1>1, <1>2, <1>3, <1>4 DEF Next

\* The supervisor posts about, and closes, a run it found in memory.
LEMMA SweepAt ==
  ASSUME TypeInv, RowsInv, [Next]_vars, spc' \in {"post", "close"}
  PROVE  /\ ~Crash
         /\ \/ spc \in {"post", "close"} /\ scur' = scur /\ sarg' = sarg
            \/ /\ spc = "visit" /\ spc' = "post" /\ scur' = scur /\ scur \in RunIds
               /\ InMemory(scur) /\ UNCHANGED <<mem, hpc, hrun>>
               /\ sarg' = "gate_timeout" => mem[scur].state = "awaiting_gate"
<1>1. CASE SweepContinues
  <2>1. CASE VisitWorking \/ VisitWaiting
    <3>1. scur \in RunIds
      BY <2>1, MaxRunsAssumption
         DEF VisitWorking, VisitWaiting, Visiting, TypeInv, TypeOK, SupervisorTypeOK,
             RunIds
    <3>2. InMemory(scur)
      BY <2>1, <3>1 DEF VisitWorking, VisitWaiting, Visiting, NextRun, RowsInv, InMemory,
                        NoRow, NewRow
    <3>3. spc = "visit" /\ spc' = "post" /\ scur' = scur
          /\ (sarg' = "gate_timeout" => mem[scur].state = "awaiting_gate")
      BY <2>1 DEF VisitWorking, VisitWaiting, Visiting, NextRun, ToPost, StallStates
    <3> QED
      BY <1>1, <2>1, <3>1, <3>2, <3>3, RelayAssumption
         DEF SweepContinues, VisitWorking, VisitWaiting, ledgerVars, handlerVars, Crash,
             TypeInv, TypeOK
  <2>2. CASE VisitRest \/ SweepPosts \/ SweepPostFails \/ CloseTimedOut \/ CloseStalled
             \/ EndSweep
    BY <1>1, <2>2, RelayAssumption
       DEF SweepContinues, VisitRest, SweepPosts, SweepPostFails, CloseTimedOut,
           CloseStalled, EndSweep, Visiting, NextRun, Abort, Finished, CloseNext, Crash,
           TypeInv, TypeOK
  <2> QED
    BY <1>1, <2>1, <2>2 DEF SweepContinues, Sweeps
<1>2. CASE HandlerStarts \/ HandlerContinues \/ TimePasses \/ UNCHANGED vars
  BY <1>2, RelayAssumption
     DEF HandlerStarts, HandlerContinues, TimePasses, GateExpires, sweepVars, vars,
         Crash, TypeInv, TypeOK
<1>3. CASE SweepStarts \/ Crash
  BY <1>3 DEF SweepStarts, StartSweep, Crash, Finished
<1> QED
  BY <1>1, <1>2, <1>3 DEF Next

-----------------------------------------------------------------------------
(* One card per run.                                                       *)

\* A run on its way to its card has none yet.
CardPoints == {"confirm", "safety", "draft", "check", "card"}

CardInv ==
  /\ RowsInv
  /\ CardOncePerRun
  /\ hpc \in CardPoints => cards[hrun] = 0

LEMMA CardInit == Init => CardInv
  BY RowsInit DEF Init, PipelineInit, CardInv, CardOncePerRun, CardPoints

\* A card is added by a handler that posts it.
LEMMA CardAdded ==
  ASSUME TypeInv, [Next]_vars
  PROVE  \/ cards' = cards
         \/ /\ hpc = "card" /\ cards' = [cards EXCEPT ![hrun] = @ + 1]
            /\ hpc' \notin CardPoints /\ nextId' = nextId
<1>1. CASE HandlerStarts
  BY <1>1 DEF HandlerStarts, Starts, Deliver, Approve, Edit, Reject, Answer,
              RecordResolution, worldVars
<1>2. CASE HandlerContinues
  <2>1. CASE PostCard \/ PortLoses
    BY <2>1 DEF PostCard, PortLoses, At, Goto, Raise, Finish, ledgerVars, CardPoints
  <2>2. CASE ~(PostCard \/ PortLoses)
    BY <1>2, <2>2 DEF HandlerContinues, Continues, Confirm, PassSafety, Draft,
         PassChecks, Act, Suppress, Surface, Fail, Settle, Approved, Edited, Rejected,
         Resolve, FailChecks, ModelDies, PostEscalation, Diff, ModelRaises, FileNote,
         PortRefuses, EscalateWith, Transition, TransitionAndSave, worldVars
  <2> QED
    BY <2>1, <2>2
<1>3. CASE SweepContinues
  BY <1>3 DEF SweepContinues, Sweeps, VisitWorking, VisitWaiting, VisitRest, SweepPosts,
              SweepPostFails, CloseTimedOut, CloseStalled, EndSweep, worldVars
<1>4. CASE SweepStarts \/ TimePasses \/ Crash \/ UNCHANGED vars
  BY <1>4 DEF SweepStarts, StartSweep, TimePasses, GateExpires, Crash, vars, worldVars
<1> QED
  BY <1>1, <1>2, <1>3, <1>4 DEF Next

\* The points before a card are reached from one another only.
LEMMA CardPointsFrom ==
  ASSUME TypeInv, [Next]_vars, hpc' \in CardPoints
  PROVE  \/ DeliverCase
         \/ hpc \in CardPoints /\ hrun' = hrun
<1>1. CASE HandlerStarts
  BY <1>1 DEF HandlerStarts, Starts, Approve, Edit, Reject, Answer, RecordResolution,
              Begin, handlerVars, At, CardPoints, DeliverCase
<1>2. CASE HandlerContinues
  BY <1>2 DEF HandlerContinues, Continues, Confirm, PassSafety, Draft, PassChecks, Act,
       Suppress, Surface, Fail, Settle, Approved, Edited, Rejected, Resolve, FailChecks,
       ModelDies, PostCard, PostEscalation, Diff, ModelRaises, FileNote, PortRefuses,
       PortLoses, EscalateWith, Transition, TransitionAndSave, Goto, Raise, Finish, At,
       CardPoints
<1>3. CASE SweepContinues \/ SweepStarts \/ TimePasses \/ UNCHANGED vars
  BY <1>3 DEF SweepContinues, SweepStarts, TimePasses, GateExpires, vars, handlerVars
<1>4. CASE Crash
  BY <1>4 DEF Crash, Finish, CardPoints
<1> QED
  BY <1>1, <1>2, <1>3, <1>4 DEF Next

LEMMA RowsStep ==
  ASSUME TypeInv, StampInv, RowsInv, [Next]_vars
  PROVE  RowsInv'
<1>0. /\ TypeInv' /\ nextId \in Nat /\ nextId' \in Nat /\ nextId' >= nextId
      /\ \A r \in RunIds : r \in Nat
      /\ cards \in [RunIds -> Nat]
      /\ hpc # "idle" => hrun \in RunIds
      /\ hpc' # "idle" => hrun' \in RunIds
  <2>1. TypeInv' /\ nextId \in 1..(MaxRuns + 1) /\ nextId' \in Nat /\ nextId' >= nextId
    BY TypesStep, BlankRowsStep DEF TypeInv, TypeOK, LedgerTypeOK
  <2>2. nextId \in Nat /\ \A r \in RunIds : r \in Nat
    BY <2>1, MaxRunsAssumption DEF RunIds
  <2> QED
    BY <2>1, <2>2 DEF TypeInv, TypeOK, PipelineTypeOK, HandlerOK
<1>1. \A r \in RunIds : r >= nextId' => cards'[r] = 0
  BY <1>0, CardAdded DEF RowsInv
<1>2. ASSUME hpc' # "idle" PROVE InMemory(hrun)' /\ hrun' < nextId'
  <2>1. CASE hpc # "idle" /\ hrun' = hrun /\ ~Crash
    BY <1>0, <1>2, <2>1, BlankRowsStep DEF RowsInv, InMemory
  <2>2. CASE DeliverCase /\ hrun' = nextId
    BY <1>0, <1>2, <2>2, KeysAssumption
       DEF DeliverCase, Deliver, Insert, NewRow, InMemory, TypeInv, TypeOK, LedgerTypeOK
  <2>3. CASE hpc = "idle" /\ hrun' \in RunIds /\ InMemory(hrun') /\ ~Crash
    BY <1>0, <1>2, <2>3, BlankRowsStep DEF RowsInv, InMemory, NoRow, NewRow
  <2> QED
    BY <1>2, <2>1, <2>2, <2>3, HandlerAt
<1>3. ASSUME spc' \in {"post", "close"} PROVE InMemory(scur)'
  BY <1>3, SweepAt, BlankRowsStep DEF RowsInv, InMemory, TypeInv, SweepOK
<1> QED
  BY <1>1, <1>2, <1>3, BlankRowsStep DEF RowsInv, BlankRows

LEMMA CardStep == TypeInv /\ StampInv /\ CardInv /\ [Next]_vars => CardInv'
<1> SUFFICES ASSUME TypeInv, StampInv, CardInv, [Next]_vars PROVE CardInv'
  OBVIOUS
<1>0. /\ cards \in [RunIds -> Nat]
      /\ hpc # "idle" => hrun \in RunIds
      /\ RowsInv /\ RowsInv'
  BY RowsStep DEF TypeInv, TypeOK, PipelineTypeOK, HandlerOK, CardInv
<1>1. CardOncePerRun'
  BY <1>0, CardAdded DEF CardInv, CardOncePerRun, CardPoints
<1>2. ASSUME hpc' \in CardPoints PROVE cards'[hrun'] = 0
  <2>1. cards' = cards
    BY <1>2, CardAdded
  <2>2. CASE DeliverCase
    BY <1>0, <2>1, <2>2, MaxRunsAssumption
       DEF DeliverCase, Deliver, Insert, Begin, RowsInv, TypeInv, TypeOK, LedgerTypeOK,
           RunIds
  <2> QED
    BY <1>2, <2>1, <2>2, CardPointsFrom DEF CardInv
<1> QED
  BY <1>0, <1>1, <1>2 DEF CardInv

\* No path posts the card of a run again: not a retry, not a sweep, not a
\* restart (PostCard goes through the effect table; a parked run is failed and
\* never resumed).
THEOREM CardOncePerRunHolds == Spec => []CardOncePerRun
<1>1. CardInv => CardOncePerRun
  BY DEF CardInv
<1>2. Spec => []CardInv
  BY StampInit, StampStep, CardInit, CardStep, AlwaysTypeInv, PTL DEF Spec
<1> QED
  BY <1>1, <1>2, PTL

-----------------------------------------------------------------------------
(* The table trails memory.                                                *)

LEMMA ReachStep ==
  ASSUME NEW s \in RunState
  PROVE  /\ s \in Reach[s]
         /\ \A u \in Reach[s] : Legal[u] \subseteq Reach[s]
<1>1. Reach[s] = {t \in RunState : \A S \in SUBSET RunState :
                                     s \in S /\ Closed(S) => t \in S}
  BY DEF Reach
<1>2. ASSUME NEW u \in Reach[s], NEW t \in Legal[u] PROVE t \in Reach[s]
  <2>1. u \in RunState /\ t \in RunState
    BY <1>1, LegalType
  <2>2. ASSUME NEW S \in SUBSET RunState, s \in S, Closed(S) PROVE t \in S
    BY <1>1, <2>2 DEF Closed
  <2> QED
    BY <1>1, <2>1, <2>2
<1> QED
  BY <1>1, <1>2

\* One row and its saved moment.
Trails(now, saved) ==
  saved.key # NoKey => /\ now.key = saved.key
                       /\ now.state \in Reach[saved.state]
                       /\ saved.gate \in {"none", now.gate}

TrailInv == RowsInv /\ \A r \in RunIds : Trails(mem[r], db[r])

LEMMA TrailInit == Init => TrailInv
  BY RowsInit DEF Init, LedgerInit, TrailInv, Trails, NoRow, NewRow

LEMMA SavedTrails ==
  ASSUME NEW row \in Row
  PROVE  Trails(row, row)
  BY ReachStep DEF Trails, Row

\* A run that changed, saved or not, trails when the change is a step forward.
LEMMA ChangedTrails ==
  ASSUME TypeInv, TrailInv, NEW r \in RunIds, mem' \in [RunIds -> Row],
         \A q \in RunIds : q # r => mem'[q] = mem[q],
         \/ Trails(mem'[r], db[r]) /\ db' = db
         \/ Save(r)
  PROVE  \A q \in RunIds : Trails(mem'[q], db'[q])
<1>1. db' = db \/ db' = [db EXCEPT ![r] = mem'[r]]
  BY DEF Save
<1>2. db \in [RunIds -> Row]
  BY DEF TypeInv, TypeOK, LedgerTypeOK
<1>3. Trails(mem'[r], mem'[r])
  BY SavedTrails
<1>4. db' = db => Trails(mem'[r], db[r])
  <2>1. CASE Save(r) /\ InTable(r)
    BY <1>2, <1>3, <2>1 DEF Save
  <2>2. CASE Save(r) /\ ~InTable(r)
    BY <2>2 DEF InTable, Trails
  <2> QED
    BY <2>1, <2>2
<1> QED
  BY <1>1, <1>2, <1>3, <1>4 DEF TrailInv

LEMMA TrailStep == TypeInv /\ StampInv /\ TrailInv /\ [Next]_vars => TrailInv'
<1> SUFFICES ASSUME TypeInv, StampInv, TrailInv, [Next]_vars PROVE TrailInv'
  OBVIOUS
<1>0. /\ mem \in [RunIds -> Row]
      /\ db \in [RunIds -> Row]
      /\ mem' \in [RunIds -> Row]
  BY TypesStep DEF TypeInv, TypeOK, LedgerTypeOK
<1>1. RowsInv'
  BY RowsStep DEF TrailInv
<1> SUFFICES \A q \in RunIds : Trails(mem'[q], db'[q])
  BY <1>1 DEF TrailInv
<1>2. CASE DeliverCase
  <2>1. PICK k \in Keys : Insert(k)
    BY <1>2 DEF DeliverCase, Deliver
  <2>2. /\ mem' = [mem EXCEPT ![nextId] = NewRow(k)]
        /\ db' = db \/ db' = [db EXCEPT ![nextId] = NewRow(k)]
        /\ nextId \in RunIds => db[nextId] = NoRow
    BY <2>1, MaxRunsAssumption DEF Insert, TrailInv, RowsInv, RunIds
  <2>3. Trails(NewRow(k), NewRow(k)) /\ Trails(NewRow(k), NoRow)
    BY SavedTrails, NewRowType, NoKey \notin Keys, KeysAssumption
       DEF Trails, NoRow, NewRow
  <2> QED
    BY <1>0, <2>2, <2>3 DEF TrailInv
<1>3. CASE MoveCase
  <2>1. PICK r \in RunIds, to \in RunState :
          Moves(r, to) /\ SetState(r, to) /\ (Save(r) \/ db' = db)
    BY <1>3 DEF MoveCase
  <2>2. mem'[r].key = mem[r].key /\ mem'[r].gate = mem[r].gate /\ mem'[r].state = to
        /\ \A q \in RunIds : q # r => mem'[q] = mem[q]
    BY <1>0, <2>1 DEF SetState, Row
  <2>3. Trails(mem'[r], db[r])
    <3>1. db[r].state \in RunState
      BY <1>0 DEF Row
    <3> QED
      BY <2>1, <2>2, <3>1, ReachStep DEF TrailInv, Trails, Moves
  <2> QED
    BY <1>0, <2>1, <2>2, <2>3, ChangedTrails
<1>4. CASE AnswerCase
  <2>1. PICK r \in RunIds, action \in Answers :
          mem[r].gate = "none" /\ Stamp(r, action) /\ db' = db
    BY <1>4 DEF AnswerCase
  <2>2. mem'[r].key = mem[r].key /\ mem'[r].state = mem[r].state
        /\ \A q \in RunIds : q # r => mem'[q] = mem[q]
    BY <1>0, <2>1 DEF Stamp, Row
  <2>3. Trails(mem'[r], db[r])
    BY <2>1, <2>2 DEF TrailInv, Trails
  <2> QED
    BY <1>0, <2>1, <2>2, <2>3, ChangedTrails
<1>5. CASE ExpireCase
  <2>1. scur \in RunIds
    BY <1>5 DEF ExpireCase, TypeInv, SweepOK
  <2> QED
    BY <1>0, <1>5, <2>1, ChangedTrails DEF ExpireCase
<1>6. CASE KeepCase
  BY <1>6 DEF KeepCase, TrailInv
<1>7. CASE Crash
  BY <1>0, <1>7, SavedTrails DEF Crash, Hydrate
<1> QED
  BY <1>2, <1>3, <1>4, <1>5, <1>6, <1>7, RowCases DEF TrailInv

\* What a restart would bring back of a run is an earlier moment of it, with
\* the same stamp or none: the write-through never contradicts memory, and
\* guard_gate_once never has to refuse a save.
THEOREM TableTrailsHolds == Spec => []TableTrails
<1>1. TrailInv => TableTrails
  BY DEF TrailInv, Trails, TableTrails, InTable
<1>2. Spec => []TrailInv
  BY StampInit, StampStep, TrailInit, TrailStep, AlwaysTypeInv, PTL DEF Spec
<1> QED
  BY <1>1, <1>2, PTL

-----------------------------------------------------------------------------
(* Where the run of a handler or a sweep in flight can be.                 *)

PrePoints == {"confirm", "safety", "draft", "check", "card", "surface", "escalate",
              "fail"}
PreGate   == {"received", "running", "drafted", "checked", "failed"}
GateFor   == [draft |-> "approve", edited |-> "edit"]

\* Before the gate a run has not waited; a run whose text is on its way to the
\* bank is acting, unless it was given up, and carries the stamp of that text;
\* a run about to be timed out waits, unless somebody answered.
PlaceInv ==
  /\ hpc \in PrePoints => mem[hrun].state \in PreGate
  /\ hpc \in {"note", "settle"} => mem[hrun].state \in {"acting", "failed"}
  /\ hpc \in FilingPoints => mem[hrun].gate = GateFor[harg]
  /\ spc \in {"post", "close"} /\ sarg = "gate_timeout"
       => mem[scur].state = "awaiting_gate" \/ mem[scur].gate # "none"

LEMMA PlaceInit == Init => PlaceInv
  BY DEF Init, PipelineInit, SupervisorInit, PlaceInv, PrePoints, FilingPoints

\* The handler's own steps.
LEMMA PlaceContinues ==
  ASSUME TypeInv, StampInv, PlaceInv, Continues, hpc' # "idle"
  PROVE  /\ hpc' \in PrePoints => mem'[hrun'].state \in PreGate
         /\ hpc' \in {"note", "settle"} => mem'[hrun'].state \in {"acting", "failed"}
         /\ hpc' \in FilingPoints => mem'[hrun'].gate = GateFor[harg']
<1>0. /\ mem \in [RunIds -> Row]
      /\ hpc # "idle" => hrun \in RunIds
  BY DEF TypeInv, TypeOK, LedgerTypeOK, HandlerOK
<1>1. ASSUME NEW to \in RunState, NEW next, hpc # "idle", Transition(to, next)
      PROVE  /\ hpc' = next /\ hrun' = hrun /\ harg' = harg
             /\ mem'[hrun].state = to /\ mem'[hrun].gate = mem[hrun].gate
  BY <1>0, <1>1 DEF Transition, Raise, Finish, Goto, SetState, Row
<1>2. CASE PassSafety \/ Draft \/ PassChecks
  BY <1>1, <1>2 DEF PassSafety, Draft, PassChecks, At, RunState, PreGate, FilingPoints
<1>3. CASE Act \/ Edited \/ Approved
  BY <1>1, <1>3 DEF Act, Edited, Approved, At, RunState, PrePoints, FilingPoints, PlaceInv
<1>4. CASE Suppress \/ Surface \/ Fail \/ Settle \/ Rejected \/ Resolve \/ ModelRaises
           \/ PortRefuses \/ PortLoses
  BY <1>4 DEF Suppress, Surface, Fail, Settle, Rejected, Resolve, ModelRaises,
              PortRefuses, PortLoses, TransitionAndSave, Raise, Finish
<1>5. CASE Confirm \/ FailChecks \/ ModelDies \/ PostCard \/ PostEscalation
  BY <1>5 DEF Confirm, FailChecks, ModelDies, PostCard, PostEscalation, EscalateWith,
              At, Goto, SeamAt, ledgerVars, PlaceInv, PrePoints, FilingPoints
<1>6. CASE Diff \/ FileNote
  BY <1>6 DEF Diff, FileNote, At, Goto, PlaceInv, PrePoints, FilingPoints
<1> QED
  BY <1>2, <1>3, <1>4, <1>5, <1>6 DEF Continues

LEMMA PlaceStarts ==
  ASSUME TypeInv, StampInv, Starts, hpc' # "idle"
  PROVE  /\ hpc' \in PrePoints => mem'[hrun'].state \in PreGate
         /\ hpc' \notin {"note", "settle"}
         /\ hpc' \in FilingPoints => mem'[hrun'].gate = GateFor[harg']
<1>0. mem \in [RunIds -> Row]
  BY DEF TypeInv, TypeOK, LedgerTypeOK
<1>1. ASSUME NEW k \in Keys, Deliver(k)
      PROVE  hpc' = "confirm" /\ mem'[hrun'].state = "received"
  BY <1>0, <1>1, MaxRunsAssumption
     DEF Deliver, Insert, Begin, NewRow, RunIds, TypeInv, TypeOK, LedgerTypeOK
<1>2. ASSUME NEW r \in RunIds, NEW action, NEW point, NEW text,
             Answer(r, action, point, text)
      PROVE  hpc' = point /\ harg' = text /\ mem'[hrun'].gate = action
  BY <1>0, <1>2 DEF Answer, Begin, Stamp, Row
<1>3. ASSUME NEW r \in RunIds, RecordResolution(r) PROVE hpc' = "resolve"
  BY <1>3 DEF RecordResolution, Begin, At, handlerVars
<1> QED
  BY <1>1, <1>2, <1>3
     DEF Starts, Approve, Edit, Reject, PrePoints, PreGate, FilingPoints, GateFor

\* A sweep fails, resolves or times out, and disturbs nobody.
LEMMA PlaceSweeps ==
  ASSUME TypeInv, StampInv, PlaceInv, Sweeps, UNCHANGED handlerVars
  PROVE  /\ hpc \in PrePoints => mem'[hrun].state \in PreGate
         /\ hpc \in {"note", "settle"} => mem'[hrun].state \in {"acting", "failed"}
         /\ hpc \in FilingPoints => mem'[hrun].gate = GateFor[harg]
<1>0. /\ mem \in [RunIds -> Row]
      /\ hpc # "idle" => hrun \in RunIds
      /\ hpc \in FilingPoints => harg \in Texts
      /\ spc = "close" => scur \in RunIds
  BY DEF TypeInv, TypeOK, LedgerTypeOK, HandlerOK, SweepOK
<1>1. ASSUME hpc \in PrePoints \cup FilingPoints PROVE hrun \in RunIds
  BY <1>0, <1>1 DEF PrePoints, FilingPoints
<1>2. CASE mem' = mem
  BY <1>2 DEF PlaceInv
<1>3. ASSUME NEW r \in RunIds, NEW to, SetState(r, to),
             to = "failed" \/ mem[r].state = "acted"
      PROVE  \A q \in RunIds :
               /\ mem'[q].gate = mem[q].gate
               /\ \/ mem'[q].state = mem[q].state
                  \/ mem'[q].state = "failed"
                  \/ mem[q].state = "acted"
  BY <1>0, <1>3 DEF SetState, Row
<1>4. ASSUME NEW r \in RunIds, NEW to, SetState(r, to),
             to = "failed" \/ mem[r].state = "acted"
      PROVE  /\ hpc \in PrePoints => mem'[hrun].state \in PreGate
             /\ hpc \in {"note", "settle"} => mem'[hrun].state \in {"acting", "failed"}
             /\ hpc \in FilingPoints => mem'[hrun].gate = GateFor[harg]
  BY <1>1, <1>3, <1>4 DEF PlaceInv, PreGate, FilingPoints
<1>5. CASE VisitRest
  <2>1. scur \in RunIds
    BY <1>5, MaxRunsAssumption
       DEF VisitRest, Visiting, TypeInv, TypeOK, SupervisorTypeOK, RunIds
  <2> QED
    BY <1>2, <1>4, <1>5, <2>1 DEF VisitRest
<1>6. CASE CloseStalled
  BY <1>0, <1>2, <1>4, <1>6 DEF CloseStalled
<1>7. CASE CloseTimedOut
  <2>1. CASE mem[scur].gate = "none"
    <3>1. scur \in RunIds /\ mem[scur].state = "awaiting_gate"
      BY <1>0, <1>7, <2>1 DEF CloseTimedOut, PlaceInv
    <3>2. \A q \in RunIds : q # scur => mem'[q] = mem[q]
      BY <1>0, <1>7, <2>1, <3>1 DEF CloseTimedOut
    <3>3. hpc \in PrePoints \cup FilingPoints => hrun # scur
      BY <1>0, <2>1, <3>1 DEF PlaceInv, PreGate, GateFor, Texts
    <3> QED
      BY <1>1, <3>2, <3>3 DEF PlaceInv, FilingPoints
  <2>2. CASE mem[scur].gate # "none"
    BY <1>2, <1>7, <2>2 DEF CloseTimedOut
  <2> QED
    BY <2>1, <2>2
<1>8. CASE VisitWorking \/ VisitWaiting \/ SweepPosts \/ SweepPostFails \/ EndSweep
  BY <1>2, <1>8 DEF VisitWorking, VisitWaiting, SweepPosts, SweepPostFails, EndSweep,
                    ledgerVars
<1> QED
  BY <1>5, <1>6, <1>7, <1>8 DEF Sweeps

\* A run about to be timed out goes on only because somebody answered.
LEMMA PlaceClose ==
  ASSUME TypeInv, StampInv, RowsInv, PlaceInv, [Next]_vars,
         spc' \in {"post", "close"}, sarg' = "gate_timeout"
  PROVE  mem'[scur'].state = "awaiting_gate" \/ mem'[scur'].gate # "none"
<1>0. /\ mem \in [RunIds -> Row]
      /\ spc \in {"post", "close"} => scur \in RunIds
  BY DEF TypeInv, TypeOK, LedgerTypeOK, SweepOK
<1>1. CASE spc = "visit" /\ spc' = "post" /\ scur' = scur /\ UNCHANGED mem
           /\ mem[scur].state = "awaiting_gate"
  BY <1>1
<1>2. CASE spc \in {"post", "close"} /\ scur' = scur /\ sarg = "gate_timeout"
  <2>0. /\ scur \in RunIds /\ InMemory(scur)
        /\ mem[scur].state = "awaiting_gate" \/ mem[scur].gate # "none"
    BY <1>0, <1>2 DEF RowsInv, PlaceInv
  <2>1. CASE DeliverCase
    <3>1. PICK k \in Keys : mem' = [mem EXCEPT ![nextId] = NewRow(k)]
      BY <2>1 DEF DeliverCase, Deliver, Insert
    <3>2. scur # nextId
      <4>1. nextId >= nextId
        BY MaxRunsAssumption DEF TypeInv, TypeOK, LedgerTypeOK
      <4> QED
        BY <2>0, <4>1 DEF RowsInv, InMemory, NoRow, NewRow
    <3> QED
      BY <1>0, <1>2, <2>0, <3>1, <3>2
  <2>2. CASE MoveCase
    <3>1. PICK r \in RunIds, to \in RunState \ {"timed_out"} :
            /\ Cause(r, to) /\ Moves(r, to) /\ SetState(r, to)
            /\ to \in DOMAIN Promise!Needs => mem[r].gate = Promise!Needs[to]
      BY <2>2 DEF MoveCase
    <3>2. \A q \in RunIds : /\ mem'[q].gate = mem[q].gate
                            /\ q # r => mem'[q] = mem[q]
      BY <1>0, <3>1 DEF SetState, Row
    <3>3. CASE r = scur /\ mem[scur].gate = "none"
      <4>1. to \in {"approved", "edited", "rejected", "failed"}
        BY <2>0, <3>1, <3>3 DEF Moves, Legal, RunState
      <4>2. to = "failed"
        BY <3>1, <3>3, <4>1 DEF Promise!Needs
      <4>3. hpc = "fail" /\ hrun = scur
        BY <1>2, <3>1, <3>3, <4>2 DEF Cause
      <4> QED
        BY <2>0, <3>3, <4>3 DEF PlaceInv, PrePoints, PreGate
    <3> QED
      BY <1>2, <2>0, <3>2, <3>3
  <2>3. CASE AnswerCase
    <3>1. PICK r \in RunIds, action \in Answers : Stamp(r, action)
      BY <2>3 DEF AnswerCase
    <3> QED
      BY <1>0, <1>2, <2>0, <3>1 DEF Stamp, Row, Answers
  <2>4. CASE ExpireCase
    BY <1>0, <1>2, <2>0, <2>4 DEF ExpireCase, Row
  <2>5. CASE KeepCase
    BY <1>2, <2>0, <2>5 DEF KeepCase
  <2> QED
    BY <2>1, <2>2, <2>3, <2>4, <2>5, RowCases, SweepAt
<1> QED
  BY <1>1, <1>2, SweepAt

LEMMA PlaceStep == TypeInv /\ StampInv /\ RowsInv /\ PlaceInv /\ [Next]_vars => PlaceInv'
<1> SUFFICES ASSUME TypeInv, StampInv, RowsInv, PlaceInv, [Next]_vars PROVE PlaceInv'
  OBVIOUS
<1>0. "idle" \notin PrePoints \cup FilingPoints \cup {"note", "settle"}
  BY DEF PrePoints, FilingPoints
<1> SUFFICES
      /\ hpc' \in PrePoints => mem'[hrun'].state \in PreGate
      /\ hpc' \in {"note", "settle"} => mem'[hrun'].state \in {"acting", "failed"}
      /\ hpc' \in FilingPoints => mem'[hrun'].gate = GateFor[harg']
  BY PlaceClose DEF PlaceInv
<1>1. CASE HandlerStarts
  BY <1>0, <1>1, PlaceStarts DEF HandlerStarts
<1>2. CASE HandlerContinues
  BY <1>0, <1>2, PlaceContinues DEF HandlerContinues
<1>3. CASE SweepContinues
  BY <1>3, PlaceSweeps DEF SweepContinues, handlerVars
<1>4. CASE SweepStarts \/ TimePasses \/ UNCHANGED vars
  BY <1>4 DEF SweepStarts, StartSweep, TimePasses, GateExpires, vars, handlerVars,
              ledgerVars, PlaceInv
<1>5. CASE Crash
  BY <1>0, <1>5 DEF Crash, Finish
<1> QED
  BY <1>1, <1>2, <1>3, <1>4, <1>5 DEF Next

-----------------------------------------------------------------------------
(* While the process lives: what is filed is what was decided.             *)

\* Nobody has heard of a run whose text is still on its way.
FiledInv ==
  /\ FiledWhatWasDecided
  /\ hpc \in FilingPoints \ {"settle"} => filed[hrun] = <<>>

LEMMA FiledInit == Init => FiledInv
  BY DEF Init, PipelineInit, FiledInv, FiledWhatWasDecided, FilingPoints

\* A text reaches the bank from the handler's own call only.
LEMMA FiledAdded ==
  ASSUME TypeInv, [Next]_vars
  PROVE  \/ filed' = filed
         \/ /\ hpc = "note" /\ hpc' \in {"idle", "settle"} /\ KeepCase
            /\ filed' = [filed EXCEPT ![hrun] = Append(@, harg)]
<1>1. CASE HandlerStarts
  BY <1>1 DEF HandlerStarts, Starts, Deliver, Approve, Edit, Reject, Answer,
              RecordResolution, worldVars
<1>2. CASE HandlerContinues
  <2>1. CASE FileNote \/ PortLoses
    BY <2>1 DEF FileNote, PortLoses, At, Goto, Raise, Finish, ledgerVars, KeepCase
  <2>2. CASE ~(FileNote \/ PortLoses)
    BY <1>2, <2>2 DEF HandlerContinues, Continues, Confirm, PassSafety, Draft,
         PassChecks, Act, Suppress, Surface, Fail, Settle, Approved, Edited, Rejected,
         Resolve, FailChecks, ModelDies, PostCard, PostEscalation, Diff, ModelRaises,
         PortRefuses, EscalateWith, Transition, TransitionAndSave, worldVars
  <2> QED
    BY <2>1, <2>2
<1>3. CASE SweepContinues
  BY <1>3 DEF SweepContinues, Sweeps, VisitWorking, VisitWaiting, VisitRest, SweepPosts,
              SweepPostFails, CloseTimedOut, CloseStalled, EndSweep, worldVars
<1>4. CASE SweepStarts \/ TimePasses \/ Crash \/ UNCHANGED vars
  BY <1>4 DEF SweepStarts, StartSweep, TimePasses, GateExpires, Crash, vars, worldVars
<1> QED
  BY <1>1, <1>2, <1>3, <1>4 DEF Next

\* The way to the bank starts with an answer.
LEMMA FilingFrom ==
  ASSUME TypeInv, [Next]_vars, hpc' \in FilingPoints \ {"settle"}
  PROVE  \/ hpc \in FilingPoints \ {"settle", "note"} /\ hrun' = hrun
         \/ hpc' = hpc /\ hrun' = hrun
         \/ hrun' \in RunIds /\ mem[hrun'].gate = "none"
<1>1. CASE HandlerStarts
  BY <1>1 DEF HandlerStarts, Starts, Deliver, Approve, Edit, Reject, Answer,
              RecordResolution, Begin, handlerVars, At, FilingPoints
<1>2. CASE HandlerContinues
  BY <1>2 DEF HandlerContinues, Continues, Confirm, PassSafety, Draft, PassChecks, Act,
       Suppress, Surface, Fail, Settle, Approved, Edited, Rejected, Resolve, FailChecks,
       ModelDies, PostCard, PostEscalation, Diff, ModelRaises, FileNote, PortRefuses,
       PortLoses, EscalateWith, Transition, TransitionAndSave, Goto, Raise, Finish, At,
       FilingPoints
<1>3. CASE SweepContinues \/ SweepStarts \/ TimePasses \/ UNCHANGED vars
  BY <1>3 DEF SweepContinues, SweepStarts, TimePasses, GateExpires, vars, handlerVars
<1>4. CASE Crash
  BY <1>4 DEF Crash, Finish, FilingPoints
<1> QED
  BY <1>1, <1>2, <1>3, <1>4 DEF Next

\* A stamp stays where it is while the process lives.
LEMMA StampStays ==
  ASSUME TypeInv, StampInv, RowsInv, [Next]_vars, ~Crash, NEW q \in RunIds,
         mem[q].gate # "none"
  PROVE  mem'[q].gate = mem[q].gate
<1>0. mem \in [RunIds -> Row]
  BY DEF TypeInv, TypeOK, LedgerTypeOK
<1>1. CASE DeliverCase
  <2>1. PICK k \in Keys : mem' = [mem EXCEPT ![nextId] = NewRow(k)]
    BY <1>1 DEF DeliverCase, Deliver, Insert
  <2>2. q # nextId
    BY MaxRunsAssumption DEF RowsInv, NoRow, NewRow, TypeInv, TypeOK, LedgerTypeOK
  <2> QED
    BY <1>0, <2>1, <2>2
<1>2. CASE MoveCase
  BY <1>0, <1>2 DEF MoveCase, SetState, Row
<1>3. CASE AnswerCase
  BY <1>0, <1>3 DEF AnswerCase, Stamp
<1>4. CASE ExpireCase
  BY <1>0, <1>4 DEF ExpireCase
<1> QED
  BY <1>1, <1>2, <1>3, <1>4, RowCases DEF KeepCase

LEMMA FiledStep ==
  TypeInv /\ StampInv /\ RowsInv /\ PlaceInv /\ FiledInv /\ [Next]_vars /\ ~Crash
    => FiledInv'
<1> SUFFICES ASSUME TypeInv, StampInv, RowsInv, PlaceInv, FiledInv, [Next]_vars, ~Crash
             PROVE  FiledInv'
  OBVIOUS
<1>0. /\ filed \in [RunIds -> Seq(Texts)]
      /\ hpc = "note" => hrun \in RunIds /\ harg \in Texts
      /\ hpc # "idle" => hrun \in RunIds
  BY DEF TypeInv, TypeOK, PipelineTypeOK, HandlerOK, FilingPoints
<1>1. CASE filed' = filed
  <2>1. FiledWhatWasDecided'
    <3> SUFFICES ASSUME NEW r \in RunIds, filed[r] # <<>>
                 PROVE  /\ mem'[r].gate \in {"approve", "edit"}
                        /\ filed[r] = <<DecisionText[mem'[r].gate]>>
      BY <1>1 DEF FiledWhatWasDecided, DecisionText
    <3>1. /\ mem[r].gate \in {"approve", "edit"}
          /\ filed[r] = <<DecisionText[mem[r].gate]>>
      BY DEF FiledInv, FiledWhatWasDecided
    <3> QED
      BY <3>1, StampStays
  <2>2. ASSUME hpc' \in FilingPoints \ {"settle"} PROVE filed'[hrun'] = <<>>
    <3>1. CASE hrun' \in RunIds /\ mem[hrun'].gate = "none"
      BY <1>1, <3>1 DEF FiledInv, FiledWhatWasDecided
    <3> QED
      BY <1>1, <2>2, <3>1, FilingFrom DEF FiledInv
  <2> QED
    BY <2>1, <2>2 DEF FiledInv
<1>2. CASE /\ hpc = "note" /\ hpc' \in {"idle", "settle"} /\ KeepCase
           /\ filed' = [filed EXCEPT ![hrun] = Append(@, harg)]
  <2>1. filed[hrun] = <<>> /\ mem[hrun].gate = GateFor[harg]
    BY <1>2 DEF FiledInv, PlaceInv, FilingPoints
  <2>2. filed'[hrun] = <<harg>>
    <3>1. Append(filed[hrun], harg) = <<harg>>
      BY <1>0, <1>2, <2>1
    <3> QED
      BY <1>0, <1>2, <3>1
  <2>3. GateFor[harg] \in {"approve", "edit"} /\ DecisionText[GateFor[harg]] = harg
    BY <1>0, <1>2 DEF GateFor, DecisionText, Texts
  <2>4. \A r \in RunIds : r # hrun => filed'[r] = filed[r]
    BY <1>0, <1>2
  <2>5. \A r \in RunIds : mem'[r].gate = mem[r].gate
    BY <1>2 DEF KeepCase
  <2>6. FiledWhatWasDecided'
    <3> SUFFICES ASSUME NEW r \in RunIds, filed'[r] # <<>>
                 PROVE  /\ mem'[r].gate \in {"approve", "edit"}
                        /\ filed'[r] = <<DecisionText[mem'[r].gate]>>
      BY DEF FiledWhatWasDecided, DecisionText
    <3>1. CASE r = hrun
      BY <2>1, <2>2, <2>3, <2>5, <3>1
    <3>2. CASE r # hrun
      BY <2>4, <2>5, <3>2 DEF FiledInv, FiledWhatWasDecided
    <3> QED
      BY <3>1, <3>2
  <2> QED
    BY <1>2, <2>6 DEF FiledInv, FilingPoints
<1> QED
  BY <1>1, <1>2, FiledAdded

\* Without restarts, what holds of rows, places and texts holds together.
LEMMA AlwaysFiled ==
  MaxCrashes = 0 /\ Spec => [](TypeInv /\ StampInv /\ RowsInv /\ PlaceInv /\ FiledInv)
<1>1. MaxCrashes = 0 /\ TypeInv => ~Crash
  BY DEF TypeInv, TypeOK, Crash
<1>2. Spec => [](TypeInv /\ StampInv /\ RowsInv /\ PlaceInv)
  <2>1. TypeInv /\ StampInv /\ RowsInv /\ [Next]_vars => RowsInv'
    BY RowsStep
  <2> QED
    BY StampInit, StampStep, RowsInit, <2>1, PlaceInit, PlaceStep, AlwaysTypeInv, PTL
       DEF Spec
<1>3. CASE MaxCrashes = 0
  <2>1. TypeInv /\ StampInv /\ RowsInv /\ PlaceInv /\ FiledInv /\ [Next]_vars
          => FiledInv'
    BY <1>1, <1>3, FiledStep
  <2> QED
    BY <1>2, <2>1, FiledInit, PTL DEF Spec
<1>4. CASE MaxCrashes # 0
  BY <1>4
<1> QED
  BY <1>3, <1>4

\* While the process lives, what reached the bank is the stamped decision's own
\* text and reached it once: a lost reply is not followed by a second filing
\* and a sweep that gives the run up halfway does not change what it says
\* (_act, effect, record_gate).
THEOREM FiledWhatWasDecidedHolds == MaxCrashes = 0 /\ Spec => []FiledWhatWasDecided
<1>1. FiledInv => FiledWhatWasDecided
  BY DEF FiledInv
<1> QED
  BY <1>1, AlwaysFiled, PTL

\* While the process lives, nothing was sent for a run that was rejected or
\* timed out, however the answer raced the sweep.
THEOREM TimedOutNeverSentHolds == MaxCrashes = 0 /\ Spec => []TimedOutNeverSent
<1>1. StampInv /\ FiledInv => TimedOutNeverSent
  BY DEF StampInv, GateTellsTheState, GateOf, FiledInv, FiledWhatWasDecided,
         TimedOutNeverSent
<1> QED
  BY <1>1, AlwaysFiled, PTL

-----------------------------------------------------------------------------
(* Relay implements RunPromise while the process lives.                    *)

\* What the promise calls born, state and gate.
Born    == {r \in RunIds : InMemory(r)}
StateOf == [r \in RunIds |-> mem[r].state]
StampOf == [r \in RunIds |-> mem[r].gate]

LEMMA InitPromise == Init => Promise!Init
  BY DEF Init, LedgerInit, PipelineInit, Promise!Init, InMemory, NoRow, NewRow

\* A step that changes one run leaves the others as they were.
LEMMA OneRunChanges ==
  ASSUME TypeInv, mem' \in [RunIds -> Row], NEW r \in RunIds,
         mem'[r].key = mem[r].key, \A q \in RunIds : q # r => mem'[q] = mem[q]
  PROVE  /\ Born' = Born
         /\ StateOf' = [StateOf EXCEPT ![r] = mem'[r].state]
         /\ StampOf' = [StampOf EXCEPT ![r] = mem'[r].gate]
  BY DEF Born, StateOf, StampOf, InMemory

LEMMA StepsOfPromise ==
  ASSUME NEW r \in RunIds,
         \/ Promise!Receive(r) \/ Promise!Expire(r) \/ Promise!File(r)
         \/ \E to \in RunState : Promise!Move(r, to)
         \/ \E answer \in Answers : Promise!Decide(r, answer)
  PROVE  Promise!Next
<1>1. RunState = Promise!RunState /\ Answers = Promise!Answers
  BY DEF RunState, Promise!RunState, Answers, Promise!Answers
<1> QED
  BY <1>1 DEF Promise!Next

LEMMA DeliverPromise ==
  ASSUME TypeInv, TypeInv', RowsInv, DeliverCase
  PROVE  Promise!Next
<1>1. PICK k \in Keys : Deliver(k)
  BY DEF DeliverCase
<1>2. /\ mem \in [RunIds -> Row]
      /\ nextId \in RunIds /\ mem[nextId] = NoRow
      /\ mem' = [mem EXCEPT ![nextId] = NewRow(k)]
      /\ filed' = filed
  BY <1>1, MaxRunsAssumption
     DEF Deliver, Insert, worldVars, RowsInv, RunIds, TypeInv, TypeOK, LedgerTypeOK
<1>3. nextId \notin Born /\ Born' = Born \cup {nextId}
  BY <1>2, KeysAssumption DEF Born, InMemory, NoRow, NewRow
<1>4. StateOf' = StateOf /\ StampOf' = StampOf
  BY <1>2 DEF StateOf, StampOf, NoRow, NewRow
<1>5. Promise!Receive(nextId)
  BY <1>2, <1>3, <1>4 DEF Promise!Receive, Born, StateOf, StampOf
<1> QED
  BY <1>2, <1>5, StepsOfPromise

LEMMA MovePromise ==
  ASSUME TypeInv, TypeInv', RowsInv, MoveCase, filed' = filed
  PROVE  Promise!Next
<1>1. PICK r \in RunIds, to \in RunState :
        /\ Working(r) /\ Moves(r, to) /\ SetState(r, to)
        /\ to \in DOMAIN Promise!Needs => mem[r].gate = Promise!Needs[to]
  BY DEF MoveCase
<1>2. mem \in [RunIds -> Row] /\ mem' \in [RunIds -> Row]
  BY DEF TypeInv, TypeOK, LedgerTypeOK
<1>3. /\ mem'[r].key = mem[r].key /\ mem'[r].gate = mem[r].gate /\ mem'[r].state = to
      /\ \A q \in RunIds : q # r => mem'[q] = mem[q]
  BY <1>1, <1>2 DEF SetState, Row
<1>4. /\ Born' = Born
      /\ StateOf' = [StateOf EXCEPT ![r] = to]
      /\ StampOf' = [StampOf EXCEPT ![r] = mem[r].gate]
  BY <1>1, <1>2, <1>3, OneRunChanges
<1>5. StampOf' = StampOf /\ r \in Born /\ StateOf[r] = mem[r].state
      /\ StampOf[r] = mem[r].gate
  BY <1>1, <1>4, WorkedHasRow DEF StampOf, StateOf, Born
<1>6. Promise!Move(r, to)
  <2>1. Promise!Legal = Legal
    BY DEF Promise!Legal, Legal, Promise!RunState, RunState
  <2>2. to \in Promise!Legal[StateOf[r]]
    BY <1>1, <1>5, <2>1 DEF Moves
  <2>3. to \in DOMAIN Promise!Needs => StampOf[r] = Promise!Needs[to]
    BY <1>1, <1>5
  <2> QED
    BY <1>4, <1>5, <2>2, <2>3 DEF Promise!Move, Born, StateOf, StampOf
<1> QED
  BY <1>1, <1>6, StepsOfPromise

LEMMA AnswerPromise ==
  ASSUME TypeInv, TypeInv', RowsInv, AnswerCase, filed' = filed
  PROVE  Promise!Next
<1>1. PICK r \in RunIds, action \in Answers :
        /\ mem[r].state = "awaiting_gate" /\ mem[r].gate = "none"
        /\ Stamp(r, action)
  BY DEF AnswerCase
<1>2. mem \in [RunIds -> Row] /\ mem' \in [RunIds -> Row]
  BY DEF TypeInv, TypeOK, LedgerTypeOK
<1>3. /\ mem'[r].key = mem[r].key /\ mem'[r].gate = action
      /\ mem'[r].state = mem[r].state
      /\ \A q \in RunIds : q # r => mem'[q] = mem[q]
  BY <1>1, <1>2 DEF Stamp, Row
<1>4. /\ Born' = Born
      /\ StateOf' = [StateOf EXCEPT ![r] = mem[r].state]
      /\ StampOf' = [StampOf EXCEPT ![r] = action]
  BY <1>1, <1>2, <1>3, OneRunChanges
<1>5. /\ StateOf' = StateOf /\ r \in Born
      /\ StateOf[r] = "awaiting_gate" /\ StampOf[r] = "none"
  <2>1. r \in Born
    BY <1>1 DEF Born, RowsInv, InMemory, NoRow, NewRow
  <2>2. StateOf[r] = mem[r].state /\ StampOf[r] = mem[r].gate
    BY DEF StampOf, StateOf
  <2>3. [StateOf EXCEPT ![r] = mem[r].state] = StateOf
    BY <2>2 DEF StateOf
  <2> QED
    BY <1>1, <1>4, <2>1, <2>2, <2>3
<1>6. Promise!Decide(r, action)
  BY <1>1, <1>4, <1>5 DEF Promise!Decide, Born, StateOf, StampOf
<1> QED
  BY <1>1, <1>6, StepsOfPromise

LEMMA ExpirePromise ==
  ASSUME TypeInv, TypeInv', RowsInv, PlaceInv, ExpireCase, filed' = filed
  PROVE  Promise!Next
<1>1. PICK r \in RunIds : r = scur
  BY DEF ExpireCase, TypeInv, SweepOK
<1>2. /\ InMemory(r)
      /\ mem[r].state = "awaiting_gate" /\ mem[r].gate = "none"
  BY <1>1 DEF ExpireCase, RowsInv, PlaceInv
<1>3. mem \in [RunIds -> Row] /\ mem' \in [RunIds -> Row]
  BY DEF TypeInv, TypeOK, LedgerTypeOK
<1>4. /\ mem'[r].key = mem[r].key /\ mem'[r].gate = "timeout"
      /\ mem'[r].state = "timed_out"
      /\ \A q \in RunIds : q # r => mem'[q] = mem[q]
  BY <1>1, <1>3 DEF ExpireCase, Row
<1>5. /\ Born' = Born
      /\ StateOf' = [StateOf EXCEPT ![r] = "timed_out"]
      /\ StampOf' = [StampOf EXCEPT ![r] = "timeout"]
  BY <1>3, <1>4, OneRunChanges
<1>6. r \in Born /\ StateOf[r] = "awaiting_gate" /\ StampOf[r] = "none"
  BY <1>2 DEF StampOf, StateOf, Born
<1>7. Promise!Expire(r)
  BY <1>5, <1>6 DEF Promise!Expire, Born, StateOf, StampOf
<1> QED
  BY <1>7, StepsOfPromise

LEMMA FilePromise ==
  ASSUME TypeInv, RowsInv, PlaceInv, FiledInv, hpc = "note", KeepCase,
         filed' = [filed EXCEPT ![hrun] = Append(@, harg)]
  PROVE  Promise!Next
<1>1. /\ hrun \in RunIds /\ InMemory(hrun) /\ harg \in Texts
      /\ mem[hrun].state \in {"acting", "failed"}
      /\ mem[hrun].gate = GateFor[harg]
      /\ filed[hrun] = <<>>
  BY DEF TypeInv, HandlerOK, RowsInv, PlaceInv, FiledInv, FilingPoints
<1>2. filed' = [filed EXCEPT ![hrun] = <<harg>>]
  <2>1. filed \in [RunIds -> Seq(Texts)] /\ Append(filed[hrun], harg) = <<harg>>
    BY <1>1 DEF TypeInv, TypeOK, PipelineTypeOK
  <2> QED
    BY <2>1
<1>3. Born' = Born /\ StateOf' = StateOf /\ StampOf' = StampOf
  BY DEF KeepCase, Born, StateOf, StampOf, InMemory
<1>4. /\ hrun \in Born /\ StateOf[hrun] \in {"acting", "failed"}
      /\ \/ StampOf[hrun] = "approve" /\ harg = "draft"
         \/ StampOf[hrun] = "edit" /\ harg = "edited"
  BY <1>1 DEF Born, StateOf, StampOf, GateFor, Texts
<1>5. Promise!File(hrun)
  BY <1>1, <1>2, <1>3, <1>4 DEF Promise!File, Born, StateOf, StampOf
<1> QED
  BY <1>1, <1>5, StepsOfPromise

LEMMA StepPromise ==
  TypeInv /\ StampInv /\ RowsInv /\ PlaceInv /\ FiledInv /\ [Next]_vars /\ ~Crash
    => [Promise!Next]_(Promise!promiseVars)
<1> SUFFICES ASSUME TypeInv, StampInv, RowsInv, PlaceInv, FiledInv, [Next]_vars, ~Crash
             PROVE  [Promise!Next]_(Promise!promiseVars)
  OBVIOUS
<1>1. TypeInv'
  BY TypesStep
<1>2. CASE filed' # filed
  BY <1>2, FiledAdded, FilePromise
<1>3. CASE filed' = filed /\ KeepCase
  BY <1>3 DEF KeepCase, Promise!promiseVars, InMemory
<1> QED
  BY <1>1, <1>2, <1>3, RowCases, DeliverPromise, MovePromise, AnswerPromise,
     ExpirePromise

\* While the process lives, every run keeps the ledger's promise under every
\* interleaving of handlers, faults and sweeps: legal edges, one stamp before
\* the state that depends on it, one filing of the stamped text.
THEOREM KeepsPromiseHolds == MaxCrashes = 0 /\ Spec => KeepsPromise
<1>1. CASE MaxCrashes = 0
  <2>1. TypeInv => ~Crash
    BY <1>1 DEF TypeInv, TypeOK, Crash
  <2>2. TypeInv /\ StampInv /\ RowsInv /\ PlaceInv /\ FiledInv /\ [Next]_vars
          => [Promise!Next]_(Promise!promiseVars)
    BY <2>1, StepPromise
  <2>3. Spec => [](TypeInv /\ StampInv /\ RowsInv /\ PlaceInv /\ FiledInv)
    BY <1>1, AlwaysFiled, PTL
  <2> QED
    BY InitPromise, <2>2, <2>3, PTL DEF Spec, KeepsPromise, Promise!Spec
<1>2. CASE MaxCrashes # 0
  BY <1>2
<1> QED
  BY <1>1, <1>2

-----------------------------------------------------------------------------
(* Never silence.                                                          *)

\* Somebody was told of a run in this state.
Told(r, state) ==
  /\ state = "awaiting_gate" => cards[r] > 0
  /\ state = "failed" => posts[r] # {}
  /\ state = "timed_out" => "gate_timeout" \in posts[r]

\* What the effect table has as done was posted, and whoever is about to surface,
\* fail or close a run has posted about it.
DoneWasPosted ==
  \A r \in RunIds : /\ done[r] \cap EscalationReasons \subseteq posts[r]
                    /\ "slack_post" \in done[r] => cards[r] > 0

AboutTo ==
  /\ hpc = "surface" => cards[hrun] > 0
  /\ hpc = "fail" => posts[hrun] # {}
  /\ spc = "close" => sarg \in posts[scur]

SilenceInv ==
  /\ \A r \in RunIds : Told(r, mem[r].state) /\ Told(r, db[r].state)
  /\ DoneWasPosted
  /\ AboutTo

LEMMA SilenceInit == Init => SilenceInv
  BY DEF Init, LedgerInit, PipelineInit, SupervisorInit, SilenceInv, Told,
         DoneWasPosted, AboutTo, NoRow, NewRow

\* Cards and posts are never taken back.
LEMMA ToldStays ==
  ASSUME TypeInv, [Next]_vars, NEW r \in RunIds
  PROVE  posts[r] \subseteq posts'[r] /\ (cards[r] > 0 => cards'[r] > 0)
<1>0. /\ posts \in [RunIds -> SUBSET EscalationReasons]
      /\ cards \in [RunIds -> Nat]
  BY DEF TypeInv, TypeOK, PipelineTypeOK
<1>1. posts[r] \subseteq posts'[r]
  <2>1. CASE HandlerStarts
    BY <2>1 DEF HandlerStarts, Starts, Deliver, Approve, Edit, Reject, Answer,
                RecordResolution, worldVars
  <2>2. CASE HandlerContinues
    <3>1. CASE PostEscalation \/ PortLoses
      BY <1>0, <3>1 DEF PostEscalation, PortLoses
    <3>2. CASE ~(PostEscalation \/ PortLoses)
      BY <2>2, <3>2 DEF HandlerContinues, Continues, Confirm, PassSafety, Draft,
           PassChecks, Act, Suppress, Surface, Fail, Settle, Approved, Edited, Rejected,
           Resolve, FailChecks, ModelDies, PostCard, Diff, ModelRaises, FileNote,
           PortRefuses, EscalateWith, Transition, TransitionAndSave, worldVars
    <3> QED
      BY <3>1, <3>2
  <2>3. CASE SweepContinues
    <3>1. CASE SweepPosts \/ SweepPostFails
      BY <1>0, <3>1 DEF SweepPosts, SweepPostFails
    <3>2. CASE ~(SweepPosts \/ SweepPostFails)
      BY <2>3, <3>2 DEF SweepContinues, Sweeps, VisitWorking, VisitWaiting, VisitRest,
           CloseTimedOut, CloseStalled, EndSweep, worldVars
    <3> QED
      BY <3>1, <3>2
  <2>4. CASE SweepStarts \/ TimePasses \/ Crash \/ UNCHANGED vars
    BY <2>4 DEF SweepStarts, StartSweep, TimePasses, GateExpires, Crash, vars, worldVars
  <2> QED
    BY <2>1, <2>2, <2>3, <2>4 DEF Next
<1>2. cards[r] > 0 => cards'[r] > 0
  BY <1>0, CardAdded
<1> QED
  BY <1>1, <1>2

\* An effect is marked done once it was posted.
LEMMA DoneStep ==
  ASSUME TypeInv, DoneWasPosted, [Next]_vars
  PROVE  DoneWasPosted'
<1>0. /\ posts \in [RunIds -> SUBSET EscalationReasons]
      /\ cards \in [RunIds -> Nat]
      /\ done \in [RunIds -> SUBSET EffectKinds]
      /\ hpc # "idle" => hrun \in RunIds
      /\ spc \in {"post", "close"} => scur \in RunIds
      /\ spc \in {"post", "close"} => sarg \in EscalationReasons
      /\ hpc = "escalate" => harg \in EscalationReasons
  BY DEF TypeInv, TypeOK, PipelineTypeOK, LedgerTypeOK, HandlerOK, SweepOK,
         EscalatingPoints
<1>1. CASE done' = done
  BY <1>1, ToldStays DEF DoneWasPosted
<1>2. CASE PostCard
  <2>1. "slack_post" \notin EscalationReasons
    BY DEF EscalationReasons, StallStates
  <2>2. /\ hrun \in RunIds /\ posts' = posts
        /\ done' = [done EXCEPT ![hrun] = @ \cup {"slack_post"}]
        /\ cards' = cards \/ cards' = [cards EXCEPT ![hrun] = @ + 1]
        /\ "slack_post" \notin done[hrun] => cards' = [cards EXCEPT ![hrun] = @ + 1]
    BY <1>0, <1>2 DEF PostCard, At, MarkDone, Fires
  <2>3. cards'[hrun] > 0
    BY <1>0, <2>2 DEF DoneWasPosted
  <2>4. \A r \in RunIds : cards[r] > 0 => cards'[r] > 0
    BY <1>0, <2>2
  <2>5. \A r \in RunIds : r # hrun => done'[r] = done[r]
    BY <1>0, <2>2
  <2>6. done'[hrun] = done[hrun] \cup {"slack_post"}
    BY <1>0, <2>2
  <2> QED
    BY <2>1, <2>2, <2>3, <2>4, <2>5, <2>6 DEF DoneWasPosted
<1>3. CASE FileNote
  BY <1>0, <1>3 DEF FileNote, At, MarkDone, DoneWasPosted, EscalationReasons, StallStates
<1>4. ASSUME NEW r \in RunIds, NEW why \in EscalationReasons, cards' = cards,
             MarkDone(r, why),
             posts' = IF Fires(r, why) THEN [posts EXCEPT ![r] = @ \cup {why}] ELSE posts
      PROVE  DoneWasPosted'
  <2>1. why # "slack_post"
    BY <1>4 DEF EscalationReasons, StallStates
  <2>2. why \in posts'[r] /\ \A q \in RunIds : posts[q] \subseteq posts'[q]
    BY <1>0, <1>4 DEF Fires, DoneWasPosted
  <2>3. /\ \A q \in RunIds : q # r => done'[q] = done[q]
        /\ done'[r] = done[r] \cup {why}
    BY <1>0, <1>4 DEF MarkDone
  <2> QED
    BY <1>4, <2>1, <2>2, <2>3 DEF DoneWasPosted
<1>5. CASE PostEscalation
  BY <1>0, <1>4, <1>5 DEF PostEscalation, At
<1>6. CASE SweepPosts
  BY <1>0, <1>4, <1>6 DEF SweepPosts
<1>7. CASE ~(PostCard \/ FileNote \/ PostEscalation \/ SweepPosts)
  <2>1. ASSUME HandlerStarts PROVE done' = done
    BY <2>1 DEF HandlerStarts, Starts, Deliver, Insert, Approve, Edit, Reject, Answer,
                RecordResolution, RestOfLedger
  <2>2. ASSUME HandlerContinues PROVE done' = done
    BY <1>7, <2>2 DEF HandlerContinues, Continues, Confirm, PassSafety, Draft,
         PassChecks, Act, Suppress, Surface, Fail, Settle, Approved, Edited, Rejected,
         Resolve, FailChecks, ModelDies, Diff, ModelRaises, PortRefuses, PortLoses,
         EscalateWith, Transition, TransitionAndSave, RestOfLedger, ledgerVars
  <2>3. ASSUME SweepContinues PROVE done' = done
    BY <1>7, <2>3 DEF SweepContinues, Sweeps, VisitWorking, VisitWaiting, VisitRest,
         SweepPostFails, CloseTimedOut, CloseStalled, EndSweep, RestOfLedger, ledgerVars
  <2>4. ASSUME SweepStarts \/ TimePasses \/ Crash \/ UNCHANGED vars
        PROVE  done' = done
    BY <2>4 DEF SweepStarts, StartSweep, TimePasses, GateExpires, Crash, Hydrate, vars,
                ledgerVars
  <2> QED
    BY <1>1, <2>1, <2>2, <2>3, <2>4 DEF Next
<1> QED
  BY <1>2, <1>3, <1>5, <1>6, <1>7

\* Nobody gets to close, fail or surface a run before it is posted about.
LEMMA AboutStep ==
  ASSUME TypeInv, DoneWasPosted, AboutTo, [Next]_vars
  PROVE  AboutTo'
<1>0. /\ posts \in [RunIds -> SUBSET EscalationReasons]
      /\ cards \in [RunIds -> Nat]
      /\ hpc # "idle" => hrun \in RunIds
      /\ spc \in {"post", "close"} => scur \in RunIds
  BY DEF TypeInv, TypeOK, PipelineTypeOK, HandlerOK, SweepOK
<1>1. ASSUME hpc' = "surface" PROVE cards'[hrun'] > 0
  <2>1. CASE PostCard
    BY <1>0, <2>1 DEF PostCard, At, Goto, Fires, DoneWasPosted
  <2>2. CASE ~PostCard
    <3>1. hpc = "surface" /\ hrun' = hrun
      <4>1. CASE HandlerStarts
        BY <1>1, <4>1 DEF HandlerStarts, Starts, Deliver, Approve, Edit, Reject, Answer,
             RecordResolution, Begin, handlerVars, At
      <4>2. CASE HandlerContinues
        BY <1>1, <2>2, <4>2 DEF HandlerContinues, Continues, Confirm, PassSafety, Draft,
             PassChecks, Act, Suppress, Surface, Fail, Settle, Approved, Edited,
             Rejected, Resolve, FailChecks, ModelDies, PostEscalation, Diff,
             ModelRaises, FileNote, PortRefuses, PortLoses, EscalateWith, Transition,
             TransitionAndSave, Goto, Raise, Finish
      <4>3. CASE SweepContinues \/ SweepStarts \/ TimePasses \/ Crash \/ UNCHANGED vars
        BY <1>1, <4>3 DEF SweepContinues, SweepStarts, TimePasses, GateExpires, vars,
             handlerVars, Crash, Finish
      <4> QED
        BY <4>1, <4>2, <4>3 DEF Next
    <3> QED
      BY <1>0, <3>1, ToldStays DEF AboutTo
  <2> QED
    BY <2>1, <2>2
<1>2. ASSUME hpc' = "fail" PROVE posts'[hrun'] # {}
  <2>1. CASE PostEscalation
    <3>1. harg \in EscalationReasons /\ hrun \in RunIds /\ hrun' = hrun
      BY <1>0, <2>1 DEF PostEscalation, At, Goto, TypeInv, HandlerOK, EscalatingPoints
    <3>2. harg \in posts'[hrun]
      BY <1>0, <2>1, <3>1 DEF PostEscalation, Fires, DoneWasPosted
    <3> QED
      BY <3>1, <3>2
  <2>2. CASE ~PostEscalation
    <3>1. hpc = "fail" /\ hrun' = hrun
      <4>1. CASE HandlerStarts
        BY <1>2, <4>1 DEF HandlerStarts, Starts, Deliver, Approve, Edit, Reject, Answer,
             RecordResolution, Begin, handlerVars, At
      <4>2. CASE HandlerContinues
        BY <1>2, <2>2, <4>2 DEF HandlerContinues, Continues, Confirm, PassSafety, Draft,
             PassChecks, Act, Suppress, Surface, Fail, Settle, Approved, Edited,
             Rejected, Resolve, FailChecks, ModelDies, PostCard, Diff, ModelRaises,
             FileNote, PortRefuses, PortLoses, EscalateWith, Transition,
             TransitionAndSave, Goto, Raise, Finish
      <4>3. CASE SweepContinues \/ SweepStarts \/ TimePasses \/ Crash \/ UNCHANGED vars
        BY <1>2, <4>3 DEF SweepContinues, SweepStarts, TimePasses, GateExpires, vars,
             handlerVars, Crash, Finish
      <4> QED
        BY <4>1, <4>2, <4>3 DEF Next
    <3> QED
      BY <1>0, <3>1, ToldStays DEF AboutTo
  <2> QED
    BY <2>1, <2>2
<1>3. ASSUME spc' = "close" PROVE sarg' \in posts'[scur']
  <2>1. CASE SweepPosts
    <3>1. sarg \in EscalationReasons /\ scur \in RunIds
      BY <2>1 DEF SweepPosts, TypeInv, SweepOK
    <3> QED
      BY <1>0, <2>1, <3>1 DEF SweepPosts, Fires, DoneWasPosted
  <2>2. CASE ~SweepPosts
    <3>1. spc = "close" /\ scur' = scur /\ sarg' = sarg
      <4>1. CASE HandlerStarts \/ HandlerContinues \/ TimePasses \/ UNCHANGED vars
        BY <1>3, <4>1 DEF HandlerStarts, HandlerContinues, TimePasses, GateExpires,
             sweepVars, vars
      <4>2. CASE SweepContinues
        BY <1>3, <2>2, <4>2 DEF SweepContinues, Sweeps, VisitWorking, VisitWaiting,
             VisitRest, SweepPostFails, CloseTimedOut, CloseStalled, EndSweep, Visiting,
             NextRun, ToPost, CloseNext, Abort, Finished
      <4>3. CASE SweepStarts \/ Crash
        BY <1>3, <4>3 DEF SweepStarts, StartSweep, Crash, Finished
      <4> QED
        BY <4>1, <4>2, <4>3 DEF Next
    <3> QED
      BY <1>0, <3>1, ToldStays DEF AboutTo
  <2> QED
    BY <2>1, <2>2
<1> QED
  BY <1>1, <1>2, <1>3 DEF AboutTo

LEMMA SilenceStep == TypeInv /\ StampInv /\ SilenceInv /\ [Next]_vars => SilenceInv'
<1> SUFFICES ASSUME TypeInv, StampInv, SilenceInv, [Next]_vars PROVE SilenceInv'
  OBVIOUS
<1>0. /\ mem \in [RunIds -> Row]
      /\ db \in [RunIds -> Row]
      /\ spc = "close" => scur \in RunIds
      /\ \A r \in RunIds : Told(r, mem[r].state) /\ Told(r, db[r].state)
  BY DEF TypeInv, TypeOK, LedgerTypeOK, SweepOK, SilenceInv
<1>1. DoneWasPosted' /\ AboutTo'
  BY DoneStep, AboutStep DEF SilenceInv
<1> SUFFICES \A q \in RunIds : Told(q, mem'[q].state) /\ Told(q, db'[q].state)
  <2>1. ASSUME NEW q \in RunIds, NEW state, Told(q, state) PROVE Told(q, state)'
    BY <2>1, ToldStays DEF Told
  <2>2. ASSUME NEW q \in RunIds,
               \A r \in RunIds : Told(r, mem'[r].state) /\ Told(r, db'[r].state)
        PROVE  (Told(q, mem[q].state) /\ Told(q, db[q].state))'
    <3>1. PICK s, t : s = mem'[q].state /\ t = db'[q].state
      OBVIOUS
    <3>2. Told(q, s)' /\ Told(q, t)'
      BY <2>1, <2>2, <3>1
    <3> QED
      BY <3>1, <3>2 DEF Told
  <2> QED
    BY <1>1, <2>2 DEF SilenceInv
<1>2. ASSUME NEW r \in RunIds, \A q \in RunIds : q # r => mem'[q] = mem[q],
             Told(r, mem'[r].state), Save(r) \/ db' = db
      PROVE  \A q \in RunIds : Told(q, mem'[q].state) /\ Told(q, db'[q].state)
  BY <1>0, <1>2 DEF Save
<1>3. CASE DeliverCase
  <2>1. PICK k \in Keys : Insert(k)
    BY <1>3 DEF DeliverCase, Deliver
  <2>2. Told(nextId, NewRow(k).state)
    BY DEF Told, NewRow
  <2> QED
    BY <1>0, <2>1, <2>2 DEF Insert
<1>4. CASE MoveCase
  <2>1. PICK r \in RunIds, to \in RunState \ {"timed_out"} :
          Cause(r, to) /\ SetState(r, to) /\ (Save(r) \/ db' = db)
    BY <1>4 DEF MoveCase
  <2>2. mem'[r].state = to /\ \A q \in RunIds : q # r => mem'[q] = mem[q]
    BY <1>0, <2>1 DEF SetState, Row
  <2>3. Told(r, to)
    BY <2>1 DEF Cause, Told, SilenceInv, AboutTo
  <2> QED
    BY <1>2, <2>1, <2>2, <2>3
<1>5. CASE AnswerCase
  <2>1. PICK r \in RunIds, action \in Answers : Stamp(r, action) /\ db' = db
    BY <1>5 DEF AnswerCase
  <2> QED
    BY <1>0, <2>1 DEF Stamp, Row
<1>6. CASE ExpireCase
  <2>1. /\ scur \in RunIds /\ mem'[scur].state = "timed_out"
        /\ \A q \in RunIds : q # scur => mem'[q] = mem[q]
    BY <1>0, <1>6 DEF ExpireCase, Row
  <2>2. Told(scur, "timed_out")
    BY <1>6 DEF ExpireCase, Told, SilenceInv, AboutTo
  <2> QED
    BY <1>2, <1>6, <2>1, <2>2 DEF ExpireCase
<1>7. CASE KeepCase \/ Crash
  BY <1>0, <1>7 DEF KeepCase, Crash, Hydrate
<1> QED
  BY <1>3, <1>4, <1>5, <1>6, <1>7, RowCases

\* A run that waits has a card in front of its merchant and a run that failed or
\* timed out was announced first, through every outage, race and restart
\* (handle_event, _escalate, _time_out, _fail_stalled).
THEOREM NeverSilentHolds == Spec => []NeverSilent
<1>1. SilenceInv => NeverSilent
  BY DEF SilenceInv, Told, NeverSilent
<1>2. Spec => []SilenceInv
  BY StampInit, StampStep, SilenceInit, SilenceStep, AlwaysTypeInv, PTL DEF Spec
<1> QED
  BY <1>1, <1>2, PTL

-----------------------------------------------------------------------------
(* One card per dispute, one filing per run.                               *)

\* While the process lives the index knows the run of every key.
IndexInv == \A r \in RunIds : InMemory(r) => byIdem[mem[r].key] = r

LEMMA IndexInit == Init => IndexInv
  BY DEF Init, LedgerInit, IndexInv, InMemory, NoRow, NewRow

LEMMA IndexStep ==
  TypeInv /\ StampInv /\ IndexInv /\ [Next]_vars /\ ~Crash => IndexInv'
<1> SUFFICES ASSUME TypeInv, StampInv, IndexInv, [Next]_vars, ~Crash PROVE IndexInv'
  OBVIOUS
<1>0. /\ mem \in [RunIds -> Row]
      /\ byIdem \in [Keys -> RunIds \cup {0}]
      /\ 0 \notin RunIds
      /\ spc = "close" => scur \in RunIds
  BY DEF TypeInv, TypeOK, LedgerTypeOK, SweepOK, RunIds
<1>1. CASE DeliverCase
  <2>1. PICK k \in Keys :
          /\ byIdem[k] = 0
          /\ mem' = [mem EXCEPT ![nextId] = NewRow(k)]
          /\ byIdem' = [byIdem EXCEPT ![k] = nextId]
    BY <1>1 DEF DeliverCase, Deliver, Insert
  <2>2. ASSUME NEW r \in RunIds, mem'[r].key # NoKey PROVE byIdem'[mem'[r].key] = r
    <3>1. CASE r = nextId
      BY <1>0, <2>1, <3>1 DEF NewRow
    <3>2. CASE r # nextId
      <4>1. mem'[r] = mem[r] /\ mem[r].key \in Keys /\ byIdem[mem[r].key] = r
        BY <1>0, <2>1, <2>2, <3>2 DEF IndexInv, InMemory, Row
      <4>2. mem[r].key # k
        BY <1>0, <2>1, <4>1
      <4> QED
        BY <1>0, <2>1, <4>1, <4>2
    <3> QED
      BY <3>1, <3>2
  <2> QED
    BY <2>2 DEF IndexInv, InMemory
<1>2. CASE MoveCase \/ AnswerCase \/ ExpireCase \/ KeepCase
  <2>1. byIdem' = byIdem /\ \A r \in RunIds : mem'[r].key = mem[r].key
    BY <1>0, <1>2 DEF MoveCase, AnswerCase, ExpireCase, KeepCase, SetState, Stamp, Row
  <2> QED
    BY <2>1 DEF IndexInv, InMemory
<1> QED
  BY <1>1, <1>2, RowCases

\* While the process lives one dispute has one card, however often its webhook
\* is delivered (Ledger.insert, the idempotency key).
THEOREM OneCardPerDisputeHolds == MaxCrashes = 0 /\ Spec => []OneCardPerDispute
<1>1. IndexInv /\ TrailInv => OneCardPerDispute
  <2> SUFFICES ASSUME IndexInv, TrailInv, NEW k \in Keys, NEW q \in RunsOf(k),
                      NEW r \in RunsOf(k)
               PROVE  q = r
    BY DEF OneCardPerDispute
  <2>1. ASSUME NEW s \in RunsOf(k) PROVE byIdem[k] = s
    <3>1. s \in RunIds /\ mem[s].key = k /\ k # NoKey
      BY <2>1, KeysAssumption DEF RunsOf, TrailInv, Trails
    <3> QED
      BY <3>1 DEF IndexInv, InMemory
  <2> QED
    BY <2>1
<1>2. Spec => [](TypeInv /\ StampInv /\ TrailInv)
  BY StampInit, StampStep, TrailInit, TrailStep, AlwaysTypeInv, PTL DEF Spec
<1>3. CASE MaxCrashes = 0
  <2>1. TypeInv /\ StampInv /\ IndexInv /\ [Next]_vars => IndexInv'
    BY <1>3, IndexStep DEF TypeInv, TypeOK, Crash
  <2> QED
    BY <1>1, <1>2, <2>1, IndexInit, PTL DEF Spec
<1>4. CASE MaxCrashes # 0
  BY <1>4
<1> QED
  BY <1>3, <1>4

\* A filed run has its note in the effect table.
OnceInv ==
  \A r \in RunIds : filed[r] # <<>> => Len(filed[r]) = 1 /\ "crm_note" \in done[r]

LEMMA OnceInit == Init => OnceInv
  BY DEF Init, PipelineInit, OnceInv

\* The effect table forgets nothing, not even in a restart.
LEMMA DoneStays ==
  ASSUME TypeInv, [Next]_vars
  PROVE  \A r \in RunIds : done[r] \subseteq done'[r]
<1>0. done \in [RunIds -> SUBSET EffectKinds]
  BY DEF TypeInv, TypeOK, LedgerTypeOK
<1>1. ASSUME NEW r, NEW kind, MarkDone(r, kind)
      PROVE  \A q \in RunIds : done[q] \subseteq done'[q]
  BY <1>0, <1>1 DEF MarkDone
<1>2. CASE PostCard \/ FileNote \/ PostEscalation \/ SweepPosts
  BY <1>1, <1>2 DEF PostCard, FileNote, PostEscalation, SweepPosts
<1>3. CASE HandlerStarts
  BY <1>3 DEF HandlerStarts, Starts, Deliver, Insert, Approve, Edit, Reject, Answer,
              RecordResolution, RestOfLedger
<1>4. CASE HandlerContinues
  BY <1>2, <1>4 DEF HandlerContinues, Continues, Confirm, PassSafety, Draft, PassChecks,
       Act, Suppress, Surface, Fail, Settle, Approved, Edited, Rejected, Resolve,
       FailChecks, ModelDies, Diff, ModelRaises, PortRefuses, PortLoses, EscalateWith,
       Transition, TransitionAndSave, RestOfLedger, ledgerVars
<1>5. CASE SweepContinues
  BY <1>2, <1>5 DEF SweepContinues, Sweeps, VisitWorking, VisitWaiting, VisitRest,
       SweepPostFails, CloseTimedOut, CloseStalled, EndSweep, RestOfLedger, ledgerVars
<1>6. CASE SweepStarts \/ TimePasses \/ Crash \/ UNCHANGED vars
  BY <1>6 DEF SweepStarts, StartSweep, TimePasses, GateExpires, Crash, Hydrate, vars,
              ledgerVars
<1> QED
  BY <1>3, <1>4, <1>5, <1>6 DEF Next

\* Without a lost reply, only the handler's first call of the CRM files.
LEMMA FiledByNote ==
  ASSUME TypeInv, [Next]_vars, "lost" \notin PortErrors
  PROVE  \/ filed' = filed
         \/ /\ hrun \in RunIds /\ "crm_note" \notin done[hrun]
            /\ filed' = [filed EXCEPT ![hrun] = Append(@, harg)]
            /\ "crm_note" \in done'[hrun]
<1>0. done \in [RunIds -> SUBSET EffectKinds]
  BY DEF TypeInv, TypeOK, LedgerTypeOK
<1>1. CASE FileNote
  <2>1. hrun \in RunIds
    BY <1>1 DEF FileNote, At, TypeInv, HandlerOK
  <2> QED
    BY <1>0, <1>1, <2>1 DEF FileNote, MarkDone, Fires
<1>2. CASE ~FileNote /\ HandlerContinues
  BY <1>2 DEF HandlerContinues, Continues, Confirm, PassSafety, Draft, PassChecks, Act,
       Suppress, Surface, Fail, Settle, Approved, Edited, Rejected, Resolve, FailChecks,
       ModelDies, PostCard, PostEscalation, Diff, ModelRaises, PortRefuses, PortLoses,
       EscalateWith, Transition, TransitionAndSave, worldVars
<1>3. CASE HandlerStarts
  BY <1>3 DEF HandlerStarts, Starts, Deliver, Approve, Edit, Reject, Answer,
              RecordResolution, worldVars
<1>4. CASE SweepContinues
  BY <1>4 DEF SweepContinues, Sweeps, VisitWorking, VisitWaiting, VisitRest, SweepPosts,
              SweepPostFails, CloseTimedOut, CloseStalled, EndSweep, worldVars
<1>5. CASE SweepStarts \/ TimePasses \/ Crash \/ UNCHANGED vars
  BY <1>5 DEF SweepStarts, StartSweep, TimePasses, GateExpires, Crash, vars, worldVars
<1> QED
  BY <1>1, <1>2, <1>3, <1>4, <1>5 DEF Next

LEMMA OnceStep ==
  TypeInv /\ OnceInv /\ [Next]_vars /\ "lost" \notin PortErrors => OnceInv'
<1> SUFFICES ASSUME TypeInv, OnceInv, [Next]_vars, "lost" \notin PortErrors
             PROVE  OnceInv'
  OBVIOUS
<1>0. filed \in [RunIds -> Seq(Texts)]
  BY DEF TypeInv, TypeOK, PipelineTypeOK
<1>1. CASE filed' = filed
  BY <1>1, DoneStays DEF OnceInv
<1>2. CASE /\ hrun \in RunIds /\ "crm_note" \notin done[hrun]
           /\ filed' = [filed EXCEPT ![hrun] = Append(@, harg)]
           /\ "crm_note" \in done'[hrun]
  <2>1. filed[hrun] = <<>>
    BY <1>2 DEF OnceInv
  <2>2. filed'[hrun] = <<harg>>
    <3>1. Append(filed[hrun], harg) = <<harg>>
      BY <2>1
    <3> QED
      BY <1>0, <1>2, <3>1
  <2>3. Len(<<harg>>) = 1
    OBVIOUS
  <2>4. \A r \in RunIds : r # hrun => filed'[r] = filed[r]
    BY <1>0, <1>2
  <2> QED
    BY <1>2, <2>2, <2>3, <2>4, DoneStays DEF OnceInv
<1> QED
  BY <1>1, <1>2, FiledByNote

\* When no reply of the CRM is lost, a response is filed once per run, also when
\* the process dies between the filing and the save (effect).
THEOREM FiledOncePerRunHolds == "lost" \notin PortErrors /\ Spec => []FiledOncePerRun
<1>1. OnceInv => FiledOncePerRun
  <2> SUFFICES ASSUME OnceInv, NEW r \in RunIds PROVE Len(filed[r]) <= 1
    BY DEF FiledOncePerRun
  <2>1. CASE filed[r] = <<>>
    BY <2>1
  <2>2. CASE filed[r] # <<>>
    <3>1. Len(filed[r]) = 1
      BY <2>2 DEF OnceInv
    <3> QED
      BY <3>1
  <2> QED
    BY <2>1, <2>2
<1>2. CASE "lost" \notin PortErrors
  <2>1. TypeInv /\ OnceInv /\ [Next]_vars => OnceInv'
    BY <1>2, OnceStep
  <2> QED
    BY <1>1, <2>1, OnceInit, AlwaysTypeInv, PTL DEF Spec
<1>3. CASE ~("lost" \notin PortErrors)
  BY <1>3
<1> QED
  BY <1>2, <1>3

-----------------------------------------------------------------------------
(* What restarts can do at worst.                                          *)

\* A run whose filing is still to come in this life.
MayFile(r) ==
  mem[r].gate = "none" \/ (hpc \in FilingPoints \ {"settle"} /\ hrun = r)

LifeInv ==
  \A r \in RunIds :
    /\ Len(filed[r]) <= crashes + 1
    /\ MayFile(r) => Len(filed[r]) <= crashes

LEMMA LifeInit == Init => LifeInv
  BY DEF Init, PipelineInit, LifeInv, MayFile

\* A run that may file after a step of the process might have before it.
LEMMA MayFileBefore ==
  ASSUME TypeInv, StampInv, RowsInv, [Next]_vars, ~Crash, NEW r \in RunIds, MayFile(r)'
  PROVE  MayFile(r)
<1>1. mem'[r].gate = "none" => mem[r].gate = "none"
  BY StampStays
<1>2. CASE mem'[r].gate # "none"
  <2>1. hpc' \in FilingPoints \ {"settle"} /\ hrun' = r
    BY <1>2 DEF MayFile
  <2>2. CASE hpc \in FilingPoints \ {"settle"} /\ hrun = r
    BY <2>2 DEF MayFile
  <2>3. CASE mem[r].gate = "none"
    BY <2>3 DEF MayFile
  <2> QED
    BY <2>1, <2>2, <2>3, FilingFrom
<1> QED
  BY <1>1, <1>2 DEF MayFile

\* A restart is counted, nothing else is.
LEMMA CrashCounts ==
  ASSUME TypeInv, [Next]_vars
  PROVE  IF Crash THEN crashes' = crashes + 1 /\ filed' = filed ELSE crashes' = crashes
<1>1. CASE Crash
  BY <1>1 DEF Crash, worldVars
<1>2. CASE ~Crash
  BY <1>2 DEF Next, HandlerStarts, HandlerContinues, SweepStarts, SweepContinues,
              TimePasses, vars
<1> QED
  BY <1>1, <1>2

LEMMA LifeStep ==
  TypeInv /\ StampInv /\ RowsInv /\ PlaceInv /\ LifeInv /\ [Next]_vars => LifeInv'
<1> SUFFICES ASSUME TypeInv, StampInv, RowsInv, PlaceInv, LifeInv, [Next]_vars,
                    NEW r \in RunIds
             PROVE  /\ Len(filed'[r]) <= crashes' + 1
                    /\ MayFile(r)' => Len(filed'[r]) <= crashes'
  BY DEF LifeInv
<1>0. /\ filed \in [RunIds -> Seq(Texts)] /\ crashes \in Nat
      /\ hpc = "note" => hrun \in RunIds /\ harg \in Texts
      /\ Len(filed[r]) \in Nat
  BY RelayAssumption DEF TypeInv, TypeOK, PipelineTypeOK, HandlerOK, FilingPoints
<1>1. CASE Crash
  BY <1>0, <1>1, CrashCounts DEF LifeInv
<1>2. CASE ~Crash /\ filed'[r] = filed[r]
  <2>1. crashes' = crashes
    BY <1>2, CrashCounts
  <2> QED
    BY <1>2, <2>1, MayFileBefore DEF LifeInv
<1>3. CASE ~Crash /\ filed'[r] # filed[r]
  <2>1. /\ hpc = "note" /\ hrun = r /\ hpc' \in {"idle", "settle"} /\ KeepCase
        /\ filed' = [filed EXCEPT ![r] = Append(@, harg)]
    BY <1>0, <1>3, FiledAdded
  <2>2. Len(filed'[r]) = Len(filed[r]) + 1
    BY <1>0, <2>1
  <2>3. Len(filed[r]) <= crashes
    BY <2>1 DEF LifeInv, MayFile, FilingPoints
  <2>4. mem[r].gate \in {"approve", "edit"}
    BY <1>0, <2>1 DEF PlaceInv, FilingPoints, GateFor, Texts
  <2>5. ~MayFile(r)'
    BY <2>1, <2>4 DEF MayFile, FilingPoints, KeepCase
  <2>6. crashes' = crashes
    BY <1>3, CrashCounts
  <2> QED
    BY <1>0, <2>2, <2>3, <2>5, <2>6
<1> QED
  BY <1>1, <1>2, <1>3

\* Each life of the process writes a response on the order at most once,
\* whatever the CRM refuses or loses: a filing is repeated only after a restart
\* that took the unsaved decision back (record_gate, effect).
THEOREM FiledOncePerLifeHolds == Spec => []FiledOncePerLife
<1>1. LifeInv => FiledOncePerLife
  BY DEF LifeInv, FiledOncePerLife
<1>2. TypeInv /\ StampInv /\ RowsInv /\ [Next]_vars => RowsInv'
  BY RowsStep
<1>3. Spec => []LifeInv
  BY StampInit, StampStep, RowsInit, <1>2, PlaceInit, PlaceStep, LifeInit, LifeStep,
     AlwaysTypeInv, PTL DEF Spec
<1> QED
  BY <1>1, <1>3, PTL

\* A run in memory is one the index knows or one the table keeps, and the table
\* keeps one run of a dispute.
KeptInv ==
  /\ \A r \in RunIds : InMemory(r) => byIdem[mem[r].key] = r \/ InTable(r)
  /\ \A q, r \in RunIds : InTable(q) /\ db[q].key = db[r].key => q = r

LEMMA KeptInit == Init => KeptInv
  BY DEF Init, LedgerInit, KeptInv, InMemory, InTable, NoRow, NewRow

LEMMA KeptStep ==
  TypeInv /\ StampInv /\ TrailInv /\ KeptInv /\ [Next]_vars => KeptInv'
<1> SUFFICES ASSUME TypeInv, StampInv, TrailInv, KeptInv, [Next]_vars PROVE KeptInv'
  OBVIOUS
<1>0. /\ mem \in [RunIds -> Row] /\ db \in [RunIds -> Row]
      /\ byIdem \in [Keys -> RunIds \cup {0}]
      /\ spc = "close" => scur \in RunIds
  BY DEF TypeInv, TypeOK, LedgerTypeOK, SweepOK
<1>1. CASE DeliverCase
  <2>1. PICK k \in Keys : Insert(k)
    BY <1>1 DEF DeliverCase, Deliver
  <2>2. /\ byIdem[k] = 0 /\ nextId \in RunIds
        /\ mem' = [mem EXCEPT ![nextId] = NewRow(k)]
        /\ byIdem' = [byIdem EXCEPT ![k] = nextId]
        /\ db' = IF \E r \in RunIds : db[r].key = k
                   THEN db ELSE [db EXCEPT ![nextId] = NewRow(k)]
    BY <2>1, MaxRunsAssumption DEF Insert, TypeInv, TypeOK, LedgerTypeOK, RunIds
  <2>3. \A r \in RunIds : InTable(r) => InTable(r)'
    BY <1>0, <2>2, KeysAssumption DEF InTable, NewRow
  <2>4. ASSUME NEW r \in RunIds, InMemory(r)' PROVE byIdem'[mem'[r].key] = r \/ InTable(r)'
    <3>1. CASE r = nextId
      BY <1>0, <2>2, <3>1 DEF NewRow
    <3>2. CASE r # nextId
      <4>1. mem'[r] = mem[r] /\ mem[r].key \in Keys
        BY <1>0, <2>2, <2>4, <3>2 DEF InMemory, Row
      <4>2. byIdem[mem[r].key] = r \/ InTable(r)
        BY <2>4, <4>1 DEF KeptInv, InMemory
      <4>3. byIdem[mem[r].key] = r => mem[r].key # k
        BY <2>2 DEF RunIds
      <4> QED
        BY <1>0, <2>2, <2>3, <4>1, <4>2, <4>3
    <3> QED
      BY <3>1, <3>2
  <2>5. \A q, r \in RunIds : InTable(q)' /\ db'[q].key = db'[r].key => q = r
    <3>1. CASE db' = db
      BY <3>1 DEF KeptInv, InTable
    <3>2. CASE db' # db
      <4>1. db' = [db EXCEPT ![nextId] = NewRow(k)] /\ \A r \in RunIds : db[r].key # k
        BY <2>2, <3>2
      <4>2. /\ db'[nextId].key = k
            /\ \A r \in RunIds : r # nextId => db'[r] = db[r]
        BY <1>0, <2>2, <4>1 DEF NewRow
      <4> QED
        BY <4>1, <4>2 DEF KeptInv, InTable
    <3> QED
      BY <3>1, <3>2
  <2> QED
    BY <2>4, <2>5 DEF KeptInv
<1>2. CASE MoveCase \/ AnswerCase \/ ExpireCase \/ KeepCase
  <2>1. byIdem' = byIdem /\ \A r \in RunIds : mem'[r].key = mem[r].key
    BY <1>0, <1>2 DEF MoveCase, AnswerCase, ExpireCase, KeepCase, SetState, Stamp, Row
  <2>2. \A r \in RunIds : db'[r].key = db[r].key
    <3>1. ASSUME NEW r \in RunIds, Save(r) PROVE \A q \in RunIds : db'[q].key = db[q].key
      BY <1>0, <2>1, <3>1 DEF Save, InTable, TrailInv, Trails
    <3> QED
      BY <1>0, <1>2, <3>1 DEF MoveCase, AnswerCase, ExpireCase, KeepCase
  <2> QED
    BY <2>1, <2>2 DEF KeptInv, InMemory, InTable
<1>3. CASE Crash
  BY <1>3 DEF Crash, Hydrate, KeptInv, InMemory, InTable
<1> QED
  BY <1>1, <1>2, <1>3, RowCases

\* A dispute delivered again after a restart gets a second run, never a third:
\* one is in the table, the other the index of this life refuses to double
\* (Ledger.insert, PgLedger.insert, hydrate).
THEOREM TwoRunsAtMostHolds == Spec => []TwoRunsAtMost
<1>1. TrailInv /\ KeptInv => TwoRunsAtMost
  <2> SUFFICES ASSUME TrailInv, KeptInv, NEW k \in Keys,
                      NEW o \in RunsOf(k), NEW q \in RunsOf(k), NEW r \in RunsOf(k)
               PROVE  o = q \/ q = r \/ r = o
    BY DEF TwoRunsAtMost
  <2>1. ASSUME NEW s \in RunsOf(k)
        PROVE  /\ s \in RunIds
               /\ byIdem[k] = s \/ (InTable(s) /\ db[s].key = k)
    <3>1. s \in RunIds /\ mem[s].key = k /\ InMemory(s)
      BY <2>1, KeysAssumption DEF RunsOf, TrailInv, Trails, InMemory
    <3> QED
      BY <3>1 DEF KeptInv, TrailInv, Trails, InTable
  <2>2. ASSUME NEW s \in RunsOf(k), NEW u \in RunsOf(k), byIdem[k] # s, byIdem[k] # u
        PROVE  s = u
    BY <2>1, <2>2 DEF KeptInv
  <2>3. CASE byIdem[k] = o
    BY <2>2, <2>3
  <2>4. CASE byIdem[k] # o
    BY <2>2, <2>4
  <2> QED
    BY <2>3, <2>4
<1>2. Spec => []KeptInv
  BY StampInit, StampStep, TrailInit, TrailStep, KeptInit, KeptStep, AlwaysTypeInv, PTL
     DEF Spec
<1>3. Spec => []TrailInv
  BY StampInit, StampStep, TrailInit, TrailStep, AlwaysTypeInv, PTL DEF Spec
<1> QED
  BY <1>1, <1>2, <1>3, PTL
=============================================================================
