----------------------------- MODULE RelayTypes -----------------------------
(***************************************************************************)
(* Type correctness of Relay, for any number of runs and restarts, any     *)
(* faults and either scheduling of the supervisor.                         *)
(***************************************************************************)
EXTENDS Relay, TLAPS

\* Handler points at which harg is a text, and at which it is a reason.
FilingPoints     == {"approving", "diff", "editing", "acting", "note", "settle"}
EscalatingPoints == {"escalate", "fail"}

\* A handler in flight has a run, and its argument fits what it is doing.
HandlerOK ==
  /\ hpc # "idle" => hrun \in RunIds
  /\ hpc \in FilingPoints => harg \in Texts
  /\ hpc \in EscalatingPoints => harg \in EscalationReasons

\* A sweep in flight is at a run of its snapshot when it posts or closes.
SweepOK ==
  /\ spc = "visit" => slast \in 0..MaxRuns
  /\ spc \in {"post", "close"} => scur \in RunIds /\ sarg \in EscalationReasons

TypeInv == TypeOK /\ HandlerOK /\ SweepOK

USE DEF RunIds

-----------------------------------------------------------------------------
(* What the ledger's operators do to the types.                            *)

LEMMA LegalType == Legal \in [RunState -> SUBSET RunState]
  BY DEF Legal, RunState

LEMMA NewRowType ==
  ASSUME NEW k \in Keys \cup {NoKey}
  PROVE  NewRow(k) \in Row
  BY DEF NewRow, Row, RunState, GateAction, Answers

LEMMA SetStateType ==
  ASSUME mem \in [RunIds -> Row], NEW r \in RunIds, NEW to \in RunState,
         SetState(r, to)
  PROVE  mem' \in [RunIds -> Row]
  BY DEF SetState, Row

LEMMA SaveType ==
  ASSUME mem' \in [RunIds -> Row], db \in [RunIds -> Row],
         NEW r \in RunIds, Save(r)
  PROVE  db' \in [RunIds -> Row]
  BY DEF Save

LEMMA MarkDoneType ==
  ASSUME done \in [RunIds -> SUBSET EffectKinds],
         NEW r \in RunIds, NEW kind \in EffectKinds, MarkDone(r, kind)
  PROVE  done' \in [RunIds -> SUBSET EffectKinds]
  BY DEF MarkDone

-----------------------------------------------------------------------------
LEMMA TypesInit == Init => TypeInv
<1> SUFFICES ASSUME Init PROVE TypeInv
  OBVIOUS
<1>0. MaxRuns \in Nat /\ MaxCrashes \in Nat
  BY MaxRunsAssumption, RelayAssumption
<1>1. LedgerTypeOK
  BY <1>0, NewRowType DEF Init, LedgerInit, LedgerTypeOK, NoRow
<1>2. PipelineTypeOK
  BY <1>0 DEF Init, PipelineInit, PipelineTypeOK, HandlerPoints
<1>3. SupervisorTypeOK
  BY <1>0 DEF Init, SupervisorInit, SupervisorTypeOK
<1>4. HandlerOK /\ SweepOK
  BY DEF Init, PipelineInit, SupervisorInit, HandlerOK, SweepOK,
         FilingPoints, EscalatingPoints
<1> QED
  BY <1>0, <1>1, <1>2, <1>3, <1>4 DEF TypeInv, TypeOK, Init

-----------------------------------------------------------------------------
(* The handler's steps.                                                    *)

\* What a handler's step may assume, and must keep, of the parts it changes.
HandlerTypes == LedgerTypeOK /\ PipelineTypeOK /\ HandlerOK

LEMMA TransitionTypes ==
  ASSUME HandlerTypes, hrun \in RunIds,
         NEW to \in RunState, NEW next \in HandlerPoints,
         Transition(to, next),
         next \in FilingPoints => harg \in Texts,
         next \notin EscalatingPoints
  PROVE  HandlerTypes'
<1>1. mem' \in [RunIds -> Row]
  BY SetStateType DEF Transition, HandlerTypes, LedgerTypeOK
<1>2. LedgerTypeOK'
  BY <1>1 DEF Transition, RestOfLedger, HandlerTypes, LedgerTypeOK
<1>3. PipelineTypeOK'
  BY DEF Transition, Goto, Raise, Finish, worldVars, HandlerTypes,
         PipelineTypeOK, HandlerPoints
<1>4. HandlerOK'
  BY DEF Transition, Goto, Raise, Finish, HandlerOK, HandlerTypes,
         FilingPoints, EscalatingPoints
<1> QED
  BY <1>2, <1>3, <1>4 DEF HandlerTypes

LEMMA TransitionAndSaveTypes ==
  ASSUME HandlerTypes, hrun \in RunIds, NEW to \in RunState,
         TransitionAndSave(to)
  PROVE  HandlerTypes'
<1>1. mem' \in [RunIds -> Row]
  BY SetStateType DEF TransitionAndSave, HandlerTypes, LedgerTypeOK
<1>2. db' \in [RunIds -> Row]
  BY <1>1, SaveType DEF TransitionAndSave, HandlerTypes, LedgerTypeOK
<1>3. LedgerTypeOK'
  BY <1>1, <1>2 DEF TransitionAndSave, RestOfLedger, HandlerTypes, LedgerTypeOK
<1>4. PipelineTypeOK' /\ HandlerOK'
  BY DEF TransitionAndSave, Finish, worldVars, HandlerTypes, PipelineTypeOK,
         HandlerPoints, HandlerOK, FilingPoints, EscalatingPoints
<1> QED
  BY <1>3, <1>4 DEF HandlerTypes

LEMMA EscalateTypes ==
  ASSUME HandlerTypes, hrun \in RunIds, NEW reason \in EscalationReasons,
         EscalateWith(reason)
  PROVE  HandlerTypes'
<1>1. LedgerTypeOK'
  BY DEF EscalateWith, ledgerVars, HandlerTypes, LedgerTypeOK
<1>2. PipelineTypeOK' /\ HandlerOK'
  BY DEF EscalateWith, worldVars, HandlerTypes, PipelineTypeOK, HandlerPoints,
         HandlerOK, FilingPoints, EscalatingPoints
<1> QED
  BY <1>1, <1>2 DEF HandlerTypes

\* Steps that leave the ledger and the world alone.
LEMMA QuietTypes ==
  ASSUME HandlerTypes, UNCHANGED <<ledgerVars, worldVars>>,
         \/ Finish
         \/ hrun \in RunIds /\ Goto("safety")
         \/ UNCHANGED handlerVars
  PROVE  HandlerTypes'
<1>1. LedgerTypeOK'
  BY DEF ledgerVars, HandlerTypes, LedgerTypeOK
<1>2. PipelineTypeOK' /\ HandlerOK'
  BY DEF Finish, Goto, handlerVars, worldVars, HandlerTypes, PipelineTypeOK,
         HandlerPoints, HandlerOK, FilingPoints, EscalatingPoints
<1> QED
  BY <1>1, <1>2 DEF HandlerTypes

LEMMA DeliverTypes ==
  ASSUME HandlerTypes, NEW k \in Keys, Deliver(k)
  PROVE  HandlerTypes'
<1>0. MaxRuns \in Nat
  BY MaxRunsAssumption
<1>1. nextId \in RunIds
  BY <1>0 DEF Deliver, Insert, HandlerTypes, LedgerTypeOK
<1>2. LedgerTypeOK'
  BY <1>0, <1>1, NewRowType DEF Deliver, Insert, HandlerTypes, LedgerTypeOK
<1>3. PipelineTypeOK' /\ HandlerOK'
  BY <1>1 DEF Deliver, Begin, worldVars, HandlerTypes, PipelineTypeOK,
         HandlerPoints, HandlerOK, FilingPoints, EscalatingPoints
<1> QED
  BY <1>2, <1>3 DEF HandlerTypes

LEMMA AnswerTypes ==
  ASSUME HandlerTypes, NEW r \in RunIds, Approve(r) \/ Edit(r) \/ Reject(r)
  PROVE  HandlerTypes'
<1>1. PICK action \in Answers, point \in {"approving", "diff", "rejecting"},
           text \in Texts \cup {"none"} :
        /\ Answer(r, action, point, text)
        /\ point # "rejecting" => text \in Texts
  BY DEF Approve, Edit, Reject, Answers, Texts
<1>2. LedgerTypeOK'
  BY <1>1 DEF Answer, Stamp, RestOfLedger, Row, GateAction, HandlerTypes,
              LedgerTypeOK
<1>3. PipelineTypeOK' /\ HandlerOK'
  BY <1>1 DEF Answer, Begin, HandlerTypes, PipelineTypeOK, HandlerPoints,
              HandlerOK, FilingPoints, EscalatingPoints
<1> QED
  BY <1>2, <1>3 DEF HandlerTypes

LEMMA ResolutionTypes ==
  ASSUME HandlerTypes, NEW r \in RunIds, RecordResolution(r)
  PROVE  HandlerTypes'
<1>1. LedgerTypeOK'
  BY DEF RecordResolution, AppendOutcome, HandlerTypes, LedgerTypeOK
<1>2. PipelineTypeOK' /\ HandlerOK'
  BY DEF RecordResolution, Begin, worldVars, handlerVars, HandlerTypes,
         PipelineTypeOK, HandlerPoints, HandlerOK, FilingPoints, EscalatingPoints
<1> QED
  BY <1>1, <1>2 DEF HandlerTypes

\* The calls that reach the outside, answered or not.
LEMMA CallTypes ==
  ASSUME HandlerTypes, PostCard \/ PostEscalation \/ FileNote \/ PortLoses
  PROVE  HandlerTypes'
<1>0. hrun \in RunIds /\ harg \in EffectKinds \cup Texts \cup {"none"}
  BY DEF PostCard, PostEscalation, FileNote, PortLoses, CallingOut, CallKind, At,
         HandlerTypes, HandlerOK, PipelineTypeOK, EffectKinds
<1>1. CASE PostCard
  <2>1. done' \in [RunIds -> SUBSET EffectKinds]
    BY <1>0, <1>1, MarkDoneType, "slack_post" \in EffectKinds
       DEF PostCard, HandlerTypes, LedgerTypeOK, EffectKinds
  <2>2. LedgerTypeOK'
    BY <1>1, <2>1 DEF PostCard, HandlerTypes, LedgerTypeOK
  <2>3. cards' \in [RunIds -> Nat]
    BY <1>0, <1>1 DEF PostCard, HandlerTypes, PipelineTypeOK
  <2> QED
    BY <1>0, <1>1, <2>2, <2>3
       DEF PostCard, Goto, HandlerTypes, PipelineTypeOK, HandlerPoints, HandlerOK,
           FilingPoints, EscalatingPoints
<1>2. CASE PostEscalation
  <2>0. harg \in EscalationReasons
    BY <1>2 DEF PostEscalation, At, HandlerTypes, HandlerOK, EscalatingPoints
  <2>1. done' \in [RunIds -> SUBSET EffectKinds]
    BY <1>0, <1>2, <2>0, MarkDoneType
       DEF PostEscalation, HandlerTypes, LedgerTypeOK, EffectKinds
  <2>2. LedgerTypeOK'
    BY <1>2, <2>1 DEF PostEscalation, HandlerTypes, LedgerTypeOK
  <2>3. posts' \in [RunIds -> SUBSET EscalationReasons]
    BY <1>0, <1>2, <2>0 DEF PostEscalation, HandlerTypes, PipelineTypeOK
  <2> QED
    BY <1>0, <1>2, <2>0, <2>2, <2>3
       DEF PostEscalation, Goto, HandlerTypes, PipelineTypeOK, HandlerPoints,
           HandlerOK, FilingPoints, EscalatingPoints
<1>3. CASE FileNote
  <2>0. harg \in Texts
    BY <1>3 DEF FileNote, At, HandlerTypes, HandlerOK, FilingPoints
  <2>1. done' \in [RunIds -> SUBSET EffectKinds]
    BY <1>0, <1>3, MarkDoneType, "crm_note" \in EffectKinds
       DEF FileNote, HandlerTypes, LedgerTypeOK, EffectKinds
  <2>2. LedgerTypeOK'
    BY <1>3, <2>1 DEF FileNote, HandlerTypes, LedgerTypeOK
  <2>3. filed' \in [RunIds -> Seq(Texts)]
    BY <1>0, <1>3, <2>0 DEF FileNote, HandlerTypes, PipelineTypeOK
  <2> QED
    BY <1>0, <1>3, <2>0, <2>2, <2>3
       DEF FileNote, Goto, HandlerTypes, PipelineTypeOK, HandlerPoints, HandlerOK,
           FilingPoints, EscalatingPoints
<1>4. CASE PortLoses
  <2>1. LedgerTypeOK'
    BY <1>4 DEF PortLoses, ledgerVars, HandlerTypes, LedgerTypeOK
  <2>2. cards' \in [RunIds -> Nat]
    BY <1>0, <1>4 DEF PortLoses, HandlerTypes, PipelineTypeOK
  <2>3. filed' \in [RunIds -> Seq(Texts)]
    BY <1>0, <1>4 DEF PortLoses, At, HandlerTypes, PipelineTypeOK, HandlerOK,
                      FilingPoints
  <2>4. posts' \in [RunIds -> SUBSET EscalationReasons]
    BY <1>0, <1>4 DEF PortLoses, At, HandlerTypes, PipelineTypeOK, HandlerOK,
                      EscalatingPoints
  <2> QED
    BY <1>4, <2>1, <2>2, <2>3, <2>4
       DEF PortLoses, Raise, Finish, HandlerTypes, PipelineTypeOK, HandlerPoints,
           HandlerOK, FilingPoints, EscalatingPoints
<1> QED
  BY <1>1, <1>2, <1>3, <1>4

LEMMA StartsTypes ==
  ASSUME HandlerTypes, Starts
  PROVE  HandlerTypes'
  BY DeliverTypes, AnswerTypes, ResolutionTypes DEF Starts

LEMMA ContinuesTypes ==
  ASSUME HandlerTypes, Continues
  PROVE  HandlerTypes'
<1>0. hrun \in RunIds
  BY DEF Continues, Confirm, Suppress, PassSafety, Draft, PassChecks, FailChecks,
         ModelDies, PostCard, Surface, PostEscalation, Fail, Approved, Rejected,
         Diff, ModelRaises, Edited, Act, FileNote, Settle, Resolve, PortRefuses,
         PortLoses, CallingOut, CallKind, SeamAt, At, HandlerTypes, HandlerOK
<1>1. CASE Confirm \/ ModelRaises \/ PortRefuses
  BY <1>0, <1>1, QuietTypes DEF Confirm, ModelRaises, PortRefuses, Raise
<1>2. CASE PassSafety \/ Draft \/ PassChecks
  BY <1>0, <1>2, TransitionTypes
     DEF PassSafety, Draft, PassChecks, RunState, HandlerPoints, FilingPoints,
         EscalatingPoints
<1>3. CASE Approved \/ Edited \/ Act
  <2>1. harg \in Texts
    BY <1>3 DEF Approved, Edited, Act, At, HandlerTypes, HandlerOK, FilingPoints
  <2> QED
    BY <1>0, <1>3, <2>1, TransitionTypes
       DEF Approved, Edited, Act, RunState, HandlerPoints, EscalatingPoints
<1>4. CASE Suppress \/ Surface \/ Fail \/ Rejected \/ Settle
  BY <1>0, <1>4, TransitionAndSaveTypes
     DEF Suppress, Surface, Fail, Rejected, Settle, RunState
<1>5. CASE FailChecks \/ ModelDies
  BY <1>0, <1>5, EscalateTypes DEF FailChecks, ModelDies, EscalationReasons
<1>6. CASE PostCard \/ PostEscalation \/ FileNote \/ PortLoses
  BY <1>6, CallTypes
<1>7. CASE Diff
  <2>1. LedgerTypeOK'
    BY <1>0, <1>7 DEF Diff, HandlerTypes, LedgerTypeOK
  <2> QED
    BY <1>0, <1>7, <2>1
       DEF Diff, At, Goto, worldVars, HandlerTypes, PipelineTypeOK, HandlerPoints,
           HandlerOK, FilingPoints, EscalatingPoints
<1>8. CASE Resolve
  BY <1>0, <1>8, QuietTypes, TransitionAndSaveTypes DEF Resolve, RunState
<1> QED
  BY <1>1, <1>2, <1>3, <1>4, <1>5, <1>6, <1>7, <1>8 DEF Continues

-----------------------------------------------------------------------------
(* The supervisor's steps.                                                 *)

SweepTypes == SupervisorTypeOK /\ SweepOK

LEMMA SweepStartTypes ==
  ASSUME LedgerTypeOK, SweepTypes, StartSweep, UNCHANGED overdue
  PROVE  SweepTypes' /\ LedgerTypeOK'
<1>0. MaxRuns \in Nat
  BY MaxRunsAssumption
<1>1. LedgerTypeOK'
  BY DEF StartSweep, ledgerVars, LedgerTypeOK
<1> QED
  BY <1>0, <1>1 DEF StartSweep, LedgerTypeOK, SweepTypes, SupervisorTypeOK, SweepOK

\* The cursor, the reason and _seen keep their types in every step of a sweep.
LEMMA SweepCursorTypes ==
  ASSUME LedgerTypeOK, SweepTypes, Sweeps, UNCHANGED overdue
  PROVE  SweepTypes'
<1>0. MaxRuns \in Nat
  BY MaxRunsAssumption
<1>1. CASE VisitWorking \/ VisitWaiting \/ VisitRest
  <2>1. scur \in RunIds
    BY <1>0, <1>1 DEF VisitWorking, VisitWaiting, VisitRest, Visiting, SweepTypes,
                      SupervisorTypeOK, SweepOK
  <2>2. seen' \in [RunIds -> StallStates \cup {"none"}]
    BY <1>1, <2>1 DEF VisitWorking, VisitWaiting, VisitRest, Sees, SweepTypes,
                      SupervisorTypeOK
  <2>3. NextRun \/ \E reason \in EscalationReasons : ToPost(reason)
    BY <1>1, "gate_timeout" \in EscalationReasons,
       StallStates \subseteq EscalationReasons
       DEF VisitWorking, VisitWaiting, VisitRest, EscalationReasons
  <2>4. spc = "visit"
    BY <1>1 DEF VisitWorking, VisitWaiting, VisitRest, Visiting
  <2>5. CASE NextRun
    BY <1>0, <2>1, <2>2, <2>4, <2>5
       DEF NextRun, SweepTypes, SupervisorTypeOK, SweepOK
  <2>6. ASSUME NEW reason \in EscalationReasons, ToPost(reason)
        PROVE  SweepTypes'
    BY <2>1, <2>2, <2>4, <2>6 DEF ToPost, SweepTypes, SupervisorTypeOK, SweepOK
  <2> QED
    BY <2>3, <2>5, <2>6
<1>2. CASE SweepPosts
  BY <1>2 DEF SweepPosts, SweepTypes, SupervisorTypeOK, SweepOK
<1>3. CASE SweepPostFails \/ EndSweep
  BY <1>0, <1>3 DEF SweepPostFails, EndSweep, Abort, Finished, SweepTypes,
                    SupervisorTypeOK, SweepOK
<1>4. CASE CloseTimedOut \/ CloseStalled
  <2>1. scur \in RunIds
    BY <1>4 DEF CloseTimedOut, CloseStalled, SweepTypes, SweepOK
  <2>2. seen' \in [RunIds -> StallStates \cup {"none"}]
    BY <1>4, <2>1 DEF CloseTimedOut, CloseStalled, Sees, SweepTypes,
                      SupervisorTypeOK
  <2> QED
    BY <1>0, <1>4, <2>1, <2>2
       DEF CloseTimedOut, CloseStalled, CloseNext, Abort, Finished, SweepTypes,
           SupervisorTypeOK, SweepOK
<1> QED
  BY <1>1, <1>2, <1>3, <1>4 DEF Sweeps

\* So do the ledger and the posts a sweep writes.
LEMMA SweepWritesTypes ==
  ASSUME LedgerTypeOK, PipelineTypeOK, SweepTypes, Sweeps, UNCHANGED handlerVars
  PROVE  LedgerTypeOK' /\ PipelineTypeOK'
<1>0. MaxRuns \in Nat
  BY MaxRunsAssumption
<1>1. CASE VisitWorking \/ VisitWaiting \/ EndSweep
  BY <1>1 DEF VisitWorking, VisitWaiting, EndSweep, ledgerVars, worldVars,
              handlerVars, LedgerTypeOK, PipelineTypeOK
<1>2. CASE VisitRest
  <2>1. scur \in RunIds
    BY <1>0, <1>2 DEF VisitRest, Visiting, SweepTypes, SupervisorTypeOK, SweepOK
  <2>2. mem' \in [RunIds -> Row] /\ db' \in [RunIds -> Row]
    BY <1>2, <2>1, SetStateType, SaveType DEF VisitRest, LedgerTypeOK, RunState
  <2> QED
    BY <1>2, <2>2 DEF VisitRest, RestOfLedger, worldVars, handlerVars,
                      LedgerTypeOK, PipelineTypeOK
<1>3. CASE SweepPosts \/ SweepPostFails
  <2>1. scur \in RunIds /\ sarg \in EscalationReasons
    BY <1>3 DEF SweepPosts, SweepPostFails, SweepTypes, SweepOK
  <2>2. posts' \in [RunIds -> SUBSET EscalationReasons]
    BY <1>3, <2>1 DEF SweepPosts, SweepPostFails, PipelineTypeOK
  <2>3. done' \in [RunIds -> SUBSET EffectKinds]
    BY <1>3, <2>1, MarkDoneType
       DEF SweepPosts, SweepPostFails, ledgerVars, EffectKinds, LedgerTypeOK
  <2> QED
    BY <1>3, <2>2, <2>3 DEF SweepPosts, SweepPostFails, ledgerVars, handlerVars,
                            LedgerTypeOK, PipelineTypeOK
<1>4. CASE CloseTimedOut \/ CloseStalled
  <2>1. scur \in RunIds
    BY <1>4 DEF CloseTimedOut, CloseStalled, SweepTypes, SweepOK
  <2>2. mem' \in [RunIds -> Row]
    <3>1. CASE CloseTimedOut
      BY <2>1, <3>1 DEF CloseTimedOut, LedgerTypeOK, Row, RunState, GateAction
    <3>2. CASE CloseStalled
      BY <2>1, <3>2, SetStateType DEF CloseStalled, LedgerTypeOK, RunState
    <3> QED
      BY <1>4, <3>1, <3>2
  <2>3. db' \in [RunIds -> Row]
    BY <1>4, <2>1, <2>2, SaveType DEF CloseTimedOut, CloseStalled, LedgerTypeOK
  <2> QED
    BY <1>4, <2>2, <2>3 DEF CloseTimedOut, CloseStalled, RestOfLedger, worldVars,
                            handlerVars, LedgerTypeOK, PipelineTypeOK
<1> QED
  BY <1>1, <1>2, <1>3, <1>4 DEF Sweeps

-----------------------------------------------------------------------------
LEMMA CrashTypes ==
  ASSUME TypeInv, Crash
  PROVE  TypeInv'
<1>0. MaxRuns \in Nat /\ MaxCrashes \in Nat
  BY MaxRunsAssumption, RelayAssumption
<1>1. LedgerTypeOK'
  BY DEF Crash, Hydrate, TypeInv, TypeOK, LedgerTypeOK
<1>2. PipelineTypeOK' /\ HandlerOK'
  BY DEF Crash, Finish, worldVars, TypeInv, TypeOK, PipelineTypeOK, HandlerPoints,
         HandlerOK, FilingPoints, EscalatingPoints
<1>3. SupervisorTypeOK' /\ SweepOK'
  BY <1>0 DEF Crash, Finished, TypeInv, TypeOK, SupervisorTypeOK, SweepOK
<1> QED
  BY <1>0, <1>1, <1>2, <1>3 DEF Crash, TypeInv, TypeOK

LEMMA TypesStep == TypeInv /\ [Next]_vars => TypeInv'
<1> SUFFICES ASSUME TypeInv, [Next]_vars PROVE TypeInv'
  OBVIOUS
<1> USE DEF TypeInv, TypeOK
<1>1. CASE HandlerStarts \/ HandlerContinues
  <2>1. HandlerTypes'
    BY <1>1, StartsTypes, ContinuesTypes
       DEF HandlerStarts, HandlerContinues, HandlerTypes
  <2>2. UNCHANGED <<sweepVars, overdue, crashes>>
    BY <1>1 DEF HandlerStarts, HandlerContinues
  <2> QED
    BY <2>1, <2>2 DEF HandlerTypes, sweepVars, SupervisorTypeOK, SweepOK
<1>2. CASE SweepStarts
  <2>1. SweepTypes' /\ LedgerTypeOK'
    BY <1>2, SweepStartTypes DEF SweepStarts, SweepTypes
  <2> QED
    BY <1>2, <2>1 DEF SweepStarts, StartSweep, handlerVars, worldVars, SweepTypes,
                      PipelineTypeOK, HandlerOK
<1>3. CASE SweepContinues
  <2>1. SweepTypes'
    BY <1>3, SweepCursorTypes DEF SweepContinues, SweepTypes
  <2>2. LedgerTypeOK' /\ PipelineTypeOK'
    BY <1>3, SweepWritesTypes DEF SweepContinues, SweepTypes
  <2> QED
    BY <1>3, <2>1, <2>2 DEF SweepContinues, handlerVars, SweepTypes, HandlerOK
<1>4. CASE TimePasses
  BY <1>4 DEF TimePasses, GateExpires, sweepVars, handlerVars, ledgerVars,
              worldVars, LedgerTypeOK, PipelineTypeOK, SupervisorTypeOK, HandlerOK,
              SweepOK
<1>5. CASE Crash
  BY <1>5, CrashTypes
<1>6. CASE UNCHANGED vars
  BY <1>6 DEF vars, sweepVars, handlerVars, ledgerVars, worldVars, LedgerTypeOK,
              PipelineTypeOK, SupervisorTypeOK, HandlerOK, SweepOK
<1> QED
  BY <1>1, <1>2, <1>3, <1>4, <1>5, <1>6 DEF Next

LEMMA AlwaysTypeInv == Spec => []TypeInv
  BY TypesInit, TypesStep, PTL DEF Spec

\* Every variable of the system keeps its type, for every number of runs and
\* restarts, every set of faults and either scheduling of the supervisor.
THEOREM TypesHold == Spec => []TypeOK
<1>1. TypeInv => TypeOK
  BY DEF TypeInv
<1> QED
  BY <1>1, AlwaysTypeInv, PTL
=============================================================================
