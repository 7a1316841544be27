---------------------------- MODULE EffectProofs ----------------------------
(***************************************************************************)
(* Proofs about EffectTable for any number of workers and effects: types,  *)
(* mutual exclusion, no deadlock, what is repeated and what is returned,   *)
(* and that the workers together implement EffectPromise.                  *)
(***************************************************************************)
EXTENDS EffectTable, TLAPS

\* Who holds a row inserted it, and is between its upsert and its commit.
HolderOK ==
  \A e \in Effects : writer[e] # NoWorker =>
    /\ target[writer[e]] = e
    /\ inserted[writer[e]]
    /\ status[e] = "pending"

\* No pending row is without such a holder.
NoPendingCommitted ==
  \A e \in Effects : status[e] = "pending" => writer[e] # NoWorker

\* What each statement knows about its row.
WorkerOK ==
  \A w \in Workers :
    /\ inserted[w] => writer[target[w]] = w /\ pc[w] \in {"lock", "call", "update"}
    /\ pc[w] \in {"call", "update"} => inserted[w]
    /\ pc[w] = "lock" /\ ~inserted[w] => status[target[w]] = "done"

\* How often an effect happened, by what its row and its holder say.
CountOK ==
  /\ \A e \in Effects :
       /\ status[e] # "done" => returned[e] = {}
       /\ status[e] = "absent" => fired[e] = lost[e]
       /\ status[e] = "done" => /\ fired[e] = lost[e] + 1
                                /\ ref[e] = fired[e]
                                /\ returned[e] = {ref[e]}
  /\ \A w \in Workers : inserted[w] =>
       /\ pc[w] # "update" => fired[target[w]] = lost[target[w]]
       /\ pc[w] = "update" => /\ fired[target[w]] = lost[target[w]] + 1
                              /\ answer[w] = fired[target[w]]

IInv == HolderOK /\ NoPendingCommitted /\ WorkerOK /\ CountOK

-----------------------------------------------------------------------------
\* Every variable keeps its type.
LEMMA InitTypes == Init => TypeOK
  BY DEF Init, TypeOK, Points

\* The steps of the code and the ways to end early keep the types.
LEMMA StepTypes == TypeOK /\ [Next]_vars => TypeOK'
<1> SUFFICES ASSUME TypeOK, [Next]_vars PROVE TypeOK'
  OBVIOUS
<1> USE DEF TypeOK, Points, Goto, Leave, Rollback, table
<1>1. ASSUME NEW w \in Workers, NEW e \in Effects, Call(w, e) PROVE TypeOK'
  BY <1>1 DEF Call
<1>2. ASSUME NEW w \in Workers, Insert(w) PROVE TypeOK'
  BY <1>2 DEF Insert
<1>3. ASSUME NEW w \in Workers, Take(w) PROVE TypeOK'
  BY <1>3 DEF Take
<1>4. ASSUME NEW w \in Workers, Replay(w) PROVE TypeOK'
  BY <1>4 DEF Replay
<1>5. ASSUME NEW w \in Workers, Do(w) PROVE TypeOK'
  BY <1>5 DEF Do
<1>6. ASSUME NEW w \in Workers, Update(w) PROVE TypeOK'
  BY <1>6 DEF Update
<1>7. ASSUME NEW w \in Workers, Refuse(w) PROVE TypeOK'
  BY <1>7 DEF Refuse
<1>8. ASSUME NEW w \in Workers, Lose(w) PROVE TypeOK'
  BY <1>8 DEF Lose
<1>9. ASSUME NEW w \in Workers, Die(w) PROVE TypeOK'
  BY <1>9 DEF Die
<1>10. CASE UNCHANGED vars
  BY <1>10 DEF vars, worker
<1> QED
  BY <1>1, <1>2, <1>3, <1>4, <1>5, <1>6, <1>7, <1>8, <1>9, <1>10
  DEF Next, Continue, Break

\* Every variable of the effect table and its workers keeps its type.
THEOREM EffectTypes == Spec => []TypeOK
  BY InitTypes, StepTypes, PTL DEF Spec

-----------------------------------------------------------------------------
\* At the start nobody holds anything and nothing happened.
LEMMA InitIInv == Init => IInv
  BY WorkersAssumption
  DEF Init, IInv, HolderOK, NoPendingCommitted, WorkerOK, CountOK

\* A rollback by a worker that loses or forgets its call keeps the invariant:
\* nHappened is what the step adds to fired and lost of its effect.
LEMMA RollbackIInv ==
  ASSUME TypeOK, IInv, NEW w \in Workers, pc[w] # "idle", Rollback(w),
         \A e \in Effects : e # target[w] => fired'[e] = fired[e] /\ lost'[e] = lost[e],
         fired' \in [Effects -> Nat], lost' \in [Effects -> Nat],
         pc[w] # "update" => fired'[target[w]] - fired[target[w]]
                             = lost'[target[w]] - lost[target[w]],
         pc[w] = "update" => /\ fired' = fired
                             /\ lost'[target[w]] = lost[target[w]] + 1,
         ~inserted[w] => fired' = fired /\ lost' = lost
  PROVE  IInv'
<1> USE DEF TypeOK, Points, Goto, Leave, Rollback, IInv
<1>1. HolderOK'
  BY WorkersAssumption DEF HolderOK, WorkerOK
<1>2. NoPendingCommitted'
  BY WorkersAssumption DEF HolderOK, NoPendingCommitted, WorkerOK
<1>3. WorkerOK'
  BY WorkersAssumption DEF HolderOK, WorkerOK
<1>4. CountOK'
  <2>1. ASSUME NEW e \in Effects
        PROVE  /\ status'[e] # "done" => returned'[e] = {}
               /\ status'[e] = "absent" => fired'[e] = lost'[e]
               /\ status'[e] = "done" => /\ fired'[e] = lost'[e] + 1
                                         /\ ref'[e] = fired'[e]
                                         /\ returned'[e] = {ref'[e]}
    BY WorkersAssumption DEF HolderOK, WorkerOK, CountOK
  <2>2. ASSUME NEW v \in Workers, inserted'[v]
        PROVE  /\ pc'[v] # "update" => fired'[target'[v]] = lost'[target'[v]]
               /\ pc'[v] = "update" => /\ fired'[target'[v]] = lost'[target'[v]] + 1
                                       /\ answer'[v] = fired'[target'[v]]
    BY <2>2, WorkersAssumption DEF HolderOK, WorkerOK, CountOK
  <2> QED
    BY <2>1, <2>2 DEF CountOK
<1> QED
  BY <1>1, <1>2, <1>3, <1>4 DEF IInv

\* Every step keeps the invariant.
LEMMA StepIInv == TypeOK /\ TypeOK' /\ IInv /\ [Next]_vars => IInv'
<1> SUFFICES ASSUME TypeOK, TypeOK', IInv, [Next]_vars PROVE IInv'
  OBVIOUS
<1> USE WorkersAssumption DEF TypeOK, Points, Goto
<1>1. ASSUME NEW w \in Workers, NEW e \in Effects, Call(w, e) PROVE IInv'
  <2>1. HolderOK' /\ NoPendingCommitted' /\ WorkerOK'
    BY <1>1 DEF Call, table, IInv, HolderOK, NoPendingCommitted, WorkerOK
  <2>2. CountOK'
    BY <1>1 DEF Call, table, IInv, WorkerOK, CountOK
  <2> QED
    BY <2>1, <2>2 DEF IInv
<1>2. ASSUME NEW w \in Workers, Insert(w) PROVE IInv'
  <2>1. HolderOK' /\ NoPendingCommitted'
    BY <1>2 DEF Insert, Contended, IInv, HolderOK, NoPendingCommitted, WorkerOK
  <2>2. WorkerOK'
    BY <1>2 DEF Insert, Contended, IInv, HolderOK, NoPendingCommitted, WorkerOK
  <2>3. CountOK'
    BY <1>2 DEF Insert, Contended, IInv, HolderOK, WorkerOK, CountOK
  <2> QED
    BY <2>1, <2>2, <2>3 DEF IInv
<1>3. ASSUME NEW w \in Workers, Take(w) PROVE IInv'
  <2>1. inserted[w] /\ writer' = writer
    BY <1>3 DEF Take, IInv, WorkerOK
  <2>2. HolderOK' /\ NoPendingCommitted' /\ WorkerOK'
    BY <1>3, <2>1 DEF Take, IInv, HolderOK, NoPendingCommitted, WorkerOK
  <2>3. CountOK'
    BY <1>3, <2>1 DEF Take, IInv, WorkerOK, CountOK
  <2> QED
    BY <2>2, <2>3 DEF IInv
<1>4. ASSUME NEW w \in Workers, Replay(w) PROVE IInv'
  <2>1. ~inserted[w] /\ \A e \in Effects : writer[e] # w
    BY <1>4 DEF Replay, IInv, HolderOK, WorkerOK
  <2>2. HolderOK' /\ NoPendingCommitted' /\ WorkerOK'
    BY <1>4, <2>1 DEF Replay, Leave, IInv, HolderOK, NoPendingCommitted, WorkerOK
  <2>3. CountOK'
    BY <1>4, <2>1 DEF Replay, Leave, IInv, WorkerOK, CountOK
  <2> QED
    BY <2>2, <2>3 DEF IInv
<1>5. ASSUME NEW w \in Workers, Do(w) PROVE IInv'
  <2>1. HolderOK' /\ NoPendingCommitted' /\ WorkerOK'
    BY <1>5 DEF Do, table, IInv, HolderOK, NoPendingCommitted, WorkerOK
  <2>2. CountOK'
    BY <1>5 DEF Do, table, IInv, HolderOK, WorkerOK, CountOK
  <2> QED
    BY <2>1, <2>2 DEF IInv
<1>6. ASSUME NEW w \in Workers, Update(w) PROVE IInv'
  <2>1. HolderOK' /\ NoPendingCommitted' /\ WorkerOK'
    BY <1>6 DEF Update, Leave, IInv, HolderOK, NoPendingCommitted, WorkerOK
  <2>2. CountOK'
    BY <1>6 DEF Update, Leave, IInv, HolderOK, WorkerOK, CountOK
  <2> QED
    BY <2>1, <2>2 DEF IInv
<1>7. ASSUME NEW w \in Workers, Refuse(w) PROVE IInv'
  BY <1>7, RollbackIInv DEF Refuse
<1>8. ASSUME NEW w \in Workers, Lose(w) PROVE IInv'
  <2>1. inserted[w]
    BY <1>8 DEF Lose, IInv, WorkerOK
  <2>2. /\ fired'[target[w]] - fired[target[w]] = lost'[target[w]] - lost[target[w]]
        /\ \A e \in Effects : e # target[w] => fired'[e] = fired[e] /\ lost'[e] = lost[e]
    BY <1>8 DEF Lose
  <2>3. pc[w] = "call" /\ Rollback(w)
    BY <1>8 DEF Lose
  <2>4. fired' \in [Effects -> Nat] /\ lost' \in [Effects -> Nat]
    OBVIOUS
  <2> HIDE DEF TypeOK
  <2> QED
    BY <2>1, <2>2, <2>3, <2>4, RollbackIInv
<1>9. ASSUME NEW w \in Workers, Die(w) PROVE IInv'
  <2>1. pc[w] = "update" => inserted[w]
    BY <1>9 DEF IInv, WorkerOK
  <2> QED
    BY <1>9, <2>1, RollbackIInv DEF Die
<1>10. CASE UNCHANGED vars
  BY <1>10 DEF vars, worker, table, IInv, HolderOK, NoPendingCommitted, WorkerOK, CountOK
<1> QED
  BY <1>1, <1>2, <1>3, <1>4, <1>5, <1>6, <1>7, <1>8, <1>9, <1>10
  DEF Next, Continue, Break

\* The strengthened invariant holds in every behaviour.
LEMMA IInvHolds == Spec => []IInv
  BY InitIInv, StepIInv, EffectTypes, PTL DEF Spec

-----------------------------------------------------------------------------
\* The row is the lock: no two workers execute the same effect at once.
THEOREM OneExecutorHolds == Spec => []OneExecutor
<1>1. TypeOK /\ IInv => OneExecutor
  BY DEF TypeOK, IInv, WorkerOK, OneExecutor, Executing
<1> QED
  BY <1>1, EffectTypes, IInvHolds, PTL

\* An effect is repeated only as often as a call was made and forgotten.
THEOREM RepeatedOnlyWhenLostHolds == Spec => []RepeatedOnlyWhenLost
<1>1. TypeOK /\ IInv => RepeatedOnlyWhenLost
  <2> SUFFICES ASSUME TypeOK, IInv, NEW e \in Effects PROVE fired[e] <= lost[e] + 1
    BY DEF RepeatedOnlyWhenLost
  <2> USE DEF TypeOK, IInv
  <2>1. CASE status[e] # "pending"
    BY <2>1 DEF CountOK
  <2>2. CASE status[e] = "pending"
    BY <2>2 DEF HolderOK, NoPendingCommitted, CountOK
  <2> QED
    BY <2>1, <2>2
<1> QED
  BY <1>1, EffectTypes, IInvHolds, PTL

\* Everyone who ever got an answer got the same one, and it is on the row.
THEOREM OneReferenceHolds == Spec => []OneReference
<1>1. IInv => OneReference
  BY DEF IInv, CountOK, OneReference
<1> QED
  BY <1>1, IInvHolds, PTL

\* No workers wait for each other, in a circle or in a chain: the holder of a row
\* has what it needs to go on.  It is the safety half of "nobody waits for ever"
\* (effect).
THEOREM WaitsForOneAtWorkHolds == Spec => []WaitsForOneAtWork
<1>1. TypeOK /\ IInv => WaitsForOneAtWork
  <2> SUFFICES ASSUME TypeOK, IInv, NEW w \in Workers, Waiting(w)
               PROVE  \E v \in Workers \ {w} :
                        /\ v = writer[target[w]] /\ target[v] = target[w]
                        /\ pc[v] \in {"lock", "call", "update"} /\ ~Waiting(v)
    BY DEF WaitsForOneAtWork
  <2> DEFINE v == writer[target[w]]
  <2>1. target[w] \in Effects /\ v # NoWorker /\ v \in Workers
    BY DEF TypeOK, Waiting, Contended, Locked
  <2>2. target[v] = target[w] /\ inserted[v] /\ pc[v] \in {"lock", "call", "update"}
    BY <2>1 DEF IInv, HolderOK, WorkerOK
  <2>3. ~Waiting(v)
    BY <2>1, <2>2 DEF Waiting, Locked
  <2>4. v # w
    BY <2>3
  <2> QED
    BY <2>1, <2>2, <2>3, <2>4
<1> QED
  BY <1>1, EffectTypes, IInvHolds, PTL

-----------------------------------------------------------------------------
(* EffectTable implements EffectPromise.  What the promise calls recorded: *)
Recorded == [e \in Effects |-> IF status[e] = "done" THEN ref[e] ELSE 0]

LEMMA InitPromise == Init => Promise!Init
  BY DEF Init, Promise!Init

\* A rollback that forgets at most one call is a try or a stutter.
LEMMA RollbackPromise ==
  ASSUME TypeOK, IInv, NEW w \in Workers, Rollback(w), NEW happened \in BOOLEAN,
         fired' = IF happened THEN [fired EXCEPT ![target[w]] = @ + 1] ELSE fired,
         happened => inserted[w]
  PROVE  [Promise!Next]_(Promise!promiseVars)
<1> USE DEF TypeOK, IInv, Rollback
<1>1. Recorded' = Recorded
  <2>1. inserted[w] => status[target[w]] = "pending"
    BY WorkersAssumption DEF HolderOK, WorkerOK
  <2>2. ASSUME NEW e \in Effects
        PROVE  /\ (status'[e] = "done") <=> (status[e] = "done")
               /\ ref'[e] = ref[e]
    BY <2>1
  <2> QED
    BY <2>2 DEF Recorded
<1>2. returned' = returned
  OBVIOUS
<1>3. CASE ~happened
  BY <1>1, <1>2, <1>3 DEF Recorded, Promise!promiseVars
<1>4. CASE happened
  <2>1. Recorded[target[w]] = 0
    BY <1>4, WorkersAssumption DEF Recorded, HolderOK, WorkerOK
  <2>2. Promise!Try(target[w])
    BY <1>1, <1>2, <1>4, <2>1 DEF Recorded, Promise!Try
  <2> QED
    BY <2>2 DEF Promise!Next
<1> QED
  BY <1>3, <1>4

\* Every step of the workers is a step of the promise or none.
LEMMA StepPromise ==
  TypeOK /\ IInv /\ [Next]_vars => [Promise!Next]_(Promise!promiseVars)
<1> SUFFICES ASSUME TypeOK, IInv, [Next]_vars
             PROVE  [Promise!Next]_(Promise!promiseVars)
  OBVIOUS
<1>1. ASSUME NEW w \in Workers, NEW e \in Effects, Call(w, e)
      PROVE  UNCHANGED Promise!promiseVars
  BY <1>1 DEF Call, table, Promise!promiseVars
<1>2. ASSUME NEW w \in Workers, Insert(w) PROVE UNCHANGED Promise!promiseVars
  <2>1. Recorded' = Recorded
    BY <1>2 DEF Insert, Recorded, TypeOK
  <2> QED
    BY <1>2, <2>1 DEF Insert, Recorded, Promise!promiseVars
<1>3. ASSUME NEW w \in Workers, Take(w) PROVE UNCHANGED Promise!promiseVars
  BY <1>3 DEF Take, Promise!promiseVars
<1>4. ASSUME NEW w \in Workers, Replay(w) PROVE Promise!Repeat(target[w])
  <2>1. target[w] \in Effects /\ Recorded[target[w]] = ref[target[w]]
    BY <1>4 DEF Replay, Recorded, TypeOK
  <2>2. Recorded[target[w]] > 0
    BY <1>4, <2>1 DEF Replay, TypeOK, IInv, CountOK
  <2> QED
    BY <1>4, <2>1, <2>2 DEF Replay, Recorded, Promise!Repeat
<1>5. ASSUME NEW w \in Workers, Do(w) PROVE Promise!Try(target[w])
  <2>1. target[w] \in Effects /\ status[target[w]] # "done"
    BY <1>5, WorkersAssumption DEF Do, TypeOK, IInv, HolderOK, WorkerOK
  <2> QED
    BY <1>5, <2>1 DEF Do, table, Promise!Try
<1>6. ASSUME NEW w \in Workers, Update(w) PROVE Promise!Record(target[w])
  <2>1. /\ target[w] \in Effects /\ status[target[w]] # "done"
        /\ answer[w] = fired[target[w]] /\ fired[target[w]] > 0
    BY <1>6, WorkersAssumption DEF Update, TypeOK, IInv, HolderOK, WorkerOK, CountOK
  <2>2. Recorded' = [Recorded EXCEPT ![target[w]] = fired[target[w]]]
    BY <1>6, <2>1 DEF Update, Recorded, TypeOK
  <2> QED
    BY <1>6, <2>1, <2>2 DEF Update, Recorded, Promise!Record
<1>7. ASSUME NEW w \in Workers, Refuse(w)
      PROVE  [Promise!Next]_(Promise!promiseVars)
  BY <1>7, RollbackPromise DEF Refuse
<1>8. ASSUME NEW w \in Workers, Lose(w)
      PROVE  [Promise!Next]_(Promise!promiseVars)
  <2>1. inserted[w] /\ Rollback(w) /\ fired' = [fired EXCEPT ![target[w]] = @ + 1]
    BY <1>8 DEF Lose, IInv, WorkerOK
  <2> QED
    BY <2>1, RollbackPromise
<1>9. ASSUME NEW w \in Workers, Die(w)
      PROVE  [Promise!Next]_(Promise!promiseVars)
  BY <1>9, RollbackPromise DEF Die
<1>10. CASE UNCHANGED vars
  BY <1>10 DEF vars, worker, table, Promise!promiseVars
<1>11. ASSUME NEW w \in Workers,
              Promise!Repeat(target[w]) \/ Promise!Try(target[w]) \/ Promise!Record(target[w])
       PROVE  Promise!Next
  <2>1. target[w] \in Effects
    BY DEF TypeOK
  <2> QED
    BY <1>11, <2>1 DEF Promise!Next, Promise!Try, Promise!Record, Promise!Repeat
<1> QED
  BY <1>1, <1>2, <1>3, <1>4, <1>5, <1>6, <1>7, <1>8, <1>9, <1>10, <1>11
  DEF Next, Continue, Break

\* The workers together implement the promise.
THEOREM KeepsEffectPromiseHolds == Spec => KeepsEffectPromise
  BY InitPromise, StepPromise, EffectTypes, IInvHolds, PTL
  DEF Spec, KeepsEffectPromise, Promise!Spec
=============================================================================
