----------------------------- MODULE EffectTable -----------------------------
(***************************************************************************)
(* PgLedger.effect: how concurrent workers share one row of the effect     *)
(* table.  A call is one transaction: claim the row with an upsert, lock   *)
(* it, run the callback unless the row is 'done', record the reference.    *)
(* The table below is what Postgres holds, uncommitted rows included: an   *)
(* INSERT that meets an uncommitted row of the same key waits for its      *)
(* transaction, and so does SELECT ... FOR UPDATE for a locked row.        *)
(*                                                                         *)
(* Relay takes a call as one step; this module is why it may.              *)
(***************************************************************************)
EXTENDS Naturals

CONSTANTS
  Workers,
  Effects,   \* effect keys: one per (run, effect type, target)
  NoWorker,
  Breaks,    \* how a call may end early: "refused", "lost", "died"
  MaxLost    \* bound: calls of one effect that happened and were forgotten

ASSUME WorkersAssumption == NoWorker \notin Workers
ASSUME BreaksAssumption  == Breaks \subseteq {"refused", "lost", "died"}
ASSUME MaxLostAssumption == MaxLost \in Nat

VARIABLES
  pc,        \* "idle", or the statement of effect() the worker is at
  target,    \* the effect it is called for
  inserted,  \* whether its transaction inserted the row
  answer,    \* the reference the callback gave it
  status,    \* the row's status, "absent" when there is no row
  ref,       \* the row's external_ref
  writer,    \* the transaction that holds the row
  fired,     \* how often the outside world saw the effect
  lost,      \* how often it saw one whose transaction was rolled back
  returned   \* the references effect() returned to its callers

worker == <<pc, target, inserted, answer>>
table  == <<status, ref, writer>>
vars   == <<worker, table, fired, lost, returned>>

Points == {"idle", "insert", "lock", "call", "update"}

TypeOK ==
  /\ pc \in [Workers -> Points]
  /\ target \in [Workers -> Effects]
  /\ inserted \in [Workers -> BOOLEAN]
  /\ answer \in [Workers -> Nat]
  /\ status \in [Effects -> {"absent", "pending", "done"}]
  /\ ref \in [Effects -> Nat]
  /\ writer \in [Effects -> Workers \cup {NoWorker}]
  /\ fired \in [Effects -> Nat]
  /\ lost \in [Effects -> Nat]
  /\ returned \in [Effects -> SUBSET Nat]

Init ==
  /\ pc = [w \in Workers |-> "idle"]
  /\ target \in [Workers -> Effects]
  /\ inserted = [w \in Workers |-> FALSE]
  /\ answer = [w \in Workers |-> 0]
  /\ status = [e \in Effects |-> "absent"]
  /\ ref = [e \in Effects |-> 0]
  /\ writer = [e \in Effects |-> NoWorker]
  /\ fired = [e \in Effects |-> 0]
  /\ lost = fired
  /\ returned = [e \in Effects |-> {}]

-----------------------------------------------------------------------------
Goto(w, point) == pc' = [pc EXCEPT ![w] = point]

\* Mutant of Leave: the transaction is left open.
LeaveOpen(w) ==
  /\ Goto(w, "idle")
  /\ inserted' = [inserted EXCEPT ![w] = FALSE]
  /\ answer' = [answer EXCEPT ![w] = 0]
  /\ UNCHANGED <<target, writer>>

\* The transaction is over: the worker forgets it and lets go of its row.
Leave(w) ==
  /\ Goto(w, "idle")
  /\ inserted' = [inserted EXCEPT ![w] = FALSE]
  /\ answer' = [answer EXCEPT ![w] = 0]
  /\ writer' = [e \in Effects |-> IF writer[e] = w THEN NoWorker ELSE writer[e]]
  /\ UNCHANGED target

\* What the transaction inserted is gone.
Rollback(w) ==
  /\ Leave(w)
  /\ status' = [e \in Effects |->
                  IF inserted[w] /\ e = target[w] THEN "absent" ELSE status[e]]
  /\ UNCHANGED <<ref, returned>>

Call(w, e) ==
  /\ pc[w] = "idle"
  /\ Goto(w, "insert")
  /\ target' = [target EXCEPT ![w] = e]
  /\ UNCHANGED <<inserted, answer, table, fired, lost, returned>>

\* Another transaction inserted the row and has not ended.
Contended(e) == writer[e] # NoWorker /\ inserted[writer[e]]

\* Mutant of Insert: effect_key is not a key, every upsert inserts.
InsertWithoutKey(w) ==
  /\ pc[w] = "insert"
  /\ status' = [status EXCEPT ![target[w]] = "pending"]
  /\ writer' = [writer EXCEPT ![target[w]] = w]
  /\ inserted' = [inserted EXCEPT ![w] = TRUE]
  /\ Goto(w, "lock")
  /\ UNCHANGED <<target, answer, ref, fired, lost, returned>>

Insert(w) ==
  /\ pc[w] = "insert"
  /\ ~Contended(target[w])
  /\ IF status[target[w]] = "absent"
       THEN /\ status' = [status EXCEPT ![target[w]] = "pending"]
            /\ writer' = [writer EXCEPT ![target[w]] = w]
            /\ inserted' = [inserted EXCEPT ![w] = TRUE]
       ELSE UNCHANGED <<status, writer, inserted>>
  /\ Goto(w, "lock")
  /\ UNCHANGED <<target, answer, ref, fired, lost, returned>>

Locked(w) == writer[target[w]] \in {NoWorker, w}

\* The row is not 'done': this worker executes the callback.
Take(w) ==
  /\ pc[w] = "lock" /\ Locked(w) /\ status[target[w]] # "done"
  /\ Goto(w, "call")
  /\ writer' = [writer EXCEPT ![target[w]] = w]
  /\ UNCHANGED <<target, inserted, answer, status, ref, fired, lost, returned>>

\* Mutant of Replay: a done row is executed again.
ReplayFires(w) ==
  /\ pc[w] = "lock" /\ Locked(w) /\ status[target[w]] = "done"
  /\ Goto(w, "call")
  /\ writer' = [writer EXCEPT ![target[w]] = w]
  /\ UNCHANGED <<target, inserted, answer, status, ref, fired, lost, returned>>

\* It is: its reference is returned.
Replay(w) ==
  /\ pc[w] = "lock" /\ Locked(w) /\ status[target[w]] = "done"
  /\ returned' = [returned EXCEPT ![target[w]] = @ \cup {ref[target[w]]}]
  /\ Leave(w)
  /\ UNCHANGED <<status, ref, fired, lost>>

\* The callback; its reference identifies the call that was made.
Do(w) ==
  /\ pc[w] = "call"
  /\ fired' = [fired EXCEPT ![target[w]] = @ + 1]
  /\ answer' = [answer EXCEPT ![w] = fired[target[w]] + 1]
  /\ Goto(w, "update")
  /\ UNCHANGED <<target, inserted, table, lost, returned>>

Update(w) ==
  /\ pc[w] = "update"
  /\ status' = [status EXCEPT ![target[w]] = "done"]
  /\ ref' = [ref EXCEPT ![target[w]] = answer[w]]
  /\ returned' = [returned EXCEPT ![target[w]] = @ \cup {answer[w]}]
  /\ Leave(w)
  /\ UNCHANGED <<fired, lost>>

-----------------------------------------------------------------------------
\* The callback raises and nothing happened outside.
Refuse(w) ==
  /\ "refused" \in Breaks /\ pc[w] = "call"
  /\ Rollback(w)
  /\ UNCHANGED <<fired, lost>>

\* It happened and its answer did not come back.
Lose(w) ==
  /\ "lost" \in Breaks /\ pc[w] = "call"
  /\ lost[target[w]] < MaxLost
  /\ fired' = [fired EXCEPT ![target[w]] = @ + 1]
  /\ lost' = [lost EXCEPT ![target[w]] = @ + 1]
  /\ Rollback(w)

\* The process dies; Postgres rolls its transaction back.
Die(w) ==
  /\ "died" \in Breaks /\ pc[w] # "idle"
  /\ IF pc[w] = "update"
       THEN /\ lost[target[w]] < MaxLost
            /\ lost' = [lost EXCEPT ![target[w]] = @ + 1]
       ELSE UNCHANGED lost
  /\ Rollback(w)
  /\ UNCHANGED fired

-----------------------------------------------------------------------------
Continue(w) == Insert(w) \/ Take(w) \/ Replay(w) \/ Do(w) \/ Update(w)

Break(w) == Refuse(w) \/ Lose(w) \/ Die(w)

Next == \E w \in Workers : (\E e \in Effects : Call(w, e)) \/ Continue(w) \/ Break(w)

Spec == Init /\ [][Next]_vars

\* A worker that runs goes on, and Postgres grants a row to those who wait for
\* it in turn.
FairSpec == Spec /\ \A w \in Workers : SF_vars(Continue(w))

-----------------------------------------------------------------------------
Executing(w, e) == pc[w] \in {"call", "update"} /\ target[w] = e

\* The row is the lock: no two workers execute the same effect at once.
OneExecutor ==
  \A e \in Effects : \A v, w \in Workers :
    Executing(v, e) /\ Executing(w, e) => v = w

\* Whatever ends early, an effect is repeated only as often as a call was made
\* and forgotten: fired once more than lost at most, never once more on its own.
RepeatedOnlyWhenLost == \A e \in Effects : fired[e] <= lost[e] + 1

\* Everyone who ever got an answer got the same one, and it is on the row.
OneReference ==
  \A e \in Effects : returned[e] \subseteq {ref[e]} /\ (status[e] # "done" => returned[e] = {})

\* Postgres makes the worker wait at its INSERT or at SELECT ... FOR UPDATE.
Waiting(w) == \/ pc[w] = "insert" /\ Contended(target[w])
              \/ pc[w] = "lock" /\ ~Locked(w)

\* No deadlock: who waits, waits for another worker on the same row, which waits
\* for nobody (a call takes one row and holds it to its end).
WaitsForOneAtWork ==
  \A w \in Workers : Waiting(w) =>
    \E v \in Workers \ {w} : /\ v = writer[target[w]] /\ target[v] = target[w]
                            /\ pc[v] \in {"lock", "call", "update"} /\ ~Waiting(v)

\* Every worker that asks for an effect is answered or told it failed; nobody
\* waits for ever behind somebody else's transaction.
EveryCallEnds == \A w \in Workers : pc[w] # "idle" ~> pc[w] = "idle"

\* What effect() promises, abstractly.
Promise == INSTANCE EffectPromise WITH
             recorded <- [e \in Effects |-> IF status[e] = "done" THEN ref[e] ELSE 0]

\* Workers, locks and rollbacks together still look like the promise.
KeepsEffectPromise == Promise!Spec
=============================================================================
