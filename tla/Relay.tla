------------------------------- MODULE Relay -------------------------------
(***************************************************************************)
(* The whole system: handlers and the supervisor over one ledger, in a     *)
(* process that may die and be restarted on the same database.             *)
(***************************************************************************)
EXTENDS Supervisor

CONSTANTS
  MaxCrashes,      \* bound: restarts
  SweepInterleaves \* TRUE: the supervisor is a worker of its own and may run
                   \* between two steps of a handler; FALSE: it takes turns
                   \* with handlers (the server's lock, the tests)

ASSUME RelayAssumption == MaxCrashes \in Nat /\ SweepInterleaves \in BOOLEAN

VARIABLE crashes

vars == <<ledgerVars, handlerVars, worldVars, sweepVars, overdue, crashes>>

TypeOK == /\ LedgerTypeOK /\ PipelineTypeOK /\ SupervisorTypeOK
          /\ crashes \in 0..MaxCrashes

Init == LedgerInit /\ PipelineInit /\ SupervisorInit /\ crashes = 0

\* The process dies: handler, sweep and _seen go with it.  What the tables
\* hold and what reached the outside stays.
Crash ==
  /\ crashes < MaxCrashes
  /\ crashes' = crashes + 1
  /\ Hydrate
  /\ Finish /\ Finished
  /\ seen' = [r \in RunIds |-> "none"]
  /\ UNCHANGED <<worldVars, overdue>>

HandlerStarts ==
  /\ SweepInterleaves \/ spc = "idle"
  /\ Starts
  /\ UNCHANGED <<sweepVars, overdue, crashes>>

HandlerContinues == Continues /\ UNCHANGED <<sweepVars, overdue, crashes>>

SweepStarts ==
  /\ SweepInterleaves \/ At("idle")
  /\ StartSweep
  /\ UNCHANGED <<handlerVars, overdue, crashes>>

SweepContinues == Sweeps /\ UNCHANGED <<handlerVars, overdue, crashes>>

TimePasses == (\E r \in RunIds : GateExpires(r)) /\ UNCHANGED crashes

Next == HandlerStarts \/ HandlerContinues \/ SweepStarts \/ SweepContinues
        \/ TimePasses \/ Crash

Spec == Init /\ [][Next]_vars

\* A handler in flight goes on, the worker loop keeps sweeping, time passes
\* and the review channel does not refuse a post for ever.
EscalationGoesOut == SweepPosts /\ UNCHANGED <<handlerVars, overdue, crashes>>

Fairness ==
  /\ WF_vars(HandlerContinues)
  /\ SF_vars(SweepStarts)
  /\ WF_vars(SweepContinues)
  /\ SF_vars(EscalationGoesOut)
  /\ WF_vars(TimePasses)

FairSpec == Spec /\ Fairness

-----------------------------------------------------------------------------
(* Safety, whatever fails, races or restarts.                              *)

DecisionText == [approve |-> "draft", edit |-> "edited"]

AskedFor(r, text) == \E a \in asked[r] \cap DOMAIN DecisionText : text = DecisionText[a]

\* Nothing is written on an order in the CRM unless a person asked for those
\* very words on that very run, the draft by approving it or another text by
\* editing it: no failure, timeout, sweep or restart files on its own, or files
\* the draft where it was edited (_act is reached from approve and edit alone).
NothingFiledUnasked ==
  \A r \in RunIds : \A i \in DOMAIN filed[r] : AskedFor(r, filed[r][i])

\* A run that waits at the gate has a card in front of the merchant, and a run
\* that failed or timed out was announced in the review channel first: never
\* silence (handle_event, _escalate, _time_out, _fail_stalled).
NeverSilent ==
  \A r \in RunIds :
    /\ mem[r].state = "awaiting_gate" => cards[r] > 0
    /\ mem[r].state = "failed" => posts[r] # {}
    /\ mem[r].state = "timed_out" => "gate_timeout" \in posts[r]

\* The stamp a row carries in each state: none before the gate, the matching
\* decision after it.
GateOf(row) ==
  /\ row.state \in {"received", "suppressed", "running", "drafted", "checked"}
       => row.gate = "none"
  /\ row.state = "approved" => row.gate = "approve"
  /\ row.state = "edited" => row.gate = "edit"
  /\ row.state \in {"acting", "acted", "resolved"}
       => row.gate \in {"approve", "edit"}
  /\ row.state = "rejected" => row.gate = "reject"
  /\ row.state = "timed_out" => row.gate = "timeout"

\* The state a run is in and the stamp on its gate tell the same story, in
\* memory and in the run table, through every race and restart.
GateTellsTheState == \A r \in RunIds : GateOf(mem[r]) /\ GateOf(db[r])

\* t can follow s along the edges: every set that holds s and is closed under
\* the edges holds t.
Closed(S) == \A u \in S : Legal[u] \subseteq S
Reach == [s \in RunState |->
            {t \in RunState : \A S \in SUBSET RunState :
                                s \in S /\ Closed(S) => t \in S}]

\* The table is never ahead of memory and never contradicts it: the row a
\* restart would bring back is an earlier moment of the same run, with the same
\* stamp or none.  So the guard_gate_once trigger never has to refuse a save.
TableTrails ==
  \A r \in RunIds :
    InTable(r) => /\ mem[r].key = db[r].key
                  /\ mem[r].state \in Reach[db[r].state]
                  /\ db[r].gate \in {"none", mem[r].gate}

\* Each run is announced to its merchant at most once in its life, whatever is
\* lost or parked: no path posts the card of an old run again.
CardOncePerRun == \A r \in RunIds : cards[r] <= 1

-----------------------------------------------------------------------------
(* Safety while the process lives (MaxCrashes = 0).                        *)

\* What reached the bank is the decision on the row, in its own words, and
\* reached it at most once, even when the CRM's reply is lost or the supervisor
\* gives the run up halfway through the call.
FiledWhatWasDecided ==
  \A r \in RunIds :
    filed[r] # <<>> => /\ mem[r].gate \in {"approve", "edit"}
                       /\ filed[r] = <<DecisionText[mem[r].gate]>>

\* A run that was rejected or timed out was not sent: a decision racing the
\* supervisor's time-out never leaves a filed response on a timed-out run.
TimedOutNeverSent ==
  \A r \in RunIds :
    mem[r].state \in {"rejected", "timed_out"} => filed[r] = <<>>

\* One dispute, one card: however often its webhook is delivered.
RunsOf(k) == {r \in RunIds : mem[r].key = k \/ db[r].key = k}
OneCardPerDispute ==
  \A k \in Keys : \A q, r \in RunsOf(k) : cards[q] > 0 /\ cards[r] > 0 => q = r

\* The ledger's promise, abstractly.
Promise == INSTANCE RunPromise WITH
             Runs  <- RunIds,
             born  <- {r \in RunIds : InMemory(r)},
             state <- [r \in RunIds |-> mem[r].state],
             gate  <- [r \in RunIds |-> mem[r].gate]

\* Every run keeps that promise under every interleaving of handlers, faults
\* and sweeps.
KeepsPromise == Promise!Spec

-----------------------------------------------------------------------------
(* Restarts.                                                               *)

\* A response is filed once per run, even when the process dies between the
\* filing and the save.
FiledOncePerRun == \A r \in RunIds : Len(filed[r]) <= 1

\* Whatever else fails, each life of the process files a response at most once:
\* it takes a lost reply and a restart to write on the order again (effect,
\* record_gate).
FiledOncePerLife == \A r \in RunIds : Len(filed[r]) <= crashes + 1

\* However often a dispute's webhook is delivered and the process restarted, the
\* dispute has at most two runs at a time: the one the table keeps and the one
\* the index of this life knows (Ledger.insert, hydrate).
TwoRunsAtMost ==
  \A k \in Keys : \A o, q, r \in RunsOf(k) : o = q \/ q = r \/ r = o

-----------------------------------------------------------------------------
(* Liveness.                                                               *)

\* Every run ends in a terminal state, or is filed and waits for the bank.
EveryRunEnds ==
  \A r \in RunIds :
    InMemory(r) ~> mem[r].state \in Terminal \cup {"acted"}

\* A filed run whose settlement arrived is resolved, whichever came first and
\* whatever died in between.
SettledRunsResolve ==
  \A r \in RunIds :
    r \in outcome /\ mem[r].state = "acted" ~> mem[r].state = "resolved"
=============================================================================
