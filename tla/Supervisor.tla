----------------------------- MODULE Supervisor -----------------------------
(***************************************************************************)
(* The worker loop over the run table (supervisor.py): it times stale      *)
(* cards out, fails parked runs and resolves settled ones.  A sweep walks  *)
(* a snapshot of the runs, one per step, and is cut at each escalation it  *)
(* posts.  Nothing in a sweep catches an exception, so one raised on a run *)
(* ends the sweep before the runs after it.                                *)
(***************************************************************************)
EXTENDS Pipeline

VARIABLES
  spc,      \* "idle", "visit" a run, "post" an escalation, "close" the run
  scur,     \* the run the sweep is at
  slast,    \* the last run of the snapshot
  sarg,     \* the reason being escalated: "gate_timeout" or the parked state
  due,      \* the runs that were overdue when the sweep read the clock
  seen,     \* Supervisor._seen: the working state of the previous sweep
  overdue   \* runs whose card is older than gate_timeout_hours

sweepVars == <<spc, scur, slast, sarg, due, seen>>

SupervisorTypeOK ==
  /\ spc \in {"idle", "visit", "post", "close"}
  /\ scur \in 1..(MaxRuns + 1)
  /\ slast \in 0..MaxRuns
  /\ sarg \in EscalationReasons \cup {"none"}
  /\ seen \in [RunIds -> StallStates \cup {"none"}]
  /\ due \subseteq RunIds
  /\ overdue \subseteq RunIds

SupervisorInit ==
  /\ spc = "idle" /\ scur = 1 /\ slast = 0 /\ sarg = "none"
  /\ seen = [r \in RunIds |-> "none"]
  /\ due = {}
  /\ overdue = {}

-----------------------------------------------------------------------------
\* Mutant of Sees: the mark of the previous sweep is always dropped.
SeesNothing(r, s) == seen' = [seen EXCEPT ![r] = "none"]

Sees(r, s) == seen' = [seen EXCEPT ![r] = s]

\* Mutant of StartSweep: the snapshot runs one past the last run.
StartSweepTooFar ==
  /\ spc = "idle"
  /\ spc' = "visit" /\ scur' = 1 /\ slast' = nextId
  /\ due' = overdue
  /\ UNCHANGED <<sarg, seen, ledgerVars, worldVars>>

StartSweep ==
  /\ spc = "idle"
  /\ spc' = "visit" /\ scur' = 1 /\ slast' = nextId - 1
  /\ due' = overdue
  /\ UNCHANGED <<sarg, seen, ledgerVars, worldVars>>

NextRun == scur' = scur + 1 /\ UNCHANGED <<spc, slast, sarg, due>>
\* Mutant of ToPost: the run is closed before anyone is told.
ToPostLater(reason) == spc' = "close" /\ sarg' = reason
                       /\ UNCHANGED <<scur, slast, due>>

ToPost(reason) == spc' = "post" /\ sarg' = reason
                  /\ UNCHANGED <<scur, slast, due>>
Finished == spc' = "idle" /\ scur' = 1 /\ slast' = 0 /\ sarg' = "none" /\ due' = {}
Abort == Finished   \* an exception leaves the sweep
CloseNext == /\ spc' = "visit" /\ scur' = scur + 1 /\ sarg' = "none"
             /\ UNCHANGED <<slast, due>>

Visiting == spc = "visit" /\ scur <= slast

\* A working state: marked the first time, escalated when still there.
VisitWorking ==
  /\ Visiting /\ mem[scur].state \in StallStates
  /\ IF ~InMemory(scur)
       THEN NextRun /\ UNCHANGED seen
       ELSE IF seen[scur] = mem[scur].state
              THEN ToPost(mem[scur].state) /\ UNCHANGED seen
              ELSE NextRun /\ Sees(scur, mem[scur].state)
  /\ UNCHANGED <<ledgerVars, worldVars>>

VisitWaiting ==
  /\ Visiting /\ mem[scur].state = "awaiting_gate"
  /\ Sees(scur, "none")
  /\ IF scur \in due THEN ToPost("gate_timeout") ELSE NextRun
  /\ UNCHANGED <<ledgerVars, worldVars>>

\* Mutant of VisitRest: settled runs are left to record_resolution.
VisitRestOnly ==
  /\ Visiting /\ mem[scur].state \in Terminal \cup {"acted"}
  /\ Sees(scur, "none")
  /\ NextRun
  /\ UNCHANGED <<ledgerVars, worldVars>>

VisitRest ==
  /\ Visiting /\ mem[scur].state \in Terminal \cup {"acted"}
  /\ Sees(scur, "none")
  /\ NextRun
  /\ IF mem[scur].state = "acted" /\ scur \in outcome
       THEN SetState(scur, "resolved") /\ Save(scur)
       ELSE UNCHANGED <<mem, db>>
  /\ UNCHANGED <<RestOfLedger, worldVars>>

\* The escalation goes through the effect table, like every side effect.
SweepPosts ==
  /\ spc = "post"
  /\ posts' = IF Fires(scur, sarg)
                THEN [posts EXCEPT ![scur] = @ \cup {sarg}] ELSE posts
  /\ MarkDone(scur, sarg)
  /\ spc' = "close"
  /\ UNCHANGED <<scur, slast, sarg, due, seen, mem, byIdem, db, outcome, dbOutcome,
                 lessons, nextId, asked, cards, filed>>

SweepPostFails ==
  /\ spc = "post" /\ Fires(scur, sarg)
  /\ \/ "refused" \in PortErrors /\ UNCHANGED posts
     \/ "lost" \in PortErrors
        /\ posts' = [posts EXCEPT ![scur] = @ \cup {sarg}]
  /\ Abort
  /\ UNCHANGED <<seen, ledgerVars, asked, cards, filed>>

\* record_gate raises if a person stamped the gate first.  A run without a
\* stamp still waits, so the transition after it is legal.
CloseTimedOut ==
  /\ spc = "close" /\ sarg = "gate_timeout"
  /\ IF mem[scur].gate = "none"
       THEN /\ mem' = [mem EXCEPT ![scur].gate = "timeout",
                                  ![scur].state = "timed_out"]
            /\ Save(scur)
            /\ CloseNext
       ELSE Abort /\ UNCHANGED <<mem, db>>
  /\ UNCHANGED <<seen, RestOfLedger, worldVars>>

CloseStalled ==
  /\ spc = "close" /\ sarg \in StallStates
  /\ IF Moves(scur, "failed")
       THEN /\ SetState(scur, "failed") /\ Save(scur)
            /\ Sees(scur, "none")
            /\ CloseNext
       ELSE Abort /\ UNCHANGED <<mem, db, seen>>
  /\ UNCHANGED <<RestOfLedger, worldVars>>

EndSweep ==
  /\ spc = "visit" /\ scur > slast
  /\ Finished
  /\ UNCHANGED <<seen, ledgerVars, worldVars>>

\* gate_timeout_hours pass without an answer.
GateExpires(r) ==
  /\ mem[r].state = "awaiting_gate" /\ r \notin overdue
  /\ overdue' = overdue \cup {r}
  /\ UNCHANGED <<sweepVars, handlerVars, ledgerVars, worldVars>>

Sweeps ==
  \/ VisitWorking \/ VisitWaiting \/ VisitRest \/ SweepPosts \/ SweepPostFails
  \/ CloseTimedOut \/ CloseStalled \/ EndSweep
=============================================================================
