------------------------------- MODULE Ledger -------------------------------
(***************************************************************************)
(* The run ledger: the in-memory dictionaries every reader uses            *)
(* (ledger.py), written through to Postgres and rebuilt from it at boot    *)
(* (demo/persist.py over ledger_pg.py).                                    *)
(*                                                                         *)
(* Run ids are numbered in insertion order, which is also the order the    *)
(* dictionary is iterated in and, by created_at, the order it is hydrated. *)
(* A row keeps the columns that decide what happens next: the idempotency  *)
(* key, the state and the gate action.                                     *)
(***************************************************************************)
EXTENDS Naturals, RelayDomain

CONSTANTS
  Keys,     \* idempotency keys: one per (tenant, webhook ref, policy version)
  NoKey,    \* the key of a row that does not exist
  MaxRuns   \* bound: inserts

ASSUME KeysAssumption    == NoKey \notin Keys
ASSUME MaxRunsAssumption == MaxRuns \in Nat

RunIds == 1..MaxRuns

VARIABLES
  mem,        \* Ledger.runs: the row each run id maps to
  byIdem,     \* Ledger._by_idem: key -> run id, 0 when absent
  db,         \* the run table
  done,       \* the effect table: the effects of a run marked 'done'
  outcome,    \* Ledger.outcomes: runs whose settlement is in memory
  dbOutcome,  \* the outcome table
  lessons,    \* the memory table: runs whose edit left a style note
  nextId      \* the id the next insert takes

ledgerVars == <<mem, byIdem, db, done, outcome, dbOutcome, lessons, nextId>>

Row == [key: Keys \cup {NoKey}, state: RunState, gate: GateAction \cup {"none"}]

NewRow(k) == [key |-> k, state |-> "received", gate |-> "none"]
NoRow     == NewRow(NoKey)

InMemory(r) == mem[r].key # NoKey
InTable(r)  == db[r].key # NoKey

LedgerTypeOK ==
  /\ mem \in [RunIds -> Row]
  /\ byIdem \in [Keys -> RunIds \cup {0}]
  /\ db \in [RunIds -> Row]
  /\ done \in [RunIds -> SUBSET EffectKinds]
  /\ outcome \subseteq RunIds
  /\ dbOutcome \subseteq RunIds
  /\ lessons \subseteq RunIds
  /\ nextId \in 1..(MaxRuns + 1)

LedgerInit ==
  /\ mem = [r \in RunIds |-> NoRow]
  /\ byIdem = [k \in Keys |-> 0]
  /\ db = mem
  /\ done = [r \in RunIds |-> {}]
  /\ outcome = {}
  /\ dbOutcome = {}
  /\ lessons = {}
  /\ nextId = 1

-----------------------------------------------------------------------------
\* Mutant of Insert: the key index is not consulted.
InsertAlways(k) ==
  /\ nextId <= MaxRuns
  /\ mem' = [mem EXCEPT ![nextId] = NewRow(k)]
  /\ byIdem' = [byIdem EXCEPT ![k] = nextId]
  /\ db' = [db EXCEPT ![nextId] = NewRow(k)]
  /\ nextId' = nextId + 1
  /\ UNCHANGED <<done, outcome, dbOutcome, lessons>>

\* Insert: refused (DuplicateRun) when the key is indexed in memory.  The
\* write-through insert loses to a row the table already has for that key:
\* the unique violation is swallowed and the new run lives in memory only.
Insert(k) ==
  /\ byIdem[k] = 0
  /\ nextId <= MaxRuns
  /\ mem' = [mem EXCEPT ![nextId] = NewRow(k)]
  /\ byIdem' = [byIdem EXCEPT ![k] = nextId]
  /\ db' = IF \E r \in RunIds : db[r].key = k
             THEN db
             ELSE [db EXCEPT ![nextId] = NewRow(k)]
  /\ nextId' = nextId + 1
  /\ UNCHANGED <<done, outcome, dbOutcome, lessons>>

\* Run.transition accepts the move.
Moves(r, to) == to \in Legal[mem[r].state]

SetState(r, to) == mem' = [mem EXCEPT ![r].state = to]

\* Mutant of Save: the gate columns are left out of the UPDATE.
SaveStateOnly(r) ==
  db' = IF InTable(r) THEN [db EXCEPT ![r].state = mem'[r].state] ELSE db

\* PgLedger.save: an UPDATE by run_id, which touches no row if there is none.
Save(r) == db' = IF InTable(r) THEN [db EXCEPT ![r] = mem'[r]] ELSE db

\* The effect table decides whether the callback runs; once it returned the
\* row is 'done' and later calls replay its reference.
Fires(r, kind)    == kind \notin done[r]
MarkDone(r, kind) == done' = [done EXCEPT ![r] = @ \cup {kind}]

\* append_outcome: memory first, then the table; the table refuses an outcome
\* of a run it does not hold (foreign key).
AppendOutcome(r) ==
  /\ outcome' = outcome \cup {r}
  /\ dbOutcome' = IF InTable(r) THEN dbOutcome \cup {r} ELSE dbOutcome

\* Mutant of Hydrate: _to_run leaves the gate action out.
HydrateForgetsGate ==
  /\ mem' = [r \in RunIds |-> [db[r] EXCEPT !.gate = "none"]]
  /\ byIdem' = [k \in Keys |-> 0]
  /\ outcome' = dbOutcome
  /\ UNCHANGED <<db, done, dbOutcome, lessons, nextId>>

\* Boot: the dictionaries are rebuilt from the tables, _by_idem is not.
Hydrate ==
  /\ mem' = db
  /\ byIdem' = [k \in Keys |-> 0]
  /\ outcome' = dbOutcome
  /\ UNCHANGED <<db, done, dbOutcome, lessons, nextId>>
=============================================================================
