------------------------------ MODULE StateFile ------------------------------
(***************************************************************************)
(* The control plane's state file: demo/state.py with the _cfg_save and    *)
(* _cfg_load of the server around it.  A POST mutates the stores, answers, *)
(* and then writes all of them to a temporary file that replaces the old   *)
(* one.  The process may die between any two of these, a write may fail,   *)
(* and what a boot finds may be missing, damaged, old or newer.            *)
(*                                                                         *)
(* One lock serialises the requests, so one is in flight at a time.  A     *)
(* store is one number; 0 is what the program starts it with.              *)
(***************************************************************************)
EXTENDS Naturals

CONSTANTS
  Saved,     \* stores _cfg_save hands over: KNOWN_KEYS
  Unsaved,   \* stores it does not
  V1Keys,    \* stores the first schema had
  Faults,    \* what may go wrong with the disk: "full", "damage", "newer"
  MaxEdits   \* bound: mutating requests

ASSUME StoresAssumption == Saved \cap Unsaved = {} /\ V1Keys \subseteq Saved
ASSUME DiskAssumption   == Faults \subseteq {"full", "damage", "newer"}
ASSUME EditsAssumption  == MaxEdits \in Nat

Stores == Saved \cup Unsaved

VARIABLES
  pc,       \* "down", "idle", or where do_POST is: "saving", "written"
  mem,      \* the stores of the process; of a dead one, what nobody reads
  disk,     \* PATH
  legacy,   \* LEGACY_PATH
  edits,    \* history: mutating requests so far, to tell values apart
  failed,   \* history: the last save did not reach the disk
  moments   \* history: every such moment of the saved stores, and the start

vars == <<pc, mem, disk, legacy, edits, failed, moments>>

SchemaVersion == 2

Missing == [kind |-> "missing"]
Damaged == [kind |-> "damaged"]
File(schema, val) == [kind |-> "file", schema |-> schema, val |-> val]

Values == [Saved -> Nat]
Files  == {Missing, Damaged} \cup [kind : {"file"}, schema : 1..3, val : Values]

Same(n)  == [k \in Saved |-> n]
Held     == [k \in Saved |-> mem[k]]

-----------------------------------------------------------------------------
Readable(f) == f.kind = "file"

\* Mutant of Migrate: a schema this build does not know is read all the same.
MigrateNewer(f) ==
  [k \in Saved |->
     IF f.schema >= SchemaVersion \/ k \in V1Keys THEN f.val[k] ELSE 0]

\* Values as the running build understands them: its own schema, the first
\* one, or nothing.
Migrate(f) ==
  [k \in Saved |->
     CASE f.schema = SchemaVersion              -> f.val[k]
       [] f.schema = 1 /\ k \in V1Keys          -> f.val[k]
       [] OTHER                                 -> 0]

\* The first of the two paths that can be read, or nothing at all.
Load ==
  IF Readable(disk) THEN Migrate(disk)
  ELSE IF Readable(legacy) THEN Migrate(legacy)
  ELSE Same(0)

Init ==
  /\ pc = "down"
  /\ mem = [k \in Stores |-> 0]
  /\ disk \in {Missing, File(SchemaVersion, Same(2))}
  /\ legacy \in {Missing, File(1, Same(1))}
  /\ edits = 0
  /\ failed = FALSE
  /\ moments = {Load}

Boot ==
  /\ pc = "down"
  /\ pc' = "idle"
  /\ mem' = [k \in Stores |-> IF k \in Saved THEN Load[k] ELSE 0]
  /\ UNCHANGED <<disk, legacy, edits, failed, moments>>

\* A request mutates some stores, raises or not, and has answered.
Handle(K) ==
  /\ pc = "idle" /\ edits < MaxEdits
  /\ pc' = "saving"
  /\ edits' = edits + 1
  /\ mem' = [k \in Stores |-> IF k \in K THEN edits + 3 ELSE mem[k]]
  /\ UNCHANGED <<disk, legacy, failed, moments>>

\* Mutant of WriteTemp: the file itself is written, not a temporary one.
WriteInPlace ==
  /\ pc = "saving"
  /\ pc' = "written"
  /\ disk' = Damaged
  /\ UNCHANGED <<mem, legacy, edits, failed, moments>>

WriteTemp ==
  /\ pc = "saving"
  /\ pc' = "written"
  /\ UNCHANGED <<mem, disk, legacy, edits, failed, moments>>

Replace ==
  /\ pc = "written"
  /\ pc' = "idle"
  /\ disk' = File(SchemaVersion, Held)
  /\ failed' = FALSE
  /\ moments' = moments \cup {Held}
  /\ UNCHANGED <<mem, legacy, edits>>

\* An OSError: the temporary file is removed and nobody is told.
SaveFails ==
  /\ "full" \in Faults /\ pc \in {"saving", "written"}
  /\ pc' = "idle"
  /\ failed' = TRUE
  /\ UNCHANGED <<mem, disk, legacy, edits, moments>>

Crash ==
  /\ pc # "down"
  /\ pc' = "down"
  /\ failed' = (failed \/ pc # "idle")
  /\ UNCHANGED <<mem, disk, legacy, edits, moments>>

\* While it is down: the file is damaged, or a newer build has run.
Damage ==
  /\ "damage" \in Faults /\ pc = "down" /\ Readable(disk)
  /\ disk' = Damaged
  /\ UNCHANGED <<pc, mem, legacy, edits, failed, moments>>

NewerBuild ==
  /\ "newer" \in Faults /\ pc = "down" /\ disk.kind # "missing"
  /\ disk' = File(SchemaVersion + 1, Same(edits + 3))
  /\ UNCHANGED <<pc, mem, legacy, edits, failed, moments>>

-----------------------------------------------------------------------------
Next ==
  \/ Boot
  \/ \E K \in SUBSET Stores : Handle(K)
  \/ WriteTemp
  \/ Replace
  \/ SaveFails
  \/ Crash
  \/ Damage
  \/ NewerBuild

Spec == Init /\ [][Next]_vars

-----------------------------------------------------------------------------
TypeOK ==
  /\ pc \in {"down", "idle", "saving", "written"}
  /\ mem \in [Stores -> Nat]
  /\ disk \in Files /\ legacy \in Files
  /\ edits \in Nat /\ failed \in BOOLEAN
  /\ moments \subseteq Values

\* Whatever was lost, damaged, old or newer, a boot never mixes two moments:
\* it comes up with one moment of the settings, with the old file, or empty.
BootsFromOneMoment ==
  [][pc = "down" /\ pc' = "idle" =>
       Held' \in moments \cup {Same(0), Migrate(File(1, Same(1)))}]_vars

\* The settings the process uses and the ones the next boot would find.
Promise == INSTANCE SettingsPromise WITH
             Keys <- Saved, up <- pc # "down", now <- Held, kept <- Load

\* Files, migrations, failed writes and crashes still look like the promise.
KeepsSettingsPromise == Promise!Spec
=============================================================================
