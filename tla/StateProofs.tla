----------------------------- MODULE StateProofs -----------------------------
(***************************************************************************)
(* Proofs about StateFile for any stores and any number of edits: types,   *)
(* what a restart brings back, and that files, migrations, failed writes   *)
(* and crashes implement SettingsPromise.                                  *)
(***************************************************************************)
EXTENDS StateFile, TLAPS

\* What a boot reads is a value for every saved store.
LEMMA MigrateType ==
  ASSUME NEW f \in Files, Readable(f) PROVE Migrate(f) \in Values
<1>1. f \in [kind : {"file"}, schema : 1..3, val : Values]
  BY DEF Files, Readable, Missing, Damaged
<1>2. ASSUME NEW k \in Saved
      PROVE  (CASE f.schema = SchemaVersion              -> f.val[k]
                [] f.schema = 1 /\ k \in V1Keys          -> f.val[k]
                [] OTHER                                 -> 0) \in Nat
  BY <1>1 DEF Values, SchemaVersion
<1> QED
  BY <1>2 DEF Migrate, Values

LEMMA LoadType ==
  ASSUME disk \in Files, legacy \in Files PROVE Load \in Values
<1>1. Same(0) \in Values
  BY DEF Same, Values
<1> QED
  BY <1>1, MigrateType DEF Load

LEMMA NextLoadType ==
  ASSUME disk' \in Files, legacy' \in Files PROVE Load' \in Values
<1>1. Same(0) \in Values
  BY DEF Same, Values
<1>2. Readable(disk)' => Migrate(disk') \in Values
  BY MigrateType DEF Readable
<1>3. Readable(legacy)' => Migrate(legacy') \in Values
  BY MigrateType DEF Readable
<1> QED
  BY <1>1, <1>2, <1>3 DEF Load

LEMMA FileType ==
  ASSUME NEW schema \in 1..3, NEW val \in Values PROVE File(schema, val) \in Files
  BY DEF File, Files

LEMMA SameType == ASSUME NEW n \in Nat PROVE Same(n) \in Values
  BY DEF Same, Values

\* What a save writes is what the next boot reads.
LEMMA RoundTrip ==
  ASSUME NEW val \in Values
  PROVE  Readable(File(SchemaVersion, val)) /\ Migrate(File(SchemaVersion, val)) = val
<1>1. File(SchemaVersion, val).schema = SchemaVersion
      /\ File(SchemaVersion, val).val = val /\ File(SchemaVersion, val).kind = "file"
  BY DEF File
<1>2. Migrate(File(SchemaVersion, val)) = [k \in Saved |-> val[k]]
  BY <1>1 DEF Migrate
<1>3. [k \in Saved |-> val[k]] = val
  BY DEF Values
<1> QED
  BY <1>1, <1>2, <1>3 DEF Readable

LEMMA HeldType == ASSUME mem \in [Stores -> Nat] PROVE Held \in Values
  BY DEF Held, Values, Stores

LEMMA InitTypes == Init => TypeOK
<1> SUFFICES ASSUME Init PROVE TypeOK
  OBVIOUS
<1>1. disk \in Files /\ legacy \in Files
  <2>1. Same(1) \in Values /\ Same(2) \in Values
    BY SameType
  <2>2. File(SchemaVersion, Same(2)) \in Files /\ File(1, Same(1)) \in Files
    BY <2>1, FileType DEF SchemaVersion
  <2>3. Missing \in Files
    BY DEF Files
  <2> QED
    BY <2>2, <2>3 DEF Init
<1>2. Load \in Values
  BY <1>1, LoadType
<1>3. \A k \in Saved : Load[k] \in Nat
  BY <1>2 DEF Values
<1> QED
  BY <1>1, <1>2, <1>3 DEF Init, TypeOK

LEMMA StepTypes == TypeOK /\ [Next]_vars => TypeOK'
<1> SUFFICES ASSUME TypeOK, [Next]_vars PROVE TypeOK'
  OBVIOUS
<1>1. Load \in Values /\ Held \in Values
  BY LoadType, HeldType DEF TypeOK
<1>2. CASE Boot
  <2>1. \A k \in Saved : Load[k] \in Nat
    BY <1>1 DEF Values
  <2> QED
    BY <1>2, <2>1 DEF Boot, TypeOK
<1>3. ASSUME NEW K \in SUBSET Stores, Handle(K) PROVE TypeOK'
  BY <1>3 DEF Handle, TypeOK
<1>4. CASE WriteTemp
  BY <1>4 DEF WriteTemp, TypeOK
<1>5. CASE Replace
  <2>1. File(SchemaVersion, Held) \in Files
    BY <1>1, FileType DEF SchemaVersion
  <2> QED
    BY <1>1, <1>5, <2>1 DEF Replace, TypeOK
<1>6. CASE SaveFails \/ Crash
  BY <1>6 DEF SaveFails, Crash, TypeOK
<1>7. CASE Damage
  <2>1. Damaged \in Files
    BY DEF Files
  <2> QED
    BY <1>7, <2>1 DEF Damage, TypeOK
<1>8. CASE NewerBuild
  <2>1. Same(edits + 3) \in Values
    BY SameType DEF TypeOK
  <2>2. File(SchemaVersion + 1, Same(edits + 3)) \in Files
    BY <2>1, FileType DEF SchemaVersion
  <2> QED
    BY <1>8, <2>2 DEF NewerBuild, TypeOK
<1>9. CASE UNCHANGED vars
  BY <1>9 DEF vars, TypeOK
<1> QED
  BY <1>2, <1>3, <1>4, <1>5, <1>6, <1>7, <1>8, <1>9 DEF Next

\* Stores, files and histories keep their types, with any fault of the disk.
THEOREM StateTypes == Spec => []TypeOK
  BY InitTypes, StepTypes, PTL DEF Spec

-----------------------------------------------------------------------------
LEMMA InitPromise == Init => Promise!Init
<1> SUFFICES ASSUME Init PROVE Promise!Init
  OBVIOUS
<1>1. TypeOK
  BY InitTypes
<1>2. Load \in Values /\ Held \in Values
  BY <1>1, LoadType, HeldType DEF TypeOK
<1> QED
  BY <1>2 DEF Init, Promise!Init, Values

LEMMA StepPromise ==
  TypeOK /\ TypeOK' /\ [Next]_vars => [Promise!Next]_(Promise!promiseVars)
<1> SUFFICES ASSUME TypeOK, TypeOK', [Next]_vars
             PROVE  Promise!Next \/ UNCHANGED <<pc # "down", Held, Load>>
  BY DEF Promise!promiseVars
<1>1. Load \in Values /\ Held \in Values /\ Held' \in Values
  BY LoadType, HeldType DEF TypeOK, Held, Values, Stores
<1>2. UNCHANGED <<disk, legacy>> => UNCHANGED Load
  BY DEF Load, Readable, Migrate, Same
<1>3. UNCHANGED mem => UNCHANGED Held
  BY DEF Held
<1>4. CASE Boot
  <2>1. Held' = [k \in Saved |-> Load[k]]
    BY <1>4 DEF Boot, Held, Stores
  <2>2. Held' = Load
    BY <1>1, <2>1 DEF Values
  <2> QED
    BY <1>2, <1>4, <2>2 DEF Boot, Promise!Next, Promise!Start
<1>5. ASSUME NEW K \in SUBSET Stores, Handle(K)
      PROVE  Promise!Next
  BY <1>1, <1>2, <1>5 DEF Handle, Promise!Next, Promise!Change, Values
<1>6. CASE WriteTemp
  BY <1>2, <1>3, <1>6 DEF WriteTemp
<1>7. CASE Replace
  <2>1. Load' = Held
    <3>1. disk' = File(SchemaVersion, Held)
      BY <1>7 DEF Replace
    <3>2. Readable(disk') /\ Migrate(disk') = Held
      BY <1>1, <3>1, RoundTrip
    <3> QED
      BY <3>2 DEF Load, Readable, Migrate
  <2>2. pc # "down" /\ pc' # "down" /\ UNCHANGED mem
    BY <1>7 DEF Replace
  <2> QED
    BY <1>3, <2>1, <2>2 DEF Promise!Next, Promise!Keep
<1>8. CASE SaveFails
  BY <1>2, <1>3, <1>8 DEF SaveFails
<1>9. CASE Crash
  BY <1>2, <1>3, <1>9 DEF Crash, Promise!Next, Promise!Stop
<1>10. CASE Damage \/ NewerBuild
  <2>1. Load' \in Values
    BY NextLoadType DEF TypeOK
  <2> QED
    BY <1>3, <1>10, <2>1 DEF Damage, NewerBuild, Promise!Next, Promise!Meddle, Values
<1>11. CASE UNCHANGED vars
  BY <1>2, <1>3, <1>11 DEF vars
<1> QED
  BY <1>4, <1>5, <1>6, <1>7, <1>8, <1>9, <1>10, <1>11 DEF Next

\* For any stores, full disks, crashes, damaged, old and newer files: the
\* settings file is the promised register, kept all at once and brought back by
\* a restart.
THEOREM KeepsSettingsPromiseHolds == Spec => KeepsSettingsPromise
<1>1. TypeOK /\ TypeOK' /\ [Next]_vars => [Promise!Next]_(Promise!promiseVars)
  BY StepPromise
<1> QED
  BY <1>1, InitPromise, StateTypes, PTL DEF Spec, KeepsSettingsPromise, Promise!Spec

-----------------------------------------------------------------------------
(* A boot comes up with one moment of the settings.                        *)

Old    == Migrate(File(1, Same(1)))
Wholes == moments \cup {Same(0), Old}

\* What can be read is one moment, or the file of the first schema.
MomentInv ==
  /\ Readable(disk) => Migrate(disk) \in Wholes
  /\ legacy \in {Missing, File(1, Same(1))}

LEMMA LoadIsWhole == MomentInv => Load \in Wholes
<1>1. ~Readable(Missing)
  BY DEF Readable, Missing
<1> QED
  BY <1>1 DEF MomentInv, Load, Wholes, Old

LEMMA InitMoment == Init => MomentInv
<1> SUFFICES ASSUME Init PROVE MomentInv
  OBVIOUS
<1>1. Readable(disk) => Load = Migrate(disk)
  BY DEF Load
<1> QED
  BY <1>1 DEF Init, MomentInv, Wholes

LEMMA StepMoment == TypeOK /\ MomentInv /\ [Next]_vars => MomentInv'
<1> SUFFICES ASSUME TypeOK, MomentInv, [Next]_vars PROVE MomentInv'
  OBVIOUS
<1>1. legacy' = legacy
  BY DEF Next, Boot, Handle, WriteTemp, Replace, SaveFails, Crash, Damage, NewerBuild,
         vars
<1>2. CASE disk' = disk /\ moments' = moments
  BY <1>1, <1>2 DEF MomentInv, Wholes, Readable, Old
<1>3. CASE Replace
  <2>1. Held \in Values
    BY HeldType DEF TypeOK
  <2>2. disk' = File(SchemaVersion, Held) /\ Held \in moments'
    BY <1>3 DEF Replace
  <2>3. Migrate(disk') = Held
    BY <2>1, <2>2, RoundTrip
  <2> QED
    BY <1>1, <2>2, <2>3 DEF MomentInv, Wholes
<1>4. CASE Damage
  <2>1. ~Readable(disk')
    BY <1>4 DEF Damage, Damaged, Readable
  <2> QED
    BY <1>1, <2>1 DEF MomentInv, Readable
<1>5. CASE NewerBuild
  <2>1. Migrate(File(SchemaVersion + 1, Same(edits + 3))) = Same(0)
    BY DEF Migrate, File, SchemaVersion, Same
  <2>2. Migrate(disk') = Same(0)
    BY <1>5, <2>1 DEF NewerBuild
  <2> QED
    BY <1>1, <2>2 DEF MomentInv, Wholes
<1> QED
  BY <1>2, <1>3, <1>4, <1>5 DEF Next, Boot, Handle, WriteTemp, SaveFails, Crash, vars

\* For any stores and any fault of the disk: a boot comes up with the stores of
\* one moment, of the old file, or with none; it never mixes two (load, _migrate).
THEOREM BootsFromOneMomentHolds == Spec => BootsFromOneMoment
<1>1. TypeOK /\ MomentInv /\ [Next]_vars
        => [pc = "down" /\ pc' = "idle" =>
              Held' \in moments \cup {Same(0), Migrate(File(1, Same(1)))}]_vars
  <2> SUFFICES ASSUME TypeOK, MomentInv, Next, pc = "down", pc' = "idle"
               PROVE  Held' \in Wholes
    BY DEF Wholes, Old
  <2>1. Boot
    BY DEF Next, Handle, WriteTemp, Replace, SaveFails, Crash, Damage, NewerBuild
  <2>2. Load \in Values
    BY LoadType DEF TypeOK
  <2>3. Held' = [k \in Saved |-> Load[k]]
    BY <2>1 DEF Boot, Held, Stores
  <2>4. Held' = Load
    BY <2>2, <2>3 DEF Values
  <2> QED
    BY <2>4, LoadIsWhole
<1>2. Spec => []MomentInv
  BY InitMoment, StepMoment, StateTypes, PTL DEF Spec
<1> QED
  BY <1>1, <1>2, StateTypes, PTL DEF Spec, BootsFromOneMoment
=============================================================================
