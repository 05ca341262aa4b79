------------------------ MODULE ManagedLifecycleProofs ------------------------
(***************************************************************************)
(* What an apply guarantees, and what revert puts back, for any number of  *)
(* outputs, any kinds, modes and texts, and whatever steps fail.           *)
(* Of an apply:                                                            *)
(*   - types, and what compensation restores (TypeInv, CompInv);           *)
(*   - how far the loop has come, so what a successful apply has written   *)
(*     and recorded, and that it converges (ProgressInv);                  *)
(*   - the refinement of AtomicApply (RefineInv);                          *)
(*   - that recorded backups exist (BackInv);                              *)
(*   - that no text of the user's is lost (TextInv).                       *)
(* Of any sequence of compiles, edits, applies and reverts: what the       *)
(* records and backups are about (last part).                              *)
(***************************************************************************)
EXTENDS ManagedLifecycle, TLAPS

-----------------------------------------------------------------------------
(***************************************************************************)
(* Planning: what PlanFor returns is a planned action or a conflict.       *)
(***************************************************************************)
LEMMA PlanIsAction ==
    ASSUME NEW k \in ActionKinds, NEW b \in BOOLEAN, NEW m \in BOOLEAN,
           NEW e \in BOOLEAN
    PROVE  Plan(k, b, m, e) \in PlannedAction
BY DEF Plan, PlannedAction

LEMMA DriftPlanType ==
    ASSUME NEW o \in Out, NEW m \in AllModes, NEW rec \in Record
    PROVE  DriftPlan(o, m, rec) \in PlannedAction
<1> DEFINE marker == InstructionMarker(o, rec)
<1>1. marker \in BOOLEAN /\ rec.backup \in BOOLEAN /\ rec.existed \in BOOLEAN
  BY DEF InstructionMarker, Record
<1> HIDE DEF marker
<1>2. CASE m = "takeover"
  BY <1>1, <1>2, PlanIsAction DEF DriftPlan, ActionKinds
<1>3. CASE m = "patch"
  BY <1>1, <1>3, PlanIsAction DEF DriftPlan, ActionKinds
<1>4. CASE m \in {"copy", "import_stub"}
  BY <1>1, <1>4, PlanIsAction DEF DriftPlan, ActionKinds, marker
<1>5. CASE m = "symlink"
  BY <1>1, <1>5, PlanIsAction DEF DriftPlan, ActionKinds, marker
<1> QED BY <1>2, <1>3, <1>4, <1>5 DEF AllModes

LEMMA ManagedPlanType ==
    ASSUME NEW o \in Out, NEW m \in AllModes, NEW state \in StateFile,
           NEW entry, NEW text, state.outs[o] # NoRecord
    PROVE  ManagedPlan(o, m, state, entry, text) \in PlannedAction
<1> DEFINE rec == state.outs[o]
<1>1. rec \in Record
  BY DEF StateFile
<1>2. /\ rec.backup \in BOOLEAN /\ rec.existed \in BOOLEAN /\ rec.marker \in BOOLEAN
      /\ InstructionMarker(o, rec) \in BOOLEAN
  BY <1>1 DEF InstructionMarker, Record
<1>3. CreateKind(o, m) \in ActionKinds
  BY DEF CreateKind, ActionKinds
<1>4. DriftPlan(o, m, rec) \in PlannedAction
  BY <1>1, DriftPlanType
<1> HIDE DEF rec
<1>5. Plan(CreateKind(o, m), rec.backup, FALSE, FALSE) \in PlannedAction
  BY <1>2, <1>3, PlanIsAction
<1>6. Plan("Noop", rec.backup, rec.marker, rec.existed) \in PlannedAction
  BY <1>2, PlanIsAction DEF ActionKinds
<1>7. \A k \in ActionKinds :
        Plan(k, rec.backup, InstructionMarker(o, rec), rec.existed) \in PlannedAction
  BY <1>2, PlanIsAction
<1> QED BY <1>4, <1>5, <1>6, <1>7 DEF ManagedPlan, ActionKinds, rec

LEMMA PlanForType ==
    ASSUME NEW o \in Out, NEW m \in AllModes, NEW state \in StateFile,
           NEW entry, NEW text,
           PlanFor(o, m, state, entry, text) # Conflict
    PROVE  PlanFor(o, m, state, entry, text) \in PlannedAction
<1>1. CASE Kind[o] = "retained"
  <2>1. state.outs[o] \in Record \union {NoRecord}
    BY DEF StateFile
  <2>2. CASE state.outs[o] = NoRecord
    BY <1>1, <2>2, PlanIsAction DEF PlanFor, RetainedPlan, ActionKinds
  <2>3. CASE state.outs[o] \in Record
    <3>1. /\ state.outs[o].backup \in BOOLEAN /\ state.outs[o].marker \in BOOLEAN
          /\ state.outs[o].existed \in BOOLEAN
      BY <2>3 DEF Record
    <3> QED BY <1>1, <2>3, <3>1, PlanIsAction, SentinelAssumption
            DEF PlanFor, RetainedPlan, ActionKinds
  <2> QED BY <2>1, <2>2, <2>3
<1>2. CASE Kind[o] # "retained" /\ state.outs[o] # NoRecord
  BY <1>2, ManagedPlanType DEF PlanFor
<1>3. CASE Kind[o] # "retained" /\ state.outs[o] = NoRecord
  <2>1. PlanFor(o, m, state, entry, text) = UnmanagedPlan(o, m, entry, text)
    BY <1>3 DEF PlanFor
  <2>2. CreateKind(o, m) \in ActionKinds
    BY DEF CreateKind, ActionKinds
  <2>3. Plan(CreateKind(o, m), FALSE, FALSE, FALSE) \in PlannedAction
    BY <2>2, PlanIsAction
  <2>4. \A k \in ActionKinds, b \in BOOLEAN, i \in BOOLEAN :
          Plan(k, b, i, TRUE) \in PlannedAction
    BY PlanIsAction
  <2>5. (Kind[o] = "instruction") \in BOOLEAN
    OBVIOUS
  <2> QED BY <2>1, <2>3, <2>4, <2>5 DEF UnmanagedPlan, ActionKinds
<1> QED BY <1>1, <1>2, <1>3

\* What an action writes is a file, a link or nothing, and what it records of it
\* is a record.
LEMMA EffectType ==
    ASSUME NEW p \in PlannedAction, NEW entry \in Entry, NEW text \in GenText,
           ReadsDestination(p.kind) => Read(entry, Raw(text)) # Absent
    PROVE  Effect(p, entry, text) \in Entry
<1>1. Raw(text) \in Bytes
  BY DEF Raw, Bytes, Text
<1>2. Read(entry, Raw(text)) \in Bytes \union {Absent}
  BY <1>1 DEF Read, Entry
<1> DEFINE bytes == Read(entry, Raw(text))
<1>3. ASSUME bytes # Absent
      PROVE  PatchDocument(bytes, text) \in Bytes /\ MergeJson(bytes, text) \in Bytes
  <2>1. bytes \in Bytes
    BY <1>2, <1>3
  <2> HIDE DEF bytes
  <2> QED BY <2>1 DEF PatchDocument, MergeJson, Bytes
<1> HIDE DEF bytes
<1>4. p.kind \in ActionKinds
  BY DEF PlannedAction
<1> QED BY <1>1, <1>3, <1>4 DEF Effect, ReadsDestination, ActionKinds, Entry, bytes

LEMMA RecordOfType ==
    ASSUME NEW p \in PlannedAction, NEW entry \in Entry, NEW text \in GenText,
           Read(entry, Raw(text)) # Absent
    PROVE  RecordOf(p, entry, text) \in Record
<1>1. Read(entry, Raw(text)) \in Bytes
  BY DEF Read, Entry, Raw, Bytes, Text
<1>2. p.backup \in BOOLEAN /\ p.marker \in BOOLEAN /\ p.existed \in BOOLEAN
  BY DEF PlannedAction
<1> QED BY <1>1, <1>2 DEF RecordOf, Record

-----------------------------------------------------------------------------
(***************************************************************************)
(* Type correctness.  An output is written and confirmed only while it is  *)
(* in the manifest, so that there is a staged text to write.               *)
(***************************************************************************)
AtOutput == pc \in {"write", "confirm"} => cur \in Manifest

TypeInv == TypeOK /\ AtOutput

LEMMA Numbers ==
    /\ N \in Nat /\ N >= 1 /\ StateSlot \in Nat /\ StateSlot = 2 * N + 1
    /\ \A o \in Out : o \in Nat /\ 1 <= o /\ o <= N
BY ConstantsAssumption DEF StateSlot, Out

LEMMA IdleValues ==
    /\ IdlePlan \in PlannedAction
    /\ EmptyState \in StateFile
    /\ EmptyProject \in ProjectType
    /\ [o \in Out |-> NoRecord] \in [Out -> Record \union {NoRecord}]
<1>1. IdlePlan \in PlannedAction
  BY PlanIsAction DEF IdlePlan, ActionKinds
<1>2. EmptyState \in StateFile
  BY DEF EmptyState, StateFile
<1> QED BY <1>1, <1>2 DEF EmptyProject, ProjectType, Entry

LEMMA StagedText ==
    ASSUME TypeOK, NEW o \in Manifest
    PROVE  /\ o \in Out /\ staged[o] \in GenText
           /\ Seen(o) = Read(disk[o], Raw(staged[o]))
           /\ plan[o] \in PlannedAction /\ disk[o] \in Entry
BY DEF TypeOK, Manifest, Seen, StagedBytes, Project, ProjectType

LEMMA SeenType ==
    ASSUME TypeOK, NEW o \in Manifest, Seen(o) # Absent
    PROVE  Seen(o) \in Bytes
BY StagedText DEF Read, Entry, Raw, Bytes, Text

\* TypeOK in terms of the variables.
LEMMA ProjectParts ==
    /\ Project \in ProjectType <=> /\ disk \in [Out -> Entry]
                                   /\ backup \in [Out -> Bytes \union {Absent}]
                                   /\ mstate \in StateFile
    /\ Project' \in ProjectType <=> /\ disk' \in [Out -> Entry]
                                    /\ backup' \in [Out -> Bytes \union {Absent}]
                                    /\ mstate' \in StateFile
BY DEF Project, ProjectType

LEMMA TypeInit == Init => TypeInv
<1> SUFFICES ASSUME Init PROVE TypeInv
  OBVIOUS
<1>1. Project \in ProjectType
  BY IdleValues DEF Init, Project, ProjectType, Entry
<1>2. cur \in 0..StateSlot /\ env \in 0..MaxEnv
  BY Numbers, FaultsAssumption DEF Init
<1>3. /\ plan \in [Out -> PlannedAction]
      /\ snap \in ProjectType /\ pre \in ProjectType
      /\ acc \in [Out -> Record \union {NoRecord}]
  BY IdleValues DEF Init
<1>4. /\ staged \in [Out -> GenText \union {Absent}]
      /\ owned \in [Out -> UserText \union {NoOwner}]
  BY DEF Init
<1>5. /\ pc \in PCs /\ mode \in AllModes \union {"none"} /\ failed \in BOOLEAN
      /\ journal \in JournalLines /\ result \in Results
      /\ pc \notin {"write", "confirm"}
  BY DEF Init, PCs, JournalLines, Results
<1> QED BY <1>1, <1>2, <1>3, <1>4, <1>5 DEF TypeInv, TypeOK, AtOutput

LEMMA TypeEnvironment ==
    ASSUME TypeInv, Compile \/ \E o \in Out : UserEdit(o)
    PROVE  TypeInv'
<1> USE Numbers, FaultsAssumption
<1>1. CASE Compile
  BY <1>1, ProjectParts DEF Compile, TypeInv, TypeOK, AtOutput
<1>2. ASSUME NEW o \in Out, UserEdit(o) PROVE TypeInv'
  <2>1. PICK t \in Text \union {Absent} :
          /\ disk' = [disk EXCEPT ![o] = IF t = Absent THEN Absent ELSE Raw(t)]
          /\ owned' = [owned EXCEPT ![o] = OwnedAfterEdit(o, t)]
    BY <1>2 DEF UserEdit
  <2>2. (IF t = Absent THEN Absent ELSE Raw(t)) \in Entry
    BY DEF Entry, Raw, Bytes
  <2>3. OwnedAfterEdit(o, t) \in UserText \union {NoOwner}
    BY DEF OwnedAfterEdit, TypeInv, TypeOK
  <2>4. disk' \in [Out -> Entry] /\ owned' \in [Out -> UserText \union {NoOwner}]
    BY <2>1, <2>2, <2>3, ProjectParts DEF TypeInv, TypeOK
  <2>5. /\ env' \in 0..MaxEnv
        /\ UNCHANGED <<backup, mstate, staged, pc, mode, plan, cur, snap, acc,
                       failed, journal, result, pre>>
    BY <1>2 DEF UserEdit, TypeInv, TypeOK
  <2> QED BY <2>4, <2>5, ProjectParts DEF TypeInv, TypeOK, AtOutput, Manifest
<1> QED BY <1>1, <1>2

LEMMA TypeStart ==
    ASSUME TypeInv, NEW m \in Modes, Refuse(m) \/ BeginApply(m)
    PROVE  TypeInv'
<1>1. m \in AllModes
  BY ConstantsAssumption
<1>2. CASE Refuse(m)
  BY <1>1, <1>2, ProjectParts
     DEF Refuse, TypeInv, TypeOK, AtOutput, PCs, Results, Manifest
<1>3. CASE BeginApply(m)
  <2>1. \A o \in Out : PlanOf(m, o) \in PlannedAction
    <3> SUFFICES ASSUME NEW o \in Out PROVE PlanOf(m, o) \in PlannedAction
      OBVIOUS
    <3>1. CASE o \in Manifest
      <4>1. PlanFor(o, m, mstate, disk[o], staged[o]) # Conflict
        BY <1>3, <3>1 DEF BeginApply, Refused, PlanOf
      <4> QED BY <1>1, <3>1, <4>1, PlanForType, ProjectParts
              DEF PlanOf, TypeInv, TypeOK
    <3>2. CASE o \notin Manifest
      BY <3>2, IdleValues DEF PlanOf
    <3> QED BY <3>1, <3>2
  <2> QED BY <1>1, <1>3, <2>1, ProjectParts
          DEF BeginApply, TypeInv, TypeOK, AtOutput, PCs, Results, JournalLines,
              Manifest
<1> QED BY <1>2, <1>3

LEMMA TypeEscape ==
    ASSUME TypeInv, Escape PROVE TypeInv'
BY ProjectParts DEF Escape, TypeInv, TypeOK, AtOutput, PCs, Results, Manifest

LEMMA TypeAdvance ==
    ASSUME TypeInv, cur \in Manifest, Seen(cur) # Absent,
           NEW line \in JournalLines, Advance(line)
    PROVE  TypeInv'
<1>1. RecordOf(plan[cur], disk[cur], staged[cur]) \in Record
  BY StagedText, RecordOfType DEF TypeInv
<1>2. acc' \in [Out -> Record \union {NoRecord}]
  BY <1>1 DEF Advance, TypeInv, TypeOK
<1>3. cur' \in 0..StateSlot
  BY Numbers DEF Advance, TypeInv, TypeOK, Manifest
<1> QED BY <1>2, <1>3, ProjectParts
        DEF Advance, TypeInv, TypeOK, AtOutput, PCs, Manifest

LEMMA TypeCompensate ==
    ASSUME TypeInv, Compensate, disk' \in [Out -> Entry] PROVE TypeInv'
<1>1. cur' \in 0..StateSlot
  BY Numbers DEF Compensate
<1>2. Project' \in ProjectType
  BY ProjectParts DEF Compensate, TypeInv, TypeOK
<1>3. pc' = "restore" /\ failed' \in BOOLEAN
      /\ UNCHANGED <<staged, mode, plan, snap, acc, journal, result, pre, env, owned>>
  BY DEF Compensate
<1> QED BY <1>1, <1>2, <1>3 DEF TypeInv, TypeOK, AtOutput, PCs

LEMMA TypeLoop ==
    ASSUME TypeInv,
           Preflight \/ LoopNext \/ CheckFails \/ Noop \/ StartAction
             \/ WriteOutput \/ ConfirmOutput
    PROVE  TypeInv'
<1> USE Numbers
<1>0. disk \in [Out -> Entry]
  BY ProjectParts DEF TypeInv, TypeOK
<1>1. CASE Preflight
  BY <1>1, TypeEscape, ProjectParts
     DEF Preflight, TypeInv, TypeOK, AtOutput, PCs, JournalLines, Manifest
<1>2. CASE LoopNext
  <2>1. cur' \in 0..StateSlot
    BY <1>2 DEF LoopNext, TypeInv, TypeOK
  <2>2. pc' \in {"loop", "state"}
    BY <1>2 DEF LoopNext
  <2> QED BY <1>2, <2>1, <2>2, ProjectParts
          DEF LoopNext, TypeInv, TypeOK, AtOutput, PCs, Manifest
<1>3. CASE CheckFails
  BY <1>3, TypeEscape DEF CheckFails
<1>4. CASE Noop
  BY <1>4, TypeEscape, TypeAdvance DEF Noop, JournalLines
<1>5. CASE StartAction
  <2>1. CASE Compensate /\ UNCHANGED disk
    BY <2>1, <1>0, TypeCompensate
  <2>2. CASE /\ BackupIsTaken(plan[cur]) => Seen(cur) # Absent
             /\ backup' = IF BackupIsTaken(plan[cur])
                          THEN [backup EXCEPT ![cur] = Seen(cur)] ELSE backup
             /\ pc' = "write"
             /\ journal' = "started"
             /\ UNCHANGED <<disk, mstate, staged, mode, plan, cur, snap, acc,
                            failed, result, pre, env, owned>>
    <3>1. backup' \in [Out -> Bytes \union {Absent}]
      BY <1>5, <2>2, SeenType, ProjectParts DEF StartAction, TypeInv, TypeOK
    <3> QED BY <1>5, <2>2, <3>1, ProjectParts
            DEF StartAction, TypeInv, TypeOK, AtOutput, PCs, JournalLines, Manifest
  <2> QED BY <1>5, <2>1, <2>2 DEF StartAction
<1>6. CASE WriteOutput
  <2>0. cur \in Manifest /\ cur \in Out
    BY <1>6 DEF WriteOutput, TypeInv, AtOutput, Manifest
  <2>1. CASE /\ disk' \in {disk, [disk EXCEPT ![cur] =
                                    IF RemovesFirst(cur) THEN Absent ELSE @]}
             /\ Compensate
    <3>1. (IF RemovesFirst(cur) THEN Absent ELSE disk[cur]) \in Entry
      BY <1>0, <2>0 DEF Entry
    <3>2. disk' \in [Out -> Entry]
      BY <1>0, <2>1, <3>1
    <3> QED BY <2>1, <3>2, TypeCompensate
  <2>2. CASE /\ ReadsDestination(plan[cur].kind) => Seen(cur) # Absent
             /\ disk' = [disk EXCEPT ![cur] =
                           Effect(plan[cur], disk[cur], staged[cur])]
             /\ pc' = "confirm"
             /\ UNCHANGED <<backup, mstate, staged, mode, plan, cur, snap, acc,
                            failed, journal, result, pre, env, owned>>
    <3>1. Effect(plan[cur], disk[cur], staged[cur]) \in Entry
      BY <2>0, <2>2, StagedText, EffectType DEF TypeInv
    <3>2. disk' \in [Out -> Entry]
      BY <1>0, <2>2, <3>1
    <3> QED BY <2>0, <2>2, <3>2, ProjectParts
            DEF TypeInv, TypeOK, AtOutput, PCs, Manifest
  <2> QED BY <1>6, <2>1, <2>2 DEF WriteOutput
<1>7. CASE ConfirmOutput
  <2>1. cur \in Manifest
    BY <1>7 DEF ConfirmOutput, TypeInv, AtOutput
  <2> QED BY <1>0, <1>7, <2>1, TypeAdvance, TypeCompensate
          DEF ConfirmOutput, JournalLines
<1> QED BY <1>1, <1>2, <1>3, <1>4, <1>5, <1>6, <1>7

LEMMA TypeFinish ==
    ASSUME TypeInv, WriteState \/ AppendSuccess
    PROVE  TypeInv'
<1>0. disk \in [Out -> Entry]
  BY ProjectParts DEF TypeInv, TypeOK
<1>1. CASE WriteState
  <2>1. CASE Compensate /\ UNCHANGED disk
    BY <1>0, <2>1, TypeCompensate
  <2>2. CASE ~(Compensate /\ UNCHANGED disk) /\ ~Escape
    <3>1. /\ mstate' = [mode |-> mode, outs |-> acc]
          /\ owned' = [o \in Out |-> IF acc[o] = NoRecord
                                        /\ mstate.outs[o] # NoRecord
                                     THEN NoOwner ELSE owned[o]]
          /\ pc' = "success"
          /\ UNCHANGED <<disk, backup, staged, mode, plan, cur, snap, acc,
                         failed, journal, result, pre, env>>
      BY <1>1, <2>2 DEF WriteState
    <3>2. mstate' \in StateFile
      BY <3>1 DEF StateFile, TypeInv, TypeOK
    <3>3. owned' \in [Out -> UserText \union {NoOwner}]
      BY <3>1 DEF TypeInv, TypeOK
    <3> QED BY <3>1, <3>2, <3>3, ProjectParts
            DEF TypeInv, TypeOK, AtOutput, PCs, Manifest
  <2> QED BY <2>1, <2>2, TypeEscape
<1>2. CASE AppendSuccess
  <2>1. cur' \in 0..StateSlot
    BY <1>2, Numbers DEF AppendSuccess, TypeInv, TypeOK
  <2> QED BY <1>2, <2>1, ProjectParts
          DEF AppendSuccess, TypeInv, TypeOK, AtOutput, PCs, JournalLines, Results,
              Manifest
<1> QED BY <1>1, <1>2

\* What a compensating step leaves of the project.
LEMMA RestoreMoves ==
    ASSUME TypeInv, RestoreStep
    PROVE  /\ disk' \in [Out -> Entry]
           /\ backup' \in [Out -> Bytes \union {Absent}]
           /\ mstate' \in StateFile
           /\ failed' \in BOOLEAN
<1>0. /\ disk \in [Out -> Entry] /\ backup \in [Out -> Bytes \union {Absent}]
      /\ mstate \in StateFile /\ failed \in BOOLEAN
      /\ snap.disk \in [Out -> Entry] /\ snap.backup \in [Out -> Bytes \union {Absent}]
      /\ snap.mstate \in StateFile
  BY ProjectParts DEF TypeInv, TypeOK, ProjectType
<1>1. ASSUME NEW o \in Out, RestoreDisk(o)
      PROVE  disk' \in [Out -> Entry] /\ failed' \in BOOLEAN
  BY <1>0, <1>1 DEF RestoreDisk, Restored, Entry
<1>2. ASSUME NEW o \in Out, RestoreBackup(o)
      PROVE  backup' \in [Out -> Bytes \union {Absent}] /\ failed' \in BOOLEAN
  BY <1>0, <1>2 DEF RestoreBackup, Restored
<1>3. ASSUME RestoreState PROVE mstate' \in StateFile /\ failed' \in BOOLEAN
  BY <1>0, <1>3, IdleValues DEF RestoreState, Restored
<1> QED BY <1>0, <1>1, <1>2, <1>3
        DEF RestoreStep, RestoreDisk, RestoreBackup, RestoreState, NotSnapshotted

LEMMA TypeRestore ==
    ASSUME TypeInv, RestoreStep \/ RestoreDone
    PROVE  TypeInv'
<1>1. CASE RestoreStep
  <2>1. cur' \in 0..StateSlot
    BY <1>1, Numbers DEF RestoreStep, TypeInv, TypeOK
  <2>2. UNCHANGED <<staged, pc, mode, plan, snap, acc, journal, result, pre, env,
                    owned>>
        /\ pc = "restore"
    BY <1>1 DEF RestoreStep
  <2> QED BY <1>1, <2>1, <2>2, RestoreMoves, ProjectParts
          DEF TypeInv, TypeOK, AtOutput
<1>2. CASE RestoreDone
  <2>1. result' \in Results /\ journal' \in JournalLines
    BY <1>2 DEF RestoreDone, Results, JournalLines, TypeInv, TypeOK
  <2> QED BY <1>2, <2>1, ProjectParts
          DEF RestoreDone, TypeInv, TypeOK, AtOutput, PCs, Manifest
<1> QED BY <1>1, <1>2

LEMMA TypeEnd ==
    ASSUME TypeInv, Return \/ Crash
    PROVE  TypeInv'
<1>0. /\ disk \in [Out -> Entry] /\ backup \in [Out -> Bytes \union {Absent}]
      /\ mstate \in StateFile
  BY ProjectParts DEF TypeInv, TypeOK
<1>1. ASSUME ResetRun, result' \in Results, journal' \in JournalLines,
             disk' \in [Out -> Entry], backup' \in [Out -> Bytes \union {Absent}],
             mstate' \in StateFile
      PROVE  TypeInv'
  <2>1. cur' \in 0..StateSlot
    BY <1>1, Numbers DEF ResetRun
  <2>2. Project' \in ProjectType
    BY <1>1, ProjectParts
  <2>3. /\ plan' \in [Out -> PlannedAction]
        /\ snap' \in ProjectType /\ pre' \in ProjectType
        /\ acc' \in [Out -> Record \union {NoRecord}]
    BY <1>1, IdleValues DEF ResetRun
  <2>4. /\ pc' = "idle" /\ mode' = "none" /\ failed' \in BOOLEAN
        /\ UNCHANGED <<staged, env, owned>>
    BY <1>1 DEF ResetRun
  <2> QED BY <1>1, <2>1, <2>2, <2>3, <2>4 DEF TypeInv, TypeOK, AtOutput, PCs
<1>2. CASE Return
  BY <1>0, <1>1, <1>2 DEF Return, files, Results, JournalLines
<1>3. CASE Crash
  <2>1. /\ Emptied.disk \in [Out -> Entry]
        /\ Emptied.backup \in [Out -> Bytes \union {Absent}]
        /\ Emptied.mstate \in StateFile
    BY <1>0, IdleValues DEF Emptied, Project, Entry
  <2>2. /\ disk' \in [Out -> Entry] /\ backup' \in [Out -> Bytes \union {Absent}]
        /\ mstate' \in StateFile
    BY <1>0, <1>3, <2>1 DEF Crash, Project
  <2> QED BY <1>1, <1>3, <2>2 DEF Crash, Results, TypeInv, TypeOK
<1> QED BY <1>2, <1>3

LEMMA TypeStep == TypeInv /\ [Next]_vars => TypeInv'
<1> SUFFICES ASSUME TypeInv, [Next]_vars PROVE TypeInv'
  OBVIOUS
<1>1. CASE UNCHANGED vars
  BY <1>1, ProjectParts DEF vars, TypeInv, TypeOK, AtOutput, Manifest
<1> QED BY <1>1, TypeEnvironment, TypeStart, TypeLoop, TypeFinish, TypeRestore,
           TypeEnd DEF Next, ApplyNext

\* Every variable keeps to its type (the records and files of apply_manifest_bound).
THEOREM ApplyTypeCorrect == Spec => []TypeOK
<1>1. Init => TypeInv
  BY TypeInit
<1>2. TypeInv /\ [Next]_vars => TypeInv'
  BY TypeStep
<1>3. TypeInv => TypeOK
  BY DEF TypeInv
<1> QED BY <1>1, <1>2, <1>3, PTL DEF Spec

-----------------------------------------------------------------------------
(***************************************************************************)
(* Compensation.  The snapshots are the project the apply started from;    *)
(* what has no snapshot is never written; and as long as every restore has *)
(* worked, each path whose snapshot has had its turn is as it was.         *)
(***************************************************************************)
Working == pc \in {"loop", "write", "confirm", "state", "success", "restore"}

StartsFromPre == /\ pc = "preflight" => Project = pre
                 /\ Working => snap = pre

Untouched ==
    Working => \A o \in Out :
        /\ o \notin Manifest => disk[o] = pre.disk[o]
        /\ ~(o \in Manifest /\ plan[o].backup) => backup[o] = pre.backup[o]

RestoredAbove ==
    pc = "restore" /\ ~failed =>
        /\ \A o \in Out : /\ DiskSlot(o) > cur => disk[o] = pre.disk[o]
                          /\ BackupSlot(o) > cur => backup[o] = pre.backup[o]
        /\ StateSlot > cur => mstate = pre.mstate

CompInv == /\ TypeInv /\ StartsFromPre /\ Untouched /\ RestoredAbove
           /\ CompensationExact

LEMMA Files ==
    ASSUME TypeInv
    PROVE  /\ disk \in [Out -> Entry] /\ backup \in [Out -> Bytes \union {Absent}]
           /\ pre \in ProjectType /\ snap \in ProjectType
           /\ pre.disk \in [Out -> Entry]
           /\ pre.backup \in [Out -> Bytes \union {Absent}]
           /\ Project = pre <=> /\ disk = pre.disk /\ backup = pre.backup
                                /\ mstate = pre.mstate
BY ProjectParts DEF TypeInv, TypeOK, Project, ProjectType

LEMMA CompInit == Init => CompInv
BY TypeInit DEF Init, CompInv, StartsFromPre, Untouched, RestoredAbove,
   CompensationExact, Working

\* The environment waits for the apply to end.
LEMMA CompEnvironment ==
    ASSUME ~Concurrent, CompInv, Compile \/ \E o \in Out : UserEdit(o)
    PROVE  CompInv'
<1>1. pc = "idle" /\ pc' = "idle"
  BY DEF Compile, UserEdit
<1> QED BY <1>1, TypeEnvironment
        DEF CompInv, StartsFromPre, Untouched, RestoredAbove, CompensationExact,
            Working

LEMMA CompStart ==
    ASSUME CompInv, NEW m \in Modes, Refuse(m) \/ BeginApply(m)
    PROVE  CompInv'
<1>1. pc' \in {"done", "preflight"} /\ Project' = Project /\ pre' = Project
      /\ result' \in {"conflict", "none"}
  BY DEF Refuse, BeginApply, Project
<1> QED BY <1>1, TypeStart
        DEF CompInv, StartsFromPre, Untouched, RestoredAbove, CompensationExact,
            Working

LEMMA CompEscape ==
    ASSUME CompInv, Escape PROVE CompInv'
BY TypeEscape DEF Escape, CompInv, StartsFromPre, Untouched, RestoredAbove,
   CompensationExact, Working

\* A step of the loop changes at most the destination and the backup it is at.
LEMMA CompWork ==
    ASSUME CompInv, TypeInv',
           pc \in {"loop", "write", "confirm", "state", "success"},
           pc' \in {"loop", "write", "confirm", "state", "success"},
           \A o \in Out : o \notin Manifest => disk'[o] = disk[o],
           \A o \in Out : ~(o \in Manifest /\ plan[o].backup)
                            => backup'[o] = backup[o],
           UNCHANGED <<staged, plan, snap, pre>>
    PROVE  CompInv'
<1>1. Working /\ Working'
  BY DEF Working
<1>2. StartsFromPre'
  BY <1>1 DEF CompInv, StartsFromPre, Working
<1>3. Untouched'
  BY <1>1 DEF CompInv, Untouched, Manifest
<1>4. RestoredAbove' /\ CompensationExact'
  BY DEF RestoredAbove, CompensationExact
<1> QED BY <1>2, <1>3, <1>4 DEF CompInv

\* Compensation begins at the last snapshot, with nothing restored yet.
LEMMA CompCompensate ==
    ASSUME CompInv, TypeInv', Working, pc' = "restore", cur' = StateSlot,
           \A o \in Out : o \notin Manifest => disk'[o] = disk[o],
           UNCHANGED <<backup, staged, plan, snap, pre>>
    PROVE  CompInv'
<1>1. StartsFromPre' /\ CompensationExact'
  BY DEF CompInv, StartsFromPre, CompensationExact, Working
<1>2. Untouched'
  BY DEF CompInv, Untouched, Manifest
<1>3. RestoredAbove'
  BY Numbers DEF RestoredAbove, DiskSlot, BackupSlot
<1> QED BY <1>1, <1>2, <1>3 DEF CompInv

LEMMA CompLoop ==
    ASSUME CompInv,
           Preflight \/ LoopNext \/ CheckFails \/ Noop \/ StartAction
             \/ WriteOutput \/ ConfirmOutput
    PROVE  CompInv'
<1>0. TypeInv /\ TypeInv'
  BY TypeLoop DEF CompInv
<1>a. ASSUME NEW line, Advance(line), pc \in {"loop", "confirm"} PROVE CompInv'
  BY <1>0, <1>a, CompWork DEF Advance
<1>b. ASSUME Compensate, UNCHANGED disk, Working PROVE CompInv'
  BY <1>0, <1>b, CompCompensate DEF Compensate
<1>1. CASE Preflight
  <2>1. CASE Escape
    BY <2>1, CompEscape
  <2>2. CASE ~Escape
    <3>1. /\ pc = "preflight" /\ pc' = "loop" /\ snap' = Project
          /\ UNCHANGED <<disk, backup, mstate, staged, plan, pre>>
      BY <1>1, <2>2 DEF Preflight
    <3>2. Project = pre
      BY <3>1 DEF CompInv, StartsFromPre
    <3>3. \A o \in Out : disk'[o] = pre'.disk[o] /\ backup'[o] = pre'.backup[o]
      BY <1>0, <3>1, <3>2, Files
    <3> QED BY <1>0, <3>1, <3>2, <3>3
            DEF CompInv, StartsFromPre, Untouched, RestoredAbove,
                CompensationExact, Working
  <2> QED BY <2>1, <2>2
<1>2. CASE LoopNext
  <2>1. pc = "loop" /\ pc' \in {"loop", "state"}
        /\ UNCHANGED <<disk, backup, staged, plan, snap, pre>>
    BY <1>2 DEF LoopNext
  <2> QED BY <1>0, <2>1, CompWork
<1>3. CASE CheckFails
  BY <1>3, CompEscape DEF CheckFails
<1>4. CASE Noop
  BY <1>4, <1>a, CompEscape DEF Noop
<1>5. CASE StartAction
  <2>1. CASE Compensate /\ UNCHANGED disk
    BY <1>5, <1>b, <2>1 DEF StartAction, Working
  <2>2. CASE ~(Compensate /\ UNCHANGED disk)
    <3>1. /\ pc = "loop" /\ cur \in Manifest /\ pc' = "write"
          /\ backup' = IF BackupIsTaken(plan[cur])
                       THEN [backup EXCEPT ![cur] = Seen(cur)] ELSE backup
          /\ UNCHANGED <<disk, staged, plan, snap, pre>>
      BY <1>5, <2>2 DEF StartAction
    <3>2. \A o \in Out : ~(o \in Manifest /\ plan[o].backup)
                           => backup'[o] = backup[o]
      BY <1>0, <3>1, Files DEF BackupIsTaken
    <3> QED BY <1>0, <3>1, <3>2, CompWork
  <2> QED BY <2>1, <2>2
<1>6. CASE WriteOutput
  <2>1. pc = "write" /\ cur \in Manifest /\ Working
    BY <1>0, <1>6 DEF WriteOutput, TypeInv, AtOutput, Working
  <2>2. \A o \in Out : o \notin Manifest => disk'[o] = disk[o]
    BY <1>0, <1>6, <2>1, Files DEF WriteOutput
  <2>3. CASE Compensate
    BY <1>0, <2>1, <2>2, <2>3, CompCompensate DEF Compensate
  <2>4. CASE ~Compensate
    <3>1. pc' = "confirm" /\ UNCHANGED <<backup, staged, plan, snap, pre>>
      BY <1>6, <2>4 DEF WriteOutput
    <3> QED BY <1>0, <2>1, <2>2, <3>1, CompWork
  <2> QED BY <2>3, <2>4
<1>7. CASE ConfirmOutput
  BY <1>7, <1>a, <1>b DEF ConfirmOutput, Working
<1> QED BY <1>1, <1>2, <1>3, <1>4, <1>5, <1>6, <1>7

LEMMA CompFinish ==
    ASSUME CompInv, WriteState \/ AppendSuccess
    PROVE  CompInv'
<1>0. TypeInv /\ TypeInv'
  BY TypeFinish DEF CompInv
<1>1. CASE WriteState
  <2>1. CASE Compensate /\ UNCHANGED disk
    BY <1>0, <1>1, <2>1, CompCompensate DEF Compensate, WriteState, Working
  <2>2. CASE ~(Compensate /\ UNCHANGED disk) /\ ~Escape
    <3>1. /\ pc = "state" /\ pc' = "success"
          /\ UNCHANGED <<disk, backup, staged, plan, snap, pre>>
      BY <1>1, <2>2 DEF WriteState
    <3> QED BY <1>0, <3>1, CompWork
  <2> QED BY <2>1, <2>2, CompEscape
<1>2. CASE AppendSuccess
  <2>1. /\ pc = "success"
        /\ UNCHANGED <<disk, backup, mstate, staged, plan, snap, pre>>
        /\ \/ pc' = "done" /\ result' = "ok"
           \/ pc' = "restore" /\ cur' = StateSlot
    BY <1>2 DEF AppendSuccess
  <2>2. CASE pc' = "done"
    BY <1>0, <2>1, <2>2
       DEF CompInv, StartsFromPre, Untouched, RestoredAbove, CompensationExact,
           Working
  <2>3. CASE pc' = "restore"
    BY <1>0, <2>1, <2>3, CompCompensate DEF Working
  <2> QED BY <2>1, <2>2, <2>3
<1> QED BY <1>1, <1>2

\* One snapshot is restored, or the restore is known to have failed.
LEMMA CompRestore ==
    ASSUME CompInv, RestoreStep
    PROVE  CompInv'
<1>0. TypeInv /\ TypeInv'
  BY TypeRestore DEF CompInv
<1>1. /\ pc = "restore" /\ pc' = "restore" /\ cur \in Nat /\ cur > 0
      /\ cur' = cur - 1 /\ UNCHANGED <<staged, plan, snap, pre>>
      /\ snap = pre
  BY <1>0, Numbers DEF RestoreStep, TypeInv, TypeOK, CompInv, StartsFromPre, Working
<1>2. StartsFromPre' /\ CompensationExact'
  BY <1>1 DEF StartsFromPre, CompensationExact, Working
<1>3. \A o \in Out : /\ o \in Nat /\ DiskSlot(o) = 2 * o - 1 /\ BackupSlot(o) = 2 * o
                     /\ 1 <= o /\ o <= N
  BY Numbers DEF DiskSlot, BackupSlot
<1>4. /\ \A o \in Out : o \notin Manifest => disk[o] = pre.disk[o]
      /\ \A o \in Out : ~(o \in Manifest /\ plan[o].backup)
                          => backup[o] = pre.backup[o]
  BY <1>1 DEF CompInv, Untouched, Working
<1>5. ASSUME NEW o \in Out, RestoreDisk(o) PROVE Untouched' /\ RestoredAbove'
  <2>1. /\ cur = DiskSlot(o) /\ o \in Manifest
        /\ UNCHANGED <<backup, mstate>>
        /\ \A u \in Out : u # o => disk'[u] = disk[u]
        /\ ~failed' => ~failed /\ disk'[o] = pre.disk[o]
    BY <1>0, <1>1, <1>5, Files DEF RestoreDisk, Restored
  <2>2. Untouched'
    BY <1>1, <1>4, <2>1 DEF Untouched, Manifest
  <2>3. ASSUME ~failed', NEW u \in Out
        PROVE  /\ DiskSlot(u) > cur' => disk'[u] = pre'.disk[u]
               /\ BackupSlot(u) > cur' => backup'[u] = pre'.backup[u]
               /\ StateSlot > cur' => mstate' = pre'.mstate
    BY <1>1, <1>3, <2>1, <2>3, Numbers DEF CompInv, RestoredAbove
  <2> QED BY <1>0, <1>1, <2>2, <2>3 DEF RestoredAbove, TypeInv, TypeOK
<1>6. ASSUME NEW o \in Out, RestoreBackup(o) PROVE Untouched' /\ RestoredAbove'
  <2>1. /\ cur = BackupSlot(o) /\ o \in Manifest /\ plan[o].backup
        /\ UNCHANGED <<disk, mstate>>
        /\ \A u \in Out : u # o => backup'[u] = backup[u]
        /\ ~failed' => ~failed /\ backup'[o] = pre.backup[o]
    BY <1>0, <1>1, <1>6, Files DEF RestoreBackup, Restored
  <2>2. Untouched'
    BY <1>1, <1>4, <2>1 DEF Untouched, Manifest
  <2>3. ASSUME ~failed', NEW u \in Out
        PROVE  /\ DiskSlot(u) > cur' => disk'[u] = pre'.disk[u]
               /\ BackupSlot(u) > cur' => backup'[u] = pre'.backup[u]
               /\ StateSlot > cur' => mstate' = pre'.mstate
    BY <1>1, <1>3, <2>1, <2>3, Numbers DEF CompInv, RestoredAbove
  <2> QED BY <1>0, <1>1, <2>2, <2>3 DEF RestoredAbove, TypeInv, TypeOK
<1>7. ASSUME RestoreState PROVE Untouched' /\ RestoredAbove'
  <2>1. /\ cur = StateSlot /\ UNCHANGED <<disk, backup>>
        /\ ~failed' => ~failed /\ mstate' = pre.mstate
    BY <1>1, <1>7 DEF RestoreState, Restored
  <2>2. Untouched'
    BY <1>1, <1>4, <2>1 DEF Untouched, Manifest
  <2>3. RestoredAbove'
    BY <1>1, <1>3, <2>1, Numbers DEF CompInv, RestoredAbove
  <2> QED BY <2>2, <2>3
<1>8. ASSUME NotSnapshotted PROVE Untouched' /\ RestoredAbove'
  <2>1. PICK o \in Out : \/ cur = DiskSlot(o) /\ o \notin Manifest
                         \/ cur = BackupSlot(o) /\ ~(o \in Manifest /\ plan[o].backup)
    BY <1>8 DEF NotSnapshotted
  <2>2. UNCHANGED <<disk, backup, mstate, failed>>
    BY <1>8 DEF NotSnapshotted
  <2>3. Untouched'
    BY <1>1, <1>4, <2>2 DEF Untouched, Manifest
  <2>4. ASSUME ~failed', NEW u \in Out
        PROVE  /\ DiskSlot(u) > cur' => disk'[u] = pre'.disk[u]
               /\ BackupSlot(u) > cur' => backup'[u] = pre'.backup[u]
               /\ StateSlot > cur' => mstate' = pre'.mstate
    BY <1>1, <1>3, <1>4, <2>1, <2>2, <2>4, Numbers DEF CompInv, RestoredAbove
  <2>5. \E u \in Out : TRUE
    BY <2>1
  <2> QED BY <1>0, <1>1, <2>3, <2>4, <2>5 DEF RestoredAbove, TypeInv, TypeOK
<1> QED BY <1>0, <1>2, <1>5, <1>6, <1>7, <1>8 DEF CompInv, RestoreStep

LEMMA CompEnd ==
    ASSUME CompInv, RestoreDone \/ Return \/ Crash
    PROVE  CompInv'
<1>0. TypeInv /\ TypeInv'
  BY TypeRestore, TypeEnd DEF CompInv
<1>1. CASE RestoreDone
  <2>1. /\ pc = "restore" /\ pc' = "done" /\ cur = 0
        /\ UNCHANGED <<disk, backup, mstate, pre>>
        /\ result' = IF failed THEN "failed_partial" ELSE "failure_compensated"
    BY <1>1 DEF RestoreDone
  <2>2. CASE failed
    BY <1>0, <2>1, <2>2
       DEF CompInv, StartsFromPre, Untouched, RestoredAbove, CompensationExact,
           Working
  <2>3. CASE ~failed
    <3>1. \A o \in Out : DiskSlot(o) > 0 /\ BackupSlot(o) > 0
      BY Numbers DEF DiskSlot, BackupSlot
    <3>2. /\ \A o \in Out : disk[o] = pre.disk[o] /\ backup[o] = pre.backup[o]
          /\ mstate = pre.mstate
      BY <2>1, <2>3, <3>1, Numbers DEF CompInv, RestoredAbove
    <3>3. disk = pre.disk /\ backup = pre.backup
      BY <1>0, <3>2, Files
    <3>4. Project' = pre'
      BY <1>0, <2>1, <3>2, <3>3, Files DEF Project
    <3> QED BY <1>0, <2>1, <3>4
            DEF CompInv, StartsFromPre, Untouched, RestoredAbove,
                CompensationExact, Working
  <2> QED BY <2>2, <2>3
<1>2. CASE Return \/ Crash
  <2>1. pc' = "idle"
    BY <1>2 DEF Return, Crash, ResetRun
  <2> QED BY <1>0, <2>1
          DEF CompInv, StartsFromPre, Untouched, RestoredAbove, CompensationExact,
              Working
<1> QED BY <1>1, <1>2

LEMMA CompStep ==
    ASSUME ~Concurrent PROVE CompInv /\ [Next]_vars => CompInv'
<1> SUFFICES ASSUME CompInv, [Next]_vars PROVE CompInv'
  OBVIOUS
<1>1. CASE UNCHANGED vars
  <2>1. TypeInv'
    BY <1>1, TypeStep DEF CompInv
  <2> QED BY <1>1, <2>1
          DEF vars, CompInv, StartsFromPre, Untouched, RestoredAbove,
              CompensationExact, Working, Project, Manifest
<1> QED BY <1>1, CompEnvironment, CompStart, CompLoop, CompFinish, CompRestore,
           CompEnd DEF Next, ApplyNext

\* Whatever steps fail, and however many outputs there are: an apply that reports
\* its failure as compensated has put back every destination, every backup and
\* the managed state (apply_manifest_bound, restore_path_snapshots), provided
\* the user does not write to them while it runs.
THEOREM CompensatedMeansRestored ==
    ASSUME ~Concurrent PROVE Spec => []CompensationExact
<1>1. Init => CompInv
  BY CompInit
<1>2. CompInv /\ [Next]_vars => CompInv'
  BY CompStep
<1>3. CompInv => CompensationExact
  BY DEF CompInv
<1> QED BY <1>1, <1>2, <1>3, PTL DEF Spec

-----------------------------------------------------------------------------
(***************************************************************************)
(* The loop.  Outputs before cur are done as planned, those after it are   *)
(* as they were when the apply started.                                    *)
(***************************************************************************)
Begun == pc \in {"preflight", "loop", "write", "confirm", "state", "success"}

\* The plan is the one made of the project the apply started from.
PlannedFromPre ==
    Begun =>
        /\ mode \in Modes
        /\ \A o \in Out : plan[o] = IF o \in Manifest
                                    THEN PlanFor(o, mode, pre.mstate, pre.disk[o], staged[o])
                                    ELSE IdlePlan

SavedBackup(o) == IF BackupIsTaken(plan[o]) THEN Read(pre.disk[o], Raw(staged[o]))
                                            ELSE pre.backup[o]
Written(o) == Effect(plan[o], pre.disk[o], staged[o])

Waiting(o)  == disk[o] = pre.disk[o] /\ backup[o] = pre.backup[o] /\ acc[o] = NoRecord
Accounted(o) == IF o \in Manifest
               THEN acc[o] = RecordOf(plan[o], disk[o], staged[o]) /\ Seen(o) # Absent
               ELSE acc[o] = NoRecord
Applied(o)  == /\ disk[o] = IF o \in Manifest THEN Written(o) ELSE pre.disk[o]
               /\ backup[o] = IF o \in Manifest THEN SavedBackup(o) ELSE pre.backup[o]
               /\ Accounted(o)

Progress ==
    /\ pc = "preflight" => \A o \in Out : acc[o] = NoRecord
    /\ pc \in {"loop", "write", "confirm", "state", "success"} =>
         \A o \in Out : (o < cur => Applied(o)) /\ (o > cur => Waiting(o))
    /\ pc = "loop" /\ cur \in Out => Waiting(cur)
    /\ pc = "write" => /\ disk[cur] = pre.disk[cur] /\ acc[cur] = NoRecord
                       /\ backup[cur] = SavedBackup(cur)
    /\ pc = "confirm" => disk[cur] = Written(cur) /\ backup[cur] = SavedBackup(cur)
    /\ pc \in {"write", "confirm"} => plan[cur].kind # "Noop"
    /\ pc \in {"state", "success"} => cur > N
    /\ pc \in {"loop", "write", "confirm", "state"} => mstate = pre.mstate
    /\ pc = "success" => mstate = [mode |-> mode, outs |-> acc]

\* A successful apply has recorded what is on the disk.
Finished == pc = "done" /\ result = "ok" =>
    /\ mstate = [mode |-> mode, outs |-> acc]
    /\ \A o \in Out : Accounted(o)

ProgressInv == CompInv /\ PlannedFromPre /\ Progress /\ Finished

\* Where none of this says anything.
LEMMA ProgressOutside ==
    ASSUME pc' \notin {"preflight", "loop", "write", "confirm", "state", "success"},
           pc' = "done" => result' # "ok"
    PROVE  PlannedFromPre' /\ Progress' /\ Finished'
BY DEF PlannedFromPre, Progress, Finished, Begun

\* The outputs that a step does not touch stay as far as they were.
LEMMA UntouchedOutputs ==
    ASSUME UNCHANGED <<staged, plan, pre>>, NEW o \in Out,
           disk'[o] = disk[o], backup'[o] = backup[o], acc'[o] = acc[o]
    PROVE  (Applied(o)' <=> Applied(o)) /\ (Waiting(o)' <=> Waiting(o))
BY DEF Applied, Waiting, Accounted, Written, SavedBackup, Seen, StagedBytes, Manifest

LEMMA PlanIsKept ==
    ASSUME PlannedFromPre, Begun, UNCHANGED <<staged, plan, pre, mode>>
    PROVE  PlannedFromPre'
BY DEF PlannedFromPre, Begun, Manifest

LEMMA ProgressStart ==
    ASSUME ProgressInv, NEW m \in Modes, Refuse(m) \/ BeginApply(m)
    PROVE  PlannedFromPre' /\ Progress' /\ Finished'
<1>1. CASE Refuse(m)
  BY <1>1, ProgressOutside DEF Refuse
<1>2. CASE BeginApply(m)
  <2>1. /\ pc' = "preflight" /\ mode' = m /\ plan' = [o \in Out |-> PlanOf(m, o)]
        /\ pre' = Project /\ acc' = [o \in Out |-> NoRecord] /\ staged' = staged
    BY <1>2 DEF BeginApply
  <2>2. pre'.disk = disk /\ pre'.mstate = mstate
    BY <2>1 DEF Project
  <2>3. PlannedFromPre'
    BY <2>1, <2>2 DEF PlannedFromPre, PlanOf, Manifest
  <2> QED BY <2>1, <2>3 DEF Progress, Finished
<1> QED BY <1>1, <1>2

LEMMA ProgressPreflight ==
    ASSUME ProgressInv, Preflight
    PROVE  PlannedFromPre' /\ Progress' /\ Finished'
<1>1. CASE Escape
  BY <1>1, ProgressOutside DEF Escape
<1>2. CASE ~Escape
  <2>1. /\ pc = "preflight" /\ pc' = "loop" /\ cur' = 1
        /\ UNCHANGED <<disk, backup, mstate, staged, mode, plan, acc, pre>>
    BY <1>2 DEF Preflight
  <2>2. /\ disk = pre.disk /\ backup = pre.backup /\ mstate = pre.mstate
        /\ \A o \in Out : acc[o] = NoRecord
    BY <2>1, Files DEF ProgressInv, CompInv, StartsFromPre, Progress
  <2>3. \A o \in Out : Waiting(o)'
    BY <2>1, <2>2 DEF Waiting
  <2>4. \A o \in Out : ~(o < 1)
    BY Numbers
  <2>5. PlannedFromPre'
    BY <2>1, PlanIsKept DEF ProgressInv, Begun
  <2> QED BY <2>1, <2>2, <2>3, <2>4, <2>5 DEF Progress, Finished
<1> QED BY <1>1, <1>2

LEMMA ProgressLoopNext ==
    ASSUME ProgressInv, LoopNext
    PROVE  PlannedFromPre' /\ Progress' /\ Finished'
<1>1. /\ pc = "loop" /\ cur \notin Manifest
      /\ IF cur > N THEN pc' = "state" /\ cur' = cur ELSE pc' = "loop" /\ cur' = cur + 1
      /\ UNCHANGED <<disk, backup, mstate, staged, mode, plan, acc, pre>>
  BY DEF LoopNext
<1>2. \A o \in Out : (Applied(o)' <=> Applied(o)) /\ (Waiting(o)' <=> Waiting(o))
  BY <1>1, UntouchedOutputs
<1>3. /\ \A o \in Out : (o < cur => Applied(o)) /\ (o > cur => Waiting(o))
      /\ cur \in Out => Waiting(cur)
      /\ mstate = pre.mstate /\ cur \in Nat
  BY <1>1, Numbers DEF ProgressInv, Progress, CompInv, TypeInv, TypeOK
<1>4. cur \in Out => Applied(cur)
  BY <1>1, <1>3 DEF Waiting, Applied, Accounted
<1>5. PlannedFromPre'
  BY <1>1, PlanIsKept DEF ProgressInv, Begun
<1>6. CASE cur > N
  BY <1>1, <1>2, <1>3, <1>5, <1>6 DEF Progress, Finished
<1>7. CASE ~(cur > N)
  <2>1. pc' = "loop" /\ cur' = cur + 1
    BY <1>1, <1>7
  <2>2. \A o \in Out : (o < cur' => Applied(o)') /\ (o >= cur' => Waiting(o)')
    BY <1>2, <1>3, <1>4, <2>1, Numbers
  <2>3. /\ \A o \in Out : (o < cur' => Applied(o)') /\ (o > cur' => Waiting(o)')
        /\ cur' \in Out => Waiting(cur)'
    BY <2>1, <2>2, <1>3, Numbers DEF Waiting
  <2> QED BY <1>1, <1>3, <1>5, <2>1, <2>3 DEF Progress, Finished
<1> QED BY <1>6, <1>7

\* The output at cur is recorded once it is done as planned.
LEMMA ProgressAdvance ==
    ASSUME ProgressInv, pc \in {"loop", "confirm"}, cur \in Manifest,
           NEW line, Advance(line), Seen(cur) # Absent,
           disk[cur] = Written(cur), backup[cur] = SavedBackup(cur)
    PROVE  PlannedFromPre' /\ Progress' /\ Finished'
<1>1. /\ acc' = [acc EXCEPT ![cur] = RecordOf(plan[cur], disk[cur], staged[cur])]
      /\ pc' = "loop" /\ cur' = cur + 1
      /\ UNCHANGED <<disk, backup, mstate, staged, mode, plan, pre>>
  BY DEF Advance
<1>2. /\ cur \in Out /\ cur \in Nat /\ acc \in [Out -> Record \union {NoRecord}]
      /\ mstate = pre.mstate
      /\ \A o \in Out : (o < cur => Applied(o)) /\ (o > cur => Waiting(o))
  BY Numbers DEF ProgressInv, Progress, CompInv, TypeInv, TypeOK, Manifest
<1>3. \A o \in Out \ {cur} : (Applied(o)' <=> Applied(o)) /\ (Waiting(o)' <=> Waiting(o))
  BY <1>1, <1>2, UntouchedOutputs
<1>4. acc'[cur] = RecordOf(plan[cur], disk[cur], staged[cur])
  BY <1>1, <1>2
<1>5. ASSUME NEW o \in Out, o = cur PROVE Applied(o)'
  <2>1. Manifest' = Manifest /\ Seen(o)' = Seen(o)
    BY <1>1 DEF Manifest, Seen, StagedBytes
  <2>2. Accounted(o)'
    BY <1>1, <1>4, <1>5, <2>1 DEF Accounted
  <2> QED BY <1>1, <1>5, <2>1, <2>2 DEF Applied, Written, SavedBackup
<1>6. \A o \in Out : (o < cur' => Applied(o)') /\ (o >= cur' => Waiting(o)')
  <2> SUFFICES ASSUME NEW o \in Out
               PROVE  (o < cur' => Applied(o)') /\ (o >= cur' => Waiting(o)')
    OBVIOUS
  <2>1. o \in Nat /\ cur' = cur + 1
    BY <1>1, Numbers
  <2> QED BY <1>2, <1>3, <1>5, <2>1
<1>7. /\ \A o \in Out : (o < cur' => Applied(o)') /\ (o > cur' => Waiting(o)')
      /\ cur' \in Out => Waiting(cur)'
  <2>1. cur' \in Nat
    BY <1>1, <1>2
  <2> QED BY <1>6, <2>1, Numbers DEF Waiting
<1>8. PlannedFromPre'
  BY <1>1, PlanIsKept DEF ProgressInv, Begun
<1> QED BY <1>1, <1>2, <1>7, <1>8 DEF Progress, Finished

LEMMA ProgressNoop ==
    ASSUME ProgressInv, CheckFails \/ Noop
    PROVE  PlannedFromPre' /\ Progress' /\ Finished'
<1>1. CASE Escape
  BY <1>1, ProgressOutside DEF Escape
<1>2. CASE ~Escape
  <2>1. /\ pc = "loop" /\ cur \in Manifest /\ plan[cur].kind = "Noop"
        /\ Seen(cur) # Absent /\ Advance("noop")
    BY <1>2 DEF CheckFails, Noop
  <2>2. cur \in Out /\ Waiting(cur)
    BY <2>1 DEF ProgressInv, Progress, Manifest
  <2>3. disk[cur] = Written(cur)
    BY <2>1, <2>2 DEF Waiting, Written, Effect
  <2>4. backup[cur] = SavedBackup(cur)
    BY <2>1, <2>2 DEF Waiting, SavedBackup, BackupIsTaken, UnmanagedKinds
  <2> QED BY <2>1, <2>3, <2>4, ProgressAdvance
<1> QED BY <1>1, <1>2

LEMMA ProgressStartAction ==
    ASSUME ProgressInv, StartAction
    PROVE  PlannedFromPre' /\ Progress' /\ Finished'
<1>1. CASE Compensate
  BY <1>1, ProgressOutside DEF Compensate
<1>2. CASE ~Compensate
  <2>1. /\ pc = "loop" /\ cur \in Manifest /\ plan[cur].kind # "Noop" /\ pc' = "write"
        /\ backup' = IF BackupIsTaken(plan[cur])
                     THEN [backup EXCEPT ![cur] = Seen(cur)] ELSE backup
        /\ UNCHANGED <<disk, mstate, staged, mode, plan, cur, acc, pre>>
    BY <1>2 DEF StartAction
  <2>2. /\ cur \in Out /\ Waiting(cur) /\ mstate = pre.mstate
        /\ \A o \in Out : (o < cur => Applied(o)) /\ (o > cur => Waiting(o))
    BY <2>1 DEF ProgressInv, Progress, Manifest
  <2>3. backup \in [Out -> Bytes \union {Absent}]
    BY Files DEF ProgressInv, CompInv
  <2>4. Seen(cur) = Read(pre.disk[cur], Raw(staged[cur]))
    BY <2>1, <2>2 DEF Waiting, Seen, StagedBytes, Manifest
  <2>5. backup'[cur] = SavedBackup(cur) /\ SavedBackup(cur)' = SavedBackup(cur)
    BY <2>1, <2>2, <2>3, <2>4 DEF Waiting, SavedBackup
  <2>6. \A o \in Out \ {cur} : (Applied(o)' <=> Applied(o)) /\ (Waiting(o)' <=> Waiting(o))
    BY <2>1, <2>3, UntouchedOutputs
  <2>7. \A o \in Out : (o < cur => o # cur) /\ (o > cur => o # cur)
    BY <2>2, Numbers
  <2>8. PlannedFromPre'
    BY <2>1, PlanIsKept DEF ProgressInv, Begun
  <2>9. disk'[cur] = pre'.disk[cur] /\ acc'[cur] = NoRecord
    BY <2>1, <2>2 DEF Waiting
  <2> QED BY <2>1, <2>2, <2>5, <2>6, <2>7, <2>8, <2>9 DEF Progress, Finished
<1> QED BY <1>1, <1>2

LEMMA ProgressWrite ==
    ASSUME ProgressInv, WriteOutput
    PROVE  PlannedFromPre' /\ Progress' /\ Finished'
<1>1. CASE Compensate
  BY <1>1, ProgressOutside DEF Compensate
<1>2. CASE ~Compensate
  <2>1. /\ pc = "write" /\ pc' = "confirm"
        /\ disk' = [disk EXCEPT ![cur] = Effect(plan[cur], disk[cur], staged[cur])]
        /\ UNCHANGED <<backup, mstate, staged, mode, plan, cur, acc, pre>>
    BY <1>2 DEF WriteOutput
  <2>2. /\ cur \in Out /\ disk[cur] = pre.disk[cur] /\ backup[cur] = SavedBackup(cur)
        /\ plan[cur].kind # "Noop" /\ mstate = pre.mstate
        /\ \A o \in Out : (o < cur => Applied(o)) /\ (o > cur => Waiting(o))
    BY <2>1 DEF ProgressInv, Progress, Manifest, CompInv, TypeInv, AtOutput
  <2>3. disk \in [Out -> Entry]
    BY Files DEF ProgressInv, CompInv
  <2>4. disk'[cur] = Written(cur)' /\ backup'[cur] = SavedBackup(cur)'
    BY <2>1, <2>2, <2>3 DEF Written, SavedBackup
  <2>5. \A o \in Out \ {cur} : (Applied(o)' <=> Applied(o)) /\ (Waiting(o)' <=> Waiting(o))
    BY <2>1, <2>3, UntouchedOutputs
  <2>6. \A o \in Out : (o < cur => o # cur) /\ (o > cur => o # cur)
    BY <2>2, Numbers
  <2>7. PlannedFromPre'
    BY <2>1, PlanIsKept DEF ProgressInv, Begun
  <2> QED BY <2>1, <2>2, <2>4, <2>5, <2>6, <2>7 DEF Progress, Finished
<1> QED BY <1>1, <1>2

LEMMA ProgressConfirm ==
    ASSUME ProgressInv, ConfirmOutput
    PROVE  PlannedFromPre' /\ Progress' /\ Finished'
<1>1. CASE Compensate
  BY <1>1, ProgressOutside DEF Compensate
<1>2. CASE ~Compensate
  BY <1>2, ProgressAdvance
     DEF ConfirmOutput, ProgressInv, Progress, CompInv, TypeInv, AtOutput
<1> QED BY <1>1, <1>2

LEMMA ProgressFinish ==
    ASSUME ProgressInv, WriteState \/ AppendSuccess
    PROVE  PlannedFromPre' /\ Progress' /\ Finished'
<1>1. CASE pc' = "restore" \/ Escape
  BY <1>1, ProgressOutside DEF Escape
<1>2. CASE pc' # "restore" /\ ~Escape /\ WriteState
  <2>1. /\ pc = "state" /\ pc' = "success" /\ mstate' = [mode |-> mode, outs |-> acc]
        /\ UNCHANGED <<disk, backup, staged, mode, plan, cur, acc, pre>>
    BY <1>2 DEF WriteState, Compensate
  <2>2. /\ cur > N
        /\ \A o \in Out : (o < cur => Applied(o)) /\ (o > cur => Waiting(o))
    BY <2>1 DEF ProgressInv, Progress
  <2>3. \A o \in Out : (Applied(o)' <=> Applied(o)) /\ (Waiting(o)' <=> Waiting(o))
    BY <2>1, UntouchedOutputs
  <2>4. PlannedFromPre'
    BY <2>1, PlanIsKept DEF ProgressInv, Begun
  <2> QED BY <2>1, <2>2, <2>3, <2>4 DEF Progress, Finished
<1>3. CASE pc' # "restore" /\ AppendSuccess
  <2>1. /\ pc = "success" /\ pc' = "done"
        /\ UNCHANGED <<disk, backup, mstate, staged, mode, plan, cur, acc, pre>>
    BY <1>3 DEF AppendSuccess
  <2>2. /\ cur > N /\ cur \in Nat
        /\ \A o \in Out : o < cur => Applied(o)
        /\ mstate = [mode |-> mode, outs |-> acc]
    BY <2>1, Numbers DEF ProgressInv, Progress, CompInv, TypeInv, TypeOK
  <2>3. \A o \in Out : Accounted(o)
    BY <2>2, Numbers DEF Applied
  <2>4. \A o \in Out : Accounted(o)'
    BY <2>1, <2>3 DEF Accounted, Seen, StagedBytes, Manifest
  <2> QED BY <2>1, <2>2, <2>4 DEF Progress, Finished, PlannedFromPre, Begun
<1> QED BY <1>1, <1>2, <1>3

LEMMA ProgressStep ==
    ASSUME ~Concurrent PROVE ProgressInv /\ [Next]_vars => ProgressInv'
<1> SUFFICES ASSUME ProgressInv, [Next]_vars PROVE ProgressInv'
  OBVIOUS
<1>1. CompInv'
  BY CompStep DEF ProgressInv
<1>2. CASE Compile \/ \E o \in Out : UserEdit(o)
  BY <1>1, <1>2, ProgressOutside DEF Compile, UserEdit, ProgressInv
<1>3. CASE RestoreStep \/ RestoreDone
  BY <1>1, <1>3, ProgressOutside DEF RestoreStep, RestoreDone, ProgressInv
<1>4. CASE Return \/ Crash
  BY <1>1, <1>4, ProgressOutside DEF Return, Crash, ResetRun, ProgressInv
<1>5. CASE UNCHANGED vars
  <2>1. \A o \in Out : /\ Applied(o)' <=> Applied(o)
                       /\ Waiting(o)' <=> Waiting(o)
    BY <1>5, UntouchedOutputs DEF vars
  <2>2. \A o \in Out : Accounted(o)' <=> Accounted(o)
    BY <1>5 DEF vars, Accounted, Seen, StagedBytes, Manifest
  <2>3. PlannedFromPre'
    BY <1>5 DEF vars, ProgressInv, PlannedFromPre, Begun, Manifest
  <2>4. Progress' /\ Finished'
    BY <1>5, <2>1, <2>2
       DEF vars, ProgressInv, Progress, Finished, Waiting, Written, SavedBackup
  <2> QED BY <1>1, <2>3, <2>4 DEF ProgressInv
<1> QED BY <1>1, <1>2, <1>3, <1>4, <1>5, ProgressStart, ProgressPreflight,
           ProgressLoopNext, ProgressNoop, ProgressStartAction, ProgressWrite,
           ProgressConfirm, ProgressFinish DEF Next, ApplyNext, ProgressInv

LEMMA ProgressInit == Init => ProgressInv
BY CompInit DEF Init, ProgressInv, PlannedFromPre, Progress, Finished, Begun

\* Once an apply has succeeded, the managed state has a record of each output of
\* the manifest with the bytes that are at its destination (managed_output_state),
\* however many outputs there are and whatever could fail on the way.
THEOREM SuccessIsRecorded ==
    ASSUME ~Concurrent PROVE Spec => []SuccessRecordsDisk
<1>1. ProgressInv => SuccessRecordsDisk
  <2> SUFFICES ASSUME ProgressInv, pc = "done", result = "ok", NEW o \in Out
               PROVE  IF o \in Manifest
                      THEN mstate.outs[o] # NoRecord /\ mstate.outs[o].digest = Seen(o)
                      ELSE mstate.outs[o] = NoRecord
    BY DEF SuccessRecordsDisk
  <2>1. mstate.outs = acc /\ Accounted(o) /\ TypeOK
    BY DEF ProgressInv, Finished, CompInv, TypeInv
  <2>2. CASE o \in Manifest
    <3>1. RecordOf(plan[o], disk[o], staged[o]) \in Record
      BY <2>1, <2>2, StagedText, RecordOfType DEF Accounted
    <3>2. RecordOf(plan[o], disk[o], staged[o]).digest = Seen(o)
      BY <2>1, <2>2, StagedText DEF RecordOf
    <3> QED BY <2>1, <2>2, <3>1, <3>2, SentinelAssumption DEF Accounted
  <2> QED BY <2>1, <2>2 DEF Accounted
<1> QED BY <1>1, ProgressInit, ProgressStep, PTL DEF Spec

\* An output whose recorded bytes are on the disk and whose recorded text is the
\* staged one is left alone by another apply in the same mode.
LEMMA RecordedIsNoop ==
    ASSUME NEW o \in Out, NEW m, NEW state, NEW entry, NEW text,
           state.outs[o] # NoRecord, state.mode = m,
           state.outs[o].digest = Read(entry, Raw(text)), state.outs[o].source = text,
           Read(entry, Raw(text)) # Absent
    PROVE  PlanFor(o, m, state, entry, text).kind = "Noop"
<1>1. ManagedPlan(o, m, state, entry, text).kind = "Noop"
  <2> DEFINE bytes == Read(entry, Raw(text))  rec == state.outs[o]
  <2>1. bytes # Absent /\ bytes = rec.digest /\ Reusable(m, state, rec, text)
    BY DEF Reusable
  <2> HIDE DEF bytes
  <2>2. ManagedPlan(o, m, state, entry, text) = Plan("Noop", rec.backup, rec.marker, rec.existed)
    BY <2>1 DEF ManagedPlan, bytes
  <2> QED BY <2>2 DEF Plan
<1>2. RetainedPlan(state, o, entry, text).kind = "Noop"
  BY DEF RetainedPlan, Plan
<1> QED BY <1>1, <1>2 DEF PlanFor

\* An apply converges in one run: a second apply of the same manifest in the same
\* mode has nothing to do (plan_apply_from_staging).
THEOREM AppliesConverge ==
    ASSUME ~Concurrent PROVE Spec => []ApplyConverges
<1>1. ProgressInv => ApplyConverges
  <2> SUFFICES ASSUME ProgressInv, pc = "done", result = "ok", NEW o \in Manifest
               PROVE  PlanOf(mode, o).kind = "Noop"
    BY DEF ApplyConverges
  <2>1. mstate.outs = acc /\ mstate.mode = mode /\ Accounted(o) /\ TypeOK /\ o \in Out
    BY DEF ProgressInv, Finished, CompInv, TypeInv, Manifest
  <2>2. RecordOf(plan[o], disk[o], staged[o]) \in Record
    BY <2>1, StagedText, RecordOfType DEF Accounted
  <2>3. /\ mstate.outs[o] = RecordOf(plan[o], disk[o], staged[o])
        /\ mstate.outs[o] # NoRecord /\ Read(disk[o], Raw(staged[o])) # Absent
    BY <2>1, <2>2, StagedText, SentinelAssumption DEF Accounted
  <2>4. /\ mstate.outs[o].digest = Read(disk[o], Raw(staged[o]))
        /\ mstate.outs[o].source = staged[o]
    BY <2>3 DEF RecordOf
  <2> QED BY <2>1, <2>3, <2>4, RecordedIsNoop DEF PlanOf
<1> QED BY <1>1, ProgressInit, ProgressStep, PTL DEF Spec

-----------------------------------------------------------------------------
(***************************************************************************)
(* The refinement.  The abstract module has copies of the plan's operators;*)
(* they are the same operators.                                            *)
(***************************************************************************)
LEMMA SamePlan ==
    ASSUME NEW o, NEW m, NEW state, NEW entry, NEW text
    PROVE  Atomic!PlanFor(o, m, state, entry, text) = PlanFor(o, m, state, entry, text)
<1> USE DEF Atomic!Read, Read, Atomic!Raw, Raw, Atomic!Plan, Plan,
            Atomic!InstructionMarker, InstructionMarker, Atomic!CreateKind, CreateKind,
            Atomic!MaterializeAsRegularFile, MaterializeAsRegularFile
<1>1. Atomic!RetainedPlan(state, o, entry, text) = RetainedPlan(state, o, entry, text)
  BY DEF Atomic!RetainedPlan, RetainedPlan
<1>2. Atomic!UnmanagedPlan(o, m, entry, text) = UnmanagedPlan(o, m, entry, text)
  BY DEF Atomic!UnmanagedPlan, UnmanagedPlan
<1>3. Atomic!DriftPlan(o, m, state.outs[o]) = DriftPlan(o, m, state.outs[o])
  BY DEF Atomic!DriftPlan, DriftPlan
<1>4. Atomic!ManagedPlan(o, m, state, entry, text) = ManagedPlan(o, m, state, entry, text)
  BY <1>3 DEF Atomic!ManagedPlan, ManagedPlan, Atomic!Reusable, Reusable
<1> QED BY <1>1, <1>2, <1>4 DEF Atomic!PlanFor, PlanFor

LEMMA SameEffect ==
    ASSUME NEW p, NEW entry, NEW text
    PROVE  /\ Atomic!Effect(p, entry, text) = Effect(p, entry, text)
           /\ Atomic!RecordOf(p, entry, text) = RecordOf(p, entry, text)
           /\ Atomic!BackupIsTaken(p) = BackupIsTaken(p)
           /\ Atomic!Read(entry, Atomic!Raw(text)) = Read(entry, Raw(text))
BY DEF Atomic!Effect, Effect, Atomic!Read, Read, Atomic!Raw, Raw, Atomic!MergeJson,
   MergeJson, Atomic!PatchDocument, PatchDocument, Atomic!RecordOf, RecordOf,
   Atomic!BackupIsTaken, BackupIsTaken, Atomic!UnmanagedKinds, UnmanagedKinds

\* What the abstract module sees.
LEMMA StatusIs ==
    /\ pc = "idle" => AtomicStatus = "idle" /\ AtomicProject = Project
    /\ Running => AtomicStatus = "busy" /\ AtomicProject = pre
    /\ pc = "done" /\ result = "ok" => AtomicStatus = "ok"
    /\ pc = "done" /\ result # "ok" => AtomicStatus = "failed"
    /\ pc = "done" => AtomicProject = Project
BY DEF AtomicStatus, AtomicProject, Running

LEMMA StatusWillBe ==
    /\ pc' = "idle" => AtomicStatus' = "idle" /\ AtomicProject' = Project'
    /\ Running' => AtomicStatus' = "busy" /\ AtomicProject' = pre'
    /\ pc' = "done" /\ result' = "ok" => AtomicStatus' = "ok"
    /\ pc' = "done" /\ result' # "ok" => AtomicStatus' = "failed"
    /\ pc' = "done" => AtomicProject' = Project'
BY DEF AtomicStatus, AtomicProject, Running

\* When the success line is due, the project is the outcome of the plan.
LEMMA SuccessIsOutcome ==
    ASSUME ProgressInv, pc = "success" PROVE Project = Atomic!Outcome
<1>1. /\ cur > N /\ cur \in Nat /\ mstate = [mode |-> mode, outs |-> acc]
      /\ \A o \in Out : o < cur => Applied(o)
  BY Numbers DEF ProgressInv, Progress, CompInv, TypeInv, TypeOK
<1>2. \A o \in Out : Applied(o)
  BY <1>1, Numbers
<1>3. AtomicProject = pre
  BY StatusIs DEF Running
<1>4. /\ disk \in [Out -> Entry] /\ backup \in [Out -> Bytes \union {Absent}]
      /\ acc \in [Out -> Record \union {NoRecord}] /\ Atomic!Out = Out
  BY Files DEF ProgressInv, CompInv, TypeInv, TypeOK, Atomic!Out, Out
<1>5. ASSUME NEW o \in Out
      PROVE  /\ o \in Manifest <=> staged[o] # Absent
             /\ o \in Manifest => Atomic!PlannedFor(o) = plan[o]
  BY <1>3, SamePlan DEF Manifest, Atomic!PlannedFor, ProgressInv, PlannedFromPre, Begun
<1> DEFINE entry(o) == IF staged[o] = Absent THEN pre.disk[o]
                       ELSE Effect(Atomic!PlannedFor(o), pre.disk[o], staged[o])
           Saved(o) == staged[o] # Absent /\ BackupIsTaken(Atomic!PlannedFor(o))
           saved(o) == IF Saved(o) THEN Read(pre.disk[o], Raw(staged[o])) ELSE pre.backup[o]
           rec(o)   == IF staged[o] = Absent THEN NoRecord
                       ELSE RecordOf(Atomic!PlannedFor(o), entry(o), staged[o])
<1>6. Atomic!Outcome = [disk |-> [o \in Out |-> entry(o)], backup |-> [o \in Out |-> saved(o)],
                        mstate |-> [mode |-> mode, outs |-> [o \in Out |-> rec(o)]]]
  BY <1>3, <1>4, SameEffect DEF Atomic!Outcome
<1>7. ASSUME NEW o \in Out PROVE disk[o] = entry(o) /\ backup[o] = saved(o)
  BY <1>2, <1>5 DEF Applied, Written, SavedBackup
<1>8. ASSUME NEW o \in Out PROVE acc[o] = rec(o)
  BY <1>2, <1>5, <1>7 DEF Applied, Accounted
<1> HIDE DEF entry, saved, rec
<1>9. disk = [o \in Out |-> entry(o)] /\ backup = [o \in Out |-> saved(o)]
      /\ acc = [o \in Out |-> rec(o)]
  BY <1>4, <1>7, <1>8
<1> QED BY <1>1, <1>6, <1>9 DEF Project

-----------------------------------------------------------------------------
(* The errors that leave an apply without compensation.                    *)
Compensated == Faults \intersect {"check", "noop", "statedir", "restore", "crash"} = {}

\* A planned no-op saw a file when the plan was made.
LEMMA NoopSawFile ==
    ASSUME NEW o \in Out, NEW m \in AllModes, NEW state \in StateFile,
           NEW entry, NEW text \in GenText,
           PlanFor(o, m, state, entry, text) # Conflict,
           PlanFor(o, m, state, entry, text).kind = "Noop"
    PROVE  Read(entry, Raw(text)) # Absent
<1>1. SUFFICES ASSUME Read(entry, Raw(text)) = Absent PROVE FALSE
  OBVIOUS
<1>2. CASE Kind[o] = "retained"
  BY <1>1, <1>2 DEF PlanFor, RetainedPlan
<1>3. CASE Kind[o] # "retained"
  <2>1. CreateKind(o, m) # "Noop"
    BY DEF CreateKind
  <2>2. ASSUME state.outs[o] # NoRecord
        PROVE  ManagedPlan(o, m, state, entry, text).kind # "Noop"
    <3>1. state.outs[o].digest # Absent
      BY <2>2, SentinelAssumption DEF StateFile, Record
    <3>2. ManagedPlan(o, m, state, entry, text)
            = Plan(CreateKind(o, m), state.outs[o].backup, FALSE, FALSE)
      BY <1>1, <3>1 DEF ManagedPlan
    <3> QED BY <2>1, <3>2 DEF Plan
  <2>3. UnmanagedPlan(o, m, entry, text).kind # "Noop"
    <3>1. Raw(text) # Absent
      BY SentinelAssumption DEF Raw, Bytes, Text
    <3>2. UnmanagedPlan(o, m, entry, text) = Plan(CreateKind(o, m), FALSE, FALSE, FALSE)
      BY <1>1, <3>1 DEF UnmanagedPlan
    <3> QED BY <2>1, <3>2 DEF Plan
  <2> QED BY <1>3, <2>2, <2>3 DEF PlanFor
<1> QED BY <1>2, <1>3

RefineInv == ProgressInv /\ ~failed

LEMMA RefineStep ==
    ASSUME ~Concurrent, Compensated PROVE RefineInv /\ [Next]_vars => RefineInv'
<1> SUFFICES ASSUME RefineInv, [Next]_vars PROVE RefineInv'
  OBVIOUS
<1>1. ProgressInv'
  BY ProgressStep DEF RefineInv
<1>2. UNCHANGED <<pc, failed>> => RefineInv'
  BY <1>1 DEF RefineInv
<1>3. CASE Compile \/ (\E o \in Out : UserEdit(o)) \/ UNCHANGED vars
  BY <1>2, <1>3 DEF Compile, UserEdit, vars
<1>4. CASE RestoreStep
  BY <1>2, <1>4 DEF RestoreStep, RestoreDisk, RestoreBackup, RestoreState, NotSnapshotted,
     Restored, Compensated
<1>5. ASSUME NEW m \in Modes, Refuse(m) \/ BeginApply(m) PROVE RefineInv'
  BY <1>1, <1>5 DEF Refuse, BeginApply, RefineInv
<1>6. CASE Preflight \/ LoopNext \/ CheckFails \/ Noop \/ StartAction \/ WriteOutput
             \/ ConfirmOutput
  BY <1>1, <1>6 DEF Preflight, LoopNext, CheckFails, Noop, StartAction, WriteOutput,
     ConfirmOutput, Advance, Escape, Compensate, RefineInv
<1>7. CASE WriteState \/ AppendSuccess \/ RestoreDone \/ Return \/ Crash
  BY <1>1, <1>7 DEF WriteState, AppendSuccess, RestoreDone, Return, Crash, ResetRun,
     Compensate, Escape, RefineInv
<1> QED BY <1>3, <1>4, <1>5, <1>6, <1>7 DEF Next, ApplyNext

LEMMA RefineInit ==
    /\ Init => RefineInv
    /\ Init => Atomic!AInit
<1>1. Init => RefineInv
  BY ProgressInit DEF Init, RefineInv
<1>2. Init => Atomic!AInit
  BY StatusIs DEF Init, Atomic!AInit, Project, EmptyState, Atomic!EmptyState, Out, Atomic!Out
<1> QED BY <1>1, <1>2

\* A step that the abstract module does not see.
LEMMA Unseen ==
    ASSUME Running, Running', UNCHANGED <<pre, staged, mode>>
    PROVE  UNCHANGED Atomic!avars
BY StatusIs, StatusWillBe DEF Atomic!avars

\* An apply that fails and has left the project as it was.
LEMMA Aborts ==
    ASSUME Running, pc' = "done", result' # "ok", Project' = pre, UNCHANGED <<staged, mode>>
    PROVE  Atomic!AAbort
BY StatusIs, StatusWillBe DEF Atomic!AAbort

LEMMA ImplEnvironment ==
    ASSUME ~Concurrent, RefineInv, Compile \/ \E o \in Out : UserEdit(o)
    PROVE  [Atomic!ANext]_(Atomic!avars)
<1>1. CASE Compile
  <2>1. /\ pc = "idle" /\ pc' = "idle" /\ Project' = Project /\ mode' = mode
        /\ staged' \in [Out -> GenText \union {Absent}]
    BY <1>1 DEF Compile, Project
  <2> QED BY <2>1, StatusIs, StatusWillBe
          DEF Atomic!ANext, Atomic!ACompile, Atomic!Out, Out
<1>2. ASSUME NEW o \in Out, UserEdit(o) PROVE Atomic!ANext
  <2>1. PICK t \in Text \union {Absent} :
          disk' = [disk EXCEPT ![o] = IF t = Absent THEN Absent ELSE Raw(t)]
    BY <1>2 DEF UserEdit
  <2>2. /\ pc = "idle" /\ pc' = "idle"
        /\ UNCHANGED <<backup, mstate, mode, staged>>
    BY <1>2 DEF UserEdit
  <2> DEFINE e == IF t = Absent THEN Absent ELSE Raw(t)
  <2>3. e \in Atomic!Bytes \union {Absent} /\ o \in Atomic!Out
    BY DEF Raw, Atomic!Bytes, Text, Atomic!Text, Out, Atomic!Out
  <2>4. Project' = [Project EXCEPT !.disk[o] = e]
    BY <2>1, <2>2 DEF Project
  <2> HIDE DEF e
  <2>5. Atomic!AEdit
    BY <2>2, <2>3, <2>4, StatusIs, StatusWillBe DEF Atomic!AEdit
  <2> QED BY <2>5 DEF Atomic!ANext
<1> QED BY <1>1, <1>2

LEMMA ImplStart ==
    ASSUME RefineInv, NEW m \in Modes, Refuse(m) \/ BeginApply(m)
    PROVE  Atomic!ANext
<1>1. /\ pc = "idle" /\ mode' = m /\ UNCHANGED staged /\ Project' = Project
      /\ pre' = Project
      /\ \/ pc' = "done" /\ result' = "conflict"
         \/ pc' = "preflight"
  BY DEF Refuse, BeginApply, Project
<1>2. CASE pc' = "done"
  BY <1>1, <1>2, StatusIs, StatusWillBe DEF Atomic!ANext, Atomic!ARefuse
<1>3. CASE pc' = "preflight"
  BY <1>1, <1>3, StatusIs, StatusWillBe DEF Atomic!ANext, Atomic!AStart, Running
<1> QED BY <1>1, <1>2, <1>3

LEMMA ImplLoop ==
    ASSUME Compensated, RefineInv,
           Preflight \/ LoopNext \/ CheckFails \/ Noop \/ StartAction \/ WriteOutput
             \/ ConfirmOutput \/ WriteState
    PROVE  [Atomic!ANext]_(Atomic!avars)
<1>1. CASE Escape
  <2>1. pc = "preflight"
    <3>1. pc = "loop" /\ cur \in Manifest /\ plan[cur].kind = "Noop" => Seen(cur) # Absent
      <4> SUFFICES ASSUME pc = "loop", cur \in Manifest, plan[cur].kind = "Noop"
                   PROVE  Seen(cur) # Absent
        OBVIOUS
      <4>1. /\ cur \in Out /\ disk[cur] = pre.disk[cur] /\ TypeOK
            /\ plan[cur] = PlanFor(cur, mode, pre.mstate, pre.disk[cur], staged[cur])
        BY DEF RefineInv, ProgressInv, Progress, PlannedFromPre, Begun, Waiting, Manifest,
               CompInv, TypeInv
      <4>2. /\ plan[cur] # Conflict /\ mode \in AllModes /\ pre.mstate \in StateFile
            /\ staged[cur] \in GenText /\ Seen(cur) = Read(disk[cur], Raw(staged[cur]))
        BY <4>1, StagedText, SentinelAssumption, ConstantsAssumption
           DEF RefineInv, ProgressInv, PlannedFromPre, Begun, TypeOK, ProjectType
      <4> QED BY <4>1, <4>2, NoopSawFile
    <3> QED BY <1>1, <3>1 DEF Preflight, CheckFails, Noop, LoopNext, StartAction, WriteOutput,
               ConfirmOutput, WriteState, Escape, Compensate, Advance, Compensated
  <2>2. Project = pre
    BY <2>1 DEF RefineInv, ProgressInv, CompInv, StartsFromPre
  <2>3. /\ pc' = "done" /\ result' # "ok" /\ Project' = Project
        /\ UNCHANGED <<staged, mode>>
    BY <1>1 DEF Escape, Project
  <2>4. Atomic!AAbort
    BY <2>1, <2>2, <2>3, Aborts DEF Running
  <2> QED BY <2>4 DEF Atomic!ANext
<1>2. CASE ~Escape
  <2>1. Running /\ Running' /\ UNCHANGED <<pre, staged, mode>>
    BY <1>2 DEF Running, Preflight, LoopNext, CheckFails, Noop, StartAction, WriteOutput,
       ConfirmOutput, WriteState, Compensate, Advance
  <2> QED BY <2>1, Unseen
<1> QED BY <1>1, <1>2

LEMMA ImplFinish ==
    ASSUME RefineInv, AppendSuccess PROVE [Atomic!ANext]_(Atomic!avars)
<1>1. pc = "success" /\ UNCHANGED <<disk, backup, mstate, staged, mode, pre>>
  BY DEF AppendSuccess
<1>2. CASE pc' = "restore"
  BY <1>1, <1>2, Unseen DEF Running
<1>3. CASE pc' # "restore"
  <2>1. pc' = "done" /\ result' = "ok" /\ Project' = Project
    BY <1>1, <1>3 DEF AppendSuccess, Project
  <2>2. Project = Atomic!Outcome
    BY <1>1, SuccessIsOutcome DEF RefineInv
  <2>3. AtomicProject' = Atomic!Outcome /\ AtomicStatus = "busy" /\ AtomicStatus' = "ok"
    BY <1>1, <2>1, <2>2, StatusIs, StatusWillBe DEF Running
  <2>4. Atomic!ACommit
    BY <1>1, <2>3 DEF Atomic!ACommit
  <2> QED BY <2>4 DEF Atomic!ANext
<1> QED BY <1>2, <1>3

LEMMA ImplRestore ==
    ASSUME ~Concurrent, Compensated, RefineInv, RestoreStep \/ RestoreDone
    PROVE  [Atomic!ANext]_(Atomic!avars)
<1>1. CASE RestoreStep
  <2>1. Running /\ Running' /\ UNCHANGED <<pre, staged, mode>>
    BY <1>1 DEF RestoreStep, Running
  <2> QED BY <2>1, Unseen
<1>2. CASE RestoreDone
  <2>1. /\ pc = "restore" /\ pc' = "done" /\ result' = "failure_compensated"
        /\ UNCHANGED <<staged, mode, pre>>
    BY <1>2 DEF RestoreDone, RefineInv
  <2>2. CompensationExact'
    BY <1>2, CompEnd DEF RefineInv, ProgressInv, CompInv
  <2>3. Project' = pre
    BY <2>1, <2>2 DEF CompensationExact
  <2>4. Atomic!AAbort
    BY <2>1, <2>3, Aborts DEF Running
  <2> QED BY <2>4 DEF Atomic!ANext
<1> QED BY <1>1, <1>2

LEMMA ImplEnd ==
    ASSUME Compensated, RefineInv, Return \/ Crash
    PROVE  Atomic!ANext
<1>1. /\ pc = "done" /\ pc' = "idle" /\ mode' = "none" /\ staged' = staged
      /\ Project' = Project
  BY DEF Return, Crash, ResetRun, Compensated, files, Project
<1>2. AtomicStatus \in {"ok", "failed"} /\ AtomicProject = Project
  BY <1>1, StatusIs
<1>3. AtomicStatus' = "idle" /\ AtomicProject' = Project
  BY <1>1, StatusWillBe
<1> QED BY <1>1, <1>2, <1>3 DEF Atomic!ANext, Atomic!AReturn

\* A target's apply is atomic: its project changes in one step to the outcome of
\* the plan, for all outputs at once, or it does not change (apply_manifest_bound).
\* That needs compensation to be reached and to work: no error of the steps that
\* return without it, no restore that fails and no death.
THEOREM ApplyIsAtomic ==
    ASSUME ~Concurrent, Compensated PROVE Spec => ImplementsAtomicApply
<1>1. Init => Atomic!AInit /\ RefineInv
  BY RefineInit
<1>2. RefineInv /\ [Next]_vars => RefineInv'
  BY RefineStep
<1>3. RefineInv /\ [Next]_vars => [Atomic!ANext]_(Atomic!avars)
  <2> SUFFICES ASSUME RefineInv, [Next]_vars PROVE [Atomic!ANext]_(Atomic!avars)
    OBVIOUS
  <2>1. CASE UNCHANGED vars
    BY <2>1 DEF vars, Atomic!avars, AtomicProject, AtomicStatus, Running, Project
  <2> QED BY <2>1, ImplEnvironment, ImplStart, ImplLoop, ImplFinish, ImplRestore, ImplEnd
          DEF Next, ApplyNext
<1> QED BY <1>1, <1>2, <1>3, PTL DEF Spec, ImplementsAtomicApply, Atomic!ASpec

-----------------------------------------------------------------------------
(***************************************************************************)
(* Backups.  A record says that there is a backup only if the apply takes  *)
(* one or the record it replaces said so.                                  *)
(***************************************************************************)
LEMMA PlannedBackup ==
    ASSUME NEW o \in Out, NEW m \in AllModes, NEW state \in StateFile,
           NEW entry, NEW text,
           PlanFor(o, m, state, entry, text) # Conflict,
           PlanFor(o, m, state, entry, text).backup
    PROVE  \/ BackupIsTaken(PlanFor(o, m, state, entry, text))
           \/ state.outs[o] # NoRecord /\ state.outs[o].backup
<1> DEFINE rec == state.outs[o]
<1> SUFFICES ASSUME ~(rec # NoRecord /\ rec.backup)
             PROVE  BackupIsTaken(PlanFor(o, m, state, entry, text))
  OBVIOUS
<1>0. rec # NoRecord => rec \in Record /\ rec.backup = FALSE
  BY DEF StateFile, Record
<1> HIDE DEF rec
<1>1. CASE Kind[o] = "retained"
  BY <1>0, <1>1 DEF PlanFor, RetainedPlan, Plan, rec
<1>2. CASE Kind[o] # "retained" /\ rec # NoRecord
  <2>1. ASSUME NEW k, NEW i, NEW e, PlanFor(o, m, state, entry, text) = Plan(k, FALSE, i, e)
        PROVE  FALSE
    BY <2>1 DEF Plan
  <2>2. PlanFor(o, m, state, entry, text) = ManagedPlan(o, m, state, entry, text)
    BY <1>2 DEF PlanFor, rec
  <2>3. \/ ManagedPlan(o, m, state, entry, text) = DriftPlan(o, m, rec)
        \/ \E k, i, e : ManagedPlan(o, m, state, entry, text) = Plan(k, FALSE, i, e)
    <3> DEFINE bytes == Read(entry, Raw(text))
               P == ManagedPlan(o, m, state, entry, text)
    <3> HIDE DEF bytes
    <3>1. CASE bytes = Absent
      <4>1. P = Plan(CreateKind(o, m), FALSE, FALSE, FALSE)
        BY <1>0, <1>2, <3>1, SentinelAssumption DEF ManagedPlan, rec, bytes, Record
      <4> QED BY <4>1
    <3>2. CASE bytes # Absent /\ bytes # rec.digest
      BY <1>0, <1>2, <3>2 DEF ManagedPlan, rec, bytes
    <3>3. CASE bytes # Absent /\ bytes = rec.digest /\ Reusable(m, state, rec, text)
      <4>1. P = Plan("Noop", FALSE, rec.marker, rec.existed)
        BY <1>0, <1>2, <3>3 DEF ManagedPlan, rec, bytes
      <4> QED BY <4>1
    <3>4. CASE bytes # Absent /\ bytes = rec.digest /\ ~Reusable(m, state, rec, text)
      <4>1. \E k : P = Plan(k, FALSE, InstructionMarker(o, rec), rec.existed)
        BY <1>0, <1>2, <3>4 DEF ManagedPlan, rec, bytes
      <4> QED BY <4>1
    <3> QED BY <3>1, <3>2, <3>3, <3>4
  <2>4. \/ DriftPlan(o, m, rec) = Plan("TakeoverUnmanaged", TRUE, FALSE, TRUE)
        \/ \E k, i, e : DriftPlan(o, m, rec) = Plan(k, FALSE, i, e)
    <3>1. CASE m = "takeover"
      BY <3>1 DEF DriftPlan
    <3>2. CASE m = "patch"
      BY <1>0, <1>2, <3>2 DEF DriftPlan
    <3>3. CASE m \in {"copy", "import_stub"}
      BY <1>0, <1>2, <3>3 DEF DriftPlan
    <3>4. CASE m = "symlink"
      BY <3>4 DEF DriftPlan
    <3> QED BY <3>1, <3>2, <3>3, <3>4 DEF AllModes
  <2> QED BY <2>1, <2>2, <2>3, <2>4 DEF Plan, BackupIsTaken, UnmanagedKinds
<1>3. CASE Kind[o] # "retained" /\ rec = NoRecord
  <2>1. PlanFor(o, m, state, entry, text) = UnmanagedPlan(o, m, entry, text)
    BY <1>3 DEF PlanFor, rec
  <2> QED BY <2>1 DEF UnmanagedPlan, Plan, BackupIsTaken, UnmanagedKinds
<1> QED BY <1>1, <1>2, <1>3

HasBackups(state, kept) ==
    \A o \in Out : state.outs[o] # NoRecord /\ state.outs[o].backup => kept[o] # Absent

\* What is planned to be recorded with a backup has one or will get one.
BackupsPlanned ==
    pc \in {"preflight", "loop", "write", "confirm"} =>
        \A o \in Manifest : plan[o].backup =>
            \/ BackupIsTaken(plan[o])
            \/ mstate.outs[o] # NoRecord /\ mstate.outs[o].backup

BackupsTaken ==
    /\ pc = "preflight" => acc = [o \in Out |-> NoRecord]
    /\ pc \in {"loop", "write", "confirm", "state", "success"} =>
         \A o \in Out : acc[o] # NoRecord /\ acc[o].backup => backup[o] # Absent
    /\ pc \in {"write", "confirm"} /\ BackupIsTaken(plan[cur]) => backup[cur] # Absent

\* The snapshots of the backups, of those that will be restored and the others.
BackupsSnapped ==
    Working =>
        /\ HasBackups(snap.mstate, snap.backup)
        /\ \A o \in Out : ~(o \in Manifest /\ plan[o].backup) => backup[o] = snap.backup[o]

BackupsRestored ==
    pc = "restore" => /\ \A o \in Out : BackupSlot(o) > cur => backup[o] = snap.backup[o]
                      /\ StateSlot > cur => mstate = snap.mstate

BackInv == /\ TypeInv
           /\ pc # "restore" => HasBackups(mstate, backup)
           /\ BackupsPlanned /\ BackupsTaken /\ BackupsSnapped /\ BackupsRestored

\* Where the invariant says only that the recorded backups are there.
LEMMA BackOutside ==
    ASSUME BackInv, TypeInv', pc' \in {"idle", "done"}, pc # "restore",
           UNCHANGED <<backup, mstate>>
    PROVE  BackInv'
BY DEF BackInv, HasBackups, BackupsPlanned, BackupsTaken, BackupsSnapped,
       BackupsRestored, Working

LEMMA BackCompensate ==
    ASSUME BackInv, TypeInv', Working, pc' = "restore", cur' = StateSlot,
           UNCHANGED <<backup, staged, plan, snap>>
    PROVE  BackInv'
<1>1. BackupsSnapped'
  BY DEF BackInv, BackupsSnapped, HasBackups, Manifest, Working
<1>2. BackupsRestored'
  BY Numbers DEF BackupsRestored, BackupSlot
<1> QED BY <1>1, <1>2 DEF BackInv, BackupsPlanned, BackupsTaken

LEMMA BackEnvironment ==
    ASSUME BackInv, Compile \/ \E o \in Out : UserEdit(o)
    PROVE  BackInv'
<1>0. TypeInv'
  BY TypeEnvironment DEF BackInv
<1>1. CASE Compile
  BY <1>0, <1>1, BackOutside DEF Compile
<1>2. CASE \E o \in Out : UserEdit(o)
  <2>1. UNCHANGED <<backup, mstate, staged, pc, plan, cur, snap, acc>>
    BY <1>2 DEF UserEdit
  <2> QED BY <1>0, <2>1
          DEF BackInv, HasBackups, BackupsPlanned, BackupsTaken, BackupsSnapped,
              BackupsRestored, Working, Manifest
<1> QED BY <1>1, <1>2

LEMMA BackStart ==
    ASSUME BackInv, NEW m \in Modes, Refuse(m) \/ BeginApply(m)
    PROVE  BackInv'
<1>0. TypeInv'
  BY TypeStart DEF BackInv
<1>1. CASE Refuse(m)
  BY <1>0, <1>1, BackOutside DEF Refuse
<1>2. CASE BeginApply(m)
  <2>1. /\ pc = "idle" /\ pc' = "preflight" /\ plan' = [o \in Out |-> PlanOf(m, o)]
        /\ acc' = [o \in Out |-> NoRecord] /\ ~Refused(m)
        /\ UNCHANGED <<backup, mstate, staged>>
    BY <1>2 DEF BeginApply
  <2>2. BackupsPlanned'
    <3> SUFFICES ASSUME NEW o \in Manifest, PlanOf(m, o).backup
                 PROVE  \/ BackupIsTaken(PlanOf(m, o))
                        \/ mstate.outs[o] # NoRecord /\ mstate.outs[o].backup
      BY <2>1 DEF BackupsPlanned, Manifest
    <3>1. /\ o \in Out /\ m \in AllModes /\ mstate \in StateFile
          /\ PlanOf(m, o) = PlanFor(o, m, mstate, disk[o], staged[o])
          /\ PlanOf(m, o) # Conflict
      BY <2>1, ConstantsAssumption, ProjectParts
         DEF PlanOf, Refused, Manifest, BackInv, TypeInv, TypeOK
    <3> QED BY <3>1, PlannedBackup
  <2> QED BY <1>0, <2>1, <2>2
          DEF BackInv, HasBackups, BackupsTaken, BackupsSnapped, BackupsRestored, Working
<1> QED BY <1>1, <1>2

\* The output at cur is recorded with its backup, which is there.
LEMMA BackAdvance ==
    ASSUME BackInv, TypeInv', pc \in {"loop", "confirm"}, cur \in Manifest,
           pc = "loop" => plan[cur].kind = "Noop",
           NEW line, Advance(line)
    PROVE  BackInv'
<1>1. /\ acc' = [acc EXCEPT ![cur] = RecordOf(plan[cur], disk[cur], staged[cur])]
      /\ pc' = "loop" /\ UNCHANGED <<backup, mstate, staged, plan, snap>>
  BY DEF Advance
<1>2. RecordOf(plan[cur], disk[cur], staged[cur]).backup = plan[cur].backup
  BY DEF RecordOf
<1>3. plan[cur].backup => backup[cur] # Absent
  BY DEF BackInv, BackupsPlanned, BackupsTaken, HasBackups, BackupIsTaken,
         UnmanagedKinds, Manifest
<1>4. acc \in [Out -> Record \union {NoRecord}]
  BY DEF BackInv, TypeInv, TypeOK
<1>5. ASSUME NEW o \in Out, acc'[o] # NoRecord, acc'[o].backup
      PROVE  backup'[o] # Absent
  <2>1. CASE o = cur
    BY <1>1, <1>2, <1>3, <1>4, <1>5, <2>1
  <2>2. CASE o # cur
    BY <1>1, <1>4, <1>5, <2>2 DEF BackInv, BackupsTaken
  <2> QED BY <2>1, <2>2
<1> QED BY <1>1, <1>5
        DEF BackInv, HasBackups, BackupsPlanned, BackupsTaken, BackupsSnapped,
            BackupsRestored, Working, Manifest

LEMMA BackLoop ==
    ASSUME BackInv,
           Preflight \/ LoopNext \/ CheckFails \/ Noop \/ StartAction
             \/ WriteOutput \/ ConfirmOutput
    PROVE  BackInv'
<1>0. TypeInv /\ TypeInv'
  BY TypeLoop DEF BackInv
<1>a. ASSUME Escape, pc \in {"preflight", "loop"} PROVE BackInv'
  BY <1>0, <1>a, BackOutside DEF Escape
<1>b. ASSUME Compensate, Working PROVE BackInv'
  BY <1>0, <1>b, BackCompensate DEF Compensate
<1>1. CASE Preflight /\ ~Escape
  <2>1. /\ pc = "preflight" /\ pc' = "loop" /\ snap' = Project
        /\ UNCHANGED <<backup, mstate, staged, plan, acc>>
    BY <1>1 DEF Preflight
  <2>2. snap'.mstate = mstate /\ snap'.backup = backup
    BY <2>1 DEF Project
  <2>3. \A o \in Out : acc'[o] = NoRecord
    BY <2>1 DEF BackInv, BackupsTaken
  <2> QED BY <1>0, <2>1, <2>2, <2>3
          DEF BackInv, HasBackups, BackupsPlanned, BackupsTaken, BackupsSnapped,
              BackupsRestored, Manifest
<1>2. CASE LoopNext
  <2>1. /\ pc = "loop" /\ pc' \in {"loop", "state"}
        /\ UNCHANGED <<backup, mstate, staged, plan, snap, acc>>
    BY <1>2 DEF LoopNext
  <2> QED BY <1>0, <2>1
          DEF BackInv, HasBackups, BackupsPlanned, BackupsTaken, BackupsSnapped,
              BackupsRestored, Working, Manifest
<1>3. CASE CheckFails
  BY <1>3, <1>a DEF CheckFails
<1>4. CASE Noop
  BY <1>0, <1>4, <1>a, BackAdvance DEF Noop
<1>5. CASE StartAction /\ ~Compensate
  <2>1. /\ pc = "loop" /\ cur \in Manifest /\ pc' = "write"
        /\ BackupIsTaken(plan[cur]) => Seen(cur) # Absent
        /\ backup' = IF BackupIsTaken(plan[cur])
                     THEN [backup EXCEPT ![cur] = Seen(cur)] ELSE backup
        /\ UNCHANGED <<mstate, staged, plan, cur, snap, acc>>
    BY <1>5 DEF StartAction
  <2>2. cur \in Out /\ backup \in [Out -> Bytes \union {Absent}]
    BY <1>0, <2>1, Files DEF Manifest
  <2>3. /\ \A o \in Out : backup[o] # Absent => backup'[o] # Absent
        /\ BackupIsTaken(plan[cur]) => backup'[cur] # Absent
        /\ \A o \in Out : ~(o \in Manifest /\ plan[o].backup) => backup'[o] = backup[o]
    BY <2>1, <2>2 DEF BackupIsTaken
  <2> QED BY <1>0, <2>1, <2>3
          DEF BackInv, HasBackups, BackupsPlanned, BackupsTaken, BackupsSnapped,
              BackupsRestored, Working, Manifest
<1>6. CASE WriteOutput /\ ~Compensate
  <2>1. /\ pc = "write" /\ pc' = "confirm"
        /\ UNCHANGED <<backup, mstate, staged, plan, cur, snap, acc>>
    BY <1>6 DEF WriteOutput
  <2> QED BY <1>0, <2>1
          DEF BackInv, HasBackups, BackupsPlanned, BackupsTaken, BackupsSnapped,
              BackupsRestored, Working, Manifest
<1>7. CASE ConfirmOutput
  BY <1>0, <1>7, <1>b, BackAdvance DEF ConfirmOutput, Working, TypeInv, AtOutput
<1> QED BY <1>1, <1>2, <1>3, <1>4, <1>5, <1>6, <1>7, <1>a, <1>b
        DEF Preflight, StartAction, WriteOutput, Working

LEMMA BackFinish ==
    ASSUME BackInv, WriteState \/ AppendSuccess
    PROVE  BackInv'
<1>0. TypeInv'
  BY TypeFinish DEF BackInv
<1>1. CASE WriteState /\ ~Compensate /\ ~Escape
  <2>1. /\ pc = "state" /\ pc' = "success" /\ mstate' = [mode |-> mode, outs |-> acc]
        /\ UNCHANGED <<backup, staged, plan, snap, acc>>
    BY <1>1 DEF WriteState
  <2>2. HasBackups(mstate', backup')
    BY <2>1 DEF BackInv, BackupsTaken, HasBackups
  <2> QED BY <1>0, <2>1, <2>2
          DEF BackInv, HasBackups, BackupsPlanned, BackupsTaken, BackupsSnapped,
              BackupsRestored, Working, Manifest
<1>2. CASE WriteState /\ Compensate
  BY <1>0, <1>2, BackCompensate DEF WriteState, Compensate, Working
<1>3. CASE AppendSuccess
  <2>1. /\ pc = "success" /\ UNCHANGED <<backup, mstate, staged, plan, snap>>
        /\ pc' = "done" \/ (pc' = "restore" /\ cur' = StateSlot)
    BY <1>3 DEF AppendSuccess
  <2> QED BY <1>0, <2>1, BackOutside, BackCompensate DEF Working
<1>4. CASE WriteState /\ Escape
  BY <1>0, <1>4, BackOutside DEF WriteState, Escape
<1> QED BY <1>1, <1>2, <1>3, <1>4

LEMMA BackRestore ==
    ASSUME "restore" \notin Faults, BackInv, RestoreStep
    PROVE  BackInv'
<1>0. TypeInv /\ TypeInv'
  BY TypeRestore DEF BackInv
<1>1. /\ pc = "restore" /\ pc' = "restore" /\ cur \in Nat /\ cur' = cur - 1
      /\ UNCHANGED <<staged, plan, snap>>
  BY <1>0, Numbers DEF RestoreStep, TypeInv, TypeOK
<1>2. /\ \A o \in Out : ~(o \in Manifest /\ plan[o].backup) => backup[o] = snap.backup[o]
      /\ \A o \in Out : BackupSlot(o) > cur => backup[o] = snap.backup[o]
      /\ StateSlot > cur => mstate = snap.mstate
      /\ HasBackups(snap.mstate, snap.backup)
  BY <1>1 DEF BackInv, BackupsSnapped, BackupsRestored, Working
<1>3. \A o \in Out : o \in Nat /\ BackupSlot(o) = 2 * o /\ DiskSlot(o) = 2 * o - 1
                     /\ 1 <= o /\ o <= N
  BY Numbers DEF BackupSlot, DiskSlot
<1>4. /\ \A o \in Out : backup'[o] \in {backup[o], snap.backup[o]}
      /\ \A o \in Out : BackupSlot(o) = cur => backup'[o] = snap.backup[o]
      /\ mstate' \in {mstate, snap.mstate}
      /\ StateSlot = cur => mstate' = snap.mstate
  <2>1. ASSUME NEW u \in Out, RestoreDisk(u)
        PROVE  UNCHANGED <<backup, mstate>> /\ cur = DiskSlot(u)
    BY <2>1 DEF RestoreDisk
  <2>2. ASSUME NEW u \in Out, RestoreBackup(u)
        PROVE  /\ backup' = [backup EXCEPT ![u] = snap.backup[u]] /\ mstate' = mstate
               /\ cur = BackupSlot(u)
    BY <2>2 DEF RestoreBackup, Restored
  <2>3. ASSUME RestoreState
        PROVE  mstate' = snap.mstate /\ backup' = backup /\ cur = StateSlot
    BY <2>3 DEF RestoreState, Restored
  <2>4. ASSUME NotSnapshotted
        PROVE  /\ UNCHANGED <<backup, mstate>>
               /\ \E u \in Out : \/ cur = DiskSlot(u)
                                 \/ cur = BackupSlot(u) /\ ~(u \in Manifest /\ plan[u].backup)
    BY <2>4 DEF NotSnapshotted
  <2>5. backup \in [Out -> Bytes \union {Absent}]
    BY <1>0, Files
  <2>6. CASE \E u \in Out : RestoreDisk(u)
    BY <1>1, <1>3, <2>1, <2>6, Numbers
  <2>7. CASE \E u \in Out : RestoreBackup(u)
    BY <1>1, <1>3, <2>2, <2>5, <2>7, Numbers
  <2>8. CASE RestoreState
    BY <1>1, <1>3, <2>3, <2>8, Numbers
  <2>9. CASE NotSnapshotted
    BY <1>1, <1>2, <1>3, <2>4, <2>9, Numbers
  <2> QED BY <2>6, <2>7, <2>8, <2>9 DEF RestoreStep
<1>5. BackupsSnapped'
  BY <1>1, <1>2, <1>4 DEF BackupsSnapped, HasBackups, Working, Manifest
<1>6. BackupsRestored'
  <2>1. \A o \in Out : BackupSlot(o) > cur - 1 => backup'[o] = snap.backup[o]
    BY <1>1, <1>2, <1>3, <1>4
  <2>2. StateSlot > cur - 1 => mstate' = snap.mstate
    BY <1>1, <1>2, <1>4, Numbers
  <2>3. \A o \in Out : BackupSlot(o)' = BackupSlot(o)
    BY DEF BackupSlot
  <2> QED BY <1>1, <2>1, <2>2, <2>3 DEF BackupsRestored
<1> QED BY <1>0, <1>1, <1>5, <1>6 DEF BackInv, BackupsPlanned, BackupsTaken

LEMMA BackEnd ==
    ASSUME "crash" \notin Faults, BackInv, RestoreDone \/ Return \/ Crash
    PROVE  BackInv'
<1>0. TypeInv /\ TypeInv'
  BY TypeRestore, TypeEnd DEF BackInv
<1>1. CASE RestoreDone
  <2>1. pc = "restore" /\ cur = 0 /\ pc' = "done" /\ UNCHANGED <<backup, mstate>>
    BY <1>1 DEF RestoreDone
  <2>2. \A o \in Out : BackupSlot(o) > 0
    BY Numbers DEF BackupSlot
  <2>3. /\ \A o \in Out : backup[o] = snap.backup[o]
        /\ mstate = snap.mstate /\ HasBackups(snap.mstate, snap.backup)
    BY <2>1, <2>2, Numbers DEF BackInv, BackupsSnapped, BackupsRestored, Working
  <2> QED BY <1>0, <2>1, <2>3
          DEF BackInv, HasBackups, BackupsPlanned, BackupsTaken, BackupsSnapped,
              BackupsRestored, Working
<1>2. CASE Return
  BY <1>0, <1>2, BackOutside DEF Return, ResetRun, files
<1>3. CASE Crash
  BY <1>3 DEF Crash
<1> QED BY <1>1, <1>2, <1>3

LEMMA BackInit == Init => BackInv
<1> SUFFICES ASSUME Init PROVE BackInv
  OBVIOUS
<1>1. pc = "idle" /\ \A o \in Out : mstate.outs[o] = NoRecord
  BY DEF Init, EmptyState
<1> QED BY <1>1, TypeInit
        DEF BackInv, HasBackups, BackupsPlanned, BackupsTaken, BackupsSnapped,
            BackupsRestored, Working

\* Whenever no apply runs, each backup the managed state points at is there to be
\* read back (apply_manifest_bound, capture_apply_snapshots): also when the user
\* edits while the apply runs, as long as no restore fails and no process dies.
THEOREM BackupsAreThere ==
    ASSUME Faults \intersect {"restore", "crash"} = {}
    PROVE  Spec => []RecordedBackupExists
<1>1. BackInv /\ [Next]_vars => BackInv'
  <2> SUFFICES ASSUME BackInv, [Next]_vars PROVE BackInv'
    OBVIOUS
  <2>1. CASE UNCHANGED vars
    BY <2>1, TypeStep
       DEF vars, BackInv, HasBackups, BackupsPlanned, BackupsTaken, BackupsSnapped,
           BackupsRestored, Working, Manifest
  <2> QED BY <2>1, BackEnvironment, BackStart, BackLoop, BackFinish, BackRestore,
             BackEnd DEF Next, ApplyNext
<1>2. BackInv => RecordedBackupExists
  BY DEF BackInv, HasBackups, RecordedBackupExists
<1> QED BY <1>1, <1>2, BackInit, PTL DEF Spec

-----------------------------------------------------------------------------
(***************************************************************************)
(* The user's text.  Where metactl has not taken a file over the text is   *)
(* at the destination; where it has, it is in the backup, or still at the  *)
(* destination of a retained command.                                      *)
(***************************************************************************)
Kept(o, project) ==
    owned[o] # NoOwner =>
        IF project.mstate.outs[o] = NoRecord THEN Holds(project.disk[o], owned[o])
        ELSE \/ Holds(project.backup[o], owned[o])
             \/ Kind[o] = "retained" /\ Holds(project.disk[o], owned[o])

\* The outputs that the new managed state forgets have been given up.
GivenUp == pc = "success" =>
    \A o \in Out \ Manifest : pre.mstate.outs[o] # NoRecord => owned[o] = NoOwner

TextInv == /\ RefineInv
           /\ \A o \in Out : Kept(o, AtomicProject)
           /\ GivenUp

LEMMA ManagedKinds ==
    ASSUME NEW o \in Out, NEW m \in AllModes, m # "takeover",
           NEW state, NEW entry, NEW text
    PROVE  ManagedPlan(o, m, state, entry, text).kind \notin UnmanagedKinds
<1> DEFINE rec == state.outs[o]
           bytes == Read(entry, Raw(text))
           P == ManagedPlan(o, m, state, entry, text)
<1> USE DEF UnmanagedKinds
<1>1. DriftPlan(o, m, rec).kind \notin UnmanagedKinds
  <2>1. CASE m = "patch"
    BY <2>1 DEF DriftPlan, Plan
  <2>2. CASE m \in {"copy", "import_stub"}
    BY <2>2 DEF DriftPlan, Plan
  <2>3. CASE m = "symlink"
    BY <2>3 DEF DriftPlan, Plan
  <2> QED BY <2>1, <2>2, <2>3 DEF AllModes
<1> HIDE DEF bytes
<1>2. CASE bytes = Absent /\ bytes = rec.digest /\ Reusable(m, state, rec, text)
  <2>1. \/ P = Plan(CreateKind(o, m), rec.backup, FALSE, FALSE)
        \/ P = Plan("Noop", rec.backup, rec.marker, rec.existed)
    BY <1>2 DEF ManagedPlan, bytes
  <2> QED BY <2>1 DEF Plan, CreateKind
<1>3. CASE bytes = Absent /\ ~(bytes = rec.digest /\ Reusable(m, state, rec, text))
  <2>1. P = Plan(CreateKind(o, m), rec.backup, FALSE, FALSE)
    BY <1>3 DEF ManagedPlan, bytes
  <2> QED BY <2>1 DEF Plan, CreateKind
<1>4. CASE bytes # Absent /\ bytes # rec.digest
  BY <1>1, <1>4 DEF ManagedPlan, bytes
<1>5. CASE bytes # Absent /\ bytes = rec.digest /\ Reusable(m, state, rec, text)
  <2>1. P = Plan("Noop", rec.backup, rec.marker, rec.existed)
    BY <1>5 DEF ManagedPlan, bytes
  <2> QED BY <2>1 DEF Plan
<1>6. CASE bytes # Absent /\ bytes = rec.digest /\ ~Reusable(m, state, rec, text)
  <2>1. \E k \in {"MergeJsonManaged", "PatchManaged", "OverwriteManaged"} :
          P = Plan(k, rec.backup, InstructionMarker(o, rec), rec.existed)
    BY <1>6 DEF ManagedPlan, bytes
  <2> QED BY <2>1 DEF Plan
<1> QED BY <1>2, <1>3, <1>4, <1>5, <1>6

\* What an apply in a mode other than takeover does with a file of the user's: it
\* backs the file up before it replaces it, or leaves a retained command alone, and
\* does not back up the file of a managed output again.
LEMMA TextIsSaved ==
    ASSUME NEW o \in Out, NEW m \in AllModes, m # "takeover", NEW state \in StateFile,
           NEW entry \in Entry, NEW kept, NEW text \in GenText, NEW t \in UserText,
           PlanFor(o, m, state, entry, text) # Conflict,
           IF state.outs[o] = NoRecord THEN Holds(entry, t)
           ELSE Holds(kept, t) \/ (Kind[o] = "retained" /\ Holds(entry, t))
    PROVE  LET p == PlanFor(o, m, state, entry, text)
           IN  \/ Holds(IF BackupIsTaken(p) THEN Read(entry, Raw(text)) ELSE kept, t)
               \/ Kind[o] = "retained" /\ p.kind = "Noop" /\ Holds(entry, t)
<1> DEFINE p == PlanFor(o, m, state, entry, text)
<1>1. CASE Kind[o] = "retained"
  <2>1. p.kind = "Noop"
    BY <1>1 DEF PlanFor, RetainedPlan, Plan
  <2> QED BY <1>1, <2>1 DEF BackupIsTaken, UnmanagedKinds
<1>2. CASE Kind[o] # "retained" /\ state.outs[o] # NoRecord
  <2>1. p.kind \notin UnmanagedKinds
    BY <1>2, ManagedKinds DEF PlanFor
  <2> QED BY <1>2, <2>1 DEF BackupIsTaken
<1>3. CASE Kind[o] # "retained" /\ state.outs[o] = NoRecord
  <2>1. Read(entry, Raw(text)) = entry /\ entry # Absent /\ entry # Raw(text)
    BY <1>3, TextAssumption DEF Holds, Read, Raw
  <2>2. p = UnmanagedPlan(o, m, entry, text)
    BY <1>3 DEF PlanFor
  <2>3. m = "patch" /\ \E k \in UnmanagedKinds : \E i : p = Plan(k, TRUE, i, TRUE)
    BY <2>1, <2>2 DEF UnmanagedPlan, UnmanagedKinds
  <2>4. BackupIsTaken(p)
    BY <2>3 DEF BackupIsTaken, Plan
  <2> QED BY <1>3, <2>1, <2>4
<1> QED BY <1>1, <1>2, <1>3

\* So it is for an output of the manifest under the plan of the running apply.
LEMMA TextIsKept ==
    ASSUME "takeover" \notin Modes, TextInv, Begun, NEW o \in Manifest, owned[o] # NoOwner
    PROVE  \/ Holds(SavedBackup(o), owned[o])
           \/ Kind[o] = "retained" /\ Written(o) = pre.disk[o] /\ Holds(pre.disk[o], owned[o])
<1>1. /\ TypeOK /\ o \in Out /\ staged[o] \in GenText /\ owned[o] \in UserText
      /\ pre.mstate \in StateFile /\ pre.disk[o] \in Entry
  BY StagedText
     DEF TextInv, RefineInv, ProgressInv, CompInv, TypeInv, TypeOK, ProjectType, Manifest
<1>2. /\ mode \in AllModes /\ mode # "takeover" /\ plan[o] # Conflict
      /\ plan[o] = PlanFor(o, mode, pre.mstate, pre.disk[o], staged[o])
  BY <1>1, StagedText, SentinelAssumption, ConstantsAssumption
     DEF TextInv, RefineInv, ProgressInv, PlannedFromPre
<1>3. AtomicProject = pre
  BY StatusIs DEF Begun, Running
<1>4. IF pre.mstate.outs[o] = NoRecord THEN Holds(pre.disk[o], owned[o])
      ELSE \/ Holds(pre.backup[o], owned[o])
           \/ Kind[o] = "retained" /\ Holds(pre.disk[o], owned[o])
  BY <1>1, <1>3 DEF TextInv, Kept
<1>5. \/ Holds(SavedBackup(o), owned[o])
      \/ Kind[o] = "retained" /\ plan[o].kind = "Noop" /\ Holds(pre.disk[o], owned[o])
  <2> DEFINE state == pre.mstate
             entry == pre.disk[o]
             kept == pre.backup[o]
             text == staged[o]
             t == owned[o]
             p == PlanFor(o, mode, state, entry, text)
  <2>1. /\ o \in Out /\ mode \in AllModes /\ mode # "takeover" /\ state \in StateFile
        /\ entry \in Entry /\ text \in GenText /\ t \in UserText
    BY <1>1, <1>2
  <2>2. p # Conflict /\ p = plan[o]
    BY <1>2
  <2>3. IF state.outs[o] = NoRecord THEN Holds(entry, t)
        ELSE Holds(kept, t) \/ (Kind[o] = "retained" /\ Holds(entry, t))
    BY <1>4
  <2> HIDE DEF state, entry, kept, text, t
  <2>4. \/ Holds(IF BackupIsTaken(p) THEN Read(entry, Raw(text)) ELSE kept, t)
        \/ Kind[o] = "retained" /\ p.kind = "Noop" /\ Holds(entry, t)
    BY <2>1, <2>2, <2>3, TextIsSaved
  <2> QED BY <2>2, <2>4 DEF SavedBackup, entry, kept, text, t
<1> QED BY <1>5 DEF Written, Effect

LEMMA TextImplies ==
    ASSUME ~Concurrent, "takeover" \notin Modes, TextInv PROVE UserTextSurvives
<1> SUFFICES ASSUME NEW o \in Out, owned[o] # NoOwner, pc # "restore"
             PROVE  Holds(disk[o], owned[o]) \/ Holds(backup[o], owned[o])
  BY DEF UserTextSurvives
<1>1. Kept(o, AtomicProject) /\ pc \in PCs
  BY DEF TextInv, RefineInv, ProgressInv, CompInv, TypeInv, TypeOK
<1>2. CASE ~Running
  BY <1>1, <1>2 DEF AtomicProject, Kept, Project
<1>3. CASE Running /\ disk[o] = pre.disk[o] /\ backup[o] = pre.backup[o]
  BY <1>1, <1>3 DEF AtomicProject, Kept
<1>4. CASE Begun /\ o \in Manifest /\ disk[o] = Written(o) /\ backup[o] = SavedBackup(o)
  BY <1>4, TextIsKept
<1>5. CASE Begun /\ o \in Manifest /\ disk[o] = pre.disk[o] /\ backup[o] = SavedBackup(o)
  BY <1>5, TextIsKept
<1>6. CASE Running
  <2>1. Begun /\ cur \in Nat /\ o \in Nat
    BY <1>6, Numbers DEF Running, Begun, TextInv, RefineInv, ProgressInv, CompInv, TypeInv, TypeOK
  <2>2. CASE pc = "preflight"
    BY <1>3, <1>6, <2>2, Files
       DEF TextInv, RefineInv, ProgressInv, CompInv, StartsFromPre
  <2>3. ASSUME Applied(o) PROVE Holds(disk[o], owned[o]) \/ Holds(backup[o], owned[o])
    BY <1>3, <1>4, <1>6, <2>1, <2>3 DEF Applied
  <2>4. ASSUME Waiting(o) PROVE Holds(disk[o], owned[o]) \/ Holds(backup[o], owned[o])
    BY <1>3, <1>6, <2>4 DEF Waiting
  <2>5. CASE pc \in {"loop", "write", "confirm", "state", "success"}
    <3>1. (o < cur => Applied(o)) /\ (o > cur => Waiting(o))
      BY <2>5 DEF TextInv, RefineInv, ProgressInv, Progress
    <3>2. CASE o = cur
      <4>1. CASE pc = "loop"
        BY <2>4, <3>2, <4>1 DEF TextInv, RefineInv, ProgressInv, Progress
      <4>2. CASE pc \in {"write", "confirm"}
        <5>1. /\ o \in Manifest
              /\ disk[o] \in {Written(o), pre.disk[o]} /\ backup[o] = SavedBackup(o)
          BY <3>2, <4>2
             DEF TextInv, RefineInv, ProgressInv, Progress, CompInv, TypeInv, AtOutput
        <5> QED BY <1>4, <1>5, <2>1, <5>1
      <4>3. CASE pc \in {"state", "success"}
        BY <2>1, <3>2, <4>3, Numbers DEF TextInv, RefineInv, ProgressInv, Progress
      <4> QED BY <2>5, <4>1, <4>2, <4>3
    <3> QED BY <2>1, <2>3, <2>4, <3>1, <3>2
  <2> QED BY <1>6, <2>2, <2>5 DEF Running
<1> QED BY <1>2, <1>6

\* The apply ends well: what it has taken over is in its backup.
LEMMA TextCommit ==
    ASSUME ~Concurrent, "takeover" \notin Modes, TextInv, AppendSuccess, pc' = "done",
           NEW o \in Out
    PROVE  Kept(o, AtomicProject)'
<1>1. /\ pc = "success" /\ Begun
      /\ UNCHANGED <<disk, backup, mstate, staged, mode, plan, acc, pre, owned>>
  BY DEF AppendSuccess, Begun
<1>2. /\ mstate.outs = acc /\ Applied(o)
  <2>1. cur > N /\ cur \in Nat
    BY <1>1, Numbers
       DEF TextInv, RefineInv, ProgressInv, Progress, CompInv, TypeInv, TypeOK
  <2>2. o < cur
    BY <2>1, Numbers
  <2> QED BY <1>1, <2>2 DEF TextInv, RefineInv, ProgressInv, Progress
<1>3. AtomicProject' = Project' /\ AtomicProject = pre
  BY <1>1, StatusIs, StatusWillBe DEF Running
<1>4. Project' = Project
  BY <1>1 DEF Project
<1> SUFFICES ASSUME owned[o] # NoOwner
             PROVE  IF mstate.outs[o] = NoRecord THEN Holds(disk[o], owned[o])
                    ELSE \/ Holds(backup[o], owned[o])
                         \/ Kind[o] = "retained" /\ Holds(disk[o], owned[o])
  BY <1>1, <1>3, <1>4 DEF Kept, Project
<1>5. CASE o \in Manifest
  <2>1. RecordOf(plan[o], disk[o], staged[o]) \in Record
    BY <1>2, <1>5, StagedText, RecordOfType
       DEF Applied, Accounted, TextInv, RefineInv, ProgressInv, CompInv, TypeInv
  <2>2. mstate.outs[o] # NoRecord
    BY <1>2, <1>5, <2>1, SentinelAssumption DEF Applied, Accounted
  <2> QED BY <1>1, <1>2, <1>5, <2>2, TextIsKept DEF Applied
<1>6. CASE o \notin Manifest
  <2>1. mstate.outs[o] = NoRecord /\ disk[o] = pre.disk[o]
    BY <1>2, <1>6 DEF Applied, Accounted
  <2>2. pre.mstate.outs[o] = NoRecord
    BY <1>1, <1>6 DEF TextInv, GivenUp
  <2> QED BY <1>3, <2>1, <2>2 DEF TextInv, Kept
<1> QED BY <1>5, <1>6

\* The user edits a file.
LEMMA TextEdit ==
    ASSUME ~Concurrent, TextInv, NEW u \in Out, UserEdit(u), NEW o \in Out
    PROVE  Kept(o, AtomicProject)'
<1>1. PICK t \in Text \union {Absent} :
        /\ disk' = [disk EXCEPT ![u] = IF t = Absent THEN Absent ELSE Raw(t)]
        /\ owned' = [owned EXCEPT ![u] = OwnedAfterEdit(u, t)]
  BY DEF UserEdit
<1>2. pc = "idle" /\ pc' = "idle" /\ UNCHANGED <<backup, mstate>>
  BY DEF UserEdit
<1>3. AtomicProject = Project /\ AtomicProject' = Project'
  BY <1>2, StatusIs, StatusWillBe
<1>4. disk \in [Out -> Entry] /\ owned \in [Out -> UserText \union {NoOwner}]
  BY Files DEF TextInv, RefineInv, ProgressInv, CompInv, TypeInv, TypeOK
<1>5. CASE o # u
  <2>1. disk'[o] = disk[o] /\ owned'[o] = owned[o]
    BY <1>1, <1>4, <1>5
  <2> QED BY <1>2, <1>3, <2>1 DEF TextInv, Kept, Project
<1>6. CASE o = u
  <2>1. /\ disk'[o] = IF t = Absent THEN Absent ELSE Raw(t)
        /\ owned'[o] = OwnedAfterEdit(o, t)
    BY <1>1, <1>4, <1>6
  <2>2. ASSUME t \in UserText, t # NoOwner, owned'[o] = t PROVE Holds(disk'[o], owned'[o])
    <3>1. Raw(t) \notin {Absent, Link} /\ t # Absent
      BY <2>2, SentinelAssumption DEF Raw, Bytes, Text, NoOwner
    <3> QED BY <2>1, <2>2, <3>1 DEF Holds, Raw
  <2>3. \/ owned'[o] = owned[o] /\ mstate.outs[o] # NoRecord /\ Holds(backup[o], owned[o])
        \/ owned'[o] = t /\ t \in UserText /\ mstate.outs[o] = NoRecord
        \/ owned'[o] = NoOwner
    BY <2>1 DEF OwnedAfterEdit
  <2> QED BY <1>2, <1>3, <2>2, <2>3 DEF Kept, Project
<1> QED BY <1>5, <1>6

LEMMA TextStep ==
    ASSUME ~Concurrent, Compensated, "takeover" \notin Modes
    PROVE  TextInv /\ [Next]_vars => TextInv'
<1> SUFFICES ASSUME TextInv, [Next]_vars PROVE TextInv'
  OBVIOUS
<1>1. RefineInv /\ RefineInv'
  BY RefineStep DEF TextInv
\* Every other step leaves the project as the abstract module sees it.
<1>2. ASSUME AtomicProject' = AtomicProject,
             \A o \in Out : owned'[o] \in {owned[o], NoOwner},
             GivenUp'
      PROVE  TextInv'
  BY <1>1, <1>2 DEF TextInv, Kept
<1>3. CASE UNCHANGED vars
  <2>1. AtomicProject' = AtomicProject /\ GivenUp'
    BY <1>3 DEF vars, AtomicProject, Running, Project, TextInv, GivenUp, Manifest
  <2> QED BY <1>2, <1>3, <2>1 DEF vars
<1>4. CASE \E u \in Out : UserEdit(u)
  <2>1. GivenUp'
    BY <1>4 DEF UserEdit, GivenUp
  <2> QED BY <1>1, <1>4, <2>1, TextEdit DEF TextInv
<1>5. CASE Compile
  <2>1. pc = "idle" /\ pc' = "idle" /\ Project' = Project /\ owned' = owned
    BY <1>5 DEF Compile, Project
  <2> QED BY <1>2, <2>1, StatusIs, StatusWillBe DEF GivenUp
<1>6. ASSUME NEW m \in Modes, Refuse(m) \/ BeginApply(m) PROVE TextInv'
  <2>1. /\ pc = "idle" /\ pc' \in {"done", "preflight"} /\ Project' = Project
        /\ owned' = owned /\ pre' = Project
    BY <1>6 DEF Refuse, BeginApply, Project
  <2> QED BY <1>2, <2>1, StatusIs, StatusWillBe DEF GivenUp, Running
<1>7. ASSUME Running, Running', pre' = pre, pc' # "success", owned' = owned
      PROVE  TextInv'
  BY <1>2, <1>7, StatusIs, StatusWillBe DEF GivenUp
<1>8. ASSUME [Atomic!ANext]_(Atomic!avars), Running, AtomicStatus' = "failed", owned' = owned,
             pc' = "done"
      PROVE  TextInv'
  <2>1. AtomicStatus = "busy"
    BY <1>8, StatusIs
  <2>2. AtomicProject' = AtomicProject
    BY <1>8, <2>1 DEF Atomic!ANext, Atomic!avars, Atomic!ACompile, Atomic!AEdit,
       Atomic!AStart, Atomic!ARefuse, Atomic!ACommit, Atomic!AAbort, Atomic!AReturn
  <2> QED BY <1>2, <1>8, <2>2 DEF GivenUp
<1>9. CASE Preflight \/ LoopNext \/ CheckFails \/ Noop \/ StartAction \/ WriteOutput
             \/ ConfirmOutput
  <2>1. [Atomic!ANext]_(Atomic!avars)
    BY <1>1, <1>9, ImplLoop
  <2>2. CASE Escape
    <3>1. Running /\ pc' = "done" /\ result' # "ok" /\ owned' = owned
      BY <1>9, <2>2 DEF Running, Escape, Preflight, LoopNext, CheckFails, Noop, StartAction,
         WriteOutput, ConfirmOutput, Advance, Compensate
    <3> QED BY <1>8, <2>1, <3>1, StatusWillBe
  <2>3. CASE ~Escape
    <3>1. Running /\ Running' /\ pc' # "success" /\ UNCHANGED <<pre, owned>>
      BY <1>9, <2>3 DEF Running, Preflight, LoopNext, CheckFails, Noop, StartAction,
         WriteOutput, ConfirmOutput, Advance, Compensate
    <3> QED BY <1>7, <3>1
  <2> QED BY <2>2, <2>3
<1>10. CASE WriteState
  <2>1. CASE Compensate
    BY <1>7, <1>10, <2>1 DEF WriteState, Compensate, Running
  <2>2. CASE ~Compensate
    <3>1. /\ pc = "state" /\ pc' = "success" /\ UNCHANGED <<pre, staged>>
          /\ owned' = [o \in Out |-> IF acc[o] = NoRecord /\ mstate.outs[o] # NoRecord
                                     THEN NoOwner ELSE owned[o]]
      BY <1>10, <2>2 DEF WriteState, Compensated
    <3>2. \A o \in Out : Applied(o) /\ mstate = pre.mstate
      <4>1. /\ cur > N /\ cur \in Nat /\ mstate = pre.mstate
            /\ \A o \in Out : o < cur => Applied(o)
        BY <1>1, <3>1, Numbers
           DEF RefineInv, ProgressInv, Progress, CompInv, TypeInv, TypeOK
      <4> QED BY <4>1, Numbers
    <3>3. GivenUp'
      BY <3>1, <3>2 DEF GivenUp, Applied, Accounted, Manifest
    <3>4. AtomicProject' = AtomicProject
      BY <3>1, StatusIs, StatusWillBe DEF Running
    <3> QED BY <1>2, <3>1, <3>3, <3>4
  <2> QED BY <2>1, <2>2
<1>11. CASE AppendSuccess
  <2>1. CASE pc' = "done"
    BY <1>1, <1>11, <2>1, TextCommit DEF TextInv, GivenUp
  <2>2. CASE pc' # "done"
    BY <1>7, <1>11, <2>2 DEF AppendSuccess, Running
  <2> QED BY <2>1, <2>2
<1>12. CASE RestoreStep
  BY <1>7, <1>12 DEF RestoreStep, Running
<1>13. CASE RestoreDone
  <2>1. [Atomic!ANext]_(Atomic!avars)
    BY <1>1, <1>13, ImplRestore
  <2>2. Running /\ pc' = "done" /\ result' # "ok" /\ owned' = owned
    BY <1>13 DEF RestoreDone, Running
  <2> QED BY <1>8, <2>1, <2>2, StatusWillBe
<1>14. CASE Return \/ Crash
  <2>1. pc = "done" /\ pc' = "idle" /\ Project' = Project /\ owned' = owned
    BY <1>14 DEF Return, Crash, ResetRun, Compensated, files, Project
  <2> QED BY <1>2, <2>1, StatusIs, StatusWillBe DEF GivenUp
<1> QED BY <1>3, <1>4, <1>5, <1>6, <1>9, <1>10, <1>11, <1>12, <1>13, <1>14
        DEF Next, ApplyNext

\* An apply that is not asked to take files over never loses what the user had
\* written (plan_apply_from_staging, the backups of apply_manifest_bound): at every
\* moment the text is at the destination or in its backup, until the output is no
\* longer generated and metactl forgets it.
THEOREM UserTextIsKept ==
    ASSUME ~Concurrent, Compensated, "takeover" \notin Modes
    PROVE  Spec => []UserTextSurvives
<1>1. Init => TextInv
  BY RefineInit DEF Init, TextInv, Kept, GivenUp
<1>2. TextInv /\ [Next]_vars => TextInv'
  BY TextStep
<1>3. TextInv => UserTextSurvives
  BY TextImplies
<1> QED BY <1>1, <1>2, <1>3, PTL DEF Spec

-----------------------------------------------------------------------------
(***************************************************************************)
(* Revert: what the records and backups of a managed file are about.       *)
(***************************************************************************)

\* The modes that keep the backup a record points at, and the kinds apply writes.
KeepsBackups == /\ Modes \subseteq {"patch", "copy", "import_stub"}
                /\ \A o \in Out : Kind[o] # "retained"

-----------------------------------------------------------------------------
(***************************************************************************)
(* The first apply of an output backs up what it replaces, unless that is  *)
(* nothing of the user's; later ones keep to the backup there is.          *)
(***************************************************************************)
LEMMA FirstPlan ==
    ASSUME KeepsBackups, NEW o \in Out, NEW m \in Modes, NEW state, state.outs[o] = NoRecord,
           NEW entry \in Entry, NEW text \in GenText,
           PlanFor(o, m, state, entry, text) # Conflict
    PROVE  LET p == PlanFor(o, m, state, entry, text)
           IN  IF p.backup THEN BackupIsTaken(p) /\ Read(entry, Raw(text)) = entry
                           ELSE entry \in Replaceable
<1> DEFINE p == PlanFor(o, m, state, entry, text)
<1>1. p = UnmanagedPlan(o, m, entry, text) /\ m \in {"patch", "copy", "import_stub"}
  BY DEF KeepsBackups, PlanFor
<1>2. Raw(text) # Absent
  BY SentinelAssumption DEF Raw, Bytes, Text
<1>3. CASE Read(entry, Raw(text)) = Absent
  <2>1. p = Plan(CreateKind(o, m), FALSE, FALSE, FALSE)
    BY <1>1, <1>2, <1>3 DEF UnmanagedPlan
  <2>2. entry = Absent
    BY <1>2, <1>3 DEF Read
  <2> QED BY <2>1, <2>2 DEF Plan, Replaceable
<1>4. CASE Read(entry, Raw(text)) = Raw(text)
  <2>1. p = Plan("OverwriteManaged", FALSE, FALSE, TRUE)
    BY <1>1, <1>2, <1>4 DEF UnmanagedPlan
  <2>2. entry \in {Link, Raw(text)}
    BY <1>4 DEF Read
  <2> QED BY <2>1, <2>2 DEF Plan, Replaceable
<1>5. CASE Read(entry, Raw(text)) \notin {Absent, Raw(text)}
  <2>1. \E k \in UnmanagedKinds : \E i : p = Plan(k, TRUE, i, TRUE)
    BY <1>1, <1>5 DEF UnmanagedPlan, UnmanagedKinds
  <2>2. Read(entry, Raw(text)) = entry
    BY <1>5 DEF Read
  <2> QED BY <2>1, <2>2 DEF Plan, BackupIsTaken
<1> QED BY <1>3, <1>4, <1>5

LEMMA LaterPlan ==
    ASSUME KeepsBackups, NEW o \in Out, NEW m \in Modes, NEW state \in StateFile,
           state.outs[o] # NoRecord, NEW entry, NEW text
    PROVE  /\ PlanFor(o, m, state, entry, text).backup = state.outs[o].backup
           /\ ~BackupIsTaken(PlanFor(o, m, state, entry, text))
<1> DEFINE rec == state.outs[o]
           bytes == Read(entry, Raw(text))
           P == ManagedPlan(o, m, state, entry, text)
<1>1. PlanFor(o, m, state, entry, text) = P
  BY DEF KeepsBackups, PlanFor
<1>2. m \in {"patch", "copy", "import_stub"} /\ m \in AllModes /\ m # "takeover"
  BY DEF KeepsBackups, AllModes
<1>3. P.kind \notin UnmanagedKinds
  BY <1>2, ManagedKinds
<1>4. P.backup = rec.backup
  <2>1. rec.digest # Absent
    BY SentinelAssumption DEF StateFile, Record
  <2>2. DriftPlan(o, m, rec).backup = rec.backup
    <3>1. CASE m = "patch"
      BY <3>1 DEF DriftPlan, Plan
    <3>2. CASE m \in {"copy", "import_stub"}
      BY <3>2 DEF DriftPlan, Plan
    <3> QED BY <1>2, <3>1, <3>2
  <2> HIDE DEF bytes
  <2>3. CASE bytes = Absent
    <3>1. P = Plan(CreateKind(o, m), rec.backup, FALSE, FALSE)
      BY <2>1, <2>3 DEF ManagedPlan, bytes
    <3> QED BY <3>1 DEF Plan
  <2>4. CASE bytes # Absent /\ bytes # rec.digest
    BY <2>2, <2>4 DEF ManagedPlan, bytes
  <2>5. CASE bytes # Absent /\ bytes = rec.digest /\ Reusable(m, state, rec, text)
    <3>1. P = Plan("Noop", rec.backup, rec.marker, rec.existed)
      BY <2>5 DEF ManagedPlan, bytes
    <3> QED BY <3>1 DEF Plan
  <2>6. CASE bytes # Absent /\ bytes = rec.digest /\ ~Reusable(m, state, rec, text)
    <3>1. \E k : P = Plan(k, rec.backup, InstructionMarker(o, rec), rec.existed)
      BY <2>6 DEF ManagedPlan, bytes
    <3> QED BY <3>1 DEF Plan
  <2> QED BY <2>3, <2>4, <2>5, <2>6
<1> QED BY <1>1, <1>3, <1>4 DEF BackupIsTaken

-----------------------------------------------------------------------------
(***************************************************************************)
(* The invariant.                                                          *)
(***************************************************************************)
\* What a managed state says of the backups, the paths astray aside: each is of
\* what was there before metactl, unless it is lost, and where there is none
\* nothing was lost.
Backed(state, kept, from, lost) ==
    \A o \in Out \ lost : state.outs[o] # NoRecord =>
        /\ from[o] # NoOrigin
        /\ IF state.outs[o].backup THEN kept[o] \in {from[o], Absent}
                                   ELSE from[o] \in Replaceable

StrayIsChanged == \A o \in stray : o \in Out /\ origin[o] # NoOrigin

\* Between applies a path without a record is as metactl found it.
Forgotten ==
    ~Running /\ pc # "unbackall" =>
        \A o \in Out \ stray : mstate.outs[o] = NoRecord => origin[o] = NoOrigin

\* In an apply, a path that had no record has the origin the apply found.
Found ==
    Running => \A o \in Out \ stray : pre.mstate.outs[o] = NoRecord =>
                  /\ origin[o] \in {NoOrigin, pre.disk[o]}
                  /\ origin[o] = NoOrigin => disk[o] = pre.disk[o]

\* While compensation may be due, the old managed state and the old backups fit.
Restorable ==
    /\ Running => /\ Backed(pre.mstate, pre.backup, origin, stray)
                  /\ Backed(pre.mstate, backup, origin, stray)
    /\ pc = "restore" =>
         \/ cur = StateSlot /\ Backed(mstate, backup, origin, stray)
         \/ mstate \in {pre.mstate, EmptyState}
    /\ pc = "restore" /\ "success" \notin Faults => mstate \in {pre.mstate, EmptyState}

Undone(o) ==
    \/ o \in stray
    \/ GivenBack(disk[o], origin[o])
    \/ "revert" \in Faults /\ ~mstate.outs[o].backup /\ Seen(o) = mstate.outs[o].digest

\* Revert has undone the outputs before cur; the others are as they were applied.
Undoing ==
    /\ pc \in {"revert", "unback"} =>
         \A o \in Recorded :
            /\ o < cur => Undone(o)
            /\ o > cur \/ (o = cur /\ pc = "revert") => Seen(o) = mstate.outs[o].digest
    /\ pc = "unback" => cur \in Recorded /\ Undone(cur)

OriginInv == /\ ProgressInv
             /\ pc # "restore" => Backed(mstate, backup, origin, stray)
             /\ StrayIsChanged /\ Forgotten /\ Found /\ Restorable /\ Undoing

\* A backup may be lost at any time.
LEMMA BackedLost ==
    ASSUME NEW state, NEW kept, NEW left, NEW from, NEW lost, Backed(state, kept, from, lost),
           \A o \in Out : left[o] \in {kept[o], Absent}
    PROVE  Backed(state, left, from, lost)
BY DEF Backed

LEMMA NothingRecorded ==
    ASSUME NEW kept, NEW from, NEW lost PROVE Backed(EmptyState, kept, from, lost)
BY DEF Backed, EmptyState

\* A step in the middle of a command: origins are only taken, and only of paths
\* that change or get a record.
LEMMA OriginMoves ==
    ASSUME StrayIsChanged, TrackOrigin, pc' \notin {"idle", "done"}
    PROVE  /\ stray' = stray /\ StrayIsChanged'
           /\ \A o \in Out :
                origin'[o] = IF /\ origin[o] = NoOrigin
                                /\ disk'[o] # disk[o] \/ mstate'.outs[o] # NoRecord
                             THEN disk[o] ELSE origin[o]
<1>1. \A o \in Out :
        origin'[o] = IF /\ origin[o] = NoOrigin
                        /\ disk'[o] # disk[o] \/ mstate'.outs[o] # NoRecord
                     THEN disk[o] ELSE origin[o]
  BY DEF TrackOrigin, FirstFound, EndsUnrecorded
<1>2. \A o \in stray : o \in Out /\ origin'[o] # NoOrigin
  BY <1>1 DEF StrayIsChanged
<1>3. stray' = {o \in Out : origin'[o] # NoOrigin /\ o \in stray}
  BY DEF TrackOrigin, EndsUnrecorded
<1>4. stray' = stray
  BY <1>2, <1>3
<1> QED BY <1>1, <1>2, <1>4 DEF StrayIsChanged

\* A command has ended, well or not.
LEMMA OriginAtEnd ==
    ASSUME StrayIsChanged, TrackOrigin, ProgressInv', pc' \in {"idle", "done"},
           Backed(mstate', backup', origin, stray)
    PROVE  OriginInv'
<1>1. \A o \in Out : mstate'.outs[o] # NoRecord => origin'[o] = FirstFound(o)
  BY DEF TrackOrigin, EndsUnrecorded
<1>2. \A o \in Out :
        (o \in stray') <=>
        (origin'[o] # NoOrigin /\ (o \in stray \/ mstate'.outs[o] = NoRecord))
  BY DEF TrackOrigin, EndsUnrecorded
<1>3. ASSUME NEW o \in Out, o \notin stray', mstate'.outs[o] # NoRecord
      PROVE  o \notin stray /\ origin'[o] = origin[o]
  <2>1. CASE origin[o] # NoOrigin
    BY <1>1, <1>2, <1>3, <2>1 DEF FirstFound
  <2>2. CASE o \notin stray
    BY <1>1, <1>3, <2>2 DEF FirstFound, Backed
  <2> QED BY <2>1, <2>2 DEF StrayIsChanged
<1>4. Backed(mstate', backup', origin', stray')
  BY <1>3 DEF Backed
<1>5. Forgotten'
  BY <1>2 DEF Forgotten
<1>6. StrayIsChanged'
  BY DEF StrayIsChanged, TrackOrigin
<1> QED BY <1>4, <1>5, <1>6 DEF OriginInv, Found, Restorable, Undoing, Running

\* The apply works on its outputs, or begins to compensate.
LEMMA OriginAtWork ==
    ASSUME OriginInv, TrackOrigin, ProgressInv',
           pc \in {"preflight", "loop", "write", "confirm", "state"},
           pc' \in {"loop", "write", "confirm", "state", "restore"},
           UNCHANGED <<pre, mstate>>,
           \A o \in Out : pre.mstate.outs[o] # NoRecord => backup'[o] = backup[o]
    PROVE  OriginInv'
<1>1. /\ Running /\ mstate = pre.mstate /\ Backed(pre.mstate, pre.backup, origin, stray)
      /\ Backed(pre.mstate, backup, origin, stray) /\ StrayIsChanged
      /\ \A o \in Out \ stray : mstate.outs[o] = NoRecord =>
            /\ origin[o] \in {NoOrigin, pre.disk[o]}
            /\ origin[o] = NoOrigin => disk[o] = pre.disk[o]
  BY Files DEF OriginInv, Restorable, Found, Running, ProgressInv, Progress, CompInv,
     StartsFromPre
<1>2. stray' = stray /\ StrayIsChanged'
  BY <1>1, OriginMoves
<1>3. \A o \in Out : origin'[o] = IF origin[o] = NoOrigin
                                     /\ (disk'[o] # disk[o] \/ mstate.outs[o] # NoRecord)
                                  THEN disk[o] ELSE origin[o]
  BY <1>1, OriginMoves
<1>4. \A o \in Out \ stray : mstate.outs[o] # NoRecord => origin'[o] = origin[o]
  BY <1>1, <1>3 DEF Backed
<1>5. Backed(mstate', backup', origin', stray') /\ Backed(pre'.mstate, pre'.backup, origin', stray')
  BY <1>1, <1>2, <1>4 DEF Backed
<1>6. Found'
  <2> SUFFICES ASSUME NEW o \in Out \ stray, pre.mstate.outs[o] = NoRecord
               PROVE  /\ origin'[o] \in {NoOrigin, pre.disk[o]}
                      /\ origin'[o] = NoOrigin => disk'[o] = pre.disk[o]
    BY <1>2 DEF Found
  <2>1. disk[o] # NoOrigin
    BY Files, NoOriginAssumption DEF OriginInv, ProgressInv, CompInv
  <2> QED BY <1>1, <1>3, <2>1
<1> QED BY <1>1, <1>2, <1>5, <1>6 DEF OriginInv, Forgotten, Restorable, Undoing, Running

\* An edit gives a path without a record back to the user.
LEMMA OriginEnvironment ==
    ASSUME OriginInv, ProgressInv', ~Concurrent,
           \/ Compile /\ UNCHANGED <<origin, stray>>
           \/ (\E o \in Out : UserEdit(o)) /\ TrackEdit
    PROVE  OriginInv'
<1>1. /\ pc = "idle" /\ pc' = "idle" /\ UNCHANGED <<mstate, backup>>
  BY DEF Compile, UserEdit
<1>2. /\ Backed(mstate, backup, origin, stray) /\ StrayIsChanged
      /\ \A o \in Out \ stray : mstate.outs[o] = NoRecord => origin[o] = NoOrigin
  BY <1>1 DEF OriginInv, Forgotten, Running
<1>3. /\ \A o \in Out : (origin'[o] = origin[o]
                         \/ (origin'[o] = NoOrigin /\ mstate.outs[o] = NoRecord))
      /\ \A o \in Out : o \in stray' <=> o \in stray /\ origin'[o] # NoOrigin
      /\ \A o \in stray' : o \in Out
  <2>1. CASE TrackEdit
    BY <1>2, <2>1 DEF TrackEdit, StrayIsChanged
  <2>2. CASE UNCHANGED <<origin, stray>>
    BY <1>2, <2>2 DEF StrayIsChanged
  <2> QED BY <2>1, <2>2
<1>4. Backed(mstate', backup', origin', stray') /\ StrayIsChanged'
  BY <1>1, <1>2, <1>3 DEF Backed, StrayIsChanged
<1>5. Forgotten'
  BY <1>1, <1>2, <1>3 DEF Forgotten
<1> QED BY <1>1, <1>4, <1>5 DEF OriginInv, Found, Restorable, Undoing, Running

LEMMA OriginStart ==
    ASSUME OriginInv, TrackOrigin, ProgressInv', NEW m \in Modes, Refuse(m) \/ BeginApply(m)
    PROVE  OriginInv'
<1>1. CASE Refuse(m)
  BY <1>1, OriginAtEnd DEF Refuse, OriginInv
<1>2. CASE BeginApply(m)
  <2>1. /\ pc = "idle" /\ pc' = "preflight" /\ pre' = Project
        /\ UNCHANGED <<disk, mstate, backup>>
    BY <1>2 DEF BeginApply
  <2>2. /\ Backed(mstate, backup, origin, stray) /\ StrayIsChanged
        /\ \A o \in Out \ stray : mstate.outs[o] = NoRecord => origin[o] = NoOrigin
    BY <2>1 DEF OriginInv, Forgotten, Running
  <2>3. stray' = stray /\ StrayIsChanged'
    BY <2>1, <2>2, OriginMoves
  <2>4. \A o \in Out : origin'[o] = origin[o]
    <3> SUFFICES ASSUME NEW o \in Out PROVE origin'[o] = origin[o]
      OBVIOUS
    <3>1. origin'[o] = origin[o] \/ (origin[o] = NoOrigin /\ mstate.outs[o] # NoRecord)
      BY <2>1, <2>2, OriginMoves
    <3> QED BY <2>2, <3>1 DEF Backed, StrayIsChanged
  <2>5. pre'.mstate = mstate /\ pre'.backup = backup /\ pre'.disk = disk
    BY <2>1 DEF Project
  <2>6. Backed(mstate', backup', origin', stray') /\ Backed(pre'.mstate, pre'.backup, origin', stray')
    BY <2>1, <2>2, <2>3, <2>4, <2>5 DEF Backed
  <2>7. Forgotten' /\ Found'
    BY <2>1, <2>2, <2>3, <2>4, <2>5 DEF Forgotten, Found, Running
  <2> QED BY <2>1, <2>3, <2>5, <2>6, <2>7 DEF OriginInv, Restorable, Undoing
<1> QED BY <1>1, <1>2

\* The plan of an output of the manifest, in terms of what it replaces.
LEMMA PlanKeeps ==
    ASSUME KeepsBackups, ProgressInv, Begun, NEW o \in Manifest
    PROVE  /\ o \in Out /\ pre.disk[o] \in Entry
           /\ pre.mstate.outs[o] = NoRecord =>
                IF plan[o].backup THEN SavedBackup(o) = pre.disk[o]
                                  ELSE pre.disk[o] \in Replaceable
           /\ pre.mstate.outs[o] # NoRecord =>
                /\ plan[o].backup = pre.mstate.outs[o].backup
                /\ ~BackupIsTaken(plan[o]) /\ SavedBackup(o) = pre.backup[o]
<1>1. /\ TypeOK /\ o \in Out /\ staged[o] \in GenText /\ plan[o] \in PlannedAction
      /\ pre.mstate \in StateFile /\ pre.disk[o] \in Entry
  BY StagedText DEF ProgressInv, CompInv, TypeInv, TypeOK, ProjectType, Manifest
<1>2. /\ mode \in Modes /\ plan[o] # Conflict
      /\ plan[o] = PlanFor(o, mode, pre.mstate, pre.disk[o], staged[o])
  BY <1>1, SentinelAssumption DEF ProgressInv, PlannedFromPre
<1>3. CASE pre.mstate.outs[o] = NoRecord
  BY <1>1, <1>2, <1>3, FirstPlan DEF SavedBackup
<1>4. CASE pre.mstate.outs[o] # NoRecord
  BY <1>1, <1>2, <1>4, LaterPlan DEF SavedBackup
<1> QED BY <1>1, <1>3, <1>4

LEMMA OriginLoop ==
    ASSUME KeepsBackups, OriginInv, TrackOrigin, ProgressInv',
           Preflight \/ LoopNext \/ CheckFails \/ Noop \/ StartAction \/ WriteOutput
             \/ ConfirmOutput
    PROVE  OriginInv'
<1>1. CASE Escape
  <2>1. pc # "restore" /\ pc' = "done" /\ UNCHANGED <<mstate, backup>>
    BY <1>1 DEF Escape, Preflight, LoopNext, CheckFails, Noop, StartAction, WriteOutput,
       ConfirmOutput
  <2> QED BY <2>1, OriginAtEnd DEF OriginInv
<1>2. CASE StartAction /\ ~Compensate
  <2>1. /\ pc = "loop" /\ pc' = "write" /\ cur \in Manifest
        /\ backup' = IF BackupIsTaken(plan[cur])
                     THEN [backup EXCEPT ![cur] = Seen(cur)] ELSE backup
        /\ UNCHANGED <<pre, mstate>>
    BY <1>2 DEF StartAction
  <2>2. backup \in [Out -> Bytes \union {Absent}]
    BY Files DEF OriginInv, ProgressInv, CompInv
  <2>3. ASSUME NEW o \in Out, pre.mstate.outs[o] # NoRecord PROVE backup'[o] = backup[o]
    BY <2>1, <2>2, <2>3, PlanKeeps DEF OriginInv, Begun
  <2> QED BY <2>1, <2>3, OriginAtWork
<1>3. CASE ~Escape /\ (StartAction => Compensate)
  <2>1. /\ pc \in {"preflight", "loop", "write", "confirm", "state"}
        /\ pc' \in {"loop", "write", "confirm", "state", "restore"}
        /\ UNCHANGED <<pre, mstate, backup>>
    BY <1>3 DEF Preflight, LoopNext, CheckFails, Noop, StartAction, WriteOutput,
       ConfirmOutput, Advance, Compensate
  <2> QED BY <2>1, OriginAtWork
<1> QED BY <1>1, <1>2, <1>3

\* The new managed state: its new outputs have the origins that were backed up.
LEMMA OriginRecorded ==
    ASSUME KeepsBackups, OriginInv, TrackOrigin, ProgressInv', WriteState, ~Compensate,
           ~Escape
    PROVE  OriginInv'
<1>1. /\ pc = "state" /\ pc' = "success" /\ mstate' = [mode |-> mode, outs |-> acc]
      /\ UNCHANGED <<disk, backup, pre, plan, acc, staged>>
  BY DEF WriteState
<1>2. /\ Begun /\ Running /\ mstate = pre.mstate /\ StrayIsChanged
      /\ Backed(pre.mstate, pre.backup, origin, stray)
      /\ Backed(pre.mstate, backup, origin, stray)
      /\ \A o \in Out \ stray : pre.mstate.outs[o] = NoRecord =>
            /\ origin[o] \in {NoOrigin, pre.disk[o]}
            /\ origin[o] = NoOrigin => disk[o] = pre.disk[o]
  BY <1>1 DEF OriginInv, Restorable, Found, Running, Begun, ProgressInv, Progress
<1>3. \A o \in Out : Applied(o)
  <2>1. cur > N /\ cur \in Nat /\ \A o \in Out : o < cur => Applied(o)
    BY <1>1, Numbers DEF OriginInv, ProgressInv, Progress, CompInv, TypeInv, TypeOK
  <2> QED BY <2>1, Numbers
<1>4. /\ stray' = stray /\ StrayIsChanged'
      /\ \A o \in Out : origin'[o] = IF origin[o] = NoOrigin /\ acc[o] # NoRecord
                                     THEN disk[o] ELSE origin[o]
  BY <1>1, <1>2, OriginMoves
<1>5. Backed(mstate', backup', origin', stray')
  <2> SUFFICES ASSUME NEW o \in Out \ stray, acc[o] # NoRecord
               PROVE  /\ origin'[o] # NoOrigin
                      /\ IF acc[o].backup THEN backup[o] \in {origin'[o], Absent}
                                          ELSE origin'[o] \in Replaceable
    BY <1>1, <1>4 DEF Backed
  <2>1. o \in Manifest /\ acc[o].backup = plan[o].backup /\ backup[o] = SavedBackup(o)
    <3>1. o \in Manifest
      BY <1>3 DEF Applied, Accounted
    <3>2. acc[o] = RecordOf(plan[o], disk[o], staged[o]) /\ backup[o] = SavedBackup(o)
      BY <1>3, <3>1 DEF Applied, Accounted
    <3> QED BY <3>1, <3>2 DEF RecordOf
  <2>2. CASE pre.mstate.outs[o] = NoRecord
    <3>1. origin'[o] = pre.disk[o] /\ pre.disk[o] \in Entry
      BY <1>2, <1>4, <2>1, <2>2, PlanKeeps DEF OriginInv
    <3> QED BY <1>2, <2>1, <2>2, <3>1, PlanKeeps, NoOriginAssumption DEF OriginInv
  <2>3. CASE pre.mstate.outs[o] # NoRecord
    <3>1. origin'[o] = origin[o] /\ origin[o] # NoOrigin
      BY <1>2, <1>4, <2>3 DEF Backed
    <3> QED BY <1>2, <2>1, <2>3, <3>1, PlanKeeps DEF OriginInv, Backed
  <2> QED BY <2>2, <2>3
<1>6. \A o \in Out \ stray : pre.mstate.outs[o] # NoRecord => origin'[o] = origin[o]
  BY <1>2, <1>4 DEF Backed
<1>7. /\ Backed(pre.mstate, pre.backup, origin', stray')
      /\ Backed(pre.mstate, backup, origin', stray')
  BY <1>2, <1>4, <1>6 DEF Backed
<1>8. Found' /\ Forgotten'
  BY <1>1, <1>2, <1>4 DEF Found, Forgotten, Running
<1> QED BY <1>1, <1>4, <1>5, <1>7, <1>8 DEF OriginInv, Restorable, Undoing

LEMMA OriginFinish ==
    ASSUME KeepsBackups, OriginInv, TrackOrigin, ProgressInv', WriteState \/ AppendSuccess
    PROVE  OriginInv'
<1>1. CASE WriteState /\ ~Compensate /\ ~Escape
  BY <1>1, OriginRecorded
<1>2. CASE WriteState /\ Compensate
  BY <1>2, OriginAtWork DEF WriteState, Compensate
<1>3. CASE WriteState /\ Escape
  BY <1>3, OriginAtEnd DEF WriteState, Escape, OriginInv
<1>4. CASE AppendSuccess
  <2>1. /\ pc = "success" /\ UNCHANGED <<disk, backup, mstate, pre>>
        /\ pc' = "done" \/ (pc' = "restore" /\ cur' = StateSlot /\ "success" \in Faults)
    BY <1>4 DEF AppendSuccess
  <2>2. /\ Backed(mstate, backup, origin, stray) /\ Backed(pre.mstate, pre.backup, origin, stray)
        /\ Backed(pre.mstate, backup, origin, stray) /\ StrayIsChanged
    BY <2>1 DEF OriginInv, Restorable, Running
  <2>3. CASE pc' = "done"
    BY <2>1, <2>2, <2>3, OriginAtEnd
  <2>4. CASE pc' = "restore"
    <3>1. stray' = stray /\ StrayIsChanged'
      BY <2>2, <2>4, OriginMoves
    <3>2. \A o \in Out : origin'[o] = IF origin[o] = NoOrigin /\ mstate.outs[o] # NoRecord
                                     THEN disk[o] ELSE origin[o]
      BY <2>1, <2>2, <2>4, OriginMoves
    <3>3. \A o \in Out : origin'[o] = origin[o]
      BY <2>2, <3>2 DEF Backed, StrayIsChanged
    <3>4. /\ Backed(mstate', backup', origin', stray')
          /\ Backed(pre'.mstate, pre'.backup, origin', stray')
          /\ Backed(pre'.mstate, backup', origin', stray')
      BY <2>1, <2>2, <3>1, <3>3 DEF Backed
    <3>5. Found' /\ Forgotten'
      BY <2>1, <2>4, <3>1, <3>3 DEF OriginInv, Found, Forgotten, Running
    <3> QED BY <2>1, <2>4, <3>1, <3>4, <3>5 DEF OriginInv, Restorable, Undoing
  <2> QED BY <2>1, <2>3, <2>4
<1> QED BY <1>1, <1>2, <1>3, <1>4

\* A restore takes a backup back to what it was, or loses it.
LEMMA OriginRestore ==
    ASSUME ~({"restore", "success"} \subseteq Faults),
           OriginInv, TrackOrigin, ProgressInv', RestoreStep
    PROVE  OriginInv'
<1>1. /\ pc = "restore" /\ pc' = "restore" /\ pre' = pre /\ snap = pre /\ TypeInv
      /\ backup \in [Out -> Bytes \union {Absent}]
  BY Files DEF RestoreStep, OriginInv, ProgressInv, CompInv, StartsFromPre, Working
<1>2. /\ Backed(pre.mstate, pre.backup, origin, stray) /\ Backed(pre.mstate, backup, origin, stray)
      /\ cur = StateSlot \/ mstate \in {pre.mstate, EmptyState}
      /\ "success" \notin Faults => mstate \in {pre.mstate, EmptyState}
      /\ StrayIsChanged
      /\ \A o \in Out \ stray : pre.mstate.outs[o] = NoRecord =>
            /\ origin[o] \in {NoOrigin, pre.disk[o]}
            /\ origin[o] = NoOrigin => disk[o] = pre.disk[o]
  BY <1>1 DEF OriginInv, Restorable, Found, Running
<1>3. \A o \in Out : backup'[o] \in {backup[o], pre.backup[o], Absent}
  BY <1>1 DEF RestoreStep, RestoreDisk, RestoreBackup, RestoreState, NotSnapshotted
<1>4. mstate' \in {pre.mstate, EmptyState}
  <2>1. CASE RestoreState
    BY <1>1, <1>2, <2>1 DEF RestoreState, Restored
  <2>2. CASE ~RestoreState
    <3>1. mstate' = mstate /\ \E o \in Out : cur \in {DiskSlot(o), BackupSlot(o)}
      BY <2>2 DEF RestoreStep, RestoreDisk, RestoreBackup, NotSnapshotted
    <3>2. cur # StateSlot
      BY <3>1, Numbers DEF DiskSlot, BackupSlot
    <3> QED BY <1>2, <3>1, <3>2
  <2> QED BY <2>1, <2>2
<1>5. /\ stray' = stray /\ StrayIsChanged'
      /\ \A o \in Out :
            origin'[o] = IF /\ origin[o] = NoOrigin
                            /\ disk'[o] # disk[o] \/ mstate'.outs[o] # NoRecord
                         THEN disk[o] ELSE origin[o]
  BY <1>1, <1>2, OriginMoves
<1>6. \A o \in Out \ stray : pre.mstate.outs[o] # NoRecord => origin'[o] = origin[o]
  BY <1>2, <1>5 DEF Backed
<1>7. Backed(pre'.mstate, pre'.backup, origin', stray') /\ Backed(pre'.mstate, backup', origin', stray')
  BY <1>1, <1>2, <1>3, <1>5, <1>6 DEF Backed
<1>8. Found'
  <2> SUFFICES ASSUME NEW o \in Out \ stray, pre.mstate.outs[o] = NoRecord
               PROVE  /\ origin'[o] \in {NoOrigin, pre.disk[o]}
                      /\ origin'[o] = NoOrigin => disk'[o] = pre.disk[o]
    BY <1>1, <1>5 DEF Found
  <2>1. disk[o] # NoOrigin
    BY <1>1, Files, NoOriginAssumption
  <2> QED BY <1>2, <1>5, <2>1
<1> QED BY <1>1, <1>4, <1>5, <1>7, <1>8 DEF OriginInv, Forgotten, Restorable, Undoing, Running

LEMMA OriginEnd ==
    ASSUME OriginInv, TrackOrigin, ProgressInv', RestoreDone \/ Return \/ Crash
    PROVE  OriginInv'
<1>1. \/ pc # "restore" /\ Backed(mstate, backup, origin, stray)
      \/ cur = StateSlot /\ Backed(mstate, backup, origin, stray)
      \/ mstate \in {pre.mstate, EmptyState} /\ Backed(pre.mstate, backup, origin, stray)
  BY DEF OriginInv, Restorable, Running
<1>2. Backed(mstate, backup, origin, stray)
  BY <1>1, NothingRecorded
<1>3. pc' \in {"idle", "done"}
  BY DEF RestoreDone, Return, Crash, ResetRun
<1>4. Backed(mstate', backup', origin, stray)
  <2>1. CASE RestoreDone \/ Return
    BY <1>2, <2>1 DEF RestoreDone, Return, files
  <2>2. CASE Crash
    <3>1. /\ mstate' \in {mstate, EmptyState}
          /\ \A o \in Out : backup'[o] \in {backup[o], Absent}
      <4>1. PICK p \in {Project, Emptied} :
              disk' = p.disk /\ backup' = p.backup /\ mstate' = p.mstate
        BY <2>2 DEF Crash
      <4>2. CASE p = Project
        BY <4>1, <4>2 DEF Project
      <4>3. CASE p = Emptied
        BY <4>1, <4>3 DEF Emptied, Project
      <4> QED BY <4>1, <4>2, <4>3
    <3>2. Backed(mstate, backup', origin, stray)
      BY <1>2, <3>1, BackedLost
    <3> QED BY <3>1, <3>2, NothingRecorded
  <2> QED BY <2>1, <2>2
<1> QED BY <1>3, <1>4, OriginAtEnd DEF OriginInv

-----------------------------------------------------------------------------
(***************************************************************************)
(* Revert keeps the invariants of the apply, and undoes output by output.  *)
(***************************************************************************)
LEMMA RevertProgress ==
    ASSUME OriginInv, Revert PROVE ProgressInv'
<1>0. TypeInv /\ disk \in [Out -> Entry] /\ backup \in [Out -> Bytes \union {Absent}]
      /\ mstate \in StateFile
  BY Files, ProjectParts DEF OriginInv, ProgressInv, CompInv, TypeInv, TypeOK
<1>1. pc' \in {"revert", "unback", "unbackall", "done"}
      /\ (pc' = "done" => result' \in {"conflict", "error", "reverted"})
  BY DEF Revert, RefuseRevert, BeginRevert, RevertOutput, RevertUnback, RevertSkip,
     RevertState, RevertBackups
<1>2. result' \in Results
  BY <1>0 DEF Revert, RefuseRevert, BeginRevert, RevertOutput, RevertUnback, RevertSkip,
     RevertState, RevertBackups, TypeInv, TypeOK, Results
<1>3. cur' \in 0..StateSlot
  <2>1. cur' \in {cur, 1} \/ (cur \in Out /\ cur' = cur + 1)
    BY DEF Revert, RefuseRevert, BeginRevert, RevertOutput, RevertUnback, RevertSkip,
       RevertState, RevertBackups, Recorded, OriginInv, Undoing
  <2> QED BY <1>0, <2>1, Numbers DEF TypeInv, TypeOK
<1>4. /\ disk' \in [Out -> Entry] /\ backup' \in [Out -> Bytes \union {Absent}]
      /\ mstate' \in StateFile
  <2>1. CASE RevertOutput
    <3>1. cur \in Out /\ backup' = backup /\ mstate' = mstate
      BY <2>1 DEF RevertOutput, Recorded
    <3>2. disk' = disk \/ \E b \in Bytes \union {Absent} : disk' = [disk EXCEPT ![cur] = b]
      BY <1>0, <2>1, <3>1 DEF RevertOutput
    <3> QED BY <1>0, <3>1, <3>2 DEF Entry
  <2>2. CASE RevertUnback
    BY <1>0, <2>2 DEF RevertUnback
  <2>3. CASE RevertState
    BY <1>0, <2>3, IdleValues DEF RevertState
  <2>4. CASE RevertBackups
    BY <1>0, <2>4 DEF RevertBackups
  <2>5. CASE RefuseRevert \/ BeginRevert \/ RevertSkip
    BY <1>0, <2>5 DEF RefuseRevert, BeginRevert, RevertSkip
  <2> QED BY <2>1, <2>2, <2>3, <2>4, <2>5 DEF Revert
<1>5. pre' \in ProjectType
  BY <1>0 DEF Revert, RefuseRevert, BeginRevert, RevertOutput, RevertUnback, RevertSkip,
     RevertState, RevertBackups, TypeInv, TypeOK
<1>6. UNCHANGED <<staged, mode, plan, snap, acc, failed, journal, env, owned>>
  BY DEF Revert, RefuseRevert, BeginRevert, RevertOutput, RevertUnback, RevertSkip,
     RevertState, RevertBackups, RevertFrame
<1>7. TypeInv'
  BY <1>0, <1>1, <1>2, <1>3, <1>4, <1>5, <1>6, ProjectParts
     DEF TypeInv, TypeOK, AtOutput, PCs
<1>8. CompInv'
  BY <1>1, <1>7
     DEF CompInv, StartsFromPre, Untouched, RestoredAbove, CompensationExact, Working
<1> QED BY <1>1, <1>8, ProgressOutside DEF ProgressInv

\* What revert finds is the state of the last apply.
LEMMA AtRevert ==
    ASSUME OriginInv, ~Running, pc # "unbackall"
    PROVE  /\ Backed(mstate, backup, origin, stray)
           /\ \A o \in Out \ stray : mstate.outs[o] = NoRecord => origin[o] = NoOrigin
           /\ StrayIsChanged
           /\ disk \in [Out -> Entry] /\ backup \in [Out -> Bytes \union {Absent}]
           /\ cur \in Nat
BY Files, Numbers DEF OriginInv, Forgotten, Running, ProgressInv, CompInv, TypeInv, TypeOK

\* Revert goes on: the state, and with it the origins, is as it was.
LEMMA OriginReverting ==
    ASSUME OriginInv, TrackOrigin, ProgressInv', pc \in {"idle", "revert", "unback"},
           pc' \in {"revert", "unback"}, mstate' = mstate,
           \A o \in Out \ Recorded : disk'[o] = disk[o],
           \A o \in Out : backup'[o] \in {backup[o], Absent}
    PROVE  /\ stray' = stray /\ \A o \in Out : origin'[o] = origin[o]
           /\ Undoing' => OriginInv'
<1>1. /\ Backed(mstate, backup, origin, stray) /\ StrayIsChanged
      /\ \A o \in Out \ stray : mstate.outs[o] = NoRecord => origin[o] = NoOrigin
  BY AtRevert DEF Running
<1>2. stray' = stray /\ StrayIsChanged'
  BY <1>1, OriginMoves
<1>3. \A o \in Out : origin'[o] = origin[o]
  <2> SUFFICES ASSUME NEW o \in Out PROVE origin'[o] = origin[o]
    OBVIOUS
  <2>1. origin'[o] = origin[o] \/ (origin[o] = NoOrigin /\ mstate.outs[o] # NoRecord)
    BY <1>1, OriginMoves DEF Recorded
  <2> QED BY <1>1, <2>1 DEF Backed, StrayIsChanged
<1>4. Backed(mstate', backup', origin', stray')
  BY <1>1, <1>2, <1>3 DEF Backed
<1>5. Forgotten' /\ Found'
  BY <1>1, <1>2, <1>3 DEF Forgotten, Found, Running
<1> QED BY <1>2, <1>3, <1>4, <1>5 DEF OriginInv, Restorable, Running

\* An output that a step does not touch is as far undone as it was.
LEMMA StillUndone ==
    ASSUME NEW o \in Out, disk'[o] = disk[o], origin'[o] = origin[o],
           UNCHANGED <<mstate, staged, stray>>
    PROVE  (Undone(o)' <=> Undone(o)) /\ Seen(o)' = Seen(o)
BY DEF Undone, Seen, StagedBytes

LEMMA OriginRevertOutput ==
    ASSUME OriginInv, TrackOrigin, ProgressInv', RevertOutput, pc' # "done"
    PROVE  OriginInv'
<1>0. /\ pc = "revert" /\ cur \in Recorded /\ cur \in Out
      /\ pc' \in {"revert", "unback"} /\ UNCHANGED <<backup, mstate, staged>>
  BY DEF RevertOutput, RevertFrame, Recorded
<1>1. /\ pc = "revert" /\ cur \in Recorded /\ cur \in Out
      /\ pc' \in {"revert", "unback"} /\ UNCHANGED <<backup, mstate, staged>>
      /\ \A o \in Out \ Recorded : disk'[o] = disk[o]
  <2>1. disk' = disk \/ \E b : disk' = [disk EXCEPT ![cur] = b]
    BY <1>0 DEF RevertOutput
  <2>2. disk \in [Out -> Entry]
    BY <1>0, AtRevert DEF Running
  <2> QED BY <1>0, <2>1, <2>2
<1>2. stray' = stray /\ \A o \in Out : origin'[o] = origin[o]
  BY <1>1, OriginReverting
<1>3. Undoing' => OriginInv'
  BY <1>1, OriginReverting
<1>4. /\ Backed(mstate, backup, origin, stray) /\ disk \in [Out -> Entry] /\ cur \in Nat
      /\ Recorded' = Recorded /\ mstate.outs[cur] # NoRecord
  BY <1>1, AtRevert DEF Recorded, Running
<1>5. \A o \in Recorded : /\ o < cur => Undone(o)
                          /\ o >= cur => Seen(o) = mstate.outs[o].digest
  <2> SUFFICES ASSUME NEW o \in Recorded
               PROVE  (o < cur => Undone(o)) /\ (o >= cur => Seen(o) = mstate.outs[o].digest)
    OBVIOUS
  <2>1. o \in Nat /\ (o >= cur => o > cur \/ o = cur)
    BY <1>4, Numbers DEF Recorded
  <2> QED BY <1>1, <2>1 DEF OriginInv, Undoing
<1>6. \A o \in Out \ {cur} : disk'[o] = disk[o]
  BY <1>1, <1>4 DEF RevertOutput
<1>7. \A o \in Out \ {cur} : (Undone(o)' <=> Undone(o)) /\ Seen(o)' = Seen(o)
  BY <1>1, <1>2, <1>6, StillUndone
<1>8. CASE mstate.outs[cur].backup
  <2>1. /\ pc' = "unback" /\ cur' = cur /\ disk'[cur] = backup[cur]
        /\ backup[cur] # Absent
    BY <1>1, <1>4, <1>8 DEF RevertOutput
  <2>2. Undone(cur)'
    BY <1>1, <1>2, <1>4, <1>8, <2>1 DEF Backed, Undone, GivenBack
  <2>3. \A o \in Recorded : /\ o < cur => Undone(o)'
                            /\ o > cur => Seen(o)' = mstate'.outs[o].digest
    <3> SUFFICES ASSUME NEW o \in Recorded, o # cur
                 PROVE  (o < cur => Undone(o)') /\ (o > cur => Seen(o)' = mstate'.outs[o].digest)
      BY <1>4, Numbers
    <3>1. o \in Out /\ o \in Nat
      BY Numbers DEF Recorded
    <3> QED BY <1>1, <1>4, <1>5, <1>7, <3>1
  <2>4. Undoing'
    BY <1>1, <1>4, <2>1, <2>2, <2>3 DEF Undoing
  <2> QED BY <1>3, <2>4
<1>9. CASE ~mstate.outs[cur].backup
  <2>1. /\ pc' = "revert" /\ cur' = cur + 1
        /\ \/ disk'[cur] = Absent
           \/ "revert" \in Faults /\ disk'[cur] = disk[cur]
    BY <1>1, <1>4, <1>9 DEF RevertOutput
  <2>2. ASSUME NEW o \in Recorded, o = cur PROVE Undone(o)'
    <3>1. o \in stray' \/ origin'[o] \in Replaceable
      BY <1>1, <1>2, <1>4, <1>9, <2>2 DEF Backed
    <3>2. CASE disk'[cur] = Absent
      BY <2>2, <3>1, <3>2 DEF Undone, GivenBack
    <3>3. CASE "revert" \in Faults /\ disk'[cur] = disk[cur]
      <4>1. Seen(o) = mstate.outs[o].digest
        BY <1>4, <1>5, <2>2
      <4>2. Seen(o)' = Seen(o)
        BY <1>1, <2>2, <3>3 DEF Seen, StagedBytes
      <4> QED BY <1>1, <1>9, <2>2, <3>3, <4>1, <4>2 DEF Undone
    <3> QED BY <2>1, <3>2, <3>3
  <2>3. \A o \in Recorded : /\ o < cur' => Undone(o)'
                            /\ o >= cur' => Seen(o)' = mstate'.outs[o].digest
    <3> SUFFICES ASSUME NEW o \in Recorded
                 PROVE  /\ o < cur + 1 => Undone(o)'
                        /\ o >= cur + 1 => Seen(o)' = mstate'.outs[o].digest
      BY <2>1
    <3>1. o \in Out /\ o \in Nat
      BY Numbers DEF Recorded
    <3>2. CASE o = cur
      BY <1>4, <2>2, <3>2
    <3>3. CASE o # cur
      BY <1>1, <1>4, <1>5, <1>7, <3>1, <3>3
    <3> QED BY <3>2, <3>3
  <2>4. Undoing'
    <3>1. \A o \in Recorded : o > cur' \/ o = cur' => o >= cur'
      BY <1>4, <2>1, Numbers DEF Recorded
    <3> QED BY <1>4, <2>1, <2>3, <3>1 DEF Undoing
  <2> QED BY <1>3, <2>4
<1> QED BY <1>8, <1>9

LEMMA OriginRevertNext ==
    ASSUME OriginInv, TrackOrigin, ProgressInv', RevertUnback \/ RevertSkip
    PROVE  OriginInv'
<1>1. /\ pc \in {"revert", "unback"} /\ pc' = "revert" /\ cur' = cur + 1 /\ cur \in Out
      /\ UNCHANGED <<disk, mstate, staged>>
  BY DEF RevertUnback, RevertSkip, RevertFrame, OriginInv, Undoing, Recorded
<1>2. \A o \in Out : backup'[o] \in {backup[o], Absent}
  BY <1>1, AtRevert DEF RevertUnback, RevertSkip, Running
<1>3. /\ stray' = stray /\ \A o \in Out : origin'[o] = origin[o]
      /\ Undoing' => OriginInv'
  BY <1>1, <1>2, OriginReverting
<1>4. /\ cur \in Nat /\ Recorded' = Recorded
      /\ cur \in Recorded => Undone(cur)
      /\ \A o \in Recorded : /\ o < cur => Undone(o)
                             /\ o > cur => Seen(o) = mstate.outs[o].digest
  BY <1>1, AtRevert DEF OriginInv, Undoing, Recorded, RevertUnback, RevertSkip, Running
<1>5. \A o \in Out : (Undone(o)' <=> Undone(o)) /\ Seen(o)' = Seen(o)
  BY <1>1, <1>3, StillUndone
<1>6. \A o \in Recorded : /\ o < cur + 1 => Undone(o)'
                          /\ o >= cur + 1 => Seen(o)' = mstate'.outs[o].digest
  <2> SUFFICES ASSUME NEW o \in Recorded
               PROVE  /\ o < cur + 1 => Undone(o)'
                      /\ o >= cur + 1 => Seen(o)' = mstate'.outs[o].digest
    OBVIOUS
  <2>1. o \in Out /\ o \in Nat
    BY Numbers DEF Recorded
  <2>2. CASE o = cur
    BY <1>4, <1>5, <2>1, <2>2
  <2>3. CASE o # cur
    BY <1>1, <1>4, <1>5, <2>1, <2>3
  <2> QED BY <2>2, <2>3
<1>7. \A o \in Recorded : o > cur' \/ o = cur' => o >= cur + 1
  BY <1>1, <1>4, Numbers DEF Recorded
<1> QED BY <1>1, <1>3, <1>4, <1>6, <1>7 DEF Undoing

LEMMA OriginRevert ==
    ASSUME OriginInv, TrackOrigin, Revert PROVE OriginInv'
<1>0. ProgressInv'
  BY RevertProgress
<1>1. CASE RefuseRevert \/ (RevertOutput /\ pc' = "done")
  <2>1. pc # "restore" /\ pc' = "done" /\ UNCHANGED <<backup, mstate>>
    BY <1>1 DEF RefuseRevert, RevertOutput
  <2> QED BY <1>0, <2>1, OriginAtEnd DEF OriginInv
<1>2. CASE BeginRevert
  <2>1. /\ pc = "idle" /\ pc' = "revert" /\ cur' = 1 /\ ~RevertConflict
        /\ UNCHANGED <<disk, backup, mstate, staged>>
    BY <1>2 DEF BeginRevert, RevertFrame
  <2>2. /\ \A o \in Out : origin'[o] = origin[o]
        /\ Undoing' => OriginInv'
    BY <1>0, <2>1, OriginReverting
  <2>3. \A o \in Recorded : ~(o < 1) /\ Seen(o)' = mstate'.outs[o].digest
    BY <2>1, Numbers DEF RevertConflict, Seen, StagedBytes, Recorded
  <2>4. Recorded' = Recorded
    BY <2>1 DEF Recorded
  <2> QED BY <2>1, <2>2, <2>3, <2>4 DEF Undoing
<1>3. CASE RevertOutput /\ pc' # "done"
  BY <1>0, <1>3, OriginRevertOutput
<1>4. CASE RevertUnback \/ RevertSkip
  BY <1>0, <1>4, OriginRevertNext
<1>5. CASE RevertState
  <2>1. /\ pc = "revert" /\ pc' = "unbackall" /\ mstate' \in {mstate, EmptyState}
        /\ UNCHANGED <<disk, backup>>
    BY <1>5 DEF RevertState
  <2>2. Backed(mstate', backup', origin, stray) /\ StrayIsChanged
    BY <2>1, AtRevert, NothingRecorded DEF Running
  <2>3. stray' = stray /\ StrayIsChanged'
    BY <2>1, <2>2, OriginMoves
  <2>4. \A o \in Out : origin'[o] = IF origin[o] = NoOrigin /\ mstate'.outs[o] # NoRecord
                                   THEN disk[o] ELSE origin[o]
    BY <2>1, <2>2, OriginMoves
  <2>5. \A o \in Out : origin'[o] = origin[o]
    BY <2>2, <2>4 DEF Backed, StrayIsChanged
  <2>6. Backed(mstate', backup', origin', stray')
    BY <2>2, <2>3, <2>5 DEF Backed
  <2> QED BY <1>0, <2>1, <2>3, <2>6 DEF OriginInv, Forgotten, Found, Restorable, Running, Undoing
<1>6. CASE RevertBackups
  <2>1. /\ pc = "unbackall" /\ pc' = "done" /\ mstate' = mstate
        /\ \A o \in Out : backup'[o] \in {backup[o], Absent}
    BY <1>6 DEF RevertBackups
  <2>2. Backed(mstate', backup', origin, stray)
    BY <2>1, BackedLost DEF OriginInv
  <2> QED BY <1>0, <2>1, <2>2, OriginAtEnd DEF OriginInv
<1> QED BY <1>1, <1>2, <1>3, <1>4, <1>5, <1>6 DEF Revert

-----------------------------------------------------------------------------
LEMMA OriginInit == LInit => OriginInv
<1> SUFFICES ASSUME LInit PROVE OriginInv
  OBVIOUS
<1>1. /\ Init /\ pc = "idle" /\ stray = {}
      /\ \A o \in Out : mstate.outs[o] = NoRecord /\ origin[o] = NoOrigin
  BY DEF LInit, Init, EmptyState
<1> QED BY <1>1, ProgressInit
        DEF OriginInv, Backed, StrayIsChanged, Forgotten, Found, Restorable, Undoing, Running

LEMMA OriginStep ==
    ASSUME ~Concurrent, KeepsBackups, ~({"restore", "success"} \subseteq Faults)
    PROVE  OriginInv /\ [LNext]_lvars => OriginInv'
<1> SUFFICES ASSUME OriginInv, [LNext]_lvars PROVE OriginInv'
  OBVIOUS
<1>1. CASE UNCHANGED lvars
  <2>1. ProgressInv'
    BY <1>1, ProgressStep DEF lvars, OriginInv
  <2> QED BY <1>1, <2>1
          DEF lvars, vars, OriginInv, Backed, StrayIsChanged, Forgotten, Found, Restorable,
              Undoing, Undone, Running, Recorded, Seen, StagedBytes
<1>2. CASE Revert /\ TrackOrigin
  BY <1>2, OriginRevert
<1>3. CASE \/ Compile /\ UNCHANGED <<origin, stray>>
           \/ (\E o \in Out : UserEdit(o)) /\ TrackEdit
  <2>1. ProgressInv'
    BY <1>3, ProgressStep DEF OriginInv, Next
  <2> QED BY <1>3, <2>1, OriginEnvironment
<1>4. CASE ApplyNext /\ TrackOrigin
  <2>1. ProgressInv'
    BY <1>4, ProgressStep DEF OriginInv, Next
  <2> QED BY <1>4, <2>1, OriginStart, OriginLoop, OriginFinish,
             OriginRestore, OriginEnd DEF ApplyNext
<1> QED BY <1>1, <1>2, <1>3, <1>4 DEF LNext

\* A revert that completes gives the user back what a path held before metactl
\* first changed it (revert_target), whatever was compiled, edited, applied and
\* reverted before and whatever failed or died on the way, but for the paths a
\* command has left changed and unrecorded: in the modes that keep the backup a
\* record points at, and unless a failed last line of an apply meets a failing
\* restore.
THEOREM RevertGivesBack ==
    ASSUME ~Concurrent, KeepsBackups, ~({"restore", "success"} \subseteq Faults)
    PROVE  LSpec => []RevertRestoresOrigin
<1>1. OriginInv => RevertRestoresOrigin
  <2> SUFFICES ASSUME OriginInv, pc = "revert", cur > N, NEW o \in Out \ stray,
                      origin[o] # NoOrigin
               PROVE  \/ GivenBack(disk[o], origin[o])
                      \/ /\ "revert" \in Faults
                         /\ ~mstate.outs[o].backup /\ Seen(o) = mstate.outs[o].digest
    BY DEF RevertRestoresOrigin
  <2>1. o \in Recorded
    BY AtRevert DEF Recorded, Running
  <2>2. o < cur
    BY AtRevert, Numbers DEF Running
  <2>3. Undone(o)
    BY <2>1, <2>2 DEF OriginInv, Undoing
  <2> QED BY <2>3 DEF Undone
<1>2. OriginInv /\ [LNext]_lvars => OriginInv'
  BY OriginStep
<1> QED BY <1>1, <1>2, OriginInit, PTL DEF LSpec
===========================================================
