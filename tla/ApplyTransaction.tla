-------------------------- MODULE ApplyTransaction --------------------------
(***************************************************************************)
(* One target's apply, step by step: apply_manifest_bound of               *)
(* crates/metactl/src/materializer.rs with the snapshots it captures, the  *)
(* actions it runs in manifest order, the compensation it runs when an     *)
(* action fails, and the managed state it writes last.  Between applies    *)
(* the user edits destinations and recompiles; a step may fail or the      *)
(* process may die, as far as Faults allows.                               *)
(***************************************************************************)
EXTENDS ApplyPlan

CONSTANTS
    Faults,      \* which steps may fail (see FaultKinds)
    Concurrent,  \* TRUE: the user also edits while an apply runs
    MaxEnv       \* bound: how often the user edits or compiles

FaultKinds == {"preflight", "check", "noop", "action", "statedir", "state",
               "success", "restore", "revert", "crash"}

ASSUME FaultsAssumption ==
    Faults \subseteq FaultKinds /\ Concurrent \in BOOLEAN /\ MaxEnv \in Nat

VARIABLES
    disk,      \* disk[o]: what the destination path of output o holds
    backup,    \* backup[o]: what the backup path of output o holds
    mstate,    \* the managed state file
    staged,    \* staged[o]: the staged text, or Absent if o is not generated
    pc,        \* where the running apply is ("idle": none is running)
    mode,      \* its apply mode
    plan,      \* plan[o]: the action planned for o
    cur,       \* the output the loop is at, then the snapshot being restored
    snap,      \* the snapshots: [disk, backup, mstate] as captured
    acc,       \* the records accumulated for the next managed state
    failed,    \* TRUE: a snapshot could not be restored
    journal,   \* the last line of this apply's journal file
    result,    \* how the last apply ended
    pre,       \* history: the project as it was when the apply started
    env,       \* history: how many steps the environment has taken
    owned      \* history: the text of a user's file metactl does not manage

files == <<disk, backup, mstate>>
vars  == <<disk, backup, mstate, staged, pc, mode, plan, cur, snap, acc,
           failed, journal, result, pre, env, owned>>

Manifest == {o \in Out : staged[o] # Absent}
Project  == [disk |-> disk, backup |-> backup, mstate |-> mstate]
ProjectType == [disk : [Out -> Entry], backup : [Out -> Bytes \union {Absent}],
                mstate : StateFile]
EmptyProject == [disk |-> [o \in Out |-> Absent],
                 backup |-> [o \in Out |-> Absent], mstate |-> EmptyState]

StagedBytes(o) == IF staged[o] = Absent THEN Absent ELSE Raw(staged[o])
\* The bytes a reader of the destination sees.
Seen(o) == Read(disk[o], StagedBytes(o))

IdlePlan == Plan("Noop", FALSE, FALSE, FALSE)
NoOwner  == Absent

(***************************************************************************)
(* Slots 1..2N+1 are the snapshots in the order they are captured: for     *)
(* each output its destination, then its backup path; last, the state file.*)
(***************************************************************************)
StateSlot == 2 * N + 1
DiskSlot(o)   == 2 * o - 1
BackupSlot(o) == 2 * o

Init ==
    /\ disk = [o \in Out |-> Absent]
    /\ backup = [o \in Out |-> Absent]
    /\ mstate = EmptyState
    /\ staged = [o \in Out |-> Absent]
    /\ pc = "idle"
    /\ mode = "none"
    /\ plan = [o \in Out |-> IdlePlan]
    /\ cur = 0
    /\ snap = EmptyProject
    /\ acc = [o \in Out |-> NoRecord]
    /\ failed = FALSE
    /\ journal = "none"
    /\ result = "none"
    /\ pre = EmptyProject
    /\ env = 0
    /\ owned = [o \in Out |-> NoOwner]

(***************************************************************************)
(* The environment.                                                        *)
(***************************************************************************)
\* A compile replaces the staged copies of the outputs it generates and prunes
\* the others (stage_outputs); it holds the operation lock, so no apply runs.
\* A retained command is staged with the bytes that are installed.
Compile ==
    /\ pc = "idle" /\ env < MaxEnv
    /\ env' = env + 1
    /\ staged' \in [Out -> GenText \union {Absent}]
    /\ \A o \in Out : Kind[o] = "retained" /\ staged'[o] # Absent
                        => disk[o] = Raw(staged'[o])
    /\ UNCHANGED <<disk, backup, mstate, pc, mode, plan, cur, snap, acc, failed,
                   journal, result, pre, owned>>

\* The user writes or deletes the file at a destination.  Text of the user's at
\* a path metactl does not manage is the user's original; an edit of a managed
\* file does not end metactl's duty to keep the original it has backed up.
Holds(entry, t) == entry \notin {Absent, Link} /\ entry.own = t

OwnedAfterEdit(o, t) ==
    CASE /\ mstate.outs[o] # NoRecord /\ mstate.outs[o].backup
         /\ Holds(backup[o], owned[o]) -> owned[o]
      [] mstate.outs[o] = NoRecord /\ t \in UserText -> t
      [] OTHER -> NoOwner

UserEdit(o) ==
    /\ pc = "idle" \/ Concurrent
    /\ env < MaxEnv
    /\ env' = env + 1
    /\ \E t \in Text \union {Absent} :
         /\ disk' = [disk EXCEPT ![o] = IF t = Absent THEN Absent ELSE Raw(t)]
         /\ owned' = [owned EXCEPT ![o] = OwnedAfterEdit(o, t)]
    /\ UNCHANGED <<backup, mstate, staged, pc, mode, plan, cur, snap, acc,
                   failed, journal, result, pre>>

(***************************************************************************)
(* Planning and preflight.                                                 *)
(***************************************************************************)
PlanOf(m, o) == IF o \in Manifest
                THEN PlanFor(o, m, mstate, disk[o], staged[o])
                ELSE IdlePlan

Refused(m) == \E o \in Manifest : \/ ReviewConflict(o, mstate, disk[o], staged[o])
                                  \/ PlanOf(m, o) = Conflict

\* The plan digest given on the command line is of another project state, the
\* review found a content conflict, or an output cannot be planned.
Refuse(m) ==
    /\ pc = "idle"
    /\ pc' = "done"
    /\ mode' = m
    /\ result' = "conflict"
    /\ pre' = Project
    /\ UNCHANGED <<disk, backup, mstate, staged, plan, cur, snap, acc, failed,
                   journal, env, owned>>

BeginApply(m) ==
    /\ pc = "idle"
    /\ ~Refused(m)
    /\ pc' = "preflight"
    /\ mode' = m
    /\ plan' = [o \in Out |-> PlanOf(m, o)]
    /\ journal' = "none"
    /\ result' = "none"
    /\ pre' = Project
    /\ acc' = [o \in Out |-> NoRecord]
    /\ failed' = FALSE
    /\ UNCHANGED <<disk, backup, mstate, staged, cur, snap, env, owned>>

\* An error that leaves through `?`: nothing is compensated.
Escape ==
    /\ pc' = "done"
    /\ result' = "error"
    /\ UNCHANGED <<disk, backup, mstate, staged, mode, plan, cur, snap, acc,
                   failed, journal, pre, env, owned>>

\* check_planned_access: a probe of some directory fails; it leaves nothing there.
AccessDenied == "preflight" \in Faults

\* The access probes, the first journal line and the snapshots.
Preflight ==
    /\ pc = "preflight"
    /\ \/ /\ pc' = "loop"
          /\ journal' = "preflight_ok"
          /\ snap' = Project
          /\ cur' = 1
          /\ UNCHANGED <<disk, backup, mstate, staged, mode, plan, acc, failed,
                         result, pre, env, owned>>
       \/ AccessDenied /\ Escape

(***************************************************************************)
(* The action loop.                                                        *)
(***************************************************************************)
\* Wrong: the error returns and nothing is restored.
Compensate_Skipped ==
    /\ pc' = "done" /\ result' = "error"
    /\ UNCHANGED <<backup, mstate, staged, mode, plan, cur, snap, acc, failed,
                   journal, pre, env, owned>>
\* Wrong: starts one past the last snapshot.
Compensate_OffByOne ==
    /\ pc' = "restore" /\ cur' = StateSlot + 1 /\ failed' = FALSE
    /\ UNCHANGED <<backup, mstate, staged, mode, plan, snap, acc, journal,
                   result, pre, env, owned>>

\* Compensation starts: every snapshot is restored, the last captured first.
Compensate ==
    /\ pc' = "restore"
    /\ cur' = StateSlot
    /\ failed' = FALSE
    /\ UNCHANGED <<backup, mstate, staged, mode, plan, snap, acc, journal,
                   result, pre, env, owned>>

\* The output is recorded and the loop moves on.
Advance(line) ==
    /\ acc' = [acc EXCEPT ![cur] = RecordOf(plan[cur], disk[cur], staged[cur])]
    /\ journal' = line
    /\ cur' = cur + 1
    /\ pc' = "loop"
    /\ UNCHANGED <<disk, backup, mstate, staged, mode, plan, snap, failed,
                   result, pre, env, owned>>

LoopNext ==
    /\ pc = "loop"
    /\ cur \notin Manifest
    /\ IF cur > N THEN pc' = "state" /\ cur' = cur
                  ELSE pc' = pc /\ cur' = cur + 1
    /\ UNCHANGED <<disk, backup, mstate, staged, mode, plan, snap, acc, failed,
                   journal, result, pre, env, owned>>

\* The containment checks at the head of each iteration.
CheckFails ==
    /\ pc = "loop" /\ cur \in Manifest
    /\ "check" \in Faults
    /\ Escape

Noop ==
    /\ pc = "loop" /\ cur \in Manifest
    /\ plan[cur].kind = "Noop"
    /\ \/ Seen(cur) # Absent /\ Advance("noop")
       \/ (Seen(cur) = Absent \/ "noop" \in Faults) /\ Escape

\* The journal line "started", the parent directory, the staged bytes and the
\* backup; then the write.
StartAction ==
    /\ pc = "loop" /\ cur \in Manifest
    /\ plan[cur].kind # "Noop"
    /\ \/ /\ BackupIsTaken(plan[cur]) => Seen(cur) # Absent
          /\ backup' = IF BackupIsTaken(plan[cur])
                       THEN [backup EXCEPT ![cur] = Seen(cur)] ELSE backup
          /\ pc' = "write"
          /\ journal' = "started"
          /\ UNCHANGED <<disk, mstate, staged, mode, plan, cur, snap, acc,
                         failed, result, pre, env, owned>>
       \/ /\ "action" \in Faults \/ (BackupIsTaken(plan[cur]) /\ Seen(cur) = Absent)
          /\ Compensate /\ UNCHANGED disk

ReadsDestination(k) == k \in {"PatchManaged", "PatchUnmanaged",
                              "MergeJsonManaged", "MergeJsonUnmanaged"}

\* Making a link removes whatever is there; a regular file only replaces a link
\* after removing it, unless it is renamed over it or patched.
RemovesFirst(o) ==
    \/ plan[o].kind = "CreateSymlink"
    \/ /\ disk[o] = Link
       /\ plan[o].kind \notin {"PatchManaged", "PatchUnmanaged"}
       /\ plan[o].kind = "OverwriteManaged"
             => mode # "symlink" \/ MaterializeAsRegularFile(o)

\* The write itself.  A failing one leaves the destination as it was, or, when
\* it first removed what was there, absent.
WriteOutput ==
    /\ pc = "write"
    /\ \/ /\ ReadsDestination(plan[cur].kind) => Seen(cur) # Absent
          /\ disk' = [disk EXCEPT ![cur] =
                        Effect(plan[cur], disk[cur], staged[cur])]
          /\ pc' = "confirm"
          /\ UNCHANGED <<backup, mstate, staged, mode, plan, cur, snap, acc,
                         failed, journal, result, pre, env, owned>>
       \/ /\ "action" \in Faults
             \/ (ReadsDestination(plan[cur].kind) /\ Seen(cur) = Absent)
          /\ disk' \in {disk, [disk EXCEPT ![cur] =
                                 IF RemovesFirst(cur) THEN Absent ELSE @]}
          /\ Compensate

\* The digest of what was written and the journal line "applied".
ConfirmOutput ==
    /\ pc = "confirm"
    /\ \/ Seen(cur) # Absent /\ Advance("applied")
       \/ /\ Seen(cur) = Absent \/ "action" \in Faults
          /\ Compensate /\ UNCHANGED disk

(***************************************************************************)
(* The managed state and the last journal line.                            *)
(***************************************************************************)
\* The new state file has only the outputs of this manifest: metactl forgets an
\* output that is no longer generated, and its backup with it.  Making its
\* directory, or the bytes to write, fails through `?`.
WriteState ==
    /\ pc = "state"
    /\ \/ /\ mstate' = [mode |-> mode, outs |-> acc]
          /\ owned' = [o \in Out |-> IF acc[o] = NoRecord
                                        /\ mstate.outs[o] # NoRecord
                                     THEN NoOwner ELSE owned[o]]
          /\ pc' = "success"
          /\ UNCHANGED <<disk, backup, staged, mode, plan, cur, snap, acc,
                         failed, journal, result, pre, env>>
       \/ "state" \in Faults /\ Compensate /\ UNCHANGED disk
       \/ "statedir" \in Faults /\ Escape

\* A failing append may have reached the file before its sync failed; then no
\* other line follows it.
AppendSuccess ==
    /\ pc = "success"
    /\ \/ /\ journal' = "success"
          /\ pc' = "done"
          /\ result' = "ok"
          /\ UNCHANGED <<disk, backup, mstate, staged, mode, plan, cur, snap,
                         acc, failed, pre, env, owned>>
       \/ /\ "success" \in Faults
          /\ pc' = "restore"
          /\ cur' = StateSlot
          /\ failed' = FALSE
          /\ journal' \in {journal, "success"}
          /\ result' = "unjournaled"
          /\ UNCHANGED <<disk, backup, mstate, staged, mode, plan, snap, acc,
                         pre, env, owned>>

(***************************************************************************)
(* Compensation: restore_path_snapshots, one snapshot a step.              *)
(***************************************************************************)
\* A restore removes what the path holds now and then rewrites the snapshot.
\* If it fails the path keeps its entry or, once that is removed, holds nothing.
Restored(was, now, is, nothing) ==
    \/ is = was /\ failed' = failed
    \/ /\ "restore" \in Faults
       /\ is \in {now, nothing}
       /\ failed' = TRUE

RestoreDisk(o) ==
    /\ cur = DiskSlot(o) /\ o \in Manifest
    /\ \E e \in {snap.disk[o], disk[o], Absent} :
         /\ Restored(snap.disk[o], disk[o], e, Absent)
         /\ disk' = [disk EXCEPT ![o] = e]
    /\ UNCHANGED <<backup, mstate>>

\* Wrong: the backup taken by the failed apply stays.
RestoreBackup_Skipped(o) ==
    /\ cur = BackupSlot(o) /\ o \in Manifest /\ plan[o].backup
    /\ UNCHANGED <<disk, backup, mstate, failed>>

RestoreBackup(o) ==
    /\ cur = BackupSlot(o) /\ o \in Manifest /\ plan[o].backup
    /\ \E e \in {snap.backup[o], backup[o], Absent} :
         /\ Restored(snap.backup[o], backup[o], e, Absent)
         /\ backup' = [backup EXCEPT ![o] = e]
    /\ UNCHANGED <<disk, mstate>>

RestoreState ==
    /\ cur = StateSlot
    /\ \E s \in {snap.mstate, mstate, EmptyState} :
         /\ Restored(snap.mstate, mstate, s, EmptyState)
         /\ mstate' = s
    /\ UNCHANGED <<disk, backup>>

NotSnapshotted ==
    /\ \E o \in Out : \/ cur = DiskSlot(o) /\ o \notin Manifest
                      \/ cur = BackupSlot(o) /\ ~(o \in Manifest /\ plan[o].backup)
    /\ UNCHANGED <<disk, backup, mstate, failed>>

RestoreStep ==
    /\ pc = "restore" /\ cur > 0
    /\ \/ \E o \in Out : RestoreDisk(o) \/ RestoreBackup(o)
       \/ RestoreState
       \/ NotSnapshotted
    /\ cur' = cur - 1
    /\ UNCHANGED <<staged, pc, mode, plan, snap, acc, journal, result, pre, env, owned>>

\* The failure line (its own failure is ignored) and the failure report; after
\* a failed "success" line there is no failure line.
RestoreDone ==
    /\ pc = "restore" /\ cur = 0
    /\ pc' = "done"
    /\ LET status == IF failed THEN "failed_partial" ELSE "failure_compensated"
       IN  /\ result' = status
           /\ journal' \in IF result = "unjournaled" THEN {journal}
                           ELSE {journal, status}
    /\ UNCHANGED <<disk, backup, mstate, staged, mode, plan, cur, snap, acc,
                   failed, pre, env, owned>>

(***************************************************************************)
(* The end of the process: it returns, or it dies at any step.             *)
(***************************************************************************)
ResetRun ==
    /\ pc' = "idle"
    /\ mode' = "none"
    /\ plan' = [o \in Out |-> IdlePlan]
    /\ cur' = 0
    /\ snap' = EmptyProject
    /\ acc' = [o \in Out |-> NoRecord]
    /\ failed' = FALSE
    /\ pre' = EmptyProject
    /\ UNCHANGED <<staged, env, owned>>

Return == /\ pc = "done"
          /\ ResetRun /\ result' = "none" /\ journal' = "none"
          /\ UNCHANGED files

\* Some writes, and every restore, remove what the path holds before they write:
\* a process that dies in between leaves the path empty.
Emptied == [Project EXCEPT !.disk = [o \in Out |->
              IF \/ pc = "write" /\ o = cur /\ RemovesFirst(o)
                 \/ pc = "restore" /\ cur = DiskSlot(o) /\ o \in Manifest
              THEN Absent ELSE @[o]],
            !.backup = [o \in Out |->
              IF pc = "restore" /\ cur = BackupSlot(o) /\ o \in Manifest
                                /\ plan[o].backup
              THEN Absent ELSE @[o]],
            !.mstate = IF pc = "restore" /\ cur = StateSlot THEN EmptyState ELSE @]

Crash == /\ "crash" \in Faults
         /\ pc \notin {"idle", "done"}
         /\ \E p \in {Project, Emptied} :
              disk' = p.disk /\ backup' = p.backup /\ mstate' = p.mstate
         /\ ResetRun /\ result' = "crashed" /\ UNCHANGED journal

ApplyNext ==
    \/ \E m \in Modes : Refuse(m) \/ BeginApply(m)
    \/ Preflight \/ LoopNext \/ CheckFails \/ Noop
    \/ StartAction \/ WriteOutput \/ ConfirmOutput
    \/ WriteState \/ AppendSuccess
    \/ RestoreStep \/ RestoreDone
    \/ Return \/ Crash

Next == Compile \/ (\E o \in Out : UserEdit(o)) \/ ApplyNext

Spec == Init /\ [][Next]_vars

-----------------------------------------------------------------------------
PCs == {"idle", "preflight", "loop", "write", "confirm", "state", "success",
        "restore", "done", "revert", "unback", "unbackall"}
JournalLines == {"none", "preflight_ok", "started", "applied", "noop", "success",
                 "failure_compensated", "failed_partial"}
Results == {"none", "conflict", "error", "ok", "crashed", "unjournaled",
            "failure_compensated", "failed_partial", "reverted"}

\* Every variable keeps to its type.
TypeOK ==
    /\ Project \in ProjectType
    /\ staged \in [Out -> GenText \union {Absent}]
    /\ pc \in PCs
    /\ mode \in AllModes \union {"none"}
    /\ plan \in [Out -> PlannedAction]
    /\ cur \in 0..StateSlot
    /\ snap \in ProjectType
    /\ acc \in [Out -> Record \union {NoRecord}]
    /\ failed \in BOOLEAN
    /\ journal \in JournalLines
    /\ result \in Results
    /\ pre \in ProjectType
    /\ env \in 0..MaxEnv
    /\ owned \in [Out -> UserText \union {NoOwner}]

\* A failed action that reports its failure as compensated has put back every
\* destination, every backup and the managed state as they were when the apply
\* started (the compensation in apply_manifest_bound).
CompensationExact ==
    pc = "done" /\ result = "failure_compensated" => Project = pre

\* An apply that ends in any failure other than "failed_partial" has changed
\* nothing: the doc knows only these two outcomes of a failed action.
FailureIsCompensatedOrReported ==
    pc = "done" /\ result \in {"conflict", "error", "failure_compensated"}
        => Project = pre

\* After a successful apply the managed state records exactly the outputs of
\* the manifest, each with the bytes its destination holds.
SuccessRecordsDisk ==
    pc = "done" /\ result = "ok" =>
        \A o \in Out :
            IF o \in Manifest
            THEN /\ mstate.outs[o] # NoRecord
                 /\ mstate.outs[o].digest = Seen(o)
            ELSE mstate.outs[o] = NoRecord

\* Applying the same manifest again in the same mode would be a no-op for every
\* output: an apply converges in one run.
ApplyConverges ==
    pc = "done" /\ result = "ok" =>
        \A o \in Manifest : PlanOf(mode, o).kind = "Noop"

\* Between commands, a backup the managed state points at is there to be read
\* back: revert can undo every output it finds recorded.
RecordedBackupExists ==
    pc \in {"idle", "done"} =>
        \A o \in Out : mstate.outs[o] # NoRecord /\ mstate.outs[o].backup
                          => backup[o] # Absent

\* The text a user's file had when metactl began to manage it is on disk, at the
\* destination or in the backup, as long as the output stays managed and metactl
\* is not in the middle of a compensation (which deletes the backup before it rewrites the destination).
UserTextSurvives ==
    \A o \in Out : owned[o] # NoOwner /\ pc # "restore" =>
        Holds(disk[o], owned[o]) \/ Holds(backup[o], owned[o])

-----------------------------------------------------------------------------
\* While an apply runs the abstract project is the one it started from: its
\* writes take effect together, at the line that ends it.
Running == pc \in {"preflight", "loop", "write", "confirm", "state", "success",
                   "restore"}
AtomicProject == IF Running THEN pre ELSE Project
AtomicStatus  == CASE pc = "idle" -> "idle"
                   [] Running     -> "busy"
                   [] OTHER       -> IF result = "ok" THEN "ok" ELSE "failed"
Atomic == INSTANCE AtomicApply WITH project <- AtomicProject, status <- AtomicStatus

\* The apply implements AtomicApply: all of the plan's outcome, or nothing.
ImplementsAtomicApply == Atomic!ASpec
=============================================================================
