---------------------------- MODULE AtomicApply ----------------------------
(***************************************************************************)
(* What applying one target promises: the project (destinations, backups   *)
(* and managed state) changes in a single step to the outcome of the plan, *)
(* or it does not change.  ApplyTransaction implements it when no process  *)
(* dies, compensation itself works and every error reaches it.             *)
(***************************************************************************)
EXTENDS ApplyPlan

VARIABLES
    project,   \* [disk, backup, mstate]
    staged,    \* the staged text of each output, or Absent
    mode,      \* the mode of the apply under way, or "none"
    status     \* "idle", "busy", "ok" or "failed"

avars == <<project, staged, mode, status>>

PlannedFor(o) == IF staged[o] = Absent THEN Plan("Noop", FALSE, FALSE, FALSE)
                 ELSE PlanFor(o, mode, project.mstate, project.disk[o], staged[o])

\* The project once every planned action of a manifest has been carried out.
Outcome ==
    LET entry(o) == IF staged[o] = Absent THEN project.disk[o]
                    ELSE Effect(PlannedFor(o), project.disk[o], staged[o])
        Saved(o) == staged[o] # Absent /\ BackupIsTaken(PlannedFor(o))
    IN  [disk   |-> [o \in Out |-> entry(o)],
         backup |-> [o \in Out |-> IF Saved(o)
                                   THEN Read(project.disk[o], Raw(staged[o]))
                                   ELSE project.backup[o]],
         mstate |-> [mode |-> mode,
                     outs |-> [o \in Out |->
                        IF staged[o] = Absent THEN NoRecord
                        ELSE RecordOf(PlannedFor(o), entry(o), staged[o])]]]

AInit ==
    /\ project = [disk |-> [o \in Out |-> Absent],
                  backup |-> [o \in Out |-> Absent], mstate |-> EmptyState]
    /\ staged = [o \in Out |-> Absent]
    /\ mode = "none"
    /\ status = "idle"

ACompile == /\ status = "idle"
            /\ staged' \in [Out -> GenText \union {Absent}]
            /\ UNCHANGED <<project, mode, status>>

AEdit == /\ status = "idle"
         /\ \E o \in Out, e \in Bytes \union {Absent} :
              project' = [project EXCEPT !.disk[o] = e]
         /\ UNCHANGED <<staged, mode, status>>

AStart == /\ status = "idle"
          /\ status' = "busy"
          /\ mode' \in Modes
          /\ UNCHANGED <<project, staged>>

ARefuse == /\ status = "idle"
           /\ status' = "failed"
           /\ mode' \in Modes
           /\ UNCHANGED <<project, staged>>

ACommit == /\ status = "busy"
           /\ project' = Outcome
           /\ status' = "ok"
           /\ UNCHANGED <<staged, mode>>

AAbort == /\ status = "busy"
          /\ status' = "failed"
          /\ UNCHANGED <<project, staged, mode>>

AReturn == /\ status \in {"ok", "failed"}
           /\ status' = "idle"
           /\ mode' = "none"
           /\ UNCHANGED <<project, staged>>

ANext == ACompile \/ AEdit \/ AStart \/ ARefuse \/ ACommit \/ AAbort \/ AReturn

ASpec == AInit /\ [][ANext]_avars
=============================================================================
