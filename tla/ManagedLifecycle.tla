-------------------------- MODULE ManagedLifecycle --------------------------
(***************************************************************************)
(* The life of a target's managed files: any sequence of compiles, user    *)
(* edits, applies and reverts.  Adds revert_target (materializer.rs) to    *)
(* ApplyTransaction.  Revert has no journal, snapshot or compensation: it  *)
(* checks every recorded output first and then undoes them one by one.     *)
(***************************************************************************)
EXTENDS ApplyTransaction

CONSTANT NoOrigin    \* no output of that number is managed

ASSUME NoOriginAssumption == NoOrigin \notin Entry

VARIABLES
    origin,  \* history: what a path held before metactl first changed or recorded it
    stray    \* history: paths a command has left changed and without a record

lvars == <<vars, origin, stray>>

Recorded == {o \in Out : mstate.outs[o] # NoRecord}

LInit == Init /\ origin = [o \in Out |-> NoOrigin] /\ stray = {}

\* Revert leaves what the path held, or nothing where metactl took no backup: a
\* link, and bytes that were the generated ones already, are adopted without one.
Replaceable == {Absent, Link} \union {Raw(g) : g \in GenText}
GivenBack(entry, found) == entry = found \/ (entry = Absent /\ found \in Replaceable)

\* The origin is taken at metactl's first change of the path, or with its first
\* record if it changes nothing.
FirstFound(o) ==
    IF origin[o] = NoOrigin /\ (disk'[o] # disk[o] \/ mstate'.outs[o] # NoRecord)
    THEN disk[o] ELSE origin[o]

\* A command that ends without a record of the output either gave the path back
\* or leaves it astray: it died or failed between its write and the managed
\* state, dropped the output from the manifest, or could not restore or remove it.
EndsUnrecorded(o) == pc' \in {"idle", "done"} /\ mstate'.outs[o] = NoRecord

TrackOrigin ==
    /\ origin' = [o \in Out |->
                     IF EndsUnrecorded(o) /\ GivenBack(disk'[o], FirstFound(o))
                     THEN NoOrigin ELSE FirstFound(o)]
    /\ stray' = {o \in Out : /\ origin'[o] # NoOrigin
                             /\ o \in stray \/ EndsUnrecorded(o)}

\* A path metactl has no record of is the user's again once the user changes it.
TrackEdit ==
    /\ origin' = [o \in Out |->
                     IF disk'[o] # disk[o] /\ pc = "idle" /\ mstate.outs[o] = NoRecord
                     THEN NoOrigin ELSE origin[o]]
    /\ stray' = {o \in stray : origin'[o] # NoOrigin}

(***************************************************************************)
(* revert_target                                                           *)
(***************************************************************************)
\* The recorded output is missing or its bytes are not the applied ones.
RevertConflict ==
    \/ mstate.mode = "none"
    \/ \E o \in Recorded : Seen(o) # mstate.outs[o].digest

RevertFrame == UNCHANGED <<staged, mode, plan, snap, acc, failed, journal, env>>

RefuseRevert ==
    /\ pc = "idle" /\ RevertConflict
    /\ pc' = "done" /\ result' = "conflict" /\ pre' = Project
    /\ UNCHANGED <<disk, backup, mstate, cur, owned>> /\ RevertFrame

BeginRevert ==
    /\ pc = "idle" /\ ~RevertConflict
    /\ pc' = "revert" /\ cur' = 1 /\ pre' = Project /\ result' = "none"
    /\ UNCHANGED <<disk, backup, mstate, owned>> /\ RevertFrame

\* The backup is written over the destination, or, without one, the destination
\* is removed (a failing removal is ignored).  A backup that cannot be read or a
\* failing write leaves through `?`.
RevertOutput ==
    /\ pc = "revert" /\ cur \in Recorded
    /\ IF mstate.outs[cur].backup
       THEN \/ /\ backup[cur] # Absent
               /\ disk' = [disk EXCEPT ![cur] = backup[cur]]
               /\ pc' = "unback"
               /\ UNCHANGED <<cur, result>>
            \/ /\ backup[cur] = Absent \/ "revert" \in Faults
               /\ pc' = "done" /\ result' = "error"
               /\ UNCHANGED <<disk, cur>>
       ELSE /\ \/ disk' = [disk EXCEPT ![cur] = Absent]
               \/ "revert" \in Faults /\ disk' = disk
            /\ cur' = cur + 1
            /\ UNCHANGED <<pc, result>>
    /\ UNCHANGED <<backup, mstate, pre, owned>> /\ RevertFrame

\* The backup just restored is removed (a failing removal is ignored).
RevertUnback ==
    /\ pc = "unback"
    /\ \/ backup' = [backup EXCEPT ![cur] = Absent]
       \/ "revert" \in Faults /\ backup' = backup
    /\ pc' = "revert" /\ cur' = cur + 1
    /\ UNCHANGED <<disk, mstate, result, pre, owned>> /\ RevertFrame

RevertSkip ==
    /\ pc = "revert" /\ cur \in Out \ Recorded
    /\ cur' = cur + 1
    /\ UNCHANGED <<disk, backup, mstate, pc, result, pre, owned>> /\ RevertFrame

\* The state file goes, and the target's backup directory with all it holds
\* (failing removals are ignored).
RevertState ==
    /\ pc = "revert" /\ cur > N
    /\ \/ mstate' = EmptyState
       \/ "revert" \in Faults /\ mstate' = mstate
    /\ pc' = "unbackall"
    /\ UNCHANGED <<disk, backup, cur, result, pre, owned>> /\ RevertFrame

RevertBackups ==
    /\ pc = "unbackall"
    /\ \/ backup' = [o \in Out |-> Absent]
       \/ "revert" \in Faults /\ backup' = backup
    /\ pc' = "done" /\ result' = "reverted"
    /\ UNCHANGED <<disk, mstate, cur, pre, owned>> /\ RevertFrame

Revert == \/ RefuseRevert \/ BeginRevert \/ RevertOutput \/ RevertUnback
          \/ RevertSkip \/ RevertState \/ RevertBackups

LNext == \/ Compile /\ UNCHANGED <<origin, stray>>
         \/ (\E o \in Out : UserEdit(o)) /\ TrackEdit
         \/ ApplyNext /\ TrackOrigin
         \/ Revert /\ TrackOrigin
LSpec == LInit /\ [][LNext]_lvars

-----------------------------------------------------------------------------
\* A revert that completes puts back, for every output it undoes, what its path
\* held before metactl first changed it, however often the output was re-applied,
\* recompiled, edited or deleted in between (revert_target).  A file whose bytes
\* were already the generated ones is removed; one that cannot be removed stays as
\* it was applied, and revert goes on.  Excepted are the paths a command has left
\* astray: the next apply takes metactl's own text there for the user's, and
\* revert gives that back.
RevertRestoresOrigin ==
    pc = "revert" /\ cur > N =>
        \A o \in Out \ stray : origin[o] # NoOrigin =>
            \/ GivenBack(disk[o], origin[o])
            \/ /\ "revert" \in Faults
               /\ ~mstate.outs[o].backup /\ Seen(o) = mstate.outs[o].digest
=============================================================================
