--------------------------- MODULE OperationLock ---------------------------
(***************************************************************************)
(* The file .metactl/state/operation.lock that a mutating command creates  *)
(* exclusively, holds while it works and removes when it ends              *)
(* (OperationLock in crates/metactl/src/project.rs, run in main.rs), and   *)
(* the manual recovery that docs/user/operation-locks.md asks of a person  *)
(* who finds one left behind.                                              *)
(*                                                                         *)
(* A process is one invocation of a command: it runs once.                 *)
(***************************************************************************)
EXTENDS Naturals

CONSTANTS
    Proc,        \* invocations of mutating commands
    Root,        \* project roots
    RootOf,      \* RootOf[p]: the project p works on
    Person,      \* people who recover abandoned locks
    NoLock,      \* the lock file does not exist
    NoRoot,      \* a person is recovering no project
    LockFaults,  \* which steps may fail (see LockFaultKinds)
    HoldWriters  \* TRUE: no writer starts while a person recovers its project

LockFaultKinds == {"create", "initialize", "remove", "crash"}

ASSUME LockAssumption ==
    /\ RootOf \in [Proc -> Root]
    /\ NoRoot \notin Root
    /\ LockFaults \subseteq LockFaultKinds
    /\ HoldWriters \in BOOLEAN

LockFile == [by : Proc,          \* the process that created it
             written : BOOLEAN,  \* its payload (pid, command, time) is complete
             old : BOOLEAN]      \* it is older than the stale threshold

ASSUME NoLockAssumption == NoLock \notin LockFile

VARIABLES
    lock,   \* lock[r]: the lock file of project r
    pc,     \* pc[p]: where process p is
    said,   \* said[p]: the acquisition error p reported
    recov   \* recov[c]: the project whose lock c has found abandoned

lvars == <<lock, pc, said, recov>>

LockInit ==
    /\ lock = [r \in Root |-> NoLock]
    /\ pc = [p \in Proc |-> "start"]
    /\ said = [p \in Proc |-> "none"]
    /\ recov = [c \in Person |-> NoRoot]

\* From the creation of the file to its removal p owns the lock.
Owns(p) == pc[p] \in {"created", "work", "release"}
Live(p) == pc[p] \in {"created", "contended", "work", "release"}
Recovering(r) == \E c \in Person : recov[c] = r

Moves(p, to) == pc' = [pc EXCEPT ![p] = to]
Says(p, what) == said' = [said EXCEPT ![p] = what]

(***************************************************************************)
(* acquire_with_initializer                                                *)
(***************************************************************************)
\* Wrong: creates the file, or truncates the one that is there.
Acquire_NotExclusive(p) ==
    /\ pc[p] = "start"
    /\ HoldWriters => ~Recovering(RootOf[p])
    /\ lock' = [lock EXCEPT ![RootOf[p]] =
                  [by |-> p, written |-> FALSE, old |-> FALSE]]
    /\ Moves(p, "created")
    /\ UNCHANGED <<said, recov>>
\* Wrong: takes over a lock that is older than the stale threshold.
Acquire_TakesStale(p) ==
    /\ pc[p] = "start"
    /\ HoldWriters => ~Recovering(RootOf[p])
    /\ lock[RootOf[p]] # NoLock => lock[RootOf[p]].old
    /\ lock' = [lock EXCEPT ![RootOf[p]] =
                  [by |-> p, written |-> FALSE, old |-> FALSE]]
    /\ Moves(p, "created")
    /\ UNCHANGED <<said, recov>>

Acquire(p) ==
    /\ pc[p] = "start"
    /\ HoldWriters => ~Recovering(RootOf[p])
    /\ lock[RootOf[p]] = NoLock
    /\ lock' = [lock EXCEPT ![RootOf[p]] =
                  [by |-> p, written |-> FALSE, old |-> FALSE]]
    /\ Moves(p, "created")
    /\ UNCHANGED <<said, recov>>

\* Wrong: the guard exists before the file is created, and its drop removes the
\* file of another command.
Contend_Removes(p) ==
    /\ pc[p] = "start"
    /\ lock[RootOf[p]] # NoLock
    /\ lock' = [lock EXCEPT ![RootOf[p]] = NoLock]
    /\ Moves(p, "contended")
    /\ UNCHANGED <<said, recov>>
\* Wrong: tries again until the lock is free.
Contend_Waits(p) ==
    /\ pc[p] = "start"
    /\ lock[RootOf[p]] # NoLock
    /\ UNCHANGED lvars

\* create_new finds a file: somebody else's, and p never touches it.
Contend(p) ==
    /\ pc[p] = "start"
    /\ lock[RootOf[p]] # NoLock
    /\ Moves(p, "contended")
    /\ UNCHANGED <<lock, said, recov>>

\* The state directory or the lock file cannot be created.
CannotCreate(p) ==
    /\ pc[p] = "start"
    /\ "create" \in LockFaults
    /\ Moves(p, "done") /\ Says(p, "io")
    /\ UNCHANGED <<lock, recov>>

\* The payload is written through the open file, so it reaches the file p
\* created even if the path names another by then.
Initialize(p) ==
    /\ pc[p] = "created"
    /\ lock' = [lock EXCEPT ![RootOf[p]] =
                  IF @ # NoLock /\ @.by = p THEN [@ EXCEPT !.written = TRUE] ELSE @]
    /\ Moves(p, "work")
    /\ UNCHANGED <<said, recov>>

\* The write or the flush fails: the guard is dropped before the error returns.
InitializeFails(p) ==
    /\ pc[p] = "created"
    /\ "initialize" \in LockFaults
    /\ Moves(p, "release") /\ Says(p, "io")
    /\ UNCHANGED <<lock, recov>>

\* The refused command looks at the file again to word its error; a file that
\* has gone by then has no age and counts as active.
Classify(p) ==
    /\ pc[p] = "contended"
    /\ Says(p, IF lock[RootOf[p]] # NoLock /\ lock[RootOf[p]].old
               THEN "stale" ELSE "active")
    /\ Moves(p, "done")
    /\ UNCHANGED <<lock, recov>>

(***************************************************************************)
(* The guarded command ends, well or not, and its guard is dropped.        *)
(***************************************************************************)
EndWork(p) ==
    /\ pc[p] = "work"
    /\ Moves(p, "release")
    /\ UNCHANGED <<lock, said, recov>>

\* Drop removes whatever file the path names; a failure is ignored.
Release(p) ==
    /\ pc[p] = "release"
    /\ \/ lock' = [lock EXCEPT ![RootOf[p]] = NoLock]
       \/ "remove" \in LockFaults /\ lock' = lock
    /\ Moves(p, "done")
    /\ UNCHANGED <<said, recov>>

Crash(p) ==
    /\ "crash" \in LockFaults
    /\ Live(p)
    /\ Moves(p, "dead")
    /\ UNCHANGED <<lock, said, recov>>

(***************************************************************************)
(* Time, and the person who recovers.                                      *)
(***************************************************************************)
Age(r) ==
    /\ lock[r] # NoLock /\ ~lock[r].old
    /\ lock' = [lock EXCEPT ![r].old = TRUE]
    /\ UNCHANGED <<pc, said, recov>>

\* The owner named in the payload is not running; a file without a payload is
\* abandoned only if nothing is running on the project.
Abandoned(r) ==
    /\ lock[r] # NoLock
    /\ IF lock[r].written THEN ~Live(lock[r].by)
       ELSE \A p \in Proc : RootOf[p] = r => ~Live(p)

Inspect(c, r) ==
    /\ recov[c] = NoRoot
    /\ Abandoned(r)
    /\ recov' = [recov EXCEPT ![c] = r]
    /\ UNCHANGED <<lock, pc, said>>

Recover(c) ==
    /\ recov[c] # NoRoot
    /\ lock' = [lock EXCEPT ![recov[c]] = NoLock]
    /\ recov' = [recov EXCEPT ![c] = NoRoot]
    /\ UNCHANGED <<pc, said>>

Step(p) == \/ Acquire(p) \/ Contend(p) \/ CannotCreate(p)
           \/ Initialize(p) \/ InitializeFails(p) \/ Classify(p)
           \/ EndWork(p) \/ Release(p)

LockNext ==
    \/ \E p \in Proc : Step(p) \/ Crash(p)
    \/ \E r \in Root : Age(r)
    \/ \E c \in Person : Recover(c) \/ \E r \in Root : Inspect(c, r)

LockSpec == LockInit /\ [][LockNext]_lvars

-----------------------------------------------------------------------------
LockTypeOK ==
    /\ lock \in [Root -> LockFile \union {NoLock}]
    /\ pc \in [Proc -> {"start", "created", "contended", "work", "release",
                        "done", "dead"}]
    /\ said \in [Proc -> {"none", "io", "active", "stale"}]
    /\ recov \in [Person -> Root \union {NoRoot}]

\* Two commands never work on one project at a time, through crashes, failed
\* clean-ups and manual recovery.
MutualExclusion ==
    \A p, q \in Proc : p # q /\ RootOf[p] = RootOf[q] => ~(Owns(p) /\ Owns(q))

\* The file of a process that owns the lock stays its own file: nobody removes
\* or replaces it under the owner.
OwnerHasFile ==
    \A p \in Proc : Owns(p) => /\ lock[RootOf[p]] # NoLock
                               /\ lock[RootOf[p]].by = p

\* A lock file that exists before a command starts outlives the command, unless
\* a person removes it: age alone never makes a command take a lock over.
NoTakeover ==
    [][\A r \in Root : lock[r] # NoLock /\ lock'[r] # lock[r] =>
          \/ lock'[r] # NoLock /\ lock'[r].by = lock[r].by
          \/ lock'[r] = NoLock /\ pc[lock[r].by] = "release"
                               /\ pc'[lock[r].by] = "done"
          \/ lock'[r] = NoLock /\ ~Live(lock[r].by) /\ pc' = pc]_lvars
=============================================================================
