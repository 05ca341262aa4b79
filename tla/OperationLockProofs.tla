------------------------- MODULE OperationLockProofs -------------------------
(***************************************************************************)
(* Mutual exclusion of the operation lock, for any number of commands,     *)
(* projects and people, through crashes, failed clean-ups and recoveries.  *)
(***************************************************************************)
EXTENDS OperationLock, TLAPS

\* What the recovery relies on: while a person has found the lock of a project
\* abandoned, no process owns it, and with HoldWriters none starts to.
RecoveryIsSafe ==
    \A c \in Person, p \in Proc : recov[c] = RootOf[p] => ~Owns(p)

\* A lock file was created by a process of that project, which is past "start".
FileHasCreator ==
    \A r \in Root : lock[r] # NoLock =>
        /\ RootOf[lock[r].by] = r
        /\ pc[lock[r].by] \notin {"start", "contended"}

LockInv == LockTypeOK /\ OwnerHasFile /\ RecoveryIsSafe /\ FileHasCreator

\* The initial state has no lock and no owner.
LEMMA LockInitInv == LockInit => LockInv
BY LockAssumption DEF LockInit, LockInv, LockTypeOK, OwnerHasFile,
   RecoveryIsSafe, FileHasCreator, Owns

\* The variables keep to their types.
LEMMA LockTypeStep == LockTypeOK /\ [LockNext]_lvars => LockTypeOK'
<1> SUFFICES ASSUME LockTypeOK, [LockNext]_lvars PROVE LockTypeOK'
  OBVIOUS
<1> USE LockAssumption DEF LockTypeOK, Moves, Says, LockFile
<1>1. ASSUME NEW p \in Proc, Step(p) \/ Crash(p) PROVE LockTypeOK'
  <2>1. CASE Acquire(p)
    BY <2>1 DEF Acquire
  <2>2. CASE Contend(p) \/ CannotCreate(p) \/ InitializeFails(p) \/ EndWork(p) \/ Crash(p)
    BY <2>2 DEF Contend, CannotCreate, InitializeFails, EndWork, Crash
  <2>3. CASE Initialize(p)
    BY <2>3 DEF Initialize
  <2>4. CASE Classify(p)
    BY <2>4 DEF Classify
  <2>5. CASE Release(p)
    BY <2>5 DEF Release
  <2> QED BY <1>1, <2>1, <2>2, <2>3, <2>4, <2>5 DEF Step
<1>2. ASSUME NEW r \in Root, Age(r) PROVE LockTypeOK'
  BY <1>2, NoLockAssumption DEF Age
<1>3. ASSUME NEW c \in Person, Recover(c) PROVE LockTypeOK'
  BY <1>3 DEF Recover
<1>4. ASSUME NEW c \in Person, NEW r \in Root, Inspect(c, r) PROVE LockTypeOK'
  BY <1>4 DEF Inspect
<1>5. CASE UNCHANGED lvars
  BY <1>5 DEF lvars
<1> QED BY <1>1, <1>2, <1>3, <1>4, <1>5 DEF LockNext

\* Filling in or ageing a lock file leaves it a lock file of its creator.
LEMMA LockFileEdits ==
    ASSUME NEW f \in LockFile \union {NoLock}, f # NoLock
    PROVE  /\ [f EXCEPT !.written = TRUE] # NoLock
           /\ [f EXCEPT !.written = TRUE].by = f.by
           /\ [f EXCEPT !.old = TRUE] # NoLock
           /\ [f EXCEPT !.old = TRUE].by = f.by
<1>1. f \in LockFile
  OBVIOUS
<1>2. /\ [f EXCEPT !.written = TRUE] \in LockFile
      /\ [f EXCEPT !.old = TRUE] \in LockFile
  BY <1>1 DEF LockFile
<1>3. /\ [f EXCEPT !.written = TRUE].by = f.by
      /\ [f EXCEPT !.old = TRUE].by = f.by
  BY <1>1 DEF LockFile
<1> QED BY <1>2, <1>3, NoLockAssumption

\* What each kind of step can do to a lock file: create one where there was
\* none, keep its creator, or remove it at its owner's end or in a recovery.
LockFileKept(r) ==
    \/ lock[r] = NoLock
    \/ lock'[r] # NoLock /\ lock'[r].by = lock[r].by
    \/ lock'[r] = NoLock /\ pc[lock[r].by] = "release"
                         /\ pc'[lock[r].by] = "done"
    \/ lock'[r] = NoLock /\ ~Live(lock[r].by) /\ pc' = pc

LockStepInv == OwnerHasFile' /\ RecoveryIsSafe' /\ FileHasCreator'
               /\ \A r \in Root : LockFileKept(r)

\* An owner keeps its file, and nobody recovers a project that has an owner.
LEMMA LockInvStep ==
    ASSUME HoldWriters PROVE LockInv /\ [LockNext]_lvars => LockStepInv
<1> SUFFICES ASSUME LockInv, [LockNext]_lvars PROVE LockStepInv
  OBVIOUS
<1> USE LockAssumption, HoldWriters
    DEF LockInv, LockTypeOK, OwnerHasFile, RecoveryIsSafe, FileHasCreator, Owns,
        Moves, Says, LockFileKept, LockStepInv
<1>1. ASSUME NEW p \in Proc, Step(p) \/ Crash(p) PROVE LockStepInv
  <2>1. CASE Acquire(p)
    <3>1. /\ lock'[RootOf[p]] # NoLock
          /\ lock'[RootOf[p]].by = p
          /\ \A r \in Root : r # RootOf[p] => lock'[r] = lock[r]
      <4> DEFINE new == [by |-> p, written |-> FALSE, old |-> FALSE]
      <4>1. new \in LockFile /\ new.by = p
        BY DEF LockFile
      <4>2. lock' = [lock EXCEPT ![RootOf[p]] = new]
        BY <2>1 DEF Acquire
      <4> HIDE DEF new
      <4> QED BY <4>1, <4>2, NoLockAssumption
    <3>2. /\ pc'[p] = "created"
          /\ \A q \in Proc : q # p => pc'[q] = pc[q]
      BY <2>1 DEF Acquire
    <3>3. \A q \in Proc : RootOf[q] = RootOf[p] => ~Owns(q)
      BY <2>1 DEF Acquire
    <3>4. \A c \in Person : recov'[c] # RootOf[p]
      BY <2>1 DEF Acquire, Recovering
    <3>5. FileHasCreator'
      BY <2>1, <3>1, <3>2 DEF Acquire, LockFile
    <3>6. recov' = recov
      BY <2>1 DEF Acquire
    <3>7. OwnerHasFile' /\ RecoveryIsSafe'
      BY <3>1, <3>2, <3>3, <3>4, <3>6
    <3> QED BY <2>1, <3>1, <3>5, <3>7 DEF Acquire
  <2>2. CASE Contend(p) \/ CannotCreate(p) \/ EndWork(p)
    BY <2>2 DEF Contend, CannotCreate, EndWork, LockFile
  <2>3. CASE InitializeFails(p) \/ Crash(p)
    BY <2>3 DEF InitializeFails, Crash, LockFile
  <2>4. CASE Initialize(p)
    <3>1. \A r \in Root : lock[r] # NoLock => /\ lock'[r] # NoLock
                                              /\ lock'[r].by = lock[r].by
      BY <2>4, LockFileEdits DEF Initialize
    <3>0. \A r \in Root : lock[r] = NoLock => lock'[r] = NoLock
      BY <2>4 DEF Initialize
    <3>2. /\ pc'[p] = "work" /\ Owns(p)
          /\ \A q \in Proc : q # p => pc'[q] = pc[q]
          /\ recov' = recov
      BY <2>4 DEF Initialize
    <3>3. \A r \in Root : lock[r] # NoLock => lock[r].by \in Proc
      BY DEF LockFile
    <3>4. OwnerHasFile'
      <4> SUFFICES ASSUME NEW q \in Proc, Owns(q)'
                   PROVE  lock'[RootOf[q]] # NoLock /\ lock'[RootOf[q]].by = q
        OBVIOUS
      <4>1. RootOf[q] \in Root /\ Owns(q)
        BY <3>2
      <4> QED BY <4>1, <3>1
    <3>5. RecoveryIsSafe'
      BY <3>2
    <3>6. FileHasCreator' /\ \A r \in Root : LockFileKept(r)
      BY <3>0, <3>1, <3>2, <3>3
    <3> QED BY <3>4, <3>5, <3>6
  <2>5. CASE Classify(p)
    BY <2>5 DEF Classify, LockFile
  <2>6. CASE Release(p)
    <3>1. lock[RootOf[p]] # NoLock /\ lock[RootOf[p]].by = p
      BY <2>6 DEF Release
    <3>2. \A q \in Proc : q # p /\ RootOf[q] = RootOf[p] => ~Owns(q)
      BY <3>1
    <3>3. /\ pc[p] = "release" /\ pc'[p] = "done"
          /\ \A q \in Proc : q # p => pc'[q] = pc[q]
          /\ recov' = recov
      BY <2>6 DEF Release
    <3>4. /\ \A r \in Root : r # RootOf[p] => lock'[r] = lock[r]
          /\ lock'[RootOf[p]] \in {lock[RootOf[p]], NoLock}
      BY <2>6 DEF Release
    <3>5. \A r \in Root : lock[r] # NoLock => lock[r].by \in Proc
      BY DEF LockFile
    <3> QED BY <3>1, <3>2, <3>3, <3>4, <3>5
  <2> QED BY <1>1, <2>1, <2>2, <2>3, <2>4, <2>5, <2>6 DEF Step
<1>2. ASSUME NEW r \in Root, Age(r) PROVE LockStepInv
  <2>1. \A s \in Root : /\ lock[s] = NoLock => lock'[s] = NoLock
                        /\ lock[s] # NoLock => /\ lock'[s] # NoLock
                                               /\ lock'[s].by = lock[s].by
    <3>1. lock' = [lock EXCEPT ![r] = [lock[r] EXCEPT !.old = TRUE]]
      BY <1>2 DEF Age
    <3>2. lock[r] \in LockFile \union {NoLock} /\ lock[r] # NoLock
      BY <1>2 DEF Age
    <3> QED BY <3>1, <3>2, LockFileEdits
  <2>2. pc' = pc /\ recov' = recov
    BY <1>2 DEF Age
  <2>3. OwnerHasFile' /\ RecoveryIsSafe'
    <3>1. ASSUME NEW q \in Proc, Owns(q)'
          PROVE  lock'[RootOf[q]] # NoLock /\ lock'[RootOf[q]].by = q
      <4>1. RootOf[q] \in Root /\ Owns(q)
        BY <2>2, <3>1
      <4> QED BY <4>1, <2>1
    <3> QED BY <2>2, <3>1
  <2>4. FileHasCreator' /\ \A s \in Root : LockFileKept(s)
    <3>1. ASSUME NEW s \in Root, lock'[s] # NoLock
          PROVE  /\ RootOf[lock'[s].by] = s
                 /\ pc'[lock'[s].by] \notin {"start", "contended"}
      <4>1. lock[s] # NoLock /\ lock'[s].by = lock[s].by
        BY <2>1, <3>1
      <4> QED BY <4>1, <2>2
    <3>2. \A s \in Root : LockFileKept(s)
      BY <2>1
    <3> QED BY <3>1, <3>2
  <2> QED BY <2>3, <2>4
<1>3. ASSUME NEW c \in Person, Recover(c) PROVE LockStepInv
  <2>1. recov[c] \in Root /\ pc' = pc
    BY <1>3 DEF Recover
  <2>2. \A r \in Root : lock'[r] = IF r = recov[c] THEN NoLock ELSE lock[r]
    BY <1>3 DEF Recover
  <2>3. \A r \in Root : lock[r] # NoLock => lock[r].by \in Proc
    BY DEF LockFile
  <2>4. lock[recov[c]] # NoLock => ~Live(lock[recov[c]].by)
    BY <2>1, <2>3 DEF Live
  <2>5. RecoveryIsSafe'
    BY <1>3, NoRoot \notin Root DEF Recover
  <2> QED BY <2>1, <2>2, <2>4, <2>5
<1>4. ASSUME NEW c \in Person, NEW r \in Root, Inspect(c, r) PROVE LockStepInv
  \* The file is the owner's, and its owner, or every process, has ended.
  <2>1. \A p \in Proc : RootOf[p] = r => ~Owns(p)
    BY <1>4 DEF Inspect, Abandoned, Live
  <2> QED BY <1>4, <2>1 DEF Inspect
<1>5. CASE UNCHANGED lvars
  BY <1>5 DEF lvars
<1> QED BY <1>1, <1>2, <1>3, <1>4, <1>5 DEF LockNext

\* The variables keep to their types, whatever people do.
THEOREM LockTypeCorrect == LockSpec => []LockTypeOK
<1>1. LockInit => LockTypeOK
  BY LockInitInv DEF LockInv
<1> QED BY <1>1, LockTypeStep, PTL DEF LockSpec

\* If writers are held back during recoveries, every reachable state satisfies
\* the inductive invariant.
LEMMA LockInvariant == ASSUME HoldWriters PROVE LockSpec => []LockInv
<1>1. LockInit => LockInv
  BY LockInitInv
<1>2. LockInv /\ [LockNext]_lvars => LockInv'
  BY LockInvStep, LockTypeStep DEF LockInv, LockStepInv
<1> QED BY <1>1, <1>2, PTL DEF LockSpec

\* The lock file of a process that owns the lock (OperationLock::acquire to its
\* release) stays there and stays its own: no crash, clean-up or recovery of
\* another command removes it.
THEOREM OwnerKeepsFile == ASSUME HoldWriters PROVE LockSpec => []OwnerHasFile
<1>1. LockInv => OwnerHasFile
  BY DEF LockInv
<1> QED BY <1>1, LockInvariant, PTL

\* Two commands never work on one project at a time: they would both have
\* created the one file (OperationLock::acquire).
THEOREM LockExcludes == ASSUME HoldWriters PROVE LockSpec => []MutualExclusion
<1>1. LockInv => MutualExclusion
  BY DEF LockInv, OwnerHasFile, MutualExclusion
<1> QED BY <1>1, LockInvariant, PTL

\* Only the owner's own end and a person's recovery remove a lock file, and no
\* command ever takes one over.
THEOREM LockIsNeverTakenOver == ASSUME HoldWriters PROVE LockSpec => NoTakeover
<1> DEFINE Kept == \A r \in Root : lock[r] # NoLock /\ lock'[r] # lock[r] =>
          \/ lock'[r] # NoLock /\ lock'[r].by = lock[r].by
          \/ lock'[r] = NoLock /\ pc[lock[r].by] = "release"
                               /\ pc'[lock[r].by] = "done"
          \/ lock'[r] = NoLock /\ ~Live(lock[r].by) /\ pc' = pc
<1>1. LockInv /\ [LockNext]_lvars => [Kept]_lvars
  BY LockInvStep DEF LockStepInv, LockFileKept
<1> QED BY <1>1, LockInvariant, PTL DEF LockSpec, NoTakeover
=============================================================================
