--------------------------- MODULE FleetSyncProofs ---------------------------
(***************************************************************************)
(* Every step of a fleet is a step of the operation locks or leaves them   *)
(* alone, so that the mutual exclusion of the locks carries over to the    *)
(* syncs that fleets run, in child processes and in their own.             *)
(***************************************************************************)
EXTENDS FleetSync, OperationLockProofs

\* A step of the fleets and their processes is a step of the locks.
LEMMA FleetStepIsLockStep == [FNext]_svars => [LockNext]_lvars
<1> SUFFICES ASSUME [FNext]_svars PROVE [LockNext]_lvars
  OBVIOUS
<1>1. ASSUME NEW f \in Fleet, FleetStep(f) PROVE UNCHANGED lvars
  BY <1>1 DEF FleetStep, PassOver, StartSelf, EndSelf, Spawn, SpawnFails,
     Collect, WriteLog
<1>2. ASSUME NEW p \in Proc, ProcStep(p) PROVE LockNext
  BY <1>2 DEF ProcStep, LockNext
<1>3. ASSUME Around PROVE LockNext
  BY <1>3 DEF Around, LockNext
<1>4. CASE UNCHANGED svars
  BY <1>4 DEF svars
<1> QED BY <1>1, <1>2, <1>3, <1>4 DEF FNext

\* The fleets and the processes around them implement the operation locks.
THEOREM FleetImplementsLock == FSpec => LockSpec
<1>1. FInit => LockInit
  BY DEF FInit
<1> QED BY <1>1, FleetStepIsLockStep, PTL DEF FSpec, LockSpec

\* A fleet that syncs in its own process syncs its own project.
SelfIsOwn == \A f \in Fleet :
    doing[f] = "self" /\ pos[f] \in MemberIds(f) => Members[f][pos[f]] = RootOf[f]

FleetInv == /\ pos \in [Fleet -> Nat]
            /\ doing \in [Fleet -> {"next", "self", "child"}]
            /\ SelfIsOwn

\* No step of the fleets starts an in-process sync of another project.
LEMMA FleetInvStep == FleetInv /\ [FNext]_svars => FleetInv'
<1> SUFFICES ASSUME FleetInv, [FNext]_svars PROVE FleetInv'
  OBVIOUS
<1> USE DEF FleetInv, SelfIsOwn
<1>1. ASSUME NEW f \in Fleet, StartSelf(f) PROVE FleetInv'
  BY <1>1 DEF StartSelf, AtMember, IsSelf
<1>2. ASSUME NEW f \in Fleet, Spawn(f) PROVE FleetInv'
  BY <1>2 DEF Spawn
<1>3. ASSUME NEW f \in Fleet, NEW what, Report(f, what) PROVE FleetInv'
  <2>1. /\ pos' = [pos EXCEPT ![f] = pos[f] + 1]
        /\ doing' = [doing EXCEPT ![f] = "next"]
    BY <1>3 DEF Report
  <2>2. pos[f] + 1 \in Nat
    OBVIOUS
  <2> QED BY <2>1, <2>2
<1>4. ASSUME NEW f \in Fleet,
             PassOver(f) \/ EndSelf(f) \/ SpawnFails(f) \/ Collect(f)
      PROVE  FleetInv'
  <2>1. Report(f, "applied") \/ Report(f, "failed") \/ Report(f, "skipped")
    BY <1>4 DEF PassOver, EndSelf, SpawnFails, Collect
  <2> QED BY <2>1, <1>3
<1>5. ASSUME UNCHANGED <<pos, doing>> PROVE FleetInv'
  BY <1>5
<1>6. ASSUME NEW f \in Fleet, WriteLog(f) PROVE FleetInv'
  BY <1>5, <1>6 DEF WriteLog
<1>7. ASSUME NEW p \in Proc, ProcStep(p) PROVE FleetInv'
  BY <1>5, <1>7 DEF ProcStep
<1>8. CASE Around \/ UNCHANGED svars
  BY <1>5, <1>8 DEF Around, fvars, svars
<1> QED BY <1>1, <1>2, <1>4, <1>6, <1>7, <1>8 DEF FNext, FleetStep

\* Every process that syncs a project owns its lock.
LEMMA SyncsOwnTheLock ==
    ASSUME FleetInv, NEW r \in Root, NEW p \in SyncsOf(r)
    PROVE  p \in Proc /\ Owns(p) /\ RootOf[p] = r
<1>1. CASE p \in Fleet
  <2>1. AtMember(p, "self") /\ Members[p][pos[p]] = r
    BY <1>1 DEF SyncsOf
  <2>2. RootOf[p] = r
    BY <1>1, <2>1 DEF AtMember, FleetInv, SelfIsOwn
  <2> QED BY <1>1, <2>1, <2>2, FleetAssumption DEF AtMember, Owns
<1>2. CASE p \notin Fleet
  BY <1>2 DEF SyncsOf, Owns
<1> QED BY <1>1, <1>2

\* No project is ever synced by two processes at a time (cmd_fleet_sync and
\* run_project_sync), for any fleets over any projects.
THEOREM FleetSyncsAlone ==
    ASSUME HoldWriters PROVE FSpec => []OneSyncPerProject
<1>1. FInit => FleetInv
  BY DEF FInit, FleetInv, SelfIsOwn
<1>2. FleetInv /\ [FNext]_svars => FleetInv'
  BY FleetInvStep
<1>3. FleetInv /\ MutualExclusion => OneSyncPerProject
  <2> SUFFICES ASSUME FleetInv, MutualExclusion, NEW r \in Root,
                      NEW p \in SyncsOf(r), NEW q \in SyncsOf(r)
               PROVE  p = q
    BY DEF OneSyncPerProject
  <2> QED BY SyncsOwnTheLock DEF MutualExclusion
<1> QED BY <1>1, <1>2, <1>3, FleetImplementsLock, LockExcludes, PTL DEF FSpec

-----------------------------------------------------------------------------
(* What fleets report, and how they stand to their own locks.              *)

ReportInv ==
    /\ FleetInv /\ LockInv
    /\ outcome = [f \in Fleet |-> [i \in MemberIds(f) |-> outcome[f][i]]]
    /\ synced \in [Proc -> BOOLEAN]
    /\ \A job \in Job : synced[ChildFor(job)] => job \in finished
    /\ AppliedMeansSynced

LEMMA JobsAre ==
    /\ \A f \in Fleet : \A i \in MemberIds(f) : <<f, i>> \in Job
    /\ \A job \in Job : \E f \in Fleet : \E i \in MemberIds(f) : job = <<f, i>>
    /\ \A job \in Job : /\ ChildFor(job) \in Proc \ Fleet
                        /\ RootOf[ChildFor(job)] = ProjectOf(job)
BY FleetAssumption DEF Job, ChildFor, ProjectOf

\* One member's outcome changes, and it is not a false "applied".
LEMMA HonestReport ==
    ASSUME ReportInv, NEW f \in Fleet, NEW i \in MemberIds(f), NEW what,
           outcome' = [outcome EXCEPT ![f][i] = what],
           finished \subseteq finished',
           what = "applied" => <<f, i>> \in finished'
    PROVE  /\ outcome' = [g \in Fleet |-> [j \in MemberIds(g) |-> outcome'[g][j]]]
           /\ AppliedMeansSynced'
<1>1. \A g \in Fleet : \A j \in MemberIds(g) :
         outcome'[g][j] = IF g = f /\ j = i THEN what ELSE outcome[g][j]
  BY DEF ReportInv
<1>2. outcome' = [g \in Fleet |-> [j \in MemberIds(g) |-> outcome'[g][j]]]
  BY DEF ReportInv
<1>3. AppliedMeansSynced'
  <2> SUFFICES ASSUME NEW g \in Fleet, NEW j \in MemberIds(g), outcome'[g][j] = "applied"
               PROVE  <<g, j>> \in finished'
    BY DEF AppliedMeansSynced, MemberIds
  <2>1. CASE g = f /\ j = i
    BY <1>1, <2>1
  <2>2. CASE ~(g = f /\ j = i)
    <3>1. outcome[g][j] = "applied"
      BY <1>1, <2>2
    <3>2. <<g, j>> \in finished
      BY <3>1 DEF ReportInv, AppliedMeansSynced
    <3> QED BY <3>2
  <2> QED BY <2>1, <2>2
<1> QED BY <1>2, <1>3

\* No step makes a report untrue: a process that works has its lock file, and a
\* fleet works in process only on the project of its lock.
LEMMA ReportInvStep ==
    ASSUME HoldWriters PROVE ReportInv /\ [FNext]_svars => ReportInv'
<1> SUFFICES ASSUME ReportInv, [FNext]_svars PROVE ReportInv'
  OBVIOUS
<1>1. FleetInv' /\ LockInv'
  BY FleetInvStep, FleetStepIsLockStep, LockTypeStep, LockInvStep
     DEF ReportInv, LockInv, LockStepInv
<1>0. /\ synced \in [Proc -> BOOLEAN] /\ FleetInv /\ OwnerHasFile /\ LockTypeOK
      /\ \A job \in Job : synced[ChildFor(job)] => job \in finished
  BY DEF ReportInv, LockInv
<1>2. ASSUME NEW f \in Fleet, NEW what, pos[f] \in MemberIds(f), Report(f, what),
             finished \subseteq finished', synced' = synced,
             what = "applied" => <<f, pos[f]>> \in finished'
      PROVE  ReportInv'
  <2>1. /\ outcome' = [g \in Fleet |-> [j \in MemberIds(g) |-> outcome'[g][j]]]
        /\ AppliedMeansSynced'
    BY <1>2, HonestReport DEF Report
  <2> QED BY <1>0, <1>1, <1>2, <2>1 DEF ReportInv, ChildFor
<1>3. ASSUME outcome' = outcome, finished \subseteq finished', synced' \in [Proc -> BOOLEAN],
             \A job \in Job : synced'[ChildFor(job)] => job \in finished'
      PROVE  ReportInv'
  <2>1. AppliedMeansSynced'
    BY <1>3, Zenon DEF ReportInv, AppliedMeansSynced
  <2>2. outcome' = [f \in Fleet |-> [i \in MemberIds(f) |-> outcome'[f][i]]]
    BY <1>3, Zenon DEF ReportInv
  <2> QED BY <1>1, <1>3, <2>1, <2>2 DEF ReportInv, ChildFor
<1>4. ASSUME NEW f \in Fleet, FleetStep(f) PROVE ReportInv'
  <2>1. CASE PassOver(f) \/ SpawnFails(f)
    BY <1>2, <2>1 DEF PassOver, SpawnFails, AtMember
  <2>2. CASE EndSelf(f)
    <3>1. AtMember(f, "self") /\ synced' = synced
      BY <2>2 DEF EndSelf
    <3>2. CASE Report(f, "failed") /\ finished' = finished
      BY <1>2, <3>1, <3>2 DEF AtMember
    <3>3. CASE /\ Report(f, "applied")
               /\ finished' = finished \union
                                {job \in {<<f, pos[f]>>} : UnderLock(f, ProjectOf(job))}
      <4>1. /\ f \in Proc /\ pos[f] \in MemberIds(f) /\ Members[f][pos[f]] = RootOf[f]
            /\ Owns(f)
        BY <1>0, <3>1, FleetAssumption DEF AtMember, FleetInv, SelfIsOwn, Owns
      <4>2. UnderLock(f, RootOf[f])
        BY <1>0, <4>1 DEF OwnerHasFile, UnderLock
      <4>3. ProjectOf(<<f, pos[f]>>) = RootOf[f]
        BY <4>1 DEF ProjectOf
      <4> QED BY <1>2, <3>1, <3>3, <4>1, <4>2, <4>3
    <3> QED BY <2>2, <3>2, <3>3 DEF EndSelf
  <2>3. CASE Collect(f)
    <3>1. AtMember(f, "child") /\ UNCHANGED <<synced, finished>>
      BY <2>3 DEF Collect
    <3>2. CASE synced[TheChild(f)] /\ Report(f, "applied")
      <4>1. <<f, pos[f]>> \in Job /\ ChildFor(<<f, pos[f]>>) = TheChild(f)
        BY <3>1, JobsAre DEF AtMember, ChildFor, TheChild
      <4> QED BY <1>0, <1>2, <3>1, <3>2, <4>1 DEF AtMember
    <3>3. CASE Report(f, "failed")
      BY <1>2, <3>1, <3>3 DEF AtMember
    <3> QED BY <2>3, <3>2, <3>3 DEF Collect
  <2>4. CASE StartSelf(f) \/ Spawn(f) \/ WriteLog(f)
    <3>1. UNCHANGED <<outcome, finished, synced>>
      BY <2>4 DEF StartSelf, Spawn, WriteLog
    <3> QED BY <1>0, <1>3, <3>1
  <2> QED BY <1>4, <2>1, <2>2, <2>3, <2>4 DEF FleetStep
<1>5. ASSUME NEW p \in Proc, ProcStep(p) PROVE ReportInv'
  <2>1. /\ outcome' = outcome /\ finished \subseteq finished'
        /\ synced' = synced \/ (EndWork(p) /\ synced' = [synced EXCEPT ![p] = TRUE])
        /\ finished' = finished \union
                         {job \in Job : /\ ChildFor(job) = p
                                       /\ EndWork(p) /\ synced'[p]
                                       /\ UnderLock(p, ProjectOf(job))}
    BY <1>5 DEF ProcStep
  <2>2. ASSUME NEW job \in Job, synced'[ChildFor(job)] PROVE job \in finished'
    <3>1. CASE synced[ChildFor(job)]
      BY <1>0, <2>1, <3>1
    <3>2. CASE ~synced[ChildFor(job)]
      <4>1. ChildFor(job) = p /\ EndWork(p) /\ synced'[p]
        BY <1>0, <2>1, <2>2, <3>2, JobsAre
      <4>2. UnderLock(p, RootOf[p])
        BY <1>0, <4>1 DEF EndWork, OwnerHasFile, Owns, UnderLock
      <4> QED BY <2>1, <4>1, <4>2, JobsAre
    <3> QED BY <3>1, <3>2
  <2>3. synced' \in [Proc -> BOOLEAN]
    BY <1>0, <2>1
  <2> QED BY <1>3, <2>1, <2>2, <2>3
<1>6. CASE Around \/ UNCHANGED svars
  <2>1. UNCHANGED <<outcome, finished, synced>>
    BY <1>6 DEF Around, fvars, svars
  <2> QED BY <1>0, <1>3, <2>1
<1> QED BY <1>4, <1>5, <1>6 DEF FNext

\* A member that a fleet reports as applied was synced to the end, under the lock
\* of its own project (cmd_fleet_sync, run_project_sync), whatever parents,
\* children and answers are lost and whoever recovers locks.
THEOREM ReportsAreHonest ==
    ASSUME HoldWriters PROVE FSpec => []AppliedMeansSynced
<1>1. FInit => ReportInv
  <2> SUFFICES ASSUME FInit PROVE ReportInv
    OBVIOUS
  <2>1. FleetInv /\ LockInv
    BY LockInitInv DEF FInit, FleetInv, SelfIsOwn
  <2>2. \A job \in Job : ~synced[ChildFor(job)]
    BY JobsAre DEF FInit
  <2> QED BY <2>1, <2>2 DEF FInit, ReportInv, AppliedMeansSynced
<1>2. ReportInv => AppliedMeansSynced
  BY DEF ReportInv
<1> QED BY <1>1, <1>2, ReportInvStep, PTL DEF FSpec

-----------------------------------------------------------------------------
\* A fleet waits for a child only on another project; a child that would sync
\* the fleet's own project is never started.
ContentionInv ==
    /\ LockTypeOK
    /\ FleetInv
    /\ \A f \in Fleet : doing[f] = "child" => ~IsSelf(f)
    /\ \A f \in Fleet : \A i \in MemberIds(f) :
          Members[f][i] = RootOf[f] => pc[Child[f][i]] = "start"

\* No step starts a child on its fleet's own project.
LEMMA ContentionInvStep == ContentionInv /\ [FNext]_svars => ContentionInv'
<1> SUFFICES ASSUME ContentionInv, [FNext]_svars PROVE ContentionInv'
  OBVIOUS
<1>1. LockTypeOK' /\ FleetInv'
  BY FleetStepIsLockStep, LockTypeStep, FleetInvStep DEF ContentionInv
<1>2. ASSUME NEW f \in Fleet, FleetStep(f) PROVE ContentionInv'
  <2>1. UNCHANGED pc
    BY <1>2 DEF FleetStep, PassOver, StartSelf, EndSelf, Spawn, SpawnFails,
       Collect, WriteLog, lvars
  <2>2. \A g \in Fleet : doing'[g] = "child" => ~IsSelf(g)'
    <3>1. CASE Spawn(f) \/ StartSelf(f) \/ WriteLog(f)
      BY <3>1 DEF Spawn, StartSelf, WriteLog, IsSelf, ContentionInv, FleetInv
    <3>2. CASE PassOver(f) \/ EndSelf(f) \/ SpawnFails(f) \/ Collect(f)
      BY <3>2 DEF PassOver, EndSelf, SpawnFails, Collect, Report, IsSelf,
         ContentionInv, FleetInv
    <3> QED BY <1>2, <3>1, <3>2 DEF FleetStep
  <2> QED BY <1>1, <2>1, <2>2 DEF ContentionInv
<1>3. ASSUME NEW p \in Proc, ProcStep(p) PROVE ContentionInv'
  <2>1. UNCHANGED <<pos, doing>>
    BY <1>3 DEF ProcStep
  <2>2. \A q \in Proc : q # p => pc'[q] = pc[q]
    BY <1>3 DEF ProcStep, Step, Acquire, Contend, CannotCreate, Initialize,
       InitializeFails, Classify, EndWork, Release, Moves, ContentionInv, LockTypeOK
  <2>3. ASSUME NEW f \in Fleet, NEW i \in MemberIds(f), Members[f][i] = RootOf[f]
        PROVE  pc[Child[f][i]] = "start" /\ Child[f][i] \in Proc /\ Child[f][i] # p
    <3>1. pc[Child[f][i]] = "start" /\ Child[f][i] \in Proc
      BY <2>3, FleetAssumption DEF ContentionInv
    <3>2. SUFFICES ASSUME Child[f][i] = p PROVE FALSE
      BY <3>1
    <3>3. Spawned(p)
      BY <1>3, <3>1, <3>2 DEF ProcStep, Children
    <3>4. PICK g \in Fleet : AtMember(g, "child") /\ TheChild(g) = p
      BY <3>3 DEF Spawned
    <3>5. g = f /\ pos[g] = i
      BY <3>2, <3>4, FleetAssumption DEF AtMember, TheChild
    <3> QED BY <2>3, <3>4, <3>5 DEF AtMember, IsSelf, ContentionInv
  <2> QED BY <1>1, <2>1, <2>2, <2>3 DEF ContentionInv, IsSelf
<1>4. CASE Around
  <2>1. \A p \in Proc : pc[p] = "start" => pc'[p] = "start"
    BY <1>4 DEF Around, Crash, Live, Moves, Age, Recover, Inspect, ContentionInv,
       LockTypeOK
  <2>2. \A f \in Fleet : \A i \in MemberIds(f) : Child[f][i] \in Proc
    BY FleetAssumption
  <2>3. UNCHANGED <<pos, doing>>
    BY <1>4 DEF Around, fvars
  <2> QED BY <1>1, <2>1, <2>2, <2>3 DEF ContentionInv, IsSelf
<1>5. CASE UNCHANGED svars
  BY <1>1, <1>5 DEF ContentionInv, IsSelf, svars, lvars, fvars
<1> QED BY <1>2, <1>3, <1>4, <1>5 DEF FNext

\* No fleet is refused by the lock it holds itself (run_project_sync), for any
\* fleets over any projects.
THEOREM FleetsDoNotBlockThemselves == FSpec => []NoSelfContention
<1>1. FInit => ContentionInv
  BY LockInitInv, FleetAssumption DEF FInit, ContentionInv, FleetInv, SelfIsOwn,
     LockInv, LockInit
<1>2. ContentionInv => NoSelfContention
  BY FleetAssumption DEF ContentionInv, NoSelfContention
<1> QED BY <1>1, <1>2, ContentionInvStep, PTL DEF FSpec
=============================================================================
