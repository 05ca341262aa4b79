----------------------------- MODULE FleetSync -----------------------------
(***************************************************************************)
(* `metactl fleet sync --apply` (crates/metactl/src/cli_fleet_sync.rs): a  *)
(* controller that holds the operation lock of its own project and syncs   *)
(* its members one after another.  A member that is the controller's own   *)
(* project is synced in the same process, under the lock it already holds; *)
(* any other by a child process, which takes that member's lock itself.    *)
(* Several fleets and other commands may run at once, on any projects.     *)
(***************************************************************************)
EXTENDS OperationLock, Sequences

CONSTANTS
    Fleet,       \* fleet invocations, a subset of Proc
    Members,     \* Members[f]: the projects of f's members, in order
    Child,       \* Child[f][i]: the process that syncs the i-th member of f
    FleetFaults  \* which steps may fail (see FleetFaultKinds)

FleetFaultKinds == {"select", "spawn", "sync", "answer", "log"}

MemberIds(f) == DOMAIN Members[f]
Children == UNION {{Child[f][i] : i \in MemberIds(f)} : f \in Fleet}

\* The i-th member of f, as a pair; its project; the process that would sync it.
Job == UNION {{f} \X MemberIds(f) : f \in Fleet}
ProjectOf(job) == Members[job[1]][job[2]]
ChildFor(job)  == Child[job[1]][job[2]]

ASSUME FleetAssumption ==
    /\ Fleet \subseteq Proc
    /\ Members \in [Fleet -> Seq(Root)]
    /\ \A f \in Fleet : \A i \in MemberIds(f) :
          Child[f][i] \in Proc \ Fleet /\ RootOf[Child[f][i]] = Members[f][i]
    /\ \A f, g \in Fleet : \A i \in MemberIds(f), j \in MemberIds(g) :
          Child[f][i] = Child[g][j] => f = g /\ i = j
    /\ FleetFaults \subseteq FleetFaultKinds

VARIABLES
    pos,      \* pos[f]: the member f is at
    doing,    \* doing[f]: "next", "self" (syncing in process) or "child"
    outcome,  \* outcome[f][i]: what f reports of its i-th member
    synced,   \* synced[p]: the sync of process p succeeded
    logged,   \* logged[f]: "none", "ok" or "failed"
    finished  \* history: the members whose sync succeeded under their project's lock

fvars == <<pos, doing, outcome, synced, logged, finished>>
svars == <<lvars, fvars>>

FInit ==
    /\ LockInit
    /\ pos = [f \in Fleet |-> 1]
    /\ doing = [f \in Fleet |-> "next"]
    /\ outcome = [f \in Fleet |-> [i \in MemberIds(f) |-> "none"]]
    /\ synced = [p \in Proc |-> FALSE]
    /\ logged = [f \in Fleet |-> "none"]
    /\ finished = {}

AtMember(f, what) == pc[f] = "work" /\ pos[f] \in MemberIds(f) /\ doing[f] = what
\* Wrong: the controller's own project is left to a child, too.
IsSelf_Never(f) == FALSE
\* Wrong: every member is synced in process, under the controller's lock alone.
IsSelf_Always(f) == TRUE

IsSelf(f) == Members[f][pos[f]] = RootOf[f]
TheChild(f) == Child[f][pos[f]]

Report(f, what) ==
    /\ outcome' = [outcome EXCEPT ![f][pos[f]] = what]
    /\ pos' = [pos EXCEPT ![f] = @ + 1]
    /\ doing' = [doing EXCEPT ![f] = "next"]

\* The member is not ready (skipped), its configuration or profile is invalid.
PassOver(f) ==
    /\ AtMember(f, "next")
    /\ \E what \in {"skipped", "failed"} : Report(f, what)
    /\ UNCHANGED <<lvars, synced, logged, finished>>

\* run_project_sync: the controller's own project.
StartSelf(f) ==
    /\ AtMember(f, "next") /\ IsSelf(f)
    /\ doing' = [doing EXCEPT ![f] = "self"]
    /\ UNCHANGED <<lvars, pos, outcome, synced, logged, finished>>

\* The lock file of project r is p's.
UnderLock(p, r) == lock[r] # NoLock /\ lock[r].by = p

EndSelf(f) ==
    /\ AtMember(f, "self")
    /\ \/ /\ Report(f, "applied")
          /\ finished' = finished \union
                           {job \in {<<f, pos[f]>>} : UnderLock(f, ProjectOf(job))}
       \/ "sync" \in FleetFaults /\ Report(f, "failed") /\ finished' = finished
    /\ UNCHANGED <<lvars, synced, logged>>

\* run_project_sync: another project, by a child process.
Spawn(f) ==
    /\ AtMember(f, "next") /\ ~IsSelf(f)
    /\ doing' = [doing EXCEPT ![f] = "child"]
    /\ UNCHANGED <<lvars, pos, outcome, synced, logged, finished>>

SpawnFails(f) ==
    /\ AtMember(f, "next") /\ ~IsSelf(f)
    /\ "spawn" \in FleetFaults
    /\ Report(f, "failed")
    /\ UNCHANGED <<lvars, synced, logged, finished>>

\* The parent blocks until the child has ended; an answer that does not parse
\* counts as a failure.
Collect(f) ==
    /\ AtMember(f, "child")
    /\ \/ /\ pc[TheChild(f)] = "done" /\ synced[TheChild(f)]
          /\ Report(f, "applied")
       \/ /\ pc[TheChild(f)] \in {"done", "dead"}
          /\ ~synced[TheChild(f)] \/ pc[TheChild(f)] = "dead" \/ "answer" \in FleetFaults
          /\ Report(f, "failed")
    /\ UNCHANGED <<lvars, synced, logged, finished>>

\* write_fleet_sync_log, after the last member.
WriteLog(f) ==
    /\ pc[f] = "work" /\ pos[f] > Len(Members[f]) /\ logged[f] = "none"
    /\ \/ logged' = [logged EXCEPT ![f] = "ok"]
       \/ "log" \in FleetFaults /\ logged' = [logged EXCEPT ![f] = "failed"]
    /\ UNCHANGED <<lvars, pos, doing, outcome, synced, finished>>

FleetStep(f) ==
    \/ PassOver(f) \/ StartSelf(f) \/ EndSelf(f)
    \/ Spawn(f) \/ SpawnFails(f) \/ Collect(f) \/ WriteLog(f)

(***************************************************************************)
(* The processes around it.                                                *)
(***************************************************************************)
Spawned(p) == \E f \in Fleet : AtMember(f, "child") /\ TheChild(f) = p

\* The members cannot be selected: the fleet ends before the first of them.
Unselected(f) == pos[f] = 1 /\ doing[f] = "next" /\ "select" \in FleetFaults

\* A child starts when its parent spawns it, and lives on if the parent dies; a
\* fleet ends after its log; the sync of any other process ends well or not.
ProcStep(p) ==
    /\ Step(p)
    /\ pc[p] = "start" /\ p \in Children => Spawned(p)
    /\ EndWork(p) /\ p \in Fleet => logged[p] # "none" \/ Unselected(p)
    /\ synced' \in IF EndWork(p) /\ p \notin Fleet
                   THEN {[synced EXCEPT ![p] = TRUE]}
                        \union {s \in {synced} : "sync" \in FleetFaults}
                   ELSE {synced}
    /\ finished' = finished \union
                     {job \in Job : /\ ChildFor(job) = p
                                   /\ EndWork(p) /\ synced'[p]
                                   /\ UnderLock(p, ProjectOf(job))}
    /\ UNCHANGED <<pos, doing, outcome, logged>>

Around ==
    /\ \/ \E p \in Proc : Crash(p)
       \/ \E r \in Root : Age(r)
       \/ \E c \in Person : Recover(c) \/ \E r \in Root : Inspect(c, r)
    /\ UNCHANGED fvars

FNext ==
    \/ \E f \in Fleet : FleetStep(f)
    \/ \E p \in Proc : ProcStep(p)
    \/ Around

FSpec == FInit /\ [][FNext]_svars

\* The scheduler runs every process that can take a step.
FairFSpec ==
    /\ FSpec
    /\ \A f \in Fleet : WF_svars(FleetStep(f))
    /\ \A p \in Proc : WF_svars(ProcStep(p))

-----------------------------------------------------------------------------
\* The processes that are syncing project r right now.
SyncsOf(r) ==
    {p \in Proc \ Fleet : RootOf[p] = r /\ pc[p] = "work"}
    \union {f \in Fleet : AtMember(f, "self") /\ Members[f][pos[f]] = r}

\* No project is ever synced by two processes at a time, whichever fleets list
\* it, in the controller's process or in a child, even when a fleet has died and
\* its child lives on.
OneSyncPerProject ==
    \A r \in Root : \A p, q \in SyncsOf(r) : p = q

\* A member that a fleet reports as applied was itself synced to the end, by its
\* child or by the fleet, and the lock file of that very member's project was still
\* the syncing process's own at that end: no member is synced under the lock of
\* another project, and none under a lock that was lost on the way.
AppliedMeansSynced ==
    \A f \in Fleet : \A i \in MemberIds(f) :
        outcome[f][i] = "applied" => <<f, i>> \in finished

\* No fleet refuses a member because of the lock the fleet itself holds.
NoSelfContention ==
    \A f \in Fleet : \A i \in MemberIds(f) :
        pc[Child[f][i]] = "contended" =>
            ~(Owns(f) /\ RootOf[f] = RootOf[Child[f][i]])

\* A fleet that does not die ends, whoever holds the locks of its members: also
\* two fleets that list each other's controllers do not wait for one another.
EveryFleetEnds ==
    \A f \in Fleet : pc[f] = "work" ~> pc[f] \in {"done", "dead"}
=============================================================================
