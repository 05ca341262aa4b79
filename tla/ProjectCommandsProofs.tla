------------------------ MODULE ProjectCommandsProofs ------------------------
(***************************************************************************)
(* The commands of a project run one at a time; as long as no preview runs *)
(* beside them, the index keeps what finished commands left there; and an  *)
(* apply applies what was compiled from the configuration it checked.      *)
(***************************************************************************)
EXTENDS ProjectCommands, OperationLockProofs

\* A step of the commands is a step of the operation lock or leaves it alone.
LEMMA CommandStepIsLockStep == [CNext]_cvars => [LockNext]_lvars
<1> SUFFICES ASSUME [CNext]_cvars PROVE [LockNext]_lvars
  OBVIOUS
<1>1. ASSUME NEW c \in Invocation, CommandStep(c) PROVE UNCHANGED lvars
  BY <1>1 DEF CommandStep, LoadForCompile, RefuseCompile, DigestConfig, CompileTarget,
     CompileFails, WriteLock, LoadForApply, RefuseApply, ApplyTarget, ApplyFails,
     LoadForRevert, RefuseRevert, RevertTarget, RevertFails, RevertLock,
     ListStates, ReadState, IndexFails, WriteIndex, Fail
<1>2. CASE LockStep
  BY <1>2 DEF LockStep
<1>3. CASE EditConfig
  BY <1>3 DEF EditConfig
<1>4. CASE UNCHANGED cvars
  BY <1>4 DEF cvars
<1> QED BY <1>1, <1>2, <1>3, <1>4 DEF CNext

\* The commands implement the operation lock, so it excludes them.
THEOREM CommandsExclude ==
    ASSUME HoldWriters PROVE CSpec => [](LockTypeOK /\ MutualExclusion)
<1>1. CInit => LockInit
  BY DEF CInit
<1> QED BY <1>1, CommandStepIsLockStep, LockTypeCorrect, LockExcludes, PTL
        DEF CSpec, LockSpec

-----------------------------------------------------------------------------
\* The variables of the commands keep to their types.
LEMMA CTypeStep == CTypeOK /\ [CNext]_cvars => CTypeOK'
<1> SUFFICES ASSUME CTypeOK, [CNext]_cvars PROVE CTypeOK'
  OBVIOUS
<1> USE DEF CTypeOK, Contents, LockContents
<1>1. ASSUME NEW c \in Invocation, CommandStep(c) PROVE CTypeOK'
  <2> USE DEF Goto, NextTodo
  <2>1. ASSUME Fail(c) PROVE CTypeOK'
    BY <2>1 DEF Fail, files
  <2>2. CASE LoadForCompile(c)
    BY <2>2 DEF LoadForCompile, files
  <2>3. CASE DigestConfig(c)
    <3>1. CommandOf[c].target # None => CommandOf[c].target \in Target
      BY CommandAssumption DEF Command
    <3>2. TargetsIn[ctx[c].config] \subseteq Target
      <4>1. ctx[c].config \in Config
        BY <2>3 DEF DigestConfig, At
      <4> QED BY <4>1, CommandAssumption
    <3> QED BY <2>3, <3>1, <3>2 DEF DigestConfig, files
  <2>4. CASE CompileTarget(c) \/ CompileFails(c)
    <3>1. [manifest EXCEPT ![First(todo[c])] = ctx[c].config] \in Contents
      OBVIOUS
    <3>2. manifest' \in Contents
      BY <2>4, <3>1 DEF CompileTarget, CompileFails
    <3>3. phase' \in {phase, [phase EXCEPT ![c] = "end"]} /\ ctx' = ctx
      BY <2>4 DEF CompileTarget, CompileFails
    <3>4. todo' \in {todo, [todo EXCEPT ![c] = todo[c] \ {First(todo[c])}]}
      BY <2>4 DEF CompileTarget, CompileFails
    <3>5. UNCHANGED <<config, lockfile, state, index, digest, chosen, seen, ok, last>>
      BY <2>4 DEF CompileTarget, CompileFails
    <3>6. phase' \in [Invocation -> {"load", "digest", "compile", "apply",
                                    "targets", "revert", "index", "end"}]
      BY <3>3
    <3>8. todo' \in [Invocation -> SUBSET Target]
      <4> DEFINE rest == todo[c] \ {First(todo[c])}
      <4>1. rest \in SUBSET Target
        OBVIOUS
      <4>2. todo' = todo \/ todo' = [todo EXCEPT ![c] = rest]
        BY <3>4
      <4> HIDE DEF rest
      <4> QED BY <4>1, <4>2
    <3>7. \A d \in Invocation : phase'[d] = "digest" => ctx'[d].config \in Config
      BY <3>3
    <3> QED BY <3>2, <3>3, <3>5, <3>6, <3>7, <3>8
  <2>5. CASE WriteLock(c)
    BY <2>5 DEF WriteLock
  <2>6. CASE LoadForApply(c)
    BY <2>6 DEF LoadForApply, Selected, files
  <2>l. ASSUME Leaves(c, seen[c][First(todo[c])]) \/ Leaves(c, None)
        PROVE  state' \in Contents /\ last' \in [Target -> Invocation \union {None}]
    <3> DEFINE t == First(todo[c])
    <3>1. PICK x : /\ x = seen[c][t] \/ x = None
                   /\ state' = [state EXCEPT ![t] = x]
                   /\ last' = [last EXCEPT ![t] = c]
      BY <2>l DEF Leaves
    <3>2. t \in Target => x \in Config \union {None}
      BY <3>1
    <3> HIDE DEF t
    <3> QED BY <3>1, <3>2
  <2>f. ASSUME ApplyFails(c) \/ RevertFails(c)
        PROVE  CTypeOK'
    <3>1. /\ phase' = [phase EXCEPT ![c] = "end"]
          /\ UNCHANGED <<config, lockfile, manifest, index, ctx, digest, chosen,
                         todo, seen, ok>>
          /\ \/ UNCHANGED <<state, last>>
             \/ Leaves(c, seen[c][First(todo[c])]) \/ Leaves(c, None)
      BY <2>f DEF ApplyFails, RevertFails
    <3>2. state' \in Contents /\ last' \in [Target -> Invocation \union {None}]
      BY <2>l, <3>1
    <3> QED BY <3>1, <3>2
  <2>7. CASE ApplyTarget(c)
    <3>1. state' \in Contents /\ last' \in [Target -> Invocation \union {None}]
      BY <2>l, <2>7 DEF ApplyTarget
    <3> QED BY <2>7, <3>1 DEF ApplyTarget
  <2>8. CASE LoadForRevert(c)
    BY <2>8 DEF LoadForRevert, Selected, files
  <2>9. CASE RevertTarget(c)
    <3>1. state' \in Contents /\ last' \in [Target -> Invocation \union {None}]
      BY <2>l, <2>9 DEF RevertTarget
    <3> QED BY <2>9, <3>1 DEF RevertTarget
  <2>10. CASE RevertLock(c)
    BY <2>10 DEF RevertLock
  <2>11. CASE ListStates(c)
    BY <2>11 DEF ListStates, NoStates, files
  <2>12. CASE ReadState(c)
    BY <2>12 DEF ReadState, files
  <2>13. CASE WriteIndex(c)
    BY <2>13 DEF WriteIndex
  <2> QED BY <1>1, <2>1, <2>2, <2>3, <2>4, <2>5, <2>6, <2>7, <2>8, <2>9, <2>10,
             <2>11, <2>12, <2>13, <2>f
          DEF CommandStep, RefuseCompile, RefuseApply, RefuseRevert, IndexFails
<1>2. CASE LockStep
  BY <1>2 DEF LockStep, files, locals
<1>3. CASE EditConfig
  BY <1>3 DEF EditConfig, locals
<1>4. CASE UNCHANGED cvars
  BY <1>4 DEF cvars, files, locals
<1> QED BY <1>1, <1>2, <1>3, <1>4 DEF CNext

LEMMA CInitType == CInit => CTypeOK
BY DEF CInit, CTypeOK, NoLockFile, NoStates, LockContents, Contents

\* Every variable of the commands keeps its type: no step takes a target that is
\* not one, or reads a configuration that is not there (cmd_compile, cmd_apply,
\* cmd_revert).
THEOREM CommandsTypeCorrect == CSpec => []CTypeOK
BY CInitType, CTypeStep, PTL DEF CSpec

-----------------------------------------------------------------------------
(***************************************************************************)
(* The index.  The inductive invariant says of the invocation that is      *)
(* rebuilding the index that what it has read is still true, because       *)
(* nobody else runs, and of every target that its last invocation, if it   *)
(* has already succeeded, left the index equal to the state.               *)
(***************************************************************************)
\* Only a compile succeeds without rebuilding the index, and it applies nothing.
LastApplies ==
    \A t \in Target : last[t] # None => ~Is(last[t], {"compile"})

PhasesOfCompile ==
    \A c \in Invocation :
        /\ phase[c] \in {"targets", "revert", "index"} => ~Is(c, {"compile"})
        /\ phase[c] = "apply" => Is(c, {"sync"})
        /\ phase[c] \in {"digest", "compile"} => Is(c, {"compile", "sync"})

\* What the rebuilding invocation has read is what the state files hold.
ReadIsCurrent ==
    \A p \in Proc : pc[p] = "work" /\ phase[p] = "index" =>
        \A t \in Target \ todo[p] : seen[p][t] = state[t]

OkAtEnd == \A c \in Invocation : ok[c] => phase[c] = "end"

IndexFollows ==
    \A t \in Target : last[t] # None /\ ok[last[t]] => index[t] = state[t]

\* A command does nothing before its process holds the lock.
NotBegun ==
    \A p \in Proc : pc[p] \in {"start", "created", "contended"} => phase[p] = "load"

IndexInv == /\ CTypeOK /\ LastApplies /\ PhasesOfCompile /\ NotBegun
            /\ ReadIsCurrent /\ OkAtEnd /\ IndexFollows

LEMMA IndexInit == CInit => IndexInv
BY CInitType DEF CInit, IndexInv, LastApplies, PhasesOfCompile, ReadIsCurrent,
   OkAtEnd, IndexFollows, NotBegun, NoStates, Invocation

\* A process goes to work only from the lock it has created.
LEMMA LockMoves ==
    ASSUME LockTypeOK, LockNext
    PROVE  \A p \in Proc :
             /\ pc'[p] = "work" => pc[p] \in {"created", "work"}
             /\ pc'[p] \in {"start", "created", "contended"}
                  => pc[p] \in {"start", "created", "contended"}
<1> USE DEF LockTypeOK, Moves
<1>1. ASSUME NEW q \in Proc, Step(q)
      PROVE  \E to \in {"created", "contended", "work", "release", "done"} :
               /\ pc' = [pc EXCEPT ![q] = to]
               /\ to \in {"created", "contended"} => pc[q] = "start"
               /\ to = "work" => pc[q] = "created"
  BY <1>1 DEF Step, Acquire, Contend, CannotCreate, Initialize, InitializeFails,
     Classify, EndWork, Release
<1>2. ASSUME NEW q \in Proc, Crash(q) PROVE pc' = [pc EXCEPT ![q] = "dead"]
  BY <1>2 DEF Crash
<1>3. ASSUME \/ \E r \in Root : Age(r)
             \/ \E p \in Person : Recover(p) \/ \E r \in Root : Inspect(p, r)
      PROVE  pc' = pc
  BY <1>3 DEF Age, Recover, Inspect
<1> QED BY <1>1, <1>2, <1>3 DEF LockNext

\* Without previews, the steps of one command preserve the invariant while no
\* other process works.
LEMMA IndexStep ==
    ASSUME HoldWriters, Preview = {}
    PROVE  LockTypeOK /\ MutualExclusion /\ IndexInv /\ [CNext]_cvars => IndexInv'
<1> SUFFICES ASSUME LockTypeOK, MutualExclusion, IndexInv, [CNext]_cvars
             PROVE  IndexInv'
  OBVIOUS
<1>0. CTypeOK'
  BY CTypeStep DEF IndexInv
<1> USE DEF IndexInv, LastApplies, PhasesOfCompile, ReadIsCurrent, OkAtEnd,
            IndexFollows, NotBegun, Is
<1>1. ASSUME NEW c \in Invocation, CommandStep(c) PROVE IndexInv'
  <2>0. /\ c \in Proc /\ pc[c] = "work" /\ pc' = pc
        /\ \A q \in Proc : q # c => pc[q] # "work"
    <3>1. c \in Proc
      BY DEF Invocation
    <3>2. Runs(c)
      BY <1>1 DEF CommandStep, LoadForCompile, RefuseCompile, DigestConfig, CompileTarget,
         CompileFails, WriteLock, LoadForApply, RefuseApply, ApplyTarget,
         ApplyFails, LoadForRevert, RefuseRevert, RevertTarget, RevertFails,
         RevertLock, ListStates, ReadState, IndexFails, WriteIndex, ToApply, At
    <3>3. pc' = pc
      BY <1>1 DEF CommandStep, LoadForCompile, RefuseCompile, DigestConfig, CompileTarget,
         CompileFails, WriteLock, LoadForApply, RefuseApply, ApplyTarget,
         ApplyFails, LoadForRevert, RefuseRevert, RevertTarget, RevertFails,
         RevertLock, ListStates, ReadState, IndexFails, WriteIndex, Fail, lvars
    <3> QED BY <3>1, <3>2, <3>3, CommandAssumption DEF Runs, MutualExclusion, Owns
  <2>t. /\ phase \in [Invocation -> {"load", "digest", "compile", "apply", "targets",
                                     "revert", "index", "end"}]
        /\ ok \in [Invocation -> BOOLEAN]
        /\ Proc \subseteq Invocation
    BY DEF CTypeOK, Invocation
  \* Steps that only move c on, outside the index.
  <2>1. ASSUME \A d \in Invocation : d # c => phase'[d] = phase[d],
               phase'[c] # "index", phase[c] # "end",
               phase'[c] \in {"targets", "revert"} => ~Is(c, {"compile"}),
               phase'[c] = "apply" => Is(c, {"sync"}),
               phase'[c] \in {"digest", "compile"} => Is(c, {"compile", "sync"}),
               UNCHANGED <<state, index, last, ok>>
        PROVE  IndexInv'
    <3>1. LastApplies' /\ IndexFollows'
      BY <2>1
    <3>2. PhasesOfCompile'
      <4> SUFFICES ASSUME NEW d \in Invocation
                   PROVE  /\ phase'[d] \in {"targets", "revert", "index"}
                               => ~Is(d, {"compile"})
                          /\ phase'[d] = "apply" => Is(d, {"sync"})
                          /\ phase'[d] \in {"digest", "compile"}
                               => Is(d, {"compile", "sync"})
        BY DEF PhasesOfCompile, Is
      <4>1. CASE d = c
        BY <2>1, <4>1
      <4>2. CASE d # c
        BY <2>1, <4>2
      <4> QED BY <4>1, <4>2
    <3>3. NotBegun'
      BY <2>0, <2>1, <2>t
    <3>4. ReadIsCurrent'
      BY <2>0, <2>1
    <3>5. OkAtEnd'
      BY <2>1
    <3> QED BY <1>0, <3>1, <3>2, <3>3, <3>4, <3>5
  <2>2. ASSUME Fail(c), phase[c] # "end" PROVE IndexInv'
    <3>1. /\ phase' = [phase EXCEPT ![c] = "end"]
          /\ UNCHANGED <<state, index, last, ok>>
      BY <2>2 DEF Fail, Goto, files
    <3>9. phase'[c] = "end" /\ \A d \in Invocation : d # c => phase'[d] = phase[d]
      BY <2>t, <3>1
    <3> QED BY <2>1, <2>2, <3>1, <3>9
  <2>3. CASE LoadForCompile(c)
    <3>1. /\ phase' = [phase EXCEPT ![c] = "digest"] /\ phase[c] = "load"
          /\ UNCHANGED <<state, index, last, ok>> /\ Is(c, {"compile", "sync"})
      BY <2>3 DEF LoadForCompile, Goto, files, At
    <3>9. phase'[c] = "digest" /\ \A d \in Invocation : d # c => phase'[d] = phase[d]
      BY <2>t, <3>1
    <3> QED BY <2>1, <3>1, <3>9
  <2>4. CASE DigestConfig(c)
    <3>1. /\ phase' = [phase EXCEPT ![c] = "compile"] /\ phase[c] = "digest"
          /\ UNCHANGED <<state, index, last, ok>>
      BY <2>4 DEF DigestConfig, Goto, files, At
    <3>2. Is(c, {"compile", "sync"})
      BY <3>1
    <3>9. phase'[c] = "compile" /\ \A d \in Invocation : d # c => phase'[d] = phase[d]
      BY <2>t, <3>1
    <3> QED BY <2>1, <3>1, <3>2, <3>9
  <2>5. CASE CompileTarget(c)
    <3>1. phase[c] = "compile" /\ UNCHANGED <<state, index, last, ok, phase, seen>>
      BY <2>5 DEF CompileTarget, At
    <3>2. ReadIsCurrent'
      BY <2>0, <3>1
    <3> QED BY <2>0, <1>0, <3>1, <3>2
  <2>6. CASE CompileFails(c)
    <3>1. /\ phase' = [phase EXCEPT ![c] = "end"] /\ phase[c] # "end"
          /\ UNCHANGED <<state, index, last, ok>>
      BY <2>6 DEF CompileFails, Goto, At
    <3>9. phase'[c] = "end" /\ \A d \in Invocation : d # c => phase'[d] = phase[d]
      BY <2>t, <3>1
    <3> QED BY <2>1, <3>1, <3>9
  <2>7. CASE WriteLock(c)
    <3>0. phase[c] = "compile" /\ UNCHANGED <<state, index, last>>
      BY <2>7 DEF WriteLock, At
    <3>1. CASE Is(c, {"sync"})
      <4>1. phase' = [phase EXCEPT ![c] = "apply"] /\ ok' = ok
        BY <2>7, <3>1 DEF WriteLock, Goto
      <4>2. phase'[c] = "apply" /\ \A d \in Invocation : d # c => phase'[d] = phase[d]
        BY <2>t, <4>1
      <4> QED BY <2>1, <3>0, <3>1, <4>1, <4>2
    <3>2. CASE ~Is(c, {"sync"})
      <4>1. Is(c, {"compile"})
        BY <3>0, <3>2
      <4>2. phase' = [phase EXCEPT ![c] = "end"] /\ ok' = [ok EXCEPT ![c] = TRUE]
        BY <2>7, <3>2 DEF WriteLock, Goto
      <4>3. /\ phase'[c] = "end" /\ ok'[c]
            /\ \A d \in Invocation : d # c => phase'[d] = phase[d] /\ ok'[d] = ok[d]
        BY <2>t, <4>2
      <4>4. \A t \in Target : last[t] # None => last[t] # c /\ last[t] \in Invocation
        BY <4>1 DEF CTypeOK
      <4>5. IndexFollows'
        BY <3>0, <4>3, <4>4
      <4>6. ReadIsCurrent'
        BY <2>0, <3>0, <4>3
      <4>7. PhasesOfCompile'
        <5> SUFFICES ASSUME NEW d \in Invocation
                     PROVE  /\ phase'[d] \in {"targets", "revert", "index"}
                                 => ~Is(d, {"compile"})
                            /\ phase'[d] = "apply" => Is(d, {"sync"})
                            /\ phase'[d] \in {"digest", "compile"}
                                 => Is(d, {"compile", "sync"})
          BY DEF PhasesOfCompile, Is
        <5>1. CASE d = c
          BY <4>3, <5>1
        <5>2. CASE d # c
          BY <4>3, <5>2
        <5> QED BY <5>1, <5>2
      <4>8. NotBegun'
        BY <2>0, <2>t, <4>3
      <4>9. LastApplies' /\ OkAtEnd'
        BY <3>0, <4>3
      <4> QED BY <1>0, <4>5, <4>6, <4>7, <4>8, <4>9
    <3> QED BY <3>1, <3>2
  <2>8. CASE LoadForApply(c)
    <3>1. /\ phase' = [phase EXCEPT ![c] = "targets"] /\ phase[c] \in {"load", "apply"}
          /\ UNCHANGED <<state, index, last, ok>>
          /\ phase[c] = "load" => Is(c, {"apply", "preview"})
      BY <2>8 DEF LoadForApply, ToApply, Goto, files, At
    <3>2. ~Is(c, {"compile"})
      BY <3>1
    <3>9. phase'[c] = "targets" /\ \A d \in Invocation : d # c => phase'[d] = phase[d]
      BY <2>t, <3>1
    <3> QED BY <2>1, <3>1, <3>2, <3>9
  <2>9. CASE LoadForRevert(c)
    <3>1. /\ phase' = [phase EXCEPT ![c] = "revert"] /\ phase[c] = "load"
          /\ UNCHANGED <<state, index, last, ok>> /\ Is(c, {"revert"})
      BY <2>9 DEF LoadForRevert, Goto, files, At
    <3>2. ~Is(c, {"compile"})
      BY <3>1
    <3>9. phase'[c] = "revert" /\ \A d \in Invocation : d # c => phase'[d] = phase[d]
      BY <2>t, <3>1
    <3> QED BY <2>1, <3>1, <3>2, <3>9
  <2>10. CASE RevertLock(c)
    <3>1. /\ phase' = [phase EXCEPT ![c] = "targets"] /\ phase[c] = "revert"
          /\ UNCHANGED <<state, index, last, ok>>
      BY <2>10 DEF RevertLock, Goto, At
    <3>2. ~Is(c, {"compile"})
      BY <3>1
    <3>9. phase'[c] = "targets" /\ \A d \in Invocation : d # c => phase'[d] = phase[d]
      BY <2>t, <3>1
    <3> QED BY <2>1, <3>1, <3>2, <3>9
  <2>l. ASSUME NEW x, Leaves(c, x), phase[c] \in {"targets", "revert"},
               UNCHANGED <<index, ok>>
        PROVE  LastApplies' /\ IndexFollows'
    \* c is the last to change the target, and c has not succeeded.
    <3>1. PICK t : /\ \A u \in Target : u # t => state'[u] = state[u]
                   /\ last' = [last EXCEPT ![t] = c]
      BY <2>l DEF Leaves, CTypeOK, Contents
    <3> QED BY <2>t, <2>l, <3>1 DEF CTypeOK
  <2>11. CASE ApplyTarget(c) \/ RevertTarget(c)
    <3>1. /\ UNCHANGED <<index, phase, ok>>
          /\ phase[c] \in {"targets", "revert"}
      BY <2>11 DEF ApplyTarget, RevertTarget, At
    <3>2. \/ \E x : Leaves(c, x)
          \/ UNCHANGED <<state, last>>
      BY <2>11 DEF ApplyTarget, RevertTarget
    <3>3. LastApplies' /\ IndexFollows'
      BY <2>l, <3>1, <3>2
    <3> QED BY <2>0, <3>1, <3>3, <1>0
  <2>15. CASE ApplyFails(c) \/ RevertFails(c)
    <3>1. /\ UNCHANGED <<index, ok>> /\ phase' = [phase EXCEPT ![c] = "end"]
          /\ phase[c] \in {"targets", "revert"}
      BY <2>15 DEF ApplyFails, RevertFails, At, Goto
    <3>2. \/ \E x : Leaves(c, x)
          \/ UNCHANGED <<state, last>>
      BY <2>15 DEF ApplyFails, RevertFails
    <3>3. LastApplies' /\ IndexFollows'
      BY <2>l, <3>1, <3>2
    <3>4. phase'[c] = "end" /\ \A d \in Invocation : d # c => phase'[d] = phase[d]
      BY <2>t, <3>1
    <3>5. PhasesOfCompile'
      BY <3>4
    <3>6. NotBegun' /\ ReadIsCurrent'
      BY <2>0, <2>t, <3>4
    <3>7. OkAtEnd'
      BY <2>t, <3>1, <3>4
    <3> QED BY <1>0, <3>3, <3>5, <3>6, <3>7
  <2>12. CASE ListStates(c)
    <3>1. /\ phase' = [phase EXCEPT ![c] = "index"] /\ phase[c] = "targets"
          /\ UNCHANGED <<state, index, last, ok>>
      BY <2>12 DEF ListStates, Goto, files, At
    <3>2. \A t \in Target \ todo'[c] : seen'[c][t] = state[t]
      BY <2>12 DEF ListStates, NoStates, CTypeOK
    <3> QED BY <2>0, <2>t, <3>1, <3>2, <1>0
  <2>13. CASE ReadState(c)
    <3>1. UNCHANGED <<state, index, last, ok, phase>> /\ phase[c] = "index"
      BY <2>13 DEF ReadState, files, At
    <3>2. \A t \in Target \ todo'[c] : seen'[c][t] = state[t]
      <4> DEFINE u == First(todo[c])
      <4>1. /\ seen' = [seen EXCEPT ![c] = [seen[c] EXCEPT ![u] = state[u]]]
            /\ todo' = [todo EXCEPT ![c] = todo[c] \ {u}]
        BY <2>13 DEF ReadState, NextTodo
      <4> HIDE DEF u
      <4>2. \A t \in Target : seen'[c][t] = IF t = u THEN state[t] ELSE seen[c][t]
        BY <4>1 DEF CTypeOK, Contents
      <4>3. todo'[c] = todo[c] \ {u}
        BY <4>1 DEF CTypeOK
      <4> QED BY <2>0, <3>1, <4>2, <4>3
    <3> QED BY <2>0, <3>1, <3>2, <1>0
  <2>14. CASE WriteIndex(c)
    <3>1. /\ phase' = [phase EXCEPT ![c] = "end"] /\ phase[c] = "index"
          /\ ok' = [ok EXCEPT ![c] = TRUE] \/ ok' = ok
          /\ index' = seen[c]
          /\ todo[c] = {} /\ UNCHANGED <<state, last>>
      BY <2>14 DEF WriteIndex, Goto, At
    <3>2. \A t \in Target : index'[t] = state'[t]
      BY <2>0, <3>1
    <3> QED BY <2>0, <2>t, <3>1, <3>2, <1>0
  <2> QED BY <1>1, <2>2, <2>3, <2>4, <2>5, <2>6, <2>7, <2>8, <2>9, <2>10, <2>11,
             <2>12, <2>13, <2>14, <2>15
          DEF CommandStep, RefuseCompile, RefuseApply, RefuseRevert, IndexFails,
              ToApply, At
<1>2. CASE LockStep
  BY <1>0, <1>2, LockMoves DEF LockStep, files, locals
<1>3. CASE EditConfig
  BY <1>0, <1>3 DEF EditConfig, locals, lvars
<1>4. CASE UNCHANGED cvars
  BY <1>0, <1>4 DEF cvars, files, locals, lvars
<1> QED BY <1>1, <1>2, <1>3, <1>4 DEF CNext

\* Without previews, whatever a finished apply or revert wrote to the index stays
\* in it until another command changes the target (update_managed_files_index).
THEOREM IndexIsKept ==
    ASSUME HoldWriters, Preview = {} PROVE CSpec => []FinishedWorkIsIndexed
<1>1. CInit => IndexInv
  BY IndexInit
<1>2. LockTypeOK /\ MutualExclusion /\ IndexInv /\ [CNext]_cvars => IndexInv'
  BY IndexStep
<1>3. IndexInv => FinishedWorkIsIndexed
  BY DEF IndexInv, IndexFollows, FinishedWorkIsIndexed
<1> QED BY <1>1, <1>2, <1>3, CommandsExclude, PTL DEF CSpec

-----------------------------------------------------------------------------
(***************************************************************************)
(* What is applied.  Between commands that ended well, the manifests of    *)
(* the targets in the lock file were compiled from the configuration it    *)
(* records.  A compile breaks that from its first manifest to its lock     *)
(* file, and restores it only if it gets there, which is why a plain apply *)
(* relies on CompiledWell and a sync, which has just got there, does not.  *)
(***************************************************************************)
LockIsCompiled == \A t \in lockfile.targets : manifest[t] = lockfile.config
NoCompiler == \A p \in Proc : phase[p] # "compile"
Sound == CompiledWell /\ NoCompiler => LockIsCompiled
Relies(p) == Is(p, {"sync"}) \/ (Is(p, {"apply"}) /\ CompiledWell)

\* What a working command knows of the files.
Knows(p) ==
    /\ phase[p] \in {"digest", "compile"} => ctx[p].config = config
    /\ phase[p] = "compile" => /\ digest[p] = config
                               /\ \A t \in chosen[p] \ todo[p] : manifest[t] = config
    /\ phase[p] = "apply" => LockIsCompiled
    /\ phase[p] = "revert" => ctx[p].lock = lockfile
    /\ phase[p] \in {"targets", "index"} /\ Relies(p) =>
         \A t \in chosen[p] :
            /\ ctx[p].lock.config = ctx[p].config
            /\ phase[p] = "targets" => seen[p][t] = ctx[p].config
            /\ phase[p] = "index" \/ t \notin todo[p] => state[t] = ctx[p].config

KindOfPhase(c) ==
    /\ phase[c] \in {"digest", "compile"} => Is(c, {"compile", "sync"})
    /\ phase[c] = "apply" => Is(c, {"sync"})
    /\ phase[c] = "revert" => Is(c, {"revert"})

\* A process that neither works nor has died has not begun or has ended.
Idle == \A p \in Proc : pc[p] \notin {"work", "dead"} => phase[p] \in {"load", "end"}

MatchInv == /\ CTypeOK /\ NotBegun /\ OkAtEnd /\ Idle
            /\ \A c \in Invocation : KindOfPhase(c)
            /\ \A p \in Proc : pc[p] = "work" => Knows(p)
            /\ Sound

LEMMA MatchInit == CInit => MatchInv
<1> SUFFICES ASSUME CInit PROVE MatchInv
  OBVIOUS
<1>1. \A c \in Invocation : phase[c] = "load" /\ ~ok[c]
  BY DEF CInit
<1>2. \A p \in Proc : p \in Invocation
  BY DEF Invocation
<1>3. LockIsCompiled
  BY DEF CInit, LockIsCompiled, NoLockFile
<1> QED BY <1>1, <1>2, <1>3, CInitType
        DEF MatchInv, NotBegun, OkAtEnd, Idle, KindOfPhase, Knows, Sound

LEMMA DeadStay ==
    ASSUME LockTypeOK, LockNext
    PROVE  \A p \in Proc : /\ pc[p] = "dead" => pc'[p] = "dead"
                           /\ pc[p] = "work" => pc'[p] \in {"work", "release", "dead"}
<1> USE DEF LockTypeOK, Moves
<1>1. ASSUME NEW q \in Proc, Step(q)
      PROVE  \E to : /\ pc' = [pc EXCEPT ![q] = to] /\ pc[q] # "dead"
                     /\ pc[q] = "work" => to = "release"
  BY <1>1 DEF Step, Acquire, Contend, CannotCreate, Initialize, InitializeFails,
     Classify, EndWork, Release
<1>2. ASSUME NEW q \in Proc, Crash(q) PROVE pc' = [pc EXCEPT ![q] = "dead"]
  BY <1>2 DEF Crash
<1>3. ASSUME \/ \E r \in Root : Age(r)
             \/ \E p \in Person : Recover(p) \/ \E r \in Root : Inspect(p, r)
      PROVE  pc' = pc
  BY <1>3 DEF Age, Recover, Inspect
<1> QED BY <1>1, <1>2, <1>3 DEF LockNext

\* A compile that ends badly is never forgotten.
LEMMA MatchLockStep ==
    ASSUME LockTypeOK, MatchInv, LockStep PROVE MatchInv'
<1>0. /\ UNCHANGED <<files, locals, last>> /\ LockNext
      /\ \A p \in Proc : pc[p] = "work" /\ pc'[p] = "release" => phase[p] = "end"
  BY DEF LockStep
<1>1. UNCHANGED <<config, lockfile, manifest, state, index, phase, ctx, digest, chosen, todo, seen, ok>>
  BY <1>0 DEF files, locals
<1>2. CTypeOK'
  BY <1>0, <1>1 DEF MatchInv, CTypeOK, Contents, LockContents
<1>3. CompiledWell' => CompiledWell
  BY <1>0, <1>1, DeadStay DEF CompiledWell, Is
<1>4. NotBegun' /\ OkAtEnd' /\ Idle'
  BY <1>0, <1>1, LockMoves, DeadStay DEF MatchInv, NotBegun, OkAtEnd, Idle
<1>5. (\A c \in Invocation : KindOfPhase(c))'
  BY <1>1 DEF MatchInv, KindOfPhase, Is
<1>6. Sound'
  BY <1>1, <1>3 DEF MatchInv, Sound, NoCompiler, LockIsCompiled
<1>7. ASSUME NEW p \in Proc, pc'[p] = "work" PROVE Knows(p)'
  <2>1. pc[p] \in {"created", "work"}
    BY <1>0, <1>7, LockMoves
  <2>2. CASE pc[p] = "created"
    <3>1. phase'[p] = "load"
      BY <1>1, <2>2 DEF MatchInv, NotBegun
    <3> QED BY <3>1 DEF Knows
  <2>3. CASE pc[p] = "work"
    <3>1. Knows(p)
      BY <2>3 DEF MatchInv
    <3>2. Relies(p)' => Relies(p)
      BY <1>3 DEF Relies, Is
    <3> QED BY <1>1, <3>1, <3>2 DEF Knows, LockIsCompiled
  <2> QED BY <2>1, <2>2, <2>3
<1> QED BY <1>2, <1>4, <1>5, <1>6, <1>7 DEF MatchInv

LEMMA MatchEdit ==
    ASSUME ~EditsDuring, MatchInv, EditConfig PROVE MatchInv'
<1>0. /\ config' \in Config
      /\ UNCHANGED <<lvars, lockfile, manifest, state, index, locals, last>>
      /\ \A p \in Proc : pc[p] = "work" => phase[p] = "end"
  <2>1. \A p \in Proc : p \in Invocation /\ p \notin Preview
    BY CommandAssumption DEF Invocation
  <2> QED BY <2>1 DEF EditConfig, Runs
<1>1. UNCHANGED <<pc, lockfile, manifest, state, index, phase, ctx, digest, chosen, todo, seen, ok, last>>
  BY <1>0 DEF locals, lvars
<1>2. CTypeOK'
  BY <1>0, <1>1 DEF MatchInv, CTypeOK, Contents, LockContents
<1>3. (\A p \in Proc : pc[p] = "work" => Knows(p))'
  BY <1>0, <1>1 DEF Knows
<1> QED BY <1>1, <1>2, <1>3 DEF MatchInv, NotBegun, OkAtEnd, Idle, KindOfPhase, Is, Sound,
            CompiledWell, NoCompiler, LockIsCompiled

\* A preview changes no file but the index.
LEMMA MatchPreview ==
    ASSUME MatchInv, NEW c \in Preview, CommandStep(c), CTypeOK' PROVE MatchInv'
<1>1. /\ c \in Invocation /\ c \notin Proc /\ Is(c, {"preview"}) /\ KindOfPhase(c)
      /\ \A k : Is(c, k) <=> "preview" \in k
      /\ \A p \in Proc : p \in Invocation /\ p # c
  <2>1. c \in Invocation /\ c \notin Proc
    BY CommandAssumption DEF Invocation
  <2>2. CommandOf[c].kind = "preview"
    BY <2>1, CommandAssumption
  <2> QED BY <2>1, <2>2 DEF Is, Invocation, MatchInv
<1>2. /\ phase[c] \notin {"digest", "compile", "apply", "revert"}
      /\ \/ LoadForApply(c) \/ RefuseApply(c) \/ ApplyTarget(c) \/ ApplyFails(c)
         \/ ListStates(c) \/ ReadState(c) \/ IndexFails(c) \/ WriteIndex(c)
  <2>1. phase[c] \notin {"digest", "compile", "apply", "revert"}
    BY <1>1 DEF KindOfPhase
  <2> QED BY <1>1, <2>1 DEF CommandStep, LoadForCompile, RefuseCompile, DigestConfig,
       CompileTarget, CompileFails, WriteLock, LoadForRevert, RefuseRevert, RevertTarget,
       RevertFails, RevertLock, At
<1>3. /\ UNCHANGED <<pc, config, lockfile, manifest, state>>
      /\ \A p \in Proc : /\ phase'[p] = phase[p] /\ ctx'[p] = ctx[p] /\ digest'[p] = digest[p]
                         /\ chosen'[p] = chosen[p] /\ todo'[p] = todo[p]
                         /\ seen'[p] = seen[p] /\ ok'[p] = ok[p]
  <2> USE DEF MatchInv, CTypeOK, Goto, NextTodo
  <2>1. CASE LoadForApply(c)
    BY <1>1, <2>1 DEF LoadForApply, lvars, files
  <2>2. CASE RefuseApply(c) \/ IndexFails(c)
    BY <1>1, <2>2 DEF RefuseApply, IndexFails, Fail, lvars, files
  <2>3. CASE ApplyTarget(c) \/ ApplyFails(c)
    BY <1>1, <2>3 DEF ApplyTarget, ApplyFails, lvars
  <2>4. CASE ListStates(c) \/ ReadState(c) \/ WriteIndex(c)
    BY <1>1, <2>4 DEF ListStates, ReadState, WriteIndex, lvars, files
  <2> QED BY <1>2, <2>1, <2>2, <2>3, <2>4
<1>4. /\ phase'[c] \in {"targets", "index", "end"} /\ (ok'[c] => phase'[c] = "end")
      /\ \A d \in Invocation : d # c => phase'[d] = phase[d] /\ ok'[d] = ok[d]
  <2> USE DEF MatchInv, CTypeOK, Goto, NextTodo, OkAtEnd, At
  <2>1. CASE LoadForApply(c)
    BY <1>1, <2>1 DEF LoadForApply, ToApply
  <2>2. CASE RefuseApply(c) \/ IndexFails(c)
    BY <1>1, <2>2 DEF RefuseApply, IndexFails, Fail
  <2>3. CASE ApplyTarget(c) \/ ApplyFails(c)
    BY <1>1, <2>3 DEF ApplyTarget, ApplyFails
  <2>4. CASE ListStates(c) \/ ReadState(c) \/ WriteIndex(c)
    BY <1>1, <2>4 DEF ListStates, ReadState, WriteIndex
  <2> QED BY <1>2, <2>1, <2>2, <2>3, <2>4
<1>5. (\A d \in Invocation : KindOfPhase(d))' /\ OkAtEnd'
  BY <1>4 DEF MatchInv, KindOfPhase, Is, OkAtEnd
<1>6. NotBegun' /\ Idle' /\ (CompiledWell' <=> CompiledWell) /\ Sound'
  BY <1>3 DEF MatchInv, NotBegun, Idle, CompiledWell, Is, Sound, NoCompiler, LockIsCompiled
<1>7. (\A p \in Proc : pc[p] = "work" => Knows(p))'
  <2> SUFFICES ASSUME NEW p \in Proc, pc[p] = "work" PROVE Knows(p)'
    BY <1>3
  <2>1. Knows(p)
    BY DEF MatchInv
  <2>2. Relies(p)' <=> Relies(p)
    BY <1>6 DEF Relies, Is
  <2> QED BY <1>3, <2>1, <2>2 DEF Knows, LockIsCompiled
<1> QED BY <1>5, <1>6, <1>7 DEF MatchInv

\* Only a command that has not ended takes a step.
LEMMA WellKept ==
    ASSUME NEW c \in Proc, pc' = pc, pc[c] = "work", phase[c] # "end",
           \A d \in Proc : d # c => phase'[d] = phase[d] /\ ok'[d] = ok[d]
    PROVE  CompiledWell' => CompiledWell /\ (Is(c, {"compile", "sync"}) /\ phase'[c] = "end" => ok'[c])
BY DEF CompiledWell, Is

\* A step of the one command that works.
LEMMA MatchMove ==
    ASSUME MatchInv, CTypeOK', NEW c \in Proc, pc' = pc, pc[c] = "work", phase[c] # "end",
           \A q \in Proc : q # c => pc[q] # "work",
           \A d \in Invocation : d # c => phase'[d] = phase[d] /\ ok'[d] = ok[d],
           KindOfPhase(c)', ok'[c] => phase'[c] = "end", Knows(c)',
           \/ LockIsCompiled'
           \/ phase'[c] = "compile"
           \/ Is(c, {"compile", "sync"}) /\ phase'[c] = "end" /\ ~ok'[c]
           \/ phase[c] # "compile" /\ (LockIsCompiled => LockIsCompiled')
    PROVE  MatchInv'
<1>1. c \in Invocation /\ \A p \in Proc : p \in Invocation
  BY DEF Invocation
<1>2. (\A d \in Invocation : KindOfPhase(d))' /\ OkAtEnd'
  BY DEF MatchInv, KindOfPhase, Is, OkAtEnd
<1>3. NotBegun' /\ Idle' /\ (\A p \in Proc : pc[p] = "work" => Knows(p))'
  BY <1>1 DEF MatchInv, NotBegun, Idle
<1>4. CompiledWell' => CompiledWell /\ (Is(c, {"compile", "sync"}) /\ phase'[c] = "end" => ok'[c])
  BY <1>1, WellKept
<1>5. Sound'
  BY <1>1, <1>4 DEF MatchInv, Sound, NoCompiler
<1> QED BY <1>2, <1>3, <1>5 DEF MatchInv

LEMMA MatchCommand ==
    ASSUME MatchInv, CTypeOK', NEW c \in Proc, CommandStep(c), pc[c] = "work",
           \A q \in Proc : q # c => pc[q] # "work"
    PROVE  MatchInv'
<1> USE DEF Goto, NextTodo
<1>0. /\ c \in Invocation /\ c \notin Preview /\ \A p \in Proc : p \in Invocation
      /\ KindOfPhase(c) /\ Knows(c) /\ (ok[c] => phase[c] = "end")
      /\ CTypeOK
  BY CommandAssumption DEF Invocation, MatchInv, OkAtEnd
<1>1. pc' = pc /\ phase[c] # "end"
  BY DEF CommandStep, LoadForCompile, RefuseCompile, DigestConfig, CompileTarget,
     CompileFails, WriteLock, LoadForApply, RefuseApply, ApplyTarget, ApplyFails,
     LoadForRevert, RefuseRevert, RevertTarget, RevertFails, RevertLock, ListStates,
     ReadState, IndexFails, WriteIndex, Fail, lvars, ToApply, At
\* A command that ends without success.
<1>2. ASSUME phase' = [phase EXCEPT ![c] = "end"], ok' = ok,
             \/ UNCHANGED <<lockfile, manifest>> /\ phase[c] # "compile"
             \/ Is(c, {"compile", "sync"})
      PROVE  MatchInv'
  <2>1. /\ phase'[c] = "end" /\ ~ok'[c]
        /\ \A d \in Invocation : d # c => phase'[d] = phase[d] /\ ok'[d] = ok[d]
    BY <1>0, <1>1, <1>2 DEF CTypeOK
  <2>2. KindOfPhase(c)' /\ Knows(c)'
    BY <2>1 DEF KindOfPhase, Knows
  <2>3. UNCHANGED <<lockfile, manifest>> => (LockIsCompiled => LockIsCompiled')
    BY DEF LockIsCompiled
  <2> QED BY <1>0, <1>1, <1>2, <2>1, <2>2, <2>3, MatchMove
\* Another step that changes no file another command goes by.
<1>3. ASSUME NEW x, x # "end", x # "compile", phase' = [phase EXCEPT ![c] = x] , ok' = ok,
             phase[c] # "compile", UNCHANGED <<lockfile, manifest>>,
             x \in {"digest", "compile"} => Is(c, {"compile", "sync"}),
             x = "apply" => Is(c, {"sync"}), x = "revert" => Is(c, {"revert"}),
             Knows(c)'
      PROVE  MatchInv'
  <2>1. /\ phase'[c] = x /\ ~ok'[c]
        /\ \A d \in Invocation : d # c => phase'[d] = phase[d] /\ ok'[d] = ok[d]
    BY <1>0, <1>1, <1>3 DEF CTypeOK
  <2>2. KindOfPhase(c)'
    BY <1>3, <2>1 DEF KindOfPhase, Is
  <2>3. LockIsCompiled => LockIsCompiled'
    BY <1>3 DEF LockIsCompiled
  <2> QED BY <1>0, <1>1, <1>3, <2>1, <2>2, <2>3, MatchMove
<1>4. CASE RefuseCompile(c) \/ RefuseApply(c) \/ RefuseRevert(c) \/ IndexFails(c)
  <2>1. Fail(c) /\ phase[c] \in {"load", "apply", "index"}
    BY <1>4 DEF RefuseCompile, RefuseApply, RefuseRevert, IndexFails, At, ToApply
  <2> QED BY <1>2, <2>1 DEF Fail, files
<1>5. CASE LoadForCompile(c)
  <2>1. /\ phase[c] = "load" /\ phase' = [phase EXCEPT ![c] = "digest"] /\ ok' = ok
        /\ Is(c, {"compile", "sync"}) /\ UNCHANGED <<config, lockfile, manifest>>
        /\ ctx' = [ctx EXCEPT ![c] = [config |-> config, lock |-> lockfile]]
    BY <1>5 DEF LoadForCompile, At, files
  <2>2. phase'[c] = "digest" /\ ctx'[c].config = config'
    BY <1>0, <2>1 DEF CTypeOK
  <2>3. Knows(c)'
    BY <2>2 DEF Knows
  <2> QED BY <1>3, <2>1, <2>3
<1>6. CASE DigestConfig(c)
  <2>1. /\ phase[c] = "digest" /\ phase' = [phase EXCEPT ![c] = "compile"] /\ ok' = ok
        /\ UNCHANGED <<config, lockfile, manifest, ctx>>
        /\ digest' = [digest EXCEPT ![c] = config]
        /\ chosen'[c] = todo'[c]
    BY <1>0, <1>6 DEF DigestConfig, At, files, CTypeOK
  <2>2. /\ phase'[c] = "compile" /\ digest'[c] = config' /\ ~ok'[c]
        /\ \A d \in Invocation : d # c => phase'[d] = phase[d] /\ ok'[d] = ok[d]
    BY <1>0, <1>1, <2>1 DEF CTypeOK
  <2>3. Knows(c)' /\ KindOfPhase(c)'
    BY <1>0, <2>1, <2>2 DEF Knows, KindOfPhase, Is
  <2> QED BY <1>0, <1>1, <2>2, <2>3, MatchMove
<1>7. CASE CompileTarget(c)
  <2> DEFINE t == First(todo[c])
  <2>1. /\ phase[c] = "compile" /\ UNCHANGED <<phase, ok, config, ctx, digest, chosen>>
        /\ manifest' = [manifest EXCEPT ![t] = ctx[c].config]
        /\ todo' = [todo EXCEPT ![c] = todo[c] \ {t}]
    BY <1>7 DEF CompileTarget, At
  <2> HIDE DEF t
  <2>2. todo'[c] = todo[c] \ {t} /\ chosen[c] \subseteq Target
    BY <1>0, <2>1 DEF CTypeOK
  <2>3. \A u \in Target : manifest'[u] = IF u = t THEN ctx[c].config ELSE manifest[u]
    BY <1>0, <2>1 DEF CTypeOK, Contents
  <2>4. ctx[c].config = config
    BY <1>0, <2>1 DEF Knows
  <2>5. Knows(c)'
    BY <1>0, <2>1, <2>2, <2>3, <2>4 DEF Knows
  <2>6. KindOfPhase(c)'
    BY <1>0, <2>1 DEF KindOfPhase, Is
  <2> QED BY <1>0, <1>1, <2>1, <2>5, <2>6, MatchMove
<1>8. CASE CompileFails(c)
  <2>1. phase' = [phase EXCEPT ![c] = "end"] /\ ok' = ok /\ phase[c] \in {"digest", "compile"}
    BY <1>8 DEF CompileFails, At
  <2> QED BY <1>0, <1>2, <2>1 DEF KindOfPhase
<1>9. CASE WriteLock(c)
  <2>1. /\ phase[c] = "compile" /\ todo[c] = {} /\ UNCHANGED <<manifest, config>>
        /\ lockfile' = [config |-> digest[c], targets |-> chosen[c]]
        /\ \/ Is(c, {"sync"}) /\ phase' = [phase EXCEPT ![c] = "apply"] /\ ok' = ok
           \/ phase' = [phase EXCEPT ![c] = "end"] /\ ok' = [ok EXCEPT ![c] = TRUE]
    BY <1>9 DEF WriteLock, At
  <2>2. LockIsCompiled'
    BY <1>0, <2>1 DEF Knows, LockIsCompiled
  <2>3. /\ (phase'[c] = "apply" /\ Is(c, {"sync"}) /\ ~ok'[c]) \/ phase'[c] = "end"
        /\ \A d \in Invocation : d # c => phase'[d] = phase[d] /\ ok'[d] = ok[d]
    BY <1>0, <1>1, <2>1 DEF CTypeOK
  <2>4. Knows(c)' /\ KindOfPhase(c)'
    BY <2>2, <2>3 DEF Knows, KindOfPhase, Is
  <2> QED BY <1>0, <1>1, <2>2, <2>3, <2>4, MatchMove
<1>10. CASE LoadForApply(c)
  <2>1. /\ phase[c] \in {"load", "apply"} /\ phase' = [phase EXCEPT ![c] = "targets"] /\ ok' = ok
        /\ UNCHANGED <<config, lockfile, manifest>> /\ ~Refused(c)
        /\ ctx' = [ctx EXCEPT ![c] = [config |-> config, lock |-> lockfile]]
        /\ chosen' = [chosen EXCEPT ![c] = Selected(c)]
        /\ todo' = [todo EXCEPT ![c] = Selected(c)]
        /\ seen' = [seen EXCEPT ![c] = manifest]
        /\ phase[c] = "load" => Is(c, {"apply", "preview"})
    BY <1>10 DEF LoadForApply, ToApply, At, files
  <2>2. /\ phase'[c] = "targets" /\ ctx'[c] = [config |-> config, lock |-> lockfile]
        /\ chosen'[c] = Selected(c) /\ todo'[c] = Selected(c) /\ seen'[c] = manifest
        /\ \A d \in Invocation : d # c => phase'[d] = phase[d] /\ ok'[d] = ok[d]
    BY <1>0, <2>1 DEF CTypeOK
  <2>3. Selected(c) \subseteq lockfile.targets
    BY DEF Selected
  <2>4. CompiledWell' => CompiledWell
    BY <1>0, <1>1, <2>2, WellKept
  <2>5. ASSUME Relies(c)' PROVE LockIsCompiled
    <3>1. CASE phase[c] = "apply"
      BY <1>0, <3>1 DEF Knows
    <3>2. CASE phase[c] = "load"
      <4>1. CompiledWell
        BY <2>1, <2>4, <2>5, <3>2 DEF Relies, Is
      <4>2. ASSUME NEW p \in Proc PROVE phase[p] # "compile"
        <5>1. CASE p = c
          BY <3>2, <5>1
        <5>2. CASE p # c /\ pc[p] = "dead"
          BY <1>0, <4>1, <5>2 DEF CompiledWell, MatchInv, KindOfPhase, OkAtEnd
        <5>3. CASE p # c /\ pc[p] # "dead"
          BY <5>3 DEF MatchInv, Idle
        <5> QED BY <5>1, <5>2, <5>3
      <4> QED BY <4>1, <4>2 DEF MatchInv, Sound, NoCompiler
    <3> QED BY <2>1, <3>1, <3>2
  <2>6. lockfile.targets = {} \/ lockfile.config = config
    BY <2>1 DEF Refused, Stale
  <2>7. Knows(c)'
    BY <2>2, <2>3, <2>5, <2>6 DEF Knows, LockIsCompiled
  <2> QED BY <1>3, <2>1, <2>7
<1>11. CASE ApplyTarget(c)
  <2> DEFINE t == First(todo[c])
  <2>1. /\ phase[c] = "targets" /\ UNCHANGED <<phase, ok, lockfile, manifest, ctx, chosen, seen>>
        /\ state' = [state EXCEPT ![t] = seen[c][t]]
        /\ todo' = [todo EXCEPT ![c] = todo[c] \ {t}]
    BY <1>0, <1>11 DEF ApplyTarget, At, Leaves
  <2> HIDE DEF t
  <2>2. /\ todo'[c] = todo[c] \ {t} /\ chosen[c] \subseteq Target
        /\ \A u \in Target : state'[u] = IF u = t THEN seen[c][t] ELSE state[u]
    BY <1>0, <2>1 DEF CTypeOK, Contents
  <2>3. CompiledWell' <=> CompiledWell
    BY <1>1, <2>1 DEF CompiledWell, Is
  <2>4. Relies(c)' <=> Relies(c)
    BY <2>3 DEF Relies, Is
  <2>5. Knows(c)'
    BY <1>0, <2>1, <2>2, <2>4 DEF Knows
  <2>6. KindOfPhase(c)' /\ (LockIsCompiled => LockIsCompiled')
    BY <1>0, <2>1 DEF KindOfPhase, Is, LockIsCompiled
  <2> QED BY <1>0, <1>1, <2>1, <2>5, <2>6, MatchMove
<1>12. CASE ApplyFails(c) \/ RevertFails(c)
  <2>1. /\ phase' = [phase EXCEPT ![c] = "end"] /\ ok' = ok /\ phase[c] \in {"targets", "revert"}
        /\ UNCHANGED <<lockfile, manifest>>
    BY <1>12 DEF ApplyFails, RevertFails, At
  <2> QED BY <1>2, <2>1
<1>13. CASE LoadForRevert(c)
  <2>1. /\ phase[c] = "load" /\ phase' = [phase EXCEPT ![c] = "revert"] /\ ok' = ok
        /\ UNCHANGED <<lockfile, manifest>> /\ Is(c, {"revert"})
        /\ ctx' = [ctx EXCEPT ![c] = [config |-> config, lock |-> lockfile]]
    BY <1>13 DEF LoadForRevert, At, files
  <2>2. phase'[c] = "revert" /\ ctx'[c].lock = lockfile'
    BY <1>0, <2>1 DEF CTypeOK
  <2>3. Knows(c)'
    BY <2>2 DEF Knows
  <2> QED BY <1>3, <2>1, <2>3
<1>14. CASE RevertTarget(c)
  <2>1. phase[c] = "revert" /\ UNCHANGED <<phase, ok, lockfile, manifest, ctx>>
    BY <1>14 DEF RevertTarget, At
  <2>2. Knows(c)' /\ KindOfPhase(c)' /\ (LockIsCompiled => LockIsCompiled')
    BY <1>0, <2>1 DEF Knows, KindOfPhase, Is, LockIsCompiled
  <2> QED BY <1>0, <1>1, <2>1, <2>2, MatchMove
<1>15. CASE RevertLock(c)
  <2>1. /\ phase[c] = "revert" /\ phase' = [phase EXCEPT ![c] = "targets"] /\ ok' = ok
        /\ lockfile' = [ctx[c].lock EXCEPT !.targets = @ \ chosen[c]]
        /\ manifest' = manifest /\ Is(c, {"revert"})
    BY <1>0, <1>15 DEF RevertLock, At, KindOfPhase
  <2>2. ctx[c].lock = lockfile /\ lockfile \in LockContents
    BY <1>0, <2>1 DEF Knows, CTypeOK
  <2>3. lockfile'.config = lockfile.config /\ lockfile'.targets \subseteq lockfile.targets
    BY <2>1, <2>2 DEF LockContents
  <2>4. /\ phase'[c] = "targets" /\ ~ok'[c]
        /\ \A d \in Invocation : d # c => phase'[d] = phase[d] /\ ok'[d] = ok[d]
    BY <1>0, <1>1, <2>1 DEF CTypeOK
  <2>5. ~Relies(c)'
    BY <2>1 DEF Relies, Is
  <2>6. Knows(c)' /\ KindOfPhase(c)' /\ (LockIsCompiled => LockIsCompiled')
    BY <2>1, <2>3, <2>4, <2>5 DEF Knows, KindOfPhase, LockIsCompiled
  <2> QED BY <1>0, <1>1, <2>1, <2>4, <2>6, MatchMove
<1>16. CASE ListStates(c)
  <2>1. /\ phase[c] = "targets" /\ phase' = [phase EXCEPT ![c] = "index"] /\ ok' = ok
        /\ todo[c] = {} /\ UNCHANGED <<lockfile, manifest, state, ctx, chosen>>
    BY <1>16 DEF ListStates, At, files
  <2>2. /\ phase'[c] = "index"
        /\ \A d \in Invocation : d # c => phase'[d] = phase[d] /\ ok'[d] = ok[d]
    BY <1>0, <2>1 DEF CTypeOK
  <2>3. Relies(c)' => Relies(c)
    BY <1>0, <1>1, <2>2, WellKept DEF Relies, Is
  <2>4. Knows(c)'
    BY <1>0, <2>1, <2>2, <2>3 DEF Knows
  <2> QED BY <1>3, <2>1, <2>4
<1>17. CASE ReadState(c)
  <2>1. /\ phase[c] = "index" /\ UNCHANGED <<phase, ok, lockfile, manifest, state, ctx, chosen>>
    BY <1>17 DEF ReadState, At, files
  <2>2. Relies(c)' => Relies(c)
    BY <1>1, <2>1 DEF Relies, Is, CompiledWell
  <2>3. Knows(c)' /\ KindOfPhase(c)' /\ (LockIsCompiled => LockIsCompiled')
    BY <1>0, <2>1, <2>2 DEF Knows, KindOfPhase, Is, LockIsCompiled
  <2> QED BY <1>0, <1>1, <2>1, <2>3, MatchMove
<1>18. CASE WriteIndex(c)
  <2>1. /\ phase[c] = "index" /\ phase' = [phase EXCEPT ![c] = "end"]
        /\ ok' = [ok EXCEPT ![c] = TRUE] \/ ok' = ok
        /\ UNCHANGED <<lockfile, manifest>>
    BY <1>18 DEF WriteIndex, At
  <2>2. /\ phase'[c] = "end"
        /\ \A d \in Invocation : d # c => phase'[d] = phase[d] /\ ok'[d] = ok[d]
    BY <1>0, <2>1 DEF CTypeOK
  <2>3. Knows(c)' /\ KindOfPhase(c)' /\ (LockIsCompiled => LockIsCompiled')
    BY <2>1, <2>2 DEF Knows, KindOfPhase, LockIsCompiled
  <2> QED BY <1>0, <1>1, <2>1, <2>2, <2>3, MatchMove
<1> QED BY <1>4, <1>5, <1>6, <1>7, <1>8, <1>9, <1>10, <1>11, <1>12, <1>13, <1>14, <1>15,
           <1>16, <1>17, <1>18 DEF CommandStep

LEMMA MatchStep ==
    ASSUME HoldWriters, ~EditsDuring
    PROVE  LockTypeOK /\ MutualExclusion /\ MatchInv /\ [CNext]_cvars => MatchInv'
<1> SUFFICES ASSUME LockTypeOK, MutualExclusion, MatchInv, [CNext]_cvars PROVE MatchInv'
  OBVIOUS
<1>1. CTypeOK'
  BY CTypeStep DEF MatchInv
<1>2. ASSUME NEW c \in Proc, CommandStep(c) PROVE MatchInv'
  <2>1. c \notin Preview
    BY CommandAssumption
  <2>2. Runs(c)
    BY <1>2 DEF CommandStep, LoadForCompile, RefuseCompile, DigestConfig, CompileTarget,
       CompileFails, WriteLock, LoadForApply, RefuseApply, ApplyTarget, ApplyFails,
       LoadForRevert, RefuseRevert, RevertTarget, RevertFails, RevertLock, ListStates,
       ReadState, IndexFails, WriteIndex, ToApply, At
  <2>3. pc[c] = "work" /\ \A q \in Proc : q # c => pc[q] # "work"
    BY <2>1, <2>2, CommandAssumption DEF Runs, MutualExclusion, Owns
  <2> QED BY <1>1, <1>2, <2>3, MatchCommand
<1>3. ASSUME NEW c \in Preview, CommandStep(c) PROVE MatchInv'
  BY <1>1, <1>3, MatchPreview
<1>4. CASE LockStep
  BY <1>4, MatchLockStep
<1>5. CASE EditConfig
  BY <1>5, MatchEdit
<1>6. CASE UNCHANGED cvars
  <2>1. UNCHANGED <<pc, config, lockfile, manifest, state, phase, ctx, digest, chosen, todo, seen, ok>>
    BY <1>6 DEF cvars, lvars, files, locals
  <2> QED BY <1>1, <2>1 DEF MatchInv, NotBegun, OkAtEnd, Idle, KindOfPhase, Is, Knows, Relies,
          Sound, CompiledWell, NoCompiler, LockIsCompiled
<1> QED BY <1>2, <1>3, <1>4, <1>5, <1>6 DEF CNext, Invocation

\* A sync applies what it has just compiled, and an apply what the lock file says
\* was compiled, of the configuration both began with (lock_is_stale in
\* cmd_apply): for any commands, targets, failures and deaths, beside previews
\* too, if nobody edits the configuration during a command.
THEOREM AppliesWhatWasCompiled ==
    ASSUME HoldWriters, ~EditsDuring PROVE CSpec => []ApplyMatchesLock
<1>1. CInit => MatchInv
  BY MatchInit
<1>2. LockTypeOK /\ MutualExclusion /\ MatchInv /\ [CNext]_cvars => MatchInv'
  BY MatchStep
<1>3. MatchInv => ApplyMatchesLock
  <2> SUFFICES ASSUME MatchInv, NEW c \in Proc, At(c, "index"),
                      Is(c, {"sync"}) \/ (Is(c, {"apply"}) /\ CompiledWell),
                      NEW t \in chosen[c]
               PROVE  state[t] = ctx[c].lock.config /\ state[t] = ctx[c].config
    BY DEF ApplyMatchesLock
  <2>1. pc[c] = "work" /\ phase[c] = "index"
    BY CommandAssumption DEF At, Runs
  <2> QED BY <2>1 DEF MatchInv, Knows, Relies
<1> QED BY <1>1, <1>2, <1>3, CommandsExclude, PTL DEF CSpec
=============================================================================
