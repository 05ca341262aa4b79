-------------------------- MODULE ProjectCommands --------------------------
(***************************************************************************)
(* The commands that compile, apply and revert one project's targets, as   *)
(* the files under .metactl/ see them: cmd_compile, cmd_apply, cmd_sync    *)
(* and cmd_revert of crates/metactl/src/main.rs, with the configuration    *)
(* lock metactl.lock.json, one managed state file per target, and the      *)
(* index managed_files.json that apply and revert rebuild last.  The       *)
(* mutating commands hold the operation lock; `apply --preview` does not.  *)
(*                                                                         *)
(* What is compiled is identified by the configuration it was compiled     *)
(* from.  What one target's apply or revert does to the files is the       *)
(* subject of ApplyTransaction and ManagedLifecycle: here it takes one     *)
(* step, or it is refused and takes none.                                  *)
(***************************************************************************)
EXTENDS OperationLock, FiniteSets

CONSTANTS
    Target,      \* targets, as numbers in the order of the configuration
    Config,      \* contents of the project's configuration
    TargetsIn,   \* TargetsIn[g]: the targets that configuration g lists
    Preview,     \* invocations of `apply --preview`, which take no lock
    CommandOf,   \* CommandOf[c]: the command line of invocation c
    CmdFaults,   \* which of "compile" and "apply" may fail
    EditsDuring, \* TRUE: the user edits the configuration during commands
    None         \* a file that does not exist, or no target option

Command == [kind : {"compile", "sync", "apply", "preview", "revert"},
            target : Target \union {None},  \* --target
            all : BOOLEAN,                  \* --all
            update : BOOLEAN]               \* --update-lock, implied by sync
Invocation == Proc \union Preview

ASSUME CommandAssumption ==
    /\ Target \subseteq Nat /\ IsFiniteSet(Target) /\ None \notin Target
    /\ TargetsIn \in [Config -> SUBSET Target] /\ None \notin Config
    /\ CommandOf \in [Invocation -> Command]
    /\ Preview \intersect Proc = {} /\ None \notin Invocation
    /\ \A c \in Invocation : CommandOf[c].kind = "preview" <=> c \in Preview
    /\ CmdFaults \subseteq {"compile", "apply"}
    /\ EditsDuring \in BOOLEAN
    /\ \A p, q \in Proc : RootOf[p] = RootOf[q]

VARIABLES
    config,     \* the configuration file
    lockfile,   \* metactl.lock.json: config_digest and the compiled targets
    manifest,   \* manifest[t]: what the compile manifest of t was made from
    state,      \* state[t]: what the managed state of t says is applied
    index,      \* index[t]: what managed_files.json says is applied
    phase,      \* phase[c]: where invocation c is in its command
    ctx,        \* ctx[c]: the configuration and lock file c has loaded
    digest,     \* digest[c]: the config digest c will write to the lock file
    chosen,     \* chosen[c]: the targets c works on
    todo,       \* todo[c]: those of them, or of the state files, still to do
    seen,       \* seen[c]: the manifests, later the state files, c has read
    ok,         \* ok[c]: c ended with success
    last        \* history: last[t] is the last invocation to change state[t]

files    == <<config, lockfile, manifest, state, index>>
locals   == <<phase, ctx, digest, chosen, todo, seen, ok>>
cvars    == <<lvars, files, locals, last>>

NoLockFile == [config |-> None, targets |-> {}]
NoStates == [t \in Target |-> None]

CInit ==
    /\ LockInit
    /\ config \in Config
    /\ lockfile = NoLockFile
    /\ manifest = NoStates /\ state = NoStates /\ index = NoStates
    /\ phase = [c \in Invocation |-> "load"]
    /\ ctx = [c \in Invocation |-> [config |-> None, lock |-> NoLockFile]]
    /\ digest = [c \in Invocation |-> None]
    /\ chosen = [c \in Invocation |-> {}]
    /\ todo = [c \in Invocation |-> {}]
    /\ seen = [c \in Invocation |-> NoStates]
    /\ ok = [c \in Invocation |-> FALSE]
    /\ last = [t \in Target |-> None]

\* A mutating command runs under the operation lock, a preview without it.
Runs(c) == c \notin Preview => pc[c] = "work"
At(c, where) == Runs(c) /\ phase[c] = where
Goto(c, where) == phase' = [phase EXCEPT ![c] = where]
Is(c, kinds) == CommandOf[c].kind \in kinds

First(S) == CHOOSE t \in S : \A u \in S : t <= u
NextTodo(c) == todo' = [todo EXCEPT ![c] = @ \ {First(@)}]

\* An error returned through `?`: what the command has done so far stays.
Fail(c) ==
    /\ Goto(c, "end")
    /\ UNCHANGED <<lvars, files, ctx, digest, chosen, todo, seen, ok, last>>

(***************************************************************************)
(* cmd_compile_with_durable_writes                                         *)
(***************************************************************************)
\* lock_is_stale: the configuration is not the one of the last compile.
Stale == lockfile.targets # {} /\ lockfile.config # config

\* A sync whose command line does not imply --update-lock is `compile --apply`.
LoadForCompile(c) ==
    /\ At(c, "load") /\ Is(c, {"compile", "sync"})
    /\ CommandOf[c].update \/ ~Stale
    /\ ctx' = [ctx EXCEPT ![c] = [config |-> config, lock |-> lockfile]]
    /\ Goto(c, "digest")
    /\ UNCHANGED <<lvars, files, digest, chosen, todo, seen, ok, last>>

RefuseCompile(c) ==
    /\ At(c, "load") /\ Is(c, {"compile", "sync"})
    /\ "compile" \in CmdFaults \/ ~(CommandOf[c].update \/ ~Stale)
    /\ Fail(c)

\* The digest for the lock file is of the file as it is now, not as loaded.
DigestConfig(c) ==
    /\ At(c, "digest")
    /\ digest' = [digest EXCEPT ![c] = config]
    /\ LET targets == IF CommandOf[c].target = None
                      THEN TargetsIn[ctx[c].config] ELSE {CommandOf[c].target}
       IN  /\ chosen' = [chosen EXCEPT ![c] = targets]
           /\ todo' = [todo EXCEPT ![c] = targets]
    /\ Goto(c, "compile")
    /\ UNCHANGED <<lvars, files, ctx, seen, ok, last>>

CompileTarget(c) ==
    /\ At(c, "compile") /\ todo[c] # {}
    /\ manifest' = [manifest EXCEPT ![First(todo[c])] = ctx[c].config]
    /\ NextTodo(c)
    /\ UNCHANGED <<lvars, config, lockfile, state, index, phase, ctx, digest,
                   chosen, seen, ok, last>>

\* A target is not compiled, or its manifest is written and the policy report
\* is not, or the lock file cannot be written.
CompileFails(c) ==
    /\ At(c, "digest") \/ At(c, "compile")
    /\ "compile" \in CmdFaults
    /\ \/ manifest' = manifest
       \/ /\ phase[c] = "compile" /\ todo[c] # {}
          /\ manifest' = [manifest EXCEPT ![First(todo[c])] = ctx[c].config]
    /\ Goto(c, "end")
    /\ UNCHANGED <<lvars, config, lockfile, state, index, ctx, digest, chosen,
                   todo, seen, ok, last>>

\* The lock file is written once, after every target, and lists only the
\* targets of this compile.
WriteLock(c) ==
    /\ At(c, "compile") /\ todo[c] = {}
    /\ lockfile' = [config |-> digest[c], targets |-> chosen[c]]
    /\ IF Is(c, {"sync"}) THEN Goto(c, "apply") /\ ok' = ok
       ELSE Goto(c, "end") /\ ok' = [ok EXCEPT ![c] = TRUE]
    /\ UNCHANGED <<lvars, config, manifest, state, index, ctx, digest, chosen,
                   todo, seen, last>>

(***************************************************************************)
(* cmd_apply                                                               *)
(***************************************************************************)
ToApply(c) == \/ At(c, "load") /\ Is(c, {"apply", "preview"})
              \/ At(c, "apply")

\* select_locked_targets; a sync applies every target it has just compiled.
Selected(c) == IF CommandOf[c].target = None \/ Is(c, {"sync"})
               THEN lockfile.targets
               ELSE lockfile.targets \intersect {CommandOf[c].target}

\* Wrong: does not compare the configuration with the one that was compiled.
Refused_NeverStale(c) == CommandOf[c].target # None /\ Selected(c) = {}

\* lock_is_stale and the option --target.
Refused(c) == Stale \/ (CommandOf[c].target # None /\ Selected(c) = {})

LoadForApply(c) ==
    /\ ToApply(c) /\ ~Refused(c)
    /\ ctx' = [ctx EXCEPT ![c] = [config |-> config, lock |-> lockfile]]
    /\ chosen' = [chosen EXCEPT ![c] = Selected(c)]
    /\ todo' = [todo EXCEPT ![c] = Selected(c)]
    /\ seen' = [seen EXCEPT ![c] = manifest]
    /\ Goto(c, "targets")
    /\ UNCHANGED <<lvars, files, digest, ok, last>>

\* Also an unreadable manifest, an unsupported mode, a private manifest.
RefuseApply(c) ==
    /\ ToApply(c) /\ (Refused(c) \/ "apply" \in CmdFaults)
    /\ Fail(c)

\* Invocation c leaves the first target it has to do with contents x.
Leaves(c, x) == /\ state' = [state EXCEPT ![First(todo[c])] = x]
                /\ last' = [last EXCEPT ![First(todo[c])] = c]

\* A preview writes only the review plan of the target.
ApplyTarget(c) ==
    /\ At(c, "targets") /\ todo[c] # {}
    /\ IF c \in Preview THEN UNCHANGED <<state, last>>
       ELSE Leaves(c, seen[c][First(todo[c])])
    /\ NextTodo(c)
    /\ UNCHANGED <<lvars, config, lockfile, manifest, index, phase, ctx, digest,
                   chosen, seen, ok>>

\* The access preflight, a conflict or a failed action, or, once the target is
\* applied, its history entry or receipt.  The targets done stay applied, and the
\* index is not rebuilt.
ApplyFails(c) ==
    /\ At(c, "targets") /\ "apply" \in CmdFaults
    /\ \/ UNCHANGED <<state, last>>
       \/ c \notin Preview /\ todo[c] # {} /\ Leaves(c, seen[c][First(todo[c])])
    /\ Goto(c, "end")
    /\ UNCHANGED <<lvars, config, lockfile, manifest, index, ctx, digest, chosen,
                   todo, seen, ok>>

(***************************************************************************)
(* cmd_revert                                                              *)
(***************************************************************************)
LoadForRevert(c) ==
    /\ At(c, "load") /\ Is(c, {"revert"})
    /\ LET targets == IF CommandOf[c].all THEN lockfile.targets ELSE Selected(c)
       IN  /\ targets # {}
           /\ chosen' = [chosen EXCEPT ![c] = targets]
           /\ todo' = [todo EXCEPT ![c] = targets]
    /\ ctx' = [ctx EXCEPT ![c] = [config |-> config, lock |-> lockfile]]
    /\ Goto(c, "revert")
    /\ UNCHANGED <<lvars, files, digest, seen, ok, last>>

RefuseRevert(c) ==
    /\ At(c, "load") /\ Is(c, {"revert"})
    /\ IF CommandOf[c].all THEN lockfile.targets = {} ELSE Selected(c) = {}
    /\ Fail(c)

RevertTarget(c) ==
    /\ At(c, "revert") /\ todo[c] # {}
    /\ state[First(todo[c])] # None
    /\ Leaves(c, None)
    /\ NextTodo(c)
    /\ UNCHANGED <<lvars, config, lockfile, manifest, index, phase, ctx, digest,
                   chosen, seen, ok>>

\* The target has no managed state, or its files have drifted; its history entry
\* or the lock file cannot be written.
RevertFails(c) ==
    /\ At(c, "revert")
    /\ "apply" \in CmdFaults \/ (todo[c] # {} /\ state[First(todo[c])] = None)
    /\ \/ UNCHANGED <<state, last>>
       \/ todo[c] # {} /\ state[First(todo[c])] # None /\ Leaves(c, None)
    /\ Goto(c, "end")
    /\ UNCHANGED <<lvars, config, lockfile, manifest, index, ctx, digest, chosen,
                   todo, seen, ok>>

RevertLock(c) ==
    /\ At(c, "revert") /\ todo[c] = {}
    /\ lockfile' = [ctx[c].lock EXCEPT !.targets = @ \ chosen[c]]
    /\ Goto(c, "targets")
    /\ UNCHANGED <<lvars, config, manifest, state, index, ctx, digest, chosen,
                   todo, seen, ok, last>>

(***************************************************************************)
(* update_managed_files_index: list the state files, read each, write.     *)
(***************************************************************************)
\* Wrong: the index lists only the targets of this command.
ListStates_OnlyChosen(c) ==
    /\ At(c, "targets") /\ todo[c] = {}
    /\ todo' = [todo EXCEPT ![c] = {t \in chosen[c] : state[t] # None}]
    /\ seen' = [seen EXCEPT ![c] = NoStates]
    /\ Goto(c, "index")
    /\ UNCHANGED <<lvars, files, ctx, digest, chosen, ok, last>>

ListStates(c) ==
    /\ At(c, "targets") /\ todo[c] = {}
    /\ todo' = [todo EXCEPT ![c] = {t \in Target : state[t] # None}]
    /\ seen' = [seen EXCEPT ![c] = NoStates]
    /\ Goto(c, "index")
    /\ UNCHANGED <<lvars, files, ctx, digest, chosen, ok, last>>

ReadState(c) ==
    /\ At(c, "index") /\ todo[c] # {}
    /\ LET t == First(todo[c]) IN
       /\ state[t] # None
       /\ seen' = [seen EXCEPT ![c][t] = state[t]]
    /\ NextTodo(c)
    /\ UNCHANGED <<lvars, files, phase, ctx, digest, chosen, ok, last>>

\* The file has gone since it was listed, or the index cannot be written.
IndexFails(c) ==
    /\ At(c, "index")
    /\ "apply" \in CmdFaults \/ (todo[c] # {} /\ state[First(todo[c])] = None)
    /\ Fail(c)

\* A sync validates once more and may fail then.
WriteIndex(c) ==
    /\ At(c, "index") /\ todo[c] = {}
    /\ index' = seen[c]
    /\ \/ ok' = [ok EXCEPT ![c] = TRUE]
       \/ Is(c, {"sync"}) /\ "apply" \in CmdFaults /\ ok' = ok
    /\ Goto(c, "end")
    /\ UNCHANGED <<lvars, config, lockfile, manifest, state, ctx, digest, chosen,
                   todo, seen, last>>

-----------------------------------------------------------------------------
CommandStep(c) ==
    \/ LoadForCompile(c) \/ RefuseCompile(c) \/ DigestConfig(c)
    \/ CompileTarget(c) \/ CompileFails(c) \/ WriteLock(c)
    \/ LoadForApply(c) \/ RefuseApply(c) \/ ApplyTarget(c) \/ ApplyFails(c)
    \/ LoadForRevert(c) \/ RefuseRevert(c) \/ RevertTarget(c)
    \/ RevertFails(c) \/ RevertLock(c)
    \/ ListStates(c) \/ ReadState(c) \/ IndexFails(c) \/ WriteIndex(c)

\* The lock around the command; it is released once the command has ended.
LockStep ==
    /\ LockNext
    /\ \A p \in Proc : pc[p] = "work" /\ pc'[p] = "release" => phase[p] = "end"
    /\ UNCHANGED <<files, locals, last>>

EditConfig ==
    /\ EditsDuring \/ \A c \in Invocation : ~Runs(c) \/ phase[c] = "end"
    /\ config' \in Config
    /\ UNCHANGED <<lvars, lockfile, manifest, state, index, locals, last>>

CNext == (\E c \in Invocation : CommandStep(c)) \/ LockStep \/ EditConfig

CSpec == CInit /\ [][CNext]_cvars

-----------------------------------------------------------------------------
LockContents == [config : Config \union {None}, targets : SUBSET Target]
Contents == [Target -> Config \union {None}]

CTypeOK ==
    /\ config \in Config
    /\ lockfile \in LockContents
    /\ manifest \in Contents /\ state \in Contents /\ index \in Contents
    /\ phase \in [Invocation -> {"load", "digest", "compile", "apply", "targets",
                                 "revert", "index", "end"}]
    /\ ctx \in [Invocation -> [config : Config \union {None}, lock : LockContents]]
    /\ digest \in [Invocation -> Config \union {None}]
    /\ chosen \in [Invocation -> SUBSET Target]
    /\ todo \in [Invocation -> SUBSET Target]
    /\ seen \in [Invocation -> Contents]
    /\ ok \in [Invocation -> BOOLEAN]
    /\ last \in [Target -> Invocation \union {None}]
    /\ \A c \in Invocation : phase[c] = "digest" => ctx[c].config \in Config

\* The index still shows what the last command to change a target left there,
\* once that command has ended with success: no other command's rebuild of the
\* index has put an older reading over it.
FinishedWorkIsIndexed ==
    \A t \in Target :
        last[t] # None /\ ok[last[t]] /\ pc[last[t]] = "done" => index[t] = state[t]

\* A command that has applied its targets has applied, for every one of them,
\* what was compiled from the configuration that the lock file records and that
\* was in force when the command began (lock_is_stale in cmd_apply).  A plain
\* apply relies on earlier compiles to have ended well; a sync does not.
CompiledWell ==
    \A p \in Proc :
        Is(p, {"compile", "sync"}) /\ (phase[p] = "end" \/ pc[p] = "dead") => ok[p]

ApplyMatchesLock ==
    \A c \in Proc :
        At(c, "index") /\ (Is(c, {"sync"}) \/ (Is(c, {"apply"}) /\ CompiledWell)) =>
            \A t \in chosen[c] : /\ state[t] = ctx[c].lock.config
                                 /\ state[t] = ctx[c].config
=============================================================================
