# metactl: a verification project

TLA+ models of the parts of metactl that change files other people own, of the
decisions that lead there, the TLC runs that check them on small instances, and
TLAPS proofs of what matters most for every instance. metactl compiles a library
of instructions, skills and policies into the files that coding agents read, and
*applies* them to a project: it writes `AGENTS.md`, JSON settings and other files
beside, around or into what the user has there, and must be able to take all of
it back. What can go badly wrong is in that step, in the lock around it, in the
order in which commands update the files under `.metactl/`, in the ignore files
that keep private outputs out of git, and in the many places where a command
works from something that was read, cached, locked or compiled earlier.

All paths below are under `src/crates/metactl/src/` unless they start with `docs/`.

## 1. Inventory

| Part | State it keeps | Operations | What is hard | What makes it correct |
|---|---|---|---|---|
| Apply planning (`materializer.rs` 1300-1800) | none: reads destinations, staged copies and managed state | `plan_apply_from_staging`, review conflicts, `managed_output_state` | modes x kinds of output x drift; re-applying in another mode | an apply converges; the first backup is never forgotten |
| Apply transaction (`materializer.rs` 891-1216, `apply_access.rs`) | destinations, backups, `state/managed/<target>.json`, a journal | access preflight, snapshots, actions, compensation, state, success line | a failure or a death at any step, errors outside the compensated closure, edits meanwhile | all of the plan or none of it; "compensated" means exactly restored |
| Revert (`materializer.rs` 1216-1330) | the same | check every digest, restore or remove, forget state and backups | no journal, ignored errors, long histories of applies | the user gets back what was there first |
| Operation lock (`project.rs` 1780-1830, `project/operation_lock_error.rs`) | `.metactl/state/operation.lock` | create exclusively, write payload, classify, remove on drop; manual recovery by a person | contention during creation, dead owners, recovery racing a new writer | one writer per project; nobody takes a lock over |
| Commands (`main.rs` 2430-2460, 7150-7780) | `metactl.lock.json`, compile manifests, managed states, `managed_files.json` | compile, apply, sync, revert, preview | several files updated in turn, several targets of which a later one fails, a preview without a lock | what is applied is what was compiled from the configuration on record; the index shows it |
| Fleet sync (`cli_fleet_sync.rs`, `cli_fleet.rs`) | a log; child processes | select members, sync in process or by child, collect, log | two fleets that need each other's lock, a parent that dies, answers that do not parse | no project synced twice at once, no false "applied", no deadlock |
| Ignore files (`ignore_publication.rs`, `ignore_recovery.rs`, `ignore_privacy.rs`, part of `main.rs`) | `.gitignore`, `.git/info/exclude`, recovery copies | plan, evaluate twice, exchange with the live file or capture and link, roll back | edits between comparison and exchange, an editor that holds the displaced file, a later file failing | the user's bytes are always in a file; success means the private path was hidden |
| Git privacy (`git_privacy.rs`, `git_privacy/`, `git_plan.rs`) | none | snapshot the index, read the ignore sources, revalidate | index against worktree, rules that change while they are read | private bytes never proposed for tracking |
| Library registry, kernel and synthesis (`library_registry.rs`, `library_discovery.rs`, `library_instruction.rs`, `library_hooks.rs`, `library_privacy.rs`, `reference_kernel.rs`) | registries, resolved graphs, compile manifests, a cache of texts | load, resolve, search, route, compile, admit an apply, validate | graphs and manifests that outlive the process; policies, pins, candidates and visibility at once | what is published was asked for, allowed, current and protected |
| Library stack (`library_stack.rs`) | none | resolve baselines and an overlay | precedence, locks of artifacts | the overlay wins where it may |
| Context, configuration, profiles (`project.rs`, `cli_profile.rs`) | `metactl.yaml`, `metactl.local.yaml`, profiles, the lock file's digests | load, merge, digest, tell a stale lock | layering; every writer must leave staleness visible | a fresh lock says what was compiled |
| Setup, import, sources (`setup.rs`, `project_import.rs`, `cli_source.rs`, part of `main.rs`) | the same, clones, two source locks | init, setup, link, import, add, use, remove, source add/remove/sync | one layer written from the merge of several; deaths between two writes; two locks for one source | private things stay out of shared files; the remedy a refusal names works |
| Skill discovery and its connection (`cli_skill_discovery_connection.rs`, `skill_discovery.rs`, `scripts/`) | client configurations; trial results | connect, preview, remove, doctor | one Codex file for all projects but one lock per project; clients that rewrite their files; upgrades | others' settings stay; the printed rollback works |
| Staging (`materializer.rs` 480-700) | staged copies, compile manifest | stage, prune | partial staging | the manifest describes the staged files |
| Hooks, schedules, starter library (`cli_hook.rs`, `main.rs` 5400-5950) | one file each | install, remove | - | - |
| Servers, reports (`mcp.rs`, `jsonrpc.rs`, `metactld`, `cli_*.rs`, `skill_audit.rs`) | none | read-only requests, one at a time | - | - |

How they interact. A command starts in `main.rs`: `mutating_operation_label`
decides whether it takes the **operation lock** before its handler runs, and the
lock is dropped when the handler returns. The handler reads the **configuration**
through its layers; `sync` first checks the private **sources**. `cmd_compile`
asks the **kernel** for the outputs of each target, **stages** them, writes each
manifest and, last, the lock file. `cmd_apply` checks that the lock file belongs
to the configuration and that git hides what is private, and hands each target to
the **apply transaction**, which makes a plan and runs it; then the index of
managed files is rebuilt from every target's state file. `sync` is a compile
followed by an apply in one process. `fleet sync` holds its own project's lock
and runs `sync` on each member, in process for its own project and as a child
process for the others, where the child takes the member's lock. Processes share
nothing but the file system; the only messages are a child's exit and its
standard output. So the interleavings that matter are between processes and
between a process and people or other programs, and the failures are an I/O error
or a death at any step.

`PROJECT.json` lists every component with its status and, under `hazards`, the
lines where this code can go wrong in a way a test would hardly reach; section 6
has more of them, which no model reaches yet.

## 2. Modules

    ApplyPlan              pure: plan and effect of each output
      AtomicApply          what an apply promises
      ApplyTransaction     one apply, step by step ---- implements AtomicApply
        ManagedLifecycle     + revert
    OperationLock          the lock and its recovery
      ProjectCommands      commands of one project --- implement OperationLock
      FleetSync            fleets of projects -------- implement OperationLock
    ConfigLayers           pure: layers, profiles, import
      ProjectSetup         commands that change the configuration
        SourceLocks          + sources, their two locks, the check before a sync
    LibraryRegistry        pure: load, resolve, search, route
      Synthesis            pure: what compile generates
        LibraryPipeline      resolve, compile, apply over an edited library
    LibraryStack           baselines and overlay
    IgnoreRules            pure: what two ignore files hide
      IgnorePublication    install, fix and check, beside a user
    DiscoveryRegistration  pure: a server's entry in a client's configuration
      DiscoveryConnection  connect, remove and doctor, beside clients
    *Proofs                theorems about the module of that name; the applies' are
                           in ManagedLifecycleProofs, those of pipeline and stack
                           in LibraryProofs
    MC*                    small instances for TLC

### Applying

**ApplyPlan** is `plan_apply_from_staging`, the content conflicts of the review
plan, what each `ActionKind` writes, and `managed_output_state`. Bytes are a
record: `own`, the text the file was made of, and `gen`, the generated texts
patched or merged into it. That is as much as the code tells apart: a patch
replaces the managed block, a JSON merge adds missing values, everything else
writes the generated text. SHA-256 is taken to be injective, so a digest is the
bytes. A path holds nothing, bytes, or a link to the staged copy; reading
follows the link. The kinds of output are `instruction`, `json`, `regular`
(materialised as a regular file in symlink mode), `file`, and `retained` (a
legacy Codex command that must never be rewritten).

**ApplyTransaction** is `apply_manifest_bound`. `pc` is the place in the
function; `cur` is the loop's output and, during compensation, the snapshot
being restored. `Refuse` and `BeginApply` are the plan, `Preflight` the access
probes, the first journal line and the snapshots, `StartAction`, `WriteOutput`
and `ConfirmOutput` one action (journal line and backup; the write; digest and
journal line), `Noop` the branch for an output that needs no change, `WriteState`
and `AppendSuccess` the end, `RestoreStep` one snapshot of
`restore_path_snapshots`, `RestoreDone` the report. `Escape` is an error that
leaves through `?` outside the closure whose error is compensated: in `Noop`, in
the containment check, and in `WriteState` where the state's directory or bytes
cannot be made (`"statedir"`). A manifest without outputs is applied like any
other. `Faults` says which steps may fail. A failing write or restore may leave the path empty where
the code removes before it writes (`RemovesFirst`, `Restored`), and so may a
death in the middle (`Emptied`). `Compile` and `UserEdit` are the environment;
`pre`, `env` and `owned` are history variables no code reads.

**ManagedLifecycle** adds `revert_target`: check all digests, then undo the
outputs one at a time, then remove the state file and the backup directory, with
the failures the code ignores and those that leave through `?`. `origin` and
`stray` are history. `origin` is what a path held before metactl first changed it,
or before its first record of it if it changed nothing; it is kept until a command
ends with the path given back and unrecorded, or the user edits a path that is not
recorded. `stray` are the paths that a command has left changed and unrecorded: it
died between a write and the managed state, left through `?` there, dropped the
output from the manifest, or could not restore or remove it.

**AtomicApply** is the promise: the project (destinations, backups, state)
changes in one step to the outcome of the plan, or it does not change.
`ApplyTransaction` implements it with the project as it was at the start while
the apply runs, and as it is afterwards.

**OperationLock** is `OperationLock::acquire` to its `Drop`, with the steps
between which another process can look: creation with `create_new`, payload,
work, removal; and for the loser, a failed creation and then a second look to
word its error. A process is one invocation. `Inspect` and `Recover` are the
person of `docs/user/operation-locks.md`, who finds an abandoned lock and later
removes it, with anything in between; `HoldWriters` is that page's line 28,
"Prevent other writers from starting during manual recovery".

**ProjectCommands** puts the commands inside the lock. Configuration is an
opaque value; a manifest, a managed state and an index entry are identified by
the configuration they were compiled from. Each file is read and written in the
steps the handlers do it: `LoadForCompile`, `DigestConfig` (a second read of the
configuration), `CompileTarget` per target, `WriteLock`, `LoadForApply`,
`ApplyTarget` per target, `LoadForRevert`, `RevertTarget`, `RevertLock`, then
`ListStates`, `ReadState` per file and `WriteIndex`. The apply of one target is
one step here because ApplyTransaction is about it. `LoadForApply` reads the
context, the lock file and the manifests together: no other mutating command can
run, and the user's edits of the configuration are kept between commands
(`EditsDuring = FALSE`). `compile --apply` is a `sync` without `update`. `sync
--preview` and what the final validation looks at are left out.

**FleetSync** is `cmd_fleet_sync` with `--apply`: the controller is a process of
OperationLock, each member is synced in process or by a child that is a process
of OperationLock too, and the parent blocks in `Command::output` until the child
ends. A child outlives a parent that dies. `finished` is history: the members
whose sync ended well while the lock file of that member's project was the syncing
process's own.

### Configuring

**ConfigLayers** is how a configuration is read: the built-in default, a profile,
`metactl.yaml` and `metactl.local.yaml`; a layer that sets a scalar overrides it,
a layer that gives a list replaces it. `role` stands for the scalars, `packs`,
`targets` and `sources` for the lists, as sets. It also holds what `init` writes
and the projection and merge of an import (`Projected`, `MergeImport`,
`ReplaceImport`).

**ProjectSetup** has an action for each command that writes one of those files or
the lock file: `Init_`, `Setup`, `ProjectLink`, `LibraryInit`, `SetDefault`,
`Add`, `Use`, `Remove`, `TargetAdd`, `TargetRemove`, `Import` of a project,
`Convert` of another tool's directory, `Compile`. The operation lock makes
commands run one at a time, so an action is a command, or the part of one up to
its next atomic write: `InitConfig` and `InitLock`, `SetPolicy`, `PolicyConfig`
and `PolicyLock`, `ImportFiles` and `ImportLock` follow each other through `run`,
and `Crash` may stop a command between them. `EditProfile` and `EditLocal` are
people. `Setup` takes the targets asked for, else those whose files it finds, else,
at a terminal, Codex. A digest is the file itself; `compiled`, `asked`, `copied` and `vouched`
are history.

**SourceLocks** adds `source add`, `remove` and `sync`. A git source is a clone
at a commit of its upstream (`UpstreamMoves`; `EditCache` makes it dirty), and is
recorded in the shared lock file, redacted if the source asks for it, and in a
lock of this machine. `Sync` is the check of the private sources before a
compile, with its refusals, its fetches that may fail, and the audit that refuses
a shared file that shows a path (`Exposed`).

In these two, commands that only edit a file are called in one way (`Plain`) and
with at most one target (`Choices`); a trailing `--sync` is a call that starts
next (`Alone`); `--detect` comes without a role. A branch reference stands for
every reference, directories other than the imported one exist and are valid, and
a clone that does not validate is a sync that fails (`SourceSyncFails`). A sync
whose compile fails is `SyncStops`. Setup's other policies than portable-first,
overlays, metadata and linked projects are left out, and so is
`library_content_digest`, which only status reports compare.

### The library

**LibraryRegistry** loads roots of manifests, normalises imports to candidates,
and resolves a configuration to a graph: what a reference matches, what a policy,
a role or a target suppresses and why, which surfaces are selected, pinned or
blocked, what search finds and route offers. **Synthesis** is what `compile`
generates from the active packs: surfaces and which are emitted, the instruction
index of shared and private packs within its size, skills, resources, manifests,
server configuration, hooks and runtime settings, and the policy report; and where
it fails: paths, frontmatter, a hook wiring that is malformed or names no command, a
runtime template that is not there. The text
of an output is the set of what it says, each with the pack it comes from: that
is what privacy and freshness tell apart.
Collections are functions on the places their members come from (root and position
in it, position in the request, line of the index), so that what is left out of
one keeps its place: the sequence of the code is these places in order.

**LibraryPipeline** lets processes start (`Start` loads the manifests), resolve,
compile, apply and validate, in any order and number, while `Edit` changes the
library, a text, the configuration or what git protects. Graph and manifest
outlive the process that made them; texts come through a cache keyed by size and
time. `Admitted` is the check of an apply: it compiles the graph again, compares
the manifest with the result and asks for the protection of what is private.
Retained commands, reference kinds, digests, formatting and the order of ties are
left out.

**LibraryStack** goes through the code's two loops: a step looks at the next
artifact of a source (`MergeOffer`) or goes on to the next source (`NextSource`).
No command calls `library_stack.rs`, only its tests: in `MCLibraryPipeline` a
behaviour resolves a stack or runs the pipeline.

### Protecting

**IgnoreRules** is what git and metactl read in `.git/info/exclude` and
`.gitignore`: authored text, of which a negation of the private path matters, and
a managed block, of which its rules do. **IgnorePublication** is `ignore install`
and `fix`, `status` (`plan`) and the check of a compile or apply (`publish`):
`CheckScope`, `PrepareWrite`, an evaluation (index, sources, a probe, the sources
and the probe again, revalidation), then for each file a staged copy in the
recovery directory, the comparison, and `Exchange` or `Create`, or `Capture` and
`Link` where files cannot be exchanged, `CompareDisplaced`, `SyncDirectories`; a
second evaluation; and `Rollback` of what was written. `User` edits through the
path or through a handle an editor holds, deletes, and tracks or untracks; one
step may fail (`mishap`) or the process may die. Projects without a worktree,
allowlist files, nested `.gitignore` files and global excludes are left out.

### Connecting

**DiscoveryRegistration** is the entry of metactl's server in a client's
configuration: the text of others, one server, and in Codex's TOML the comments
that mark a block, each missing, there once or several times, and whether
`[mcp_servers]` is written out with nothing else beneath it (`bare`). `Managed` tells metactl's own, `EditCodex` and `EditJson` are
what connecting and removing make of a file or why they refuse, `Registration`
and `Drift` what the doctor says. **DiscoveryConnection** runs several commands:
`Begin`, which fixes the command and arguments to register (`want`),
`HostIsReady`, `ReadAndEdit`, `Look` (all that a preview asks) and
`CheckTracked` (git's answer), `Compare` and `Persist`, the rename; beside
people and clients who edit harmlessly (`HarmlessEdits`: their own settings, or
dropping the comments, or writing the bare header) or touch the registration
(`HarmfulEdits`), an upgrade (`Reinstall`), `DeleteProject`, and `LinkDirectory`,
which puts a symbolic link in place of the configuration's directory. `touched` and `connected` are history. The
doctor's log and routing are left out.

A definition named `X_Something` is a plausible wrong version of `X`; the
mutants of `PROJECT.json` put it in place of `X` and name the property that
then fails.

## 3. What the runs check

Every run is exhaustive within its bounds. Names are of `.cfg` files.

| Run | Instance | Shows |
|---|---|---|
| `apply_atomic` | an instruction and a plain file; patch, copy; failing actions and state writes; 3 edits or compiles | the apply implements `AtomicApply`; the user's text is on disk or in the backup in every state |
| `apply_modes` | a JSON and a plain file; patch, copy, symlink, takeover; 4 edits or compiles | after success the state records the bytes on disk, the next apply is a no-op, and every recorded backup exists |
| `apply_faults` | a retained command and an instruction with other bytes at its legacy path; every fault of an apply; 3 edits or compiles | types; "compensated" means destinations, backups and state are exactly as before |
| `lifecycle_crash` | a JSON file; applies and reverts that die, applies that leave before the state is written, removals and restores of a revert that fail; 4 edits or compiles | a revert gives back what the path held before metactl first changed it, and the user's text is never lost, through crashes and half-finished reverts |
| `commands` | a sync of two targets, an apply of one, a revert of all, failing and dying, every fault of the lock; configuration edited between commands; a person who recovers the lock | one writer, whose lock file stays its own and is not taken over; what a finished command left is what the index shows; an apply applies what was compiled from the configuration on record |
| `fleet` | a fleet that lists its own and a second project, a fleet of the second that lists the first; every fault; a recovery | one sync per project at a time; "applied" means that this member was synced under its own project's lock; no fleet is refused by its own lock; every fleet ends |
| `ignore_install` | every scope, with exchange and without; five pairs of ignore files, the private path tracked or not; 3 user steps, one mishap | no text of the user's is lost; success means the private file was hidden and untracked at one moment; undisturbed, protection never lapses, a failure restores, and a fix leaves nothing to fix |
| `library` | four libraries (a pack private or shared, denied, imported or declared; one that does not load), hook wirings for all, for one or for no target, without a command or malformed, a runtime template that may go, two targets, two configurations, 1 edit; stacks of two baselines and an overlay with every lock and policy | apply accepts its own compile; nothing private is published unprotected, nothing stale, no candidate without consent, no blocked surface; offers are usable; precedence and locks in a stack |
| `project_setup` | one profile, two targets, four packs, four sources; any 4 commands or edits, dying between writes; 1 commit upstream | a fresh lock says what was compiled; the shared file holds only what was asked for; an import means the same; a full source sync leaves none stale; what is locked stays locked |
| `discovery_connection` | two commands; two projects in Codex's file, or one in a client's own; two installations; 2 steps of others | others' settings stay; only the project's own server changes; the printed rollback works, but under a bare header or a linked directory; the doctor says what connect and remove will do |

What the properties except, because the code does not hold it there: paths that
are `stray`, where the next apply takes metactl's own text for the user's and revert
gives that back, and a failing removal, which revert ignores
(`RevertRestoresOrigin`); a target whose last command failed after some of its work
(`FinishedWorkIsIndexed`); a plain
apply after a failed compile (`ApplyMatchesLock`); a directory sync that fails
after an exchange, which leaves a published file out of the rollback
(`FailureRestores`, `KeepsProtection`; line 69 of `ignore_publication.rs`), and
files captured and linked rather than exchanged (`KeepsProtection`: between the
two the path is empty, line 155); the digest that setup renews for a
configuration nobody compiled (`FreshLockIsCurrent`, `vouched`); a text that
keeps the size and time of the one it replaces (`PublishedIsCurrent`); sources
the shared lock may not show (`LockedStaysLocked`); an edit between connect's
comparison and its rename (`OthersAreKept`, `OnlyItsOwnServer`: `touched`); a
bare `[mcp_servers]` header and a linked directory, under which removal is refused
(`RollbackWorks`); and a file form, a linked directory or a lone closing comment that
the doctor does not look at (`DoctorAgrees`, which says of a registration under a
bare header that it is called configured and its removal is refused). After a rollback a separator line, or an empty map or file, may
be left; that is not a setting.

Bounds. Two outputs are the fewest for which compensation must undo one output
because another failed, and restores run in an order; properties of an output
alone are checked with one. An output's decision depends on its own record and
path only, so a third adds no new decision. `MaxEnv` bounds edits plus compiles
(applies and reverts are unbounded): the longest history that any planning rule
looks back on is first apply, recompile, drift, and a re-apply in another mode,
which takes 4. Two generated texts tell "a new version" from the one before; one
user text is enough, as an edit writes it, a generated text or nothing at all,
and planning asks only whether bytes are the recorded ones. Three commands on a
project are a loser, an owner and a newcomer. Two targets and two
configurations, one of which lists one target only, are the fewest for which a
partial compile or apply differs from a complete one. The fleets are the
smallest pair in which each needs the lock the other holds and one syncs its own
project. In `ignore_install` both files and one mishap are the fewest for which
a rollback has something to undo, and 3 user steps put an edit before, between
and after two readings. In `library` one edit between any two steps makes a
graph, a manifest or a cache stale, and processes are unbounded. In
`project_setup` 4 commands are what each of the hazards needs (add a source,
sync it, let it move or another be added, sync again). In `discovery_connection`
two edits are a client that rewrites a file and a person or an upgrade after it;
each start leaves one file a link, so that a behaviour is about the other. The
two commands there are alike and are symmetric; elsewhere processes differ and
no symmetry is used.

`CHECK_DEADLOCK FALSE` is set where the system stops by itself: a lock, fleet or
ignore process is one invocation, a stack is resolved once, and `MaxSteps` and
`MaxEdits` end the others. The apply runs check deadlock: an apply that hangs
would be found.

Fairness. Only `FairFSpec` assumes any: weak fairness of each fleet's own steps
and of each process's steps. The operating system schedules a runnable process,
and a parent in `Command::output` is woken when its child has ended. Nothing is
assumed of people, of faults or of age. Refused children end at once, as
`acquire` never waits: that is why mutual fleets do not deadlock, and the mutant
that waits instead (`Contend_Waits`) makes `EveryFleetEnds` fail.

### Disagreements with the documentation

Two runs end in a violation, each of something the repository says of itself:

- `noop_uncompensated`: an error at an output that needs no change
  (`materializer.rs` 1032-1039) is not compensated, though
  `docs/target-capability-reconciliation.md` 20-22 knows only two outcomes of a
  failed action, restored or `failed_partial`.
- `preview_overwrites_index`: `apply --preview` takes no lock and rebuilds
  `managed_files.json` (`main.rs` 7620) from what it read before another
  command finished, though `docs/user/operation-locks.md` 4-5 promises that a
  second writer fails rather than overwrite another command's work.

The models reach further ones that have no run; the passing runs leave out the
fault or input that leads there, or the property excepts it. With an explicit,
otherwise empty `[mcp_servers]` header in Codex's configuration, `skills connect`
succeeds and prints a rollback that is then refused ("Removing the Codex server
would change unrelated settings", `cli_skill_discovery_connection.rs` 849-852 and
809-814: the expected value drops the emptied table, 379-381, and the text left has
it), with nobody having edited anything, while `skills doctor` says "configured"
(1345-1352); `docs/user/skill-discovery.md` 191-193 says that the printed rollback
recognizes the managed entry, and `docs/design/skill-discovery-onboarding.md` 97-98
that rollback is exact. The others: a file that appears after the plan was made
is replaced without a backup (`materializer.rs` 1083; `UserTextSurvives` with
`Concurrent`), though lines 28-29 of that page say unmanaged bytes are never
silently replaced; a death between a write and the managed state lets the next
apply save generated bytes over the user's backup (`UserTextSurvives` with
`"crash"` and a file output, or an instruction and reverts); a failing success
line and a failing restore leave the new state behind `failed_partial`; and
`revert --all` takes its targets from a lock file that a later compile of fewer
targets has replaced (`main.rs` 7714), though its help (`main.rs` 1839) says
"Revert all applied targets". `revert` without `--target` reverts every compiled
target where its help says the first. `docs/user/operation-locks.md` 57-60 lists
a fleet that syncs its own project as future work; the code has it, and FleetSync
models it.

## 4. What is proved

| Theorem | For all | Assuming |
|---|---|---|
| `LockTypeCorrect` | commands, projects, people | - |
| `OwnerKeepsFile`, `LockExcludes`, `LockIsNeverTakenOver` | the same, any faults | `HoldWriters` |
| `FleetImplementsLock` | fleets, members | - |
| `FleetsDoNotBlockThemselves` | fleets, members, faults | - |
| `FleetSyncsAlone`, `ReportsAreHonest` | fleets, members, faults | `HoldWriters` |
| `CommandsTypeCorrect` | targets, configurations, commands | - |
| `CommandsExclude` | the same | `HoldWriters` |
| `IndexIsKept` | the same | `HoldWriters`, `Preview = {}` |
| `AppliesWhatWasCompiled` | the same | `HoldWriters`, `~EditsDuring` |
| `ApplyTypeCorrect` | outputs, kinds, modes, faults, with or without concurrent edits | - |
| `CompensatedMeansRestored` | the same | `~Concurrent` |
| `SuccessIsRecorded`, `AppliesConverge` | the same | `~Concurrent` |
| `ApplyIsAtomic` (the refinement of AtomicApply) | the same | `~Concurrent`, `Compensated` |
| `BackupsAreThere` | the same, edits during an apply included | no crash and no failing restore |
| `UserTextIsKept` | the same | `~Concurrent`, `Compensated`, no takeover |
| `RevertGivesBack` | outputs, and any sequence of compiles, edits, applies and reverts | `~Concurrent`, `KeepsBackups`, not both `"restore"` and `"success"` |
| `FreshLocks`, `NothingUnasked` | layers, profiles, sources, ways to call, numbers of commands | - |
| `ImportsAreEquivalent` | the same | - |
| `SyncedIsReady` | the same | `NamedOnce` |
| `LocksAreKept` | the same | `OneOfItsId` |
| `NoTextIsLost` | commands, start files, mishaps, numbers of edits, with or without an exchange | - |
| `SuccessIsProtected`, `ProtectionIsKept`, `FailuresRestore`, `InstallLeavesNoFix` | the same | - |
| `KeepsOthers`, `TouchesOnlyItsOwn` | commands, projects, requests, installations, edits | - |
| `ConnectedIsRemovable`, `DoctorIsRight` | the same | - |
| `PrivacyHolds`, `CurrentHolds` | libraries, texts, configurations, overlays, legacy manifests, numbers of edits and processes | - |
| `ConsentHolds` | the same | `VersionsTell` |
| `BlockedHolds`, `OwnCompileHolds`, `OffersHold` | the same | - |
| `PrecedenceHolds`, `LocksHold` | stacks | - |

The assumptions say where the code's promise ends, and each is there for a
reason that the code gives:

- `HoldWriters`: without it a person may remove the lock a new command has just
  created. `Preview = {}`: a preview breaks the index property, the violation
  above. `~Concurrent`: with edits during an apply the project cannot be as it
  was.
- `~EditsDuring`: the digest that a compile records is a second reading of the
  configuration (`main.rs:7236`), so an edit in between is recorded as compiled.
- `Compensated` leaves out the five faults that nothing takes back: a containment
  check, a planned no-op, or the making of the state's directory or bytes that fails
  outside the compensated closure, a failing restore, and a death. `apply_faults` and `noop_uncompensated` show what they do.
- no takeover in `UserTextIsKept`, and `KeepsBackups` (no takeover, no symlink
  mode, no retained output) in `RevertGivesBack`: a takeover of a drifted managed
  file saves the drifted bytes over the first backup, under symlink mode drift
  records no backup, and revert removes a retained command that has none.
- `"restore"` with `"success"`: the managed state is written before the success
  line; if that line fails and then the restore of the state, a new state is left
  with the older backups (`materializer.rs:1181`), which a later revert believes.
  Either fault alone is harmless.
- `NamedOnce`: no file that people write names two sources of one id. The code
  does not check files written by hand, and looks a lock's entry up by id, so that
  one of the two sources would be checked against the other's commit.
- `VersionsTell`: no declared pack has the version that imports get
  (`0.0.0-candidate`, which the code does not reserve). A graph records versions and
  not statuses, so such a pack, replaced by an import of its id, would be taken for
  what the graph had activated.
- `OneOfItsId`: an id that a showable source has is that of no source of another
  kind and of no hidden one. Lock entries are kept by id alone
  (`upsert_locked_source`), so another source of the id replaces the entry.

The constants' own assumptions are the shapes of the values (start files are
well-formed, a request's `replace` is a Boolean, a user's text is not a generated
one, `None` is no command, the marks for "absent" are no values, JSON files have
no marker comments, manifests are finite and have their fields, lists are lists,
legacy manifests have no graph, and so on); TLC evaluates each in the runs.

*Lock.* Mutual exclusion is not inductive: nothing in it says a lock file is
there. `LockInv` adds that an owner's file exists and is its own
(`OwnerHasFile`), that nobody owns a lock a person has found abandoned
(`RecoveryIsSafe`), and that a file's creator belongs to that project and is
past its start (`FileHasCreator`). Two owners would then both have created the
one file. Commands and fleets inherit this by refinement: each of their steps is
a step of `LockSpec` or leaves the lock alone. `FleetInv` adds that a fleet that
syncs in its own process syncs its own project, whose lock it owns. Reports are
honest because a process that works has its lock file: a child whose sync succeeded
is a member finished under that member's lock (`ReportInv`), and a fleet works in
process on no other project than that of its lock. Fleets do not refuse
themselves because a child is only ever started on another project than its
fleet's (`ContentionInv`), whatever the lock does.

*Index.* That the index shows finished work depends on what a command knows when
it writes it. `IndexInv` adds that what the command rebuilding the index has
read, or found absent from its list, is still what the state files hold
(`ReadIsCurrent`): nobody else works, by mutual exclusion. With that, the index
equals the state of every target whose last command has succeeded
(`IndexFollows`). The rest says who can be where: a command has begun only with
the lock (`NotBegun`), success is set only at the end (`OkAtEnd`), and a plain
compile neither changes a state nor reaches the index (`LastApplies`,
`PhasesOfCompile`).

*What is applied.* `ApplyMatchesLock` compares three files that several commands
write. `MatchInv` says that between commands that ended well the manifests of the
targets in the lock file were compiled from the configuration it records
(`Sound`); a compile breaks that from its first manifest to its lock file and
restores it only if it gets there, so that a plain apply relies on `CompiledWell`
and a sync, which has just got there, does not. `Knows` carries what a working
command has read up to where it uses it, by mutual exclusion.

*Compensation.* "Compensated means restored" says nothing of the states before
the report. `CompInv` adds where the project stands on the way: from the
preflight on the snapshots are `pre` (`StartsFromPre`); what has no snapshot, a
destination outside the manifest or a backup path the plan does not name, is
still as it was (`Untouched`); and during compensation, as long as nothing has
failed, every slot above `cur` is as it was (`RestoredAbove`). When `cur` is
0 that is every slot, and the project is `pre`. Slots are numbered in the order
of capture, so "has had its turn" is one comparison.

*The record of the disk.* `ProgressInv` adds to `CompInv` what the loop has done:
the plan is the one of the project the apply started from (`PlannedFromPre`);
outputs before `cur` are on disk as planned, with their backups and records
(`Applied`), those after it are untouched (`Waiting`), and the one in hand is
between the two. At the end every record fits its file. That a second apply then
finds nothing to do is a fact about the planner (`RecordOf` a file leads to
`Noop`), which needs that a user's text is not one that metactl generates
(`TextAssumption`).

*Refinement.* `AtomicProject` is `pre` while an apply runs and the project
itself otherwise. By `ProgressInv`, the project at success is all of the plan's
effects (the abstract `Commit`), and by `CompInv` the project at a compensated
failure is `pre` (the abstract `Abort`); every other step stutters. `RefineInv`
adds that no compensation fails, which is what `Compensated` gives.

*Backups.* `BackInv` needs no record of the disk, and so holds with edits during
an apply: a plan that promises a backup takes one or found one recorded
(`BackupsPlanned`); what the plan does not name is as it was in the snapshot
(`BackupsSnapped`); and compensation puts back the state first and then, slot by
slot, the backups it names (`BackupsRestored`).

*The user's text.* `UserTextIsKept` uses the refinement: it is enough that
`Kept` holds of the atomic project, so only the abstract steps can disturb it.
The text is in the file while nothing is recorded, and in the backup from then
on; the planner's lemmas say that a first write without a backup replaces
nothing of the user's, and a later one leaves the backup alone. `GivenUp` covers
the moment at which a dropped output is forgotten.

*Revert.* `OriginInv` says of the managed state that each backup it names is what
was there before metactl, and where it names none nothing of the user's was there
(`Backed`). A path without a record has no origin, or is `stray`, or an apply is at
it now (`Forgotten`, `Found`): that is why a recorded path that is not astray has
the origin its backup was made of. While compensation may still be due, that must hold of the old state
with the old backups and with those taken since (`Restorable`): an apply may add
backups but never change one. Revert has put back what lies before `cur`
(`Undone`). Deaths and lost backups are allowed throughout.

*Fresh locks.* "Not stale" compares digests of files, "what was compiled" is a
selection. `FreshInv` joins them by what the lock file recorded: the compiled
selection is what the recorded layers, profile and default give
(`LockDescribes`), unless setup vouched for a file. Files and profiles may then
change as they like: if the lock is not stale they are what was recorded, and the
selection is a function of them. Commands that write only the source entries of
the lock keep it (`KeptRecord`).

*Asked.* `SharedHoldsOnlyAsked` is inductive with the shape of the shared file
(`AskedInv`). The steps that write the file fall into a few kinds; `AskedWritten`
says that a file whose packs and sources are old ones or asked ones is fine, and
each command is shown to be of that kind, the imports through what they project.

*Imports.* `CopiedInv`: what was materialized decides alone, because the shared
file gives a role, packs and targets and no file lies above it. For that the
files must be layers (`LayersInv`, through every command), and the overlay of a
layer that sets a field decides that field (`OverlayIsLayer` and its kin).

*Sources.* `SyncInv` says that the pairs a sync is about to write have one fitting
entry for every source it went over (`SyncedAll`), and that every entry of either
lock is that of a source somebody named (`LocksInv`). `HeldInv` says that what the
files hold are such sources and, under `NamedOnce`, one of an id: commands that
write sources keep that, since `source add` leaves an id that is there and an
import adds none that is. Readiness is then read off the entries (`AtEntry`). For
`LocksAreKept`, `EntriesStay` says that every step keeps the keys of the shared
lock or empties it.

*Connect.* `EditIsMine` says of the text alone that whatever `Edit` makes of a
file has the same settings of others, and a server that is gone, new, or the
project's own with unchanged options unless they were to be replaced. `ConnInv`
carries it from the reading to the rename: what a command holds (`old`, `new`) is
such a pair from `ReadAndEdit` on, and at the rename the file is still `old` or
was touched. The comparison is what establishes the last part, and the edits of
others are what `touched` records.

*Rollback and doctor.* What connect writes can be removed (`Rollable`) by the same
project where no bare header stands, whatever installation there is by then, because removal asks for the
root and not for the command; a client's rewriting of comments and an upgrade keep
it, and so does every command of another project. `RollInv` says so of every
connected file and of what a command is about to write. Doctor's word is a fact
about the text (`DoctorFits`), by cases on its form, its marks and its server.

*Ignore files.* The user's texts move between three places (the file, its backup,
a second place for what a rollback displaces), and each move overwrites one of
them. `KeptInv` says why there is room: a file from `at` on is not published and
all its texts are live (`Ahead`), so that its one publication may overwrite the
backup; until its one rollback nothing is in the second place (`Behind`). An
editor that still has a file open writes wherever the file was moved, which the
same facts follow. Each file is in `written` once, because a scope names it once.

*Protection.* Success means that at one moment the path was hidden and untracked,
though the files and the index are read at different times. `SafeInv` says why:
what was listed is still the index as long as its stamp has not moved, and the
path was judged on files read after; the last reading of the stamp proves the
moment. It holds with edits throughout. The other three are about a command that
nobody disturbs: `QuietInv` says which files are published, which are listed for
rollback with their copies, and which are as found, at every phase. Protection is
never lost on the way because the rules that would uncover the path come off
last: `exclude` is written before `.gitignore`, and undone after it; that what
was hidden before stays hidden with one file of the two published is a fact about
the rules (`Verdict`).

*Published.* Everything the pipeline promises rests on one fact about
`Synthesize`, for any packs and target (`SynthesisShows`): an output speaks of the
active packs only; one that speaks of a private pack bears a private pack's label
or is the target's local file; and one of a surface is of a surface that the
selection emits. It is proved output kind by output kind; for an index it says
that cutting and dropping lines leaves them their packs (`IndexSpeaks`), and for
settings that the label is there exactly when the private packs change the text.
An apply publishes what it finds in its own synthesis of the manifest's graph
(`PublishedProved`). `PipeInv` adds what the graph and the manifest were made of,
since both outlive the process and the library: packs in an order, a selection
that is some configuration's, no blocked surface in an automatic manifest. What is
private *now* is then exposed (`ShownIsExposed`) and has been found protected.

*Its own compile.* That apply does not refuse it is the converse: whatever it
counts as exposed, compile counted as private (`ExposedIsPrivate`), because a
graph that synthesises says of each pack the visibility it has. `SettledInv` says
of a manifest nobody has edited around that it is what the process would make of
its graph, and that the cache reads as the disk does; reading more through such a
cache keeps it so (`CacheStaysTrue`).

*Candidates.* `ConsentInv`: a graph that holds a version a candidate is known by
was resolved under a mode that asks. When a pack is demoted later, the graph still
matches only if it recorded that version, and so did ask.

*Offers.* What `InOrder` chooses exists for any finite set and any strict order
(`OrderingExists`): a minimal set without an order would have one, as the element
that comes before no other can be put last. The rest is that scores are numbers
and sets of packs and skills finite, and that `search` and `resolve` ask one
question of a pack (`Withheld`).

*Precedence.* `StackInv`: each entry of the lock is supplied by the first or the
last of the offers that the loops have passed, the last if it is the overlay's.
The supplier of an artifact that is not offered again stays (`SupplierStays`), and
a collision that is allowed moves it to the overlay or leaves it with the first
baseline (`CollisionSupplies`).

Model-checked only: the liveness property `EveryFleetEnds`, for it needs fairness
and ENABLED. Every other property of a passing run has a theorem.

Definitions changed for the proofs, without a change of what they say: `NoFile`
and `NoServer` are records of their own shape instead of constants; `Verdict` is
nested conditions rather than CASE; registries, active packs and lines of an index
are functions on places rather than sequences, and the stack's loops have two
counters; the shared lock's update is `Upserted`, a
function by cases, since the provers know no `@@`. What they rely on is now
assumed by name: `TextAssumption`, `LayerAssumption`, `AbsenceAssumption`,
`MarksFit` of the start files.

## 5. Not modelled

Section 1 and the `components` of `PROJECT.json` list what has no module: the
bundled starter library (rewritten with equal bytes), plugin projection and usage
counts, the skill, pack, audit and search reports, fleet plan and preview, the
servers (one read-only request at a time), hooks and schedules (one file each),
documentation, tests, schemas and scripts. They keep no state that another command
decides by, or none that changes in more than one step.

In the modelled parts: the text of files, reports and errors; the merge and patch
algorithms below `own` and `gen`; two targets of one project that write the same
destination (each output has its own here); symlink escapes that the containment
checks refuse (the check is the fault `"check"`); staging file by file (one step,
`Compile`); the reading of git's index format; Windows and Unix differences in
renaming; and what section 2 says of each module.

## 6. Further hazards

Known from the code, and reached by no property.

- `project.rs:1799`: the loser reads the lock file after it failed to create it.
- `materializer.rs:1210`: an append that fails may have reached the journal.
- `materializer.rs:1175`: an output that is dropped and generated again has lost
  its backup.
- `main.rs:7767`: a partial `revert` cannot be retried. `main.rs:7235`: a compile
  of fewer targets drops the others from the lock file. `main.rs:7236`: the
  configuration's digest is a second reading.
- `setup.rs:453`: setup renews the lock's digests without compiling.
- `cli_source.rs`: `source sync <name>` forgets other hidden sources' private
  lock although `main.rs:3822` names it as the remedy; re-adding an id with
  another URL keeps the old clone; a local source is resolved against the working
  directory at `cli_source.rs:456` and against the project at `project.rs:1129`; a
  dirty clone at the locked commit counts as fresh.
- `main.rs:3690`, `6829`: a missing private source hides a stale one.
- `main.rs:10362`: an open git source's entry in the shared lock contains a path
  of this machine, so that `sync` is refused by its own audit.
- `project_import.rs:1882`: a merge of imported defaults drops the automatic
  selection of surfaces; the source of a converted directory has no `library.json`
  and never syncs.
- `project.rs`: a list in a layer hides those below it; `compile --role` is not
  recorded in the lock.
- `library_instruction.rs:196`: the index may refer to surfaces that are not
  emitted; 248: a merged skill contains the instructions of blocked surfaces.
- `library_stack.rs:298`: a duplicate inside the overlay is reported as
  overriding a baseline.
- `materializer.rs:226`: `stage_outputs` writes earlier files before it refuses a
  duplicate destination.
- `cli_skill_discovery_connection.rs`: a renamed executable, or an argument list
  over several lines, makes metactl's own server unmanaged and not removable.

## 7. Plan

Done: sections 2 to 4. What would add most, in this order:

1. Staging file by file, composed with ProjectCommands, and destinations shared by
   targets.
2. Revert with edits between its digest checks and its writes.
