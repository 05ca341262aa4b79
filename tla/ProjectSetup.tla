---------------------------- MODULE ProjectSetup ----------------------------
(***************************************************************************)
(* The commands that change what a project is configured to be, and the    *)
(* lock file that says what was compiled: init, setup, project link and    *)
(* import, add, use, remove, target, profile, library init and compile     *)
(* (crates/metactl/src/main.rs, setup.rs, project_import.rs, cli_profile.rs*)
(* ).  A command holds the operation lock from start to end, so that       *)
(* commands run one at a time; each file is written atomically, and a      *)
(* command may die between two of its writes.  Between commands people     *)
(* edit the files.  The digest of a file is the file itself here.          *)
(***************************************************************************)
EXTENDS ConfigLayers, Naturals

CONSTANTS
    Steward,       \* the pack that setup adds (agent-artifact-stewardship)
    Imported,      \* the pack an import makes of another tool's files
    ImportedFrom,  \* the source record that import writes
    Starter,       \* the packs of the starter library
    Detected,      \* the targets whose files are in the project already
    Donor,         \* the project to import from: [raw, local], two layers
    UserLayer,     \* what `library init` writes as a profile
    Calls,         \* how commands are called
    Options,       \* options of an import
    LocalEdits, ProfileEdits,  \* what people may write into those files
    MaxSteps,      \* bound: commands and edits
    NoSelection    \* nothing compiled, nothing copied

ASSUME SetupAssumption ==
    /\ Steward \in Starter /\ Starter \subseteq Pack /\ Imported \in Pack \ Starter
    /\ ImportedFrom \in Source /\ ~ImportedFrom.git
    /\ Detected \subseteq Target
    /\ Donor.raw \in Layer /\ Donor.local \in Layer \union {Unset}
    /\ UserLayer \in Layer /\ Calls \subseteq Call /\ Options \subseteq ImportOptions
    /\ LocalEdits \subseteq Layer \union {Unset}
    /\ ProfileEdits \subseteq Layer \union {Unset}
    /\ MaxSteps \in Nat

VARIABLES
    shared,    \* metactl.yaml, or Unset
    local,     \* metactl.local.yaml, or Unset
    profiles,  \* the user's profile files
    default,   \* the user's default profile
    lock,      \* metactl.lock.json
    converted, \* the files made of another tool's are in the project
    step,      \* what the command that runs has left to do, <<"idle">> if none
    steps,     \* commands and edits so far
    compiled,  \* history: the selection that was compiled last
    vouched,   \* history: setup has renewed the digest of a lock that says what was compiled
    asked,     \* history: packs and sources a command was asked to put in metactl.yaml
    copied     \* history: what the project was materialized from, while it holds

EmptyLock == [targets |-> {}, config |-> Unset, name |-> Unset, profile |-> Unset,
              local |-> Unset, sources |-> [s \in {} |-> Unset]]

fvars == <<shared, local, profiles, default, lock, converted>>
hvars == <<compiled, vouched, asked, copied>>
svars == <<fvars, hvars, step, steps>>

Idle == step = <<"idle">> /\ steps < MaxSteps
Count == steps' = steps + 1
Done == step' = <<"idle">>
Then(what) == step' = what

-----------------------------------------------------------------------------
(* Reading                                                                 *)

Active(call) == ProfileOf(call, shared, default)
Config(call) == Merged(ProfileLayer(Active(call), profiles), shared, local)

\* The digest of the profile's file; a built-in template has none.
ProfileFile(p) == IF p = Unset THEN Unset ELSE profiles[p]

\* Wrong: metactl.local.yaml is not looked at.
Stale_IgnoresLocal(call) ==
    /\ lock.targets # {}
    /\ \/ lock.config # shared
       \/ lock.name # Active(call)
       \/ lock.profile # ProfileFile(Active(call))

\* lock_is_stale: a lock file without targets has nothing to be stale about.
Stale(call) ==
    /\ lock.targets # {}
    /\ \/ lock.config # shared
       \/ lock.name # Active(call)
       \/ lock.profile # ProfileFile(Active(call))
       \/ lock.local # local

-----------------------------------------------------------------------------
(* metactl init                                                            *)

\* load_required_context fails without metactl.yaml.
HasConfig == shared # Unset

Asks(packs, sources) ==
    asked' = [packs |-> asked.packs \union packs, sources |-> asked.sources \union sources]

\* The first of init's two writes.  It replaces a file that is there.
InitConfig(call, targets, role, detect, bind, after) ==
    LET p == ProfileForInit(call, default)
        layer == ProfileLayer(p, profiles)
        chosen == InitTargets(targets, detect, layer, Detected)
        extends == IF call.profile # Unset \/ bind THEN p ELSE Unset
    IN  /\ bind => p # Unset
        /\ chosen # {}
        /\ shared' = InitLayer(extends, targets, role, chosen, layer)
        /\ Asks(IF layer.packs = {} THEN RolePacks[FirstSet(role, FirstSet(layer.role, Builder))]
                ELSE {}, {})
        /\ Then(<<"init", p, after>>)

Init_(call, targets, role, detect, bind) ==
    /\ Idle /\ Count
    /\ InitConfig(call, targets, role, detect, bind, <<"idle">>)
    /\ copied' = NoSelection
    /\ UNCHANGED <<local, profiles, default, lock, converted, compiled, vouched>>

\* The second: a lock file that knows no targets and no sources.
InitLock ==
    /\ step[1] = "init"
    /\ lock' = [EmptyLock EXCEPT !.config = shared, !.name = step[2],
                                 !.profile = ProfileFile(step[2])]
    /\ Then(step[3])
    /\ UNCHANGED <<shared, local, profiles, default, converted, steps, hvars>>

-----------------------------------------------------------------------------
(* metactl setup                                                           *)

\* On a new project: init with the targets asked for or detected, or at a terminal
\* Codex when there are none, then the artifact policy, which adds the stewardship
\* pack.  The files that targets are detected by may have gone.
Setup(call, targets, bind) == \E found \in {Detected, {}} :
    /\ Idle /\ Count
    /\ ~HasConfig
    /\ InitConfig(call, FirstGiven(targets, FirstGiven(found, {Codex})), Unset, FALSE, bind, <<"policy">>)
    /\ copied' = NoSelection
    /\ UNCHANGED <<local, profiles, default, lock, converted, compiled, vouched>>

\* On a configured one it only sets the policy.
SetPolicy ==
    /\ Idle /\ Count
    /\ HasConfig
    /\ Then(<<"policy">>)
    /\ UNCHANGED <<fvars, hvars>>

PolicyConfig ==
    /\ step = <<"policy">> /\ HasConfig
    /\ shared' = [shared EXCEPT !.packs = @ \union {Steward}]
    /\ Asks({Steward}, {})
    /\ copied' = NoSelection
    /\ Then(<<"policyLock">>)
    /\ UNCHANGED <<local, profiles, default, lock, converted, steps, compiled, vouched>>

\* The lock file is told of the new metactl.yaml, compiled or not.
PolicyLock ==
    /\ step = <<"policyLock">>
    /\ lock' = [lock EXCEPT !.config = shared]
    /\ vouched' = (vouched \/ (lock.targets # {} /\ lock.config # shared))
    /\ Done
    /\ UNCHANGED <<shared, local, profiles, default, converted, steps,
                   compiled, asked, copied>>

-----------------------------------------------------------------------------
(* Profiles                                                                *)

ProjectLink(p) ==
    /\ Idle /\ Count /\ Done
    /\ shared' = [FirstSet(shared, EmptyLayer) EXCEPT !.extends = p]
    /\ UNCHANGED <<local, profiles, default, lock, converted, compiled, vouched, asked, copied>>

LibraryInit(p, setDefault) ==
    /\ Idle /\ Count /\ Done
    /\ profiles' = [profiles EXCEPT ![p] = UserLayer]
    /\ default' = IF setDefault THEN p ELSE default
    /\ UNCHANGED <<shared, local, lock, converted, compiled, vouched, asked, copied>>

\* set-default refuses a profile it cannot find.
SetDefault(p) ==
    /\ Idle /\ Count /\ Done
    /\ p # Unset => profiles[p] # Unset \/ Template[p] # Unset
    /\ default' = p
    /\ UNCHANGED <<shared, local, profiles, lock, converted, compiled, vouched, asked, copied>>

EditProfile(p) ==
    /\ Idle /\ Count /\ Done
    /\ \E text \in ProfileEdits : profiles' = [profiles EXCEPT ![p] = text]
    /\ UNCHANGED <<shared, local, default, lock, converted, compiled, vouched, asked, copied>>

EditLocal ==
    /\ Idle /\ Count /\ Done
    /\ \E text \in LocalEdits : local' = text
    /\ copied' = NoSelection
    /\ UNCHANGED <<shared, profiles, default, lock, converted, compiled, vouched, asked>>

-----------------------------------------------------------------------------
(* Packs and targets.  A command changes the one file it names, whatever   *)
(* the other layers say; known is the set of packs the libraries offer.    *)

WriteShared(layer, packs) ==
    /\ shared' = layer
    /\ Asks(packs, {})
    /\ copied' = NoSelection
    /\ UNCHANGED <<local, profiles, default, lock, converted, compiled, vouched>>

\* Wrong: the merged configuration is written back.
Add_WritesMerged(call, p, known, after) ==
    /\ Idle /\ Count /\ HasConfig
    /\ p \in known
    /\ IF p \in Config(call).packs THEN UNCHANGED <<fvars, hvars>>
       ELSE WriteShared([shared EXCEPT !.packs = Config(call).packs \union {p}], {p})
    /\ Then(after)

\* metactl add: what any layer gives is configured already.
Add(call, p, known, after) ==
    /\ Idle /\ Count /\ HasConfig
    /\ p \in known
    /\ IF p \in Config(call).packs THEN UNCHANGED <<fvars, hvars>>
       ELSE WriteShared([shared EXCEPT !.packs = @ \union {p}], {p})
    /\ Then(after)

\* metactl use: only the file it writes is looked at.
Use(p, isLocal, known, after) ==
    /\ Idle /\ Count /\ HasConfig
    /\ p \in known
    /\ IF isLocal
         THEN /\ local' = [FirstSet(local, EmptyLayer) EXCEPT !.packs = @ \union {p}]
              /\ copied' = IF p \in FirstSet(local, EmptyLayer).packs THEN copied
                           ELSE NoSelection
              /\ UNCHANGED <<shared, profiles, default, lock, converted,
                             compiled, vouched, asked>>
         ELSE IF p \in shared.packs THEN UNCHANGED <<fvars, hvars>>
              ELSE WriteShared([shared EXCEPT !.packs = @ \union {p}], {p})
    /\ Then(after)

Remove(p, after) ==
    /\ Idle /\ Count /\ HasConfig
    /\ IF p \in shared.packs THEN WriteShared([shared EXCEPT !.packs = @ \ {p}], {})
       ELSE UNCHANGED <<fvars, hvars>>
    /\ Then(after)

TargetAdd(ts, after) ==
    /\ Idle /\ Count /\ HasConfig
    /\ IF ts \subseteq shared.targets THEN UNCHANGED <<fvars, hvars>>
       ELSE WriteShared([shared EXCEPT !.targets = @ \union ts], {})
    /\ Then(after)

TargetRemove(ts, after) ==
    /\ Idle /\ Count /\ HasConfig
    /\ IF ts \intersect shared.targets = {} THEN UNCHANGED <<fvars, hvars>>
       ELSE WriteShared([shared EXCEPT !.targets = @ \ ts], {})
    /\ Then(after)

-----------------------------------------------------------------------------
(* metactl project import                                                  *)

DonorConfig ==
    Merged(ProfileLayer(FirstSet(Donor.raw.extends, default), profiles), Donor.raw, Donor.local)

\* Create is refused where there is a metactl.yaml; where there is none, all
\* three ways write what was imported.
WriteImport(new, fields, how) ==
    /\ shared # Unset => how # "create"
    /\ shared' = IF shared = Unset THEN new
                 ELSE IF how = "merge" THEN MergeImport(shared, new, fields)
                 ELSE ReplaceImport(shared, new, fields)

Import(opt, how) ==
    LET from == IF opt.mode = "materialize" THEN DonorConfig ELSE Donor.raw
        whole == {"role", "packs", "targets"} \subseteq opt.fields
    IN  /\ Idle /\ Count
        /\ WriteImport(Projected(opt, Donor.raw, DonorConfig), FieldsOf(opt), how)
        /\ Asks(from.packs, {s \in from.sources : s.private => opt.private})
        /\ copied' = IF /\ opt.mode = "materialize" /\ whole
                        /\ shared = Unset /\ local = Unset /\ from.packs # {}
                     THEN Selection(DonorConfig) ELSE NoSelection
        /\ Then(<<"importLock">>)
        /\ UNCHANGED <<local, profiles, default, lock, converted, compiled, vouched>>

\* From another tool's directory: one pack made of its instructions, and the
\* source that offers it.
Convert(how) ==
    /\ Idle /\ Count
    /\ WriteImport([EmptyLayer EXCEPT !.packs = {Imported}, !.sources = {ImportedFrom}],
                   {"packs", "sources"}, how)
    /\ Asks({Imported}, {ImportedFrom})
    /\ copied' = NoSelection
    /\ Then(<<"importFiles">>)
    /\ UNCHANGED <<local, profiles, default, lock, converted, compiled, vouched>>

ImportFiles ==
    /\ step = <<"importFiles">>
    /\ converted' = TRUE
    /\ Then(<<"importLock">>)
    /\ UNCHANGED <<shared, local, profiles, default, lock, steps, hvars>>

\* The lock file is of the file written now, and of nothing compiled.
ImportLock ==
    /\ step = <<"importLock">>
    /\ lock' = [lock EXCEPT !.targets = {}, !.sources = EmptyLock.sources, !.config = shared,
                            !.name = shared.extends, !.profile = ProfileFile(shared.extends)]
    /\ vouched' = FALSE
    /\ Done
    /\ UNCHANGED <<shared, local, profiles, default, converted, steps,
                   compiled, asked, copied>>

-----------------------------------------------------------------------------
(* metactl compile                                                         *)

\* Every target of the configuration is compiled, and the lock file is of
\* the files as they are now.  It keeps its source entries.
CompileAll(call, known) ==
    LET config == Config(call)
    IN  /\ Selection(config).packs \subseteq known
        /\ lock' = [lock EXCEPT !.targets = config.targets, !.config = shared,
                                !.name = Active(call), !.profile = ProfileFile(Active(call)),
                                !.local = local]
        /\ compiled' = Selection(config)
        /\ vouched' = FALSE
        /\ UNCHANGED <<shared, local, profiles, default, converted, asked, copied>>

\* Without --update-lock a stale lock file stops it.
Compile(call, update, known) ==
    /\ Idle /\ Count /\ Done
    /\ HasConfig
    /\ update \/ ~Stale(call)
    /\ CompileAll(call, known)

\* A command dies between two of its writes.
Crash ==
    /\ step # <<"idle">>
    /\ Done
    /\ UNCHANGED <<fvars, hvars, steps>>

=============================================================================
