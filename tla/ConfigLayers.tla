---------------------------- MODULE ConfigLayers ----------------------------
(***************************************************************************)
(* The layers a project's configuration is read from, and how they combine *)
(* (crates/metactl/src/project.rs): the built-in default, a profile of the *)
(* user, metactl.yaml, which the project shares, and metactl.local.yaml,   *)
(* which it does not.  A layer that sets a scalar overrides it, a layer    *)
(* that gives a list replaces it.  Here `role` stands for the scalars and  *)
(* `packs`, `targets` and `sources` for the lists, as sets: no property    *)
(* depends on their order.  Below that, what a new metactl.yaml holds:     *)
(* `init`, and an import from another project (project_import.rs).         *)
(***************************************************************************)
EXTENDS FiniteSets

CONSTANTS
    Unset,          \* a scalar no layer sets; no profile; no file
    Role, Pack, Target, Profile,
    SourceId, Url,
    Builder,        \* the role of the built-in default
    Codex,          \* its one target
    RolePacks,      \* RolePacks[r]: the packs of role r when none is configured
    Template        \* Template[p]: the built-in template of profile p, or Unset

\* A source of packs.  A git source is cloned from its url; a local one is a
\* directory of the project.  `private` is its visibility, `hidden` whether
\* the lock file may say where it comes from (lock_publicity).
Source == [id : SourceId, git : BOOLEAN, url : Url,
           private : BOOLEAN, hidden : BOOLEAN]

Layer == [extends : Profile \union {Unset}, role : Role \union {Unset},
          packs : SUBSET Pack, targets : SUBSET Target, sources : SUBSET Source]

ASSUME LayerAssumption ==
    /\ Unset \notin Profile \union Role \union Layer
    /\ Builder \in Role /\ Codex \in Target
    /\ RolePacks \in [Role -> SUBSET Pack]
    /\ \A p \in Profile : Template[p] = Unset \/ Template[p] \in Layer

EmptyLayer == [extends |-> Unset, role |-> Unset,
               packs |-> {}, targets |-> {}, sources |-> {}]

DefaultConfig == [EmptyLayer EXCEPT !.role = Builder, !.targets = {Codex}]

FirstGiven(upper, lower) == IF upper = {} THEN lower ELSE upper
FirstSet(upper, lower) == IF upper = Unset THEN lower ELSE upper

Overlay(lower, upper) ==
    [extends |-> upper.extends,
     role    |-> FirstSet(upper.role, lower.role),
     packs   |-> FirstGiven(upper.packs, lower.packs),
     targets |-> FirstGiven(upper.targets, lower.targets),
     sources |-> FirstGiven(upper.sources, lower.sources)]

\* How a command is called: with a profile of its own (--profile or
\* METACTL_PROFILE), and with or without the user's default (--no-profile).
Call == [profile : Profile \union {Unset}, noDefault : BOOLEAN]

ProfileOf(call, project, default) ==
    FirstSet(call.profile, FirstSet(project.extends, IF call.noDefault THEN Unset ELSE default))

\* The profile that `init` looks at: the project has none of its own yet.
ProfileForInit(call, default) ==
    FirstSet(call.profile, IF call.noDefault THEN Unset ELSE default)

\* A profile without a file is its built-in template, or nothing.
ProfileLayer(p, files) ==
    IF p = Unset THEN EmptyLayer
    ELSE FirstSet(files[p], FirstSet(Template[p], EmptyLayer))

\* What a command works with, from the files it finds.
Merged(profile, project, local) ==
    Overlay(Overlay(Overlay(DefaultConfig, profile), project),
            IF local = Unset THEN EmptyLayer ELSE local)

\* What is compiled: the packs of the role stand in for an empty list.
Selection(config) ==
    [role |-> config.role, packs |-> FirstGiven(config.packs, RolePacks[config.role]),
     targets |-> config.targets, sources |-> config.sources]

-----------------------------------------------------------------------------
(* metactl init                                                            *)

\* Targets are those asked for, with --detect also those whose files are
\* there already, else the profile's, else those detected.
InitTargets(asked, detect, profile, detected) ==
    IF asked # {} THEN asked \union (IF detect THEN detected ELSE {})
    ELSE IF profile.targets # {} /\ ~detect THEN profile.targets
    ELSE detected

\* What the new file leaves to the profile is left out of it.
InitLayer(extends, asked, role, targets, profile) ==
    LET chosen == FirstSet(role, FirstSet(profile.role, Builder))
    IN  [extends |-> extends,
         role    |-> IF role # Unset \/ profile.role = Unset THEN chosen ELSE Unset,
         packs   |-> IF profile.packs = {} THEN RolePacks[chosen] ELSE {},
         targets |-> IF asked # {} \/ profile.targets = {} THEN targets ELSE {},
         sources |-> {}]

-----------------------------------------------------------------------------
(* metactl project import                                                  *)

Fields == {"extends", "role", "packs", "targets", "sources"}
ByDefault == Fields \ {"sources"}

\* mode "auto" copies what the other project's file says; a profile it names
\* comes along unless mode is "explicit".  "materialize" copies what it comes
\* to, so that no profile is needed.  `public` and `private` are the flags
\* that ask for source records; naming the field asks for the public ones.
ImportOptions == [mode : {"auto", "explicit", "materialize"}, fields : SUBSET Fields,
                  public : BOOLEAN, private : BOOLEAN]

CopiedSources(opt, sources) ==
    {s \in sources : IF s.private THEN opt.private
                     ELSE opt.public \/ "sources" \in opt.fields}

\* Wrong: materialize copies the file, as the other modes do.
Projected_Raw(opt, raw, config) ==
    LET want(f) == f \in opt.fields
    IN  [extends |-> IF want("extends") /\ opt.mode = "auto" THEN raw.extends ELSE Unset,
         role    |-> IF want("role") THEN raw.role ELSE Unset,
         packs   |-> IF want("packs") THEN raw.packs ELSE {},
         targets |-> IF want("targets") THEN raw.targets ELSE {},
         sources |-> CopiedSources(opt, raw.sources)]

Projected(opt, raw, config) ==
    LET from == IF opt.mode = "materialize" THEN config ELSE raw
        want(f) == f \in opt.fields
    IN  [extends |-> IF want("extends") /\ opt.mode = "auto" THEN raw.extends ELSE Unset,
         role    |-> IF want("role") THEN from.role ELSE Unset,
         packs   |-> IF want("packs") THEN from.packs ELSE {},
         targets |-> IF want("targets") THEN from.targets ELSE {},
         sources |-> CopiedSources(opt, from.sources)]

\* The flags that ask for source records add the field.
FieldsOf(opt) ==
    opt.fields \union (IF opt.public \/ opt.private THEN {"sources"} ELSE {})

\* --merge keeps what the project has, and adds.
MergeImport(current, new, fields) ==
    LET want(f) == f \in fields
        held == {s.id : s \in current.sources}
    IN  [extends |-> IF want("extends") THEN FirstSet(current.extends, new.extends)
                     ELSE current.extends,
         role    |-> IF want("role") THEN FirstSet(current.role, new.role) ELSE current.role,
         packs   |-> current.packs \union (IF want("packs") THEN new.packs ELSE {}),
         targets |-> current.targets \union (IF want("targets") THEN new.targets ELSE {}),
         sources |-> current.sources \union
                     (IF want("sources") THEN {s \in new.sources : s.id \notin held} ELSE {})]

\* --replace overwrites each field it imports, with nothing if need be.
ReplaceImport(current, new, fields) ==
    [f \in Fields |-> IF f \in fields THEN new[f] ELSE current[f]]

=============================================================================
