-------------------------- MODULE LibraryPipeline --------------------------
(***************************************************************************)
(* resolve, compile and apply over a library that its owner edits: the     *)
(* privacy checks of crates/metactl/src/library_privacy.rs and the kernel  *)
(* calls of library_registry.rs and reference_kernel.rs.                   *)
(*                                                                         *)
(* A process loads the manifests of the library once and reads the texts   *)
(* of its packs when it needs them, through a cache.  The graph it         *)
(* resolves and the manifest it compiles outlive it: another process, that *)
(* has loaded another library, may go on with them.  Writing the outputs   *)
(* into the project is ApplyTransaction's subject, and what git ignores is *)
(* IgnorePublication's: here a set of protected paths.                     *)
(***************************************************************************)
EXTENDS Synthesis

CONSTANTS
    Libraries,   \* Libraries[l]: a state of the library, a sequence of roots
    Files,       \* Files[path]: the texts a file of the library may have
    Configs,     \* the configurations of the project
    Overlays,    \* targets a command may name instead, and NoRef
    ApplyModes, Overrides,   \* of apply, and of the selection of surfaces
    Queries,     \* sets of terms
    Legacy,      \* manifests that carry no graph, from an earlier release
    Guards,      \* sets of paths that git ignores and does not track
    State,       \* the path `.metactl/`
    NoGraph, NoProc, NoManifest,
    MaxEdits     \* bound on the edits of library, files, config and guard

\* Manifests are finite; they are records, lists are lists, a pack has a version,
\* and no reference to a pack is the absence of one.
ASSUME LibraryAssumption == \A l \in DOMAIN Libraries : LET roots == Libraries[l] IN
    /\ \A role \in Range(Everything(roots, "roles")) : DOMAIN role.defaults \subseteq Nat
    /\ \A target \in Range(Everything(roots, "targets")) : "id" \in DOMAIN target
    /\ \A pack \in Range(PacksOf(roots)) :
          /\ pack.version # AnyVersion /\ RefTo(pack) # NoPack
          /\ IsFiniteSet(ToSet(pack.resources)) /\ IsFiniteSet(DOMAIN pack.terms)
    /\ IsFiniteSet(DOMAIN PacksOf(roots))

ASSUME ProjectAssumption ==
    /\ \A c \in Configs :
          /\ DOMAIN c = {"role", "policy", "packs", "targets", "mode", "auto"}
          /\ DOMAIN c.packs \subseteq Nat
          /\ c.auto # NoRef => NoSurface \notin c.auto.blocked
    /\ \A m \in Legacy : m.graph = NoGraph
    /\ \A query \in Queries : IsFiniteSet(query)

VARIABLES
    lib, files,  \* the library on disk: its state, and which text each file has
    cfg, guard,  \* the project's configuration, and its protected paths
    proc,        \* the process: [lib, cache], or NoProc
    graph,       \* the graph resolved last
    manifest,    \* the manifest compiled last
    consent,     \* history: the discovery mode the graph was resolved under
    settled,     \* history: the apply mode of the last compile, NoRef since an edit
    last,        \* what the last command did
    edits

vars == <<lib, files, cfg, guard, proc, graph, manifest, consent, settled, last, edits>>

Paths == DOMAIN Files
Running == proc # NoProc

\* What a process that loads the library in state l has in memory.
Registry == [l \in {k \in DOMAIN Libraries : Loads(Libraries[k])} |-> Load(Libraries[l])]
Reg == Registry[proc.lib]
OnDisk(path) == Files[path][files[path]]

-----------------------------------------------------------------------------
(* Reading a text: the cache answers while size and time of the file are   *)
(* what they were.  A missing file reads as the pack's title.              *)

MissingText == [exists |-> FALSE, slug |-> <<"default">>, body |-> "title", front |-> "none",
                terms |-> {}, wiring |-> NoRef, stamp |-> 0,
                card |-> [name |-> "none", aliases |-> {}, positive |-> {}, negative |-> {}, targets |-> {}]]

\* Wrong: whatever the cache has is taken.
Read_AnyStamp(cache, path) ==
    IF ~OnDisk(path).exists THEN MissingText
    ELSE IF path \in DOMAIN cache THEN Files[path][cache[path]] ELSE OnDisk(path)

Read(cache, path) ==
    IF ~OnDisk(path).exists THEN MissingText
    ELSE IF path \in DOMAIN cache /\ Files[path][cache[path]].stamp = OnDisk(path).stamp
    THEN Files[path][cache[path]] ELSE OnDisk(path)

View(cache) == [p \in Paths |-> Read(cache, p)]
Disk == View(<<>>)
\* What the process sees: one view, in a set so that TLC evaluates it once.
Views == {View(p.cache) : p \in {proc} \ {NoProc}}

Active(reg, g) == [i \in DOMAIN g.activated |-> reg.packs[g.activated[i].id]]

\* The texts that making the outputs reads.
ReadPaths(packs, target) ==
    LET kinds == {"instruction"} \cup UNION {ct.resources : ct \in ToSet(target.compile)}
                   \cup (IF SkillTargets(target) = <<>> THEN {} ELSE DOMAIN AttachmentDirs)
                   \cup (IF target.runtime # NoRef /\ target.hooks THEN {"hook_wiring"} ELSE {})
    IN  {r.path : r \in UNION {OfKind(packs[i], kinds) : i \in DOMAIN packs}}

Cached(cache, paths) ==
    LET read == {p \in paths : OnDisk(p).exists}
        Kept(p) == p \in DOMAIN cache /\ Read(cache, p) = Files[p][cache[p]]
    IN  [p \in DOMAIN cache \cup read |->
           IF p \notin read \/ Kept(p) THEN cache[p] ELSE files[p]]

-----------------------------------------------------------------------------
(* Privacy.                                                                *)

SharedPack(reg, ref) == Known(reg.packs, ref) /\ reg.packs[ref.id].vis = "shared"

\* A graph may lie in a shared file only if all it says is known to be shared
\* and can be derived again from the library.
GraphRequiresPrivateState(reg, g) ==
    \/ ~Known(reg.roles, g.role) \/ ~Known(reg.policies, g.policy) \/ ~Known(reg.targets, g.target)
    \/ \E r \in g.requested \cup Range(g.activated) \cup {s.ref : s \in g.suppressed} :
          ~SharedPack(reg, r)
    \/ \E id \in DOMAIN g.visibility :
          g.visibility[id] # "shared" \/ ~SharedPack(reg, Ref(id, AnyVersion))
    \/ SavedSurfaces(g.auto) # {}
    \/ \E s \in g.suppressed : \A mode \in DiscoveryModes :
          SuppressionReason(reg.packs[s.ref.id], reg.roles[g.role.id],
                            reg.policies[g.policy.id], g.target, mode) # s.why
    \/ \E gap \in g.gaps : gap # <<"pack_selection", {RefTo(reg.roles[g.role.id]),
                                                      RefTo(reg.policies[g.policy.id])}>>
    \/ ~(g.provenance \subseteq {r.id : r \in {q \in Range(g.activated) : reg.packs[q.id].provenance}})

\* The graph's packs are known, and as visible as the graph says.
ValidPrivacyGraph(reg, g) ==
    /\ Known(reg.targets, g.target)
    /\ \A r \in Range(g.activated) :
          /\ Known(reg.packs, r)
          /\ r.id \in DOMAIN g.visibility /\ g.visibility[r.id] = reg.packs[r.id].vis

PrivateOutput(o, g, target) ==
    \/ o.pack # NoPack /\ ~(o.pack.id \in DOMAIN g.visibility /\ g.visibility[o.pack.id] = "shared")
    \/ target.local.surface # NoRef /\ o.dest = target.local.surface

\* Wrong: the state is protected only along with a private output.
PrivatePaths_OutputsOnly(reg, outputs, g, target) ==
    LET paths == {o.dest : o \in {p \in outputs : PrivateOutput(p, g, target)}}
    IN  paths \cup (IF paths # {} THEN {State} ELSE {})

PrivatePaths(reg, outputs, g, target) ==
    LET paths == {o.dest : o \in {p \in outputs : PrivateOutput(p, g, target)}}
    IN  paths \cup (IF paths # {} \/ GraphRequiresPrivateState(reg, g) THEN {State} ELSE {})

Protected(paths) == paths \subseteq guard

\* What a graph's packs make of a library: the outputs, Failed if they cannot.
Outputs(reg, g, target, applyMode, override, view) ==
    IF \/ ~Known(reg.roles, g.role) \/ ~Known(reg.policies, g.policy)
       \/ ~ValidPrivacyGraph(reg, g)
    THEN Failed
    ELSE Synthesize(Active(reg, g), g, reg.policies[g.policy.id], target, applyMode, override, view)

\* What the library makes of a manifest's graph now: without a graph, nothing.
Proofs(reg, m, applyMode, view) ==
    IF m.graph = NoGraph THEN {}
    ELSE IF m.target.id \notin DOMAIN reg.targets \/ m.graph.target # m.target THEN Failed
    ELSE Outputs(reg, m.graph, reg.targets[m.target.id], applyMode, m.selection, view)

\* Outputs of a manifest that must not be seen: it is not known to be shared.
Exposes(reg, m, o) ==
    \/ m.graph = NoGraph
    \/ m.target.id \notin DOMAIN reg.targets
    \/ o.pack # NoPack /\ ~SharedPack(reg, o.pack)
    \/ PrivateOutput(o, m.graph, reg.targets[m.target.id])

\* What apply must find protected.
MustProtect(reg, m) ==
    LET paths == {o.dest : o \in {p \in m.outputs : Exposes(reg, m, p)}}
    IN  paths \cup (IF \/ m.graph = NoGraph \/ paths # {}
                       \/ GraphRequiresPrivateState(reg, m.graph)
                    THEN {State} ELSE {})

-----------------------------------------------------------------------------
Init ==
    /\ lib \in DOMAIN Registry
    /\ files = [p \in Paths |-> 1]
    /\ cfg \in Configs
    /\ guard \in Guards
    /\ proc = NoProc
    /\ graph = NoGraph
    /\ manifest \in Legacy \cup {NoManifest}
    /\ consent = NoRef
    /\ settled = NoRef
    /\ last = <<"none">>
    /\ edits = 0

project == <<cfg, guard, lib, files, edits>>
results == <<graph, manifest, consent, settled>>

\* A process starts: it cannot if the library does not load.
Start ==
    /\ ~Running
    /\ IF lib \in DOMAIN Registry
       THEN proc' = [lib |-> lib, cache |-> <<>>] /\ last' = <<"start", "ok">>
       ELSE proc' = NoProc /\ last' = <<"start", "refused">>
    /\ UNCHANGED <<project, results>>

\* An error, or the last thing a command does, ends the process.
Ends(result) == proc' = NoProc /\ last' = result

Exit ==
    /\ Running
    /\ Ends(<<"none">>)
    /\ UNCHANGED <<project, results>>

\* `resolve`.
ResolveCommand(overlay) == \E view \in Views :
    /\ Running
    /\ IF Answerable(Reg, cfg, overlay)
       THEN /\ graph' = Resolve(Reg, cfg, overlay,
                                  [id \in DOMAIN Reg.packs |-> SurfaceIds(Reg.packs[id], view)])
            /\ consent' = EffectiveMode(cfg, Reg.policies[cfg.policy.id])
            /\ settled' = NoRef
            /\ last' = <<"resolve", "ok", WhatIsActive(graph')>>
            /\ UNCHANGED proc
       ELSE Ends(<<"resolve", "refused">>) /\ UNCHANGED <<graph, consent, settled>>
    /\ UNCHANGED <<project, manifest>>

SelectionFor(target, override) ==
    IF SkillTargets(target) = <<>> THEN NoRef
    ELSE EffectiveSelection(Head(SkillTargets(target)), override)

Storable(reg, target, outputs) ==
    /\ graph.target = RefTo(target)
    /\ Protected(PrivatePaths(reg, outputs, graph, target))
    /\ ~Collides(outputs, Active(reg, graph))

Store(reg, target, selection, outputs, view) ==
    /\ manifest' = [graph |-> graph, target |-> graph.target, outputs |-> outputs,
                    selection |-> selection,
                    degradations |-> Degradations(Active(reg, graph), graph,
                        reg.policies[graph.policy.id], target, selection, view)]
    /\ proc' = [lib |-> proc.lib,
                cache |-> Cached(proc.cache, ReadPaths(Active(reg, graph), target))]
    /\ last' = <<"compile", "ok">>

\* `compile`: all of it is refused, or the manifest is replaced.
Compile(target, applyMode, override) ==
    /\ Running /\ graph # NoGraph
    /\ \E reg \in {Reg}, view \in Views :
         LET t == reg.targets[target]  selection == SelectionFor(t, override) IN
         \E outputs \in {IF target \notin DOMAIN reg.targets THEN Failed
                         ELSE Outputs(reg, graph, t, applyMode, selection, view)} :
            IF outputs # Failed /\ Storable(reg, t, outputs)
            THEN /\ Store(reg, t, selection, outputs, view)
                 /\ settled' = IF proc.lib = lib /\ view = Disk THEN applyMode ELSE NoRef
            ELSE Ends(<<"compile", "refused">>) /\ UNCHANGED <<manifest, settled>>
    /\ UNCHANGED <<project, graph, consent>>

\* Wrong: apply takes the manifest's own word for what is private.
Admitted_Unchecked(applyMode) == TRUE

Admitted(applyMode) ==
    \E view \in Views : \E proofs \in {Proofs(Reg, manifest, applyMode, view)} :
       /\ proofs # Failed
       /\ manifest.graph # NoGraph => manifest.outputs \subseteq proofs
       /\ Protected(MustProtect(Reg, manifest))

\* `apply`: the outputs of the manifest are handed to the apply transaction.
Apply(applyMode) ==
    /\ Running /\ manifest # NoManifest
    /\ Ends(<<"apply", IF Admitted(applyMode) THEN "ok" ELSE "refused", applyMode>>)
    /\ UNCHANGED <<project, results>>

\* `search` and `route` answer and change nothing: what they would say now.
Found(query, limit, view) == Search(Reg, cfg, NoRef, query, {}, view, limit)
Routed(query, target, limit, view) == RouteSkills(Reg, view, query, target, limit)

\* `validate`: the staged outputs of the last compile, the applied ones and the
\* policy; the worst of the checks is the status.
StatusOf(staged, drift, policy) ==
    IF staged = "conflict" \/ drift = "drift" THEN "fail"
    ELSE IF drift = "unmanaged" \/ policy = "degraded" THEN "warn"
    ELSE IF staged = "none" /\ drift = "none" /\ policy = "none" THEN "warn" ELSE "pass"

Validate(staged, drift) ==
    LET policy == IF manifest = NoManifest \/ manifest.graph = NoGraph THEN "none"
                  ELSE IF \E r \in PolicyReport(Reg.policies[cfg.policy.id],
                              Reg.targets[manifest.target.id], manifest.graph) : r.status = "degraded"
                  THEN "degraded" ELSE "kept"
    IN  /\ Running /\ Answerable(Reg, cfg, NoRef)
        /\ manifest # NoManifest => Known(Reg.targets, manifest.target)
        /\ (manifest = NoManifest) = (staged = "none")
        /\ Ends(<<"validate", StatusOf(staged, drift, policy)>>)
        /\ UNCHANGED <<project, results>>

\* The owner of the library and of the project, at any time.
Edit ==
    /\ edits < MaxEdits /\ edits' = edits + 1
    /\ settled' = NoRef /\ last' = <<"none">>
    /\ \/ lib' \in DOMAIN Libraries \ {lib} /\ UNCHANGED <<files, cfg, guard>>
       \/ /\ \E p \in Paths : \E i \in DOMAIN Files[p] :
                i # files[p] /\ files' = [files EXCEPT ![p] = i]
          /\ UNCHANGED <<lib, cfg, guard>>
       \/ cfg' \in Configs \ {cfg} /\ UNCHANGED <<lib, files, guard>>
       \/ guard' \in Guards \ {guard} /\ UNCHANGED <<lib, files, cfg>>
    /\ UNCHANGED <<proc, graph, manifest, consent>>

Next ==
    \/ Start \/ Exit \/ Edit
    \/ \E overlay \in Overlays : ResolveCommand(overlay)
    \/ \E t \in DOMAIN Bundled, m \in ApplyModes, o \in Overrides : Compile(t, m, o)
    \/ \E m \in ApplyModes : Apply(m)
    \/ \E s \in {"none", "intact", "conflict"}, d \in {"none", "unmanaged", "clean", "drift"} : Validate(s, d)

Spec == Init /\ [][Next]_vars
-----------------------------------------------------------------------------
Publishes == last'[1] = "apply" /\ last'[2] = "ok"
About(o) == {t[1] : t \in o.text} \ {NoPack}

\* What apply publishes of a pack that the library it has loaded calls private,
\* or does not know, lies at a path that is protected, whatever the graph and
\* the manifest were made of: nothing of it reaches a file that can be committed.
\* (library_privacy.rs:211, the point of protect_private_manifest.)
PrivateStaysProtected ==
    [][Publishes /\ manifest.graph # NoGraph =>
          \A o \in manifest.outputs : \A id \in About(o) :
             (id \notin DOMAIN Reg.packs \/ Reg.packs[id].vis = "private")
                => {o.dest, State} \subseteq guard]_vars

\* What apply publishes is what compiling the same graph now would give, from
\* the library on disk, as far as sizes and times of files tell its changes.
PublishedIsCurrent ==
    [][(Publishes /\ manifest.graph # NoGraph /\ proc.lib = lib
          /\ \A p \in DOMAIN proc.cache :
                OnDisk(p).stamp = Files[p][proc.cache[p]].stamp => OnDisk(p) = Files[p][proc.cache[p]])
        => \E now \in {Outputs(Reg, manifest.graph, Reg.targets[manifest.target.id],
                                 last'[3], manifest.selection, Disk)} :
              now # Failed /\ manifest.outputs \subseteq now]_vars

\* A text of a quarantined candidate is published only from a graph resolved
\* under a mode that asks for candidates, also when the pack was promoted when
\* the graph was resolved and has been demoted since.
CandidatesNeedConsent ==
    [][(Publishes /\ manifest.graph # NoGraph /\ manifest.graph = graph) =>
          \A o \in manifest.outputs : \A id \in About(o) \cap DOMAIN Reg.packs :
             IsCandidate(Reg.packs[id]) => consent \in {"candidate_search", "exploratory"}]_vars

\* Apply never refuses what compile has just made, when nobody has edited
\* anything in between and the mode is the same: the two agree about what is
\* private and what has to be protected.
OwnCompileApplies ==
    ~(last[1] = "apply" /\ last[2] = "refused" /\ settled # NoRef /\ last[3] = settled)

\* What search offers is of use: naming the pack in the configuration makes
\* resolve activate it; and route never puts a skill that this target does not
\* take before one that it takes.
OffersAreUsable ==
    last[1] = "start" /\ Running /\ Answerable(Reg, cfg, NoRef) =>
       \A view \in Views, q \in Queries :
          /\ \A limit \in {1, NoRef} : \A id \in ToSet(Found(q, limit, view).matches) :
                LET named == [cfg EXCEPT !.packs = <<Ref(id, AnyVersion)>>]
                IN  Resolve(Reg, named, NoRef, [p \in DOMAIN Reg.packs |-> {}]).activated # <<>>
          /\ \A t \in DOMAIN Bundled \cup {NoRef} : LET way == Routed(q, t, NoRef, view) IN
                /\ \A i, j \in DOMAIN way : i < j => way[i].compatible \/ ~way[j].compatible
                /\ IsPrefix(Routed(q, t, 1, view), way)

\* A surface the saved selection blocks has no output of its own under the
\* automatic selection, pinned or not.
BlockedStaysOut ==
    (/\ manifest # NoManifest /\ manifest.graph # NoGraph
     /\ manifest.selection = "auto" /\ manifest.graph.auto # NoRef)
    => \A o \in manifest.outputs : o.surface \notin manifest.graph.auto.blocked
=============================================================================
