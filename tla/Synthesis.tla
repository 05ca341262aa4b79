----------------------------- MODULE Synthesis -----------------------------
(***************************************************************************)
(* What compile generates from the active packs (crates/metactl/src/       *)
(* library_registry.rs:1360, library_instruction.rs and library_hooks.rs): *)
(* skill surfaces and which of them are emitted, the instruction index of  *)
(* the shared and of the private packs, skills and resources, and the      *)
(* configuration of the runtime.                                           *)
(*                                                                         *)
(* The text of an output is the set of what it says, each with the pack    *)
(* it is taken from: <<pack, what>>.                                       *)
(***************************************************************************)
EXTENDS LibraryRegistry

CONSTANTS
    NoPack,      \* the pack of a text, or of an output, that is no pack's own
    NoSurface,   \* the surface of an output that is none
    Failed,      \* what synthesis gives instead of outputs
    HeaderSize,  \* the index: lines that are always there,
    ShortSize,   \*   the size a long line is cut to,
    WarnSize     \*   and the size an index is kept within

ASSUME SynthesisAssumption ==
    HeaderSize \in Nat /\ ShortSize \in Nat /\ WarnSize \in Nat /\ NoRef # "auto"

IndexKinds == {"claude_md", "agents_md", "openclaw_md"}

OfKind(pack, kinds) == {r \in ToSet(pack.resources) : r.kind \in kinds}
Instructions(pack) == SelectSeq(pack.resources, LAMBDA r : r.kind = "instruction")

-----------------------------------------------------------------------------
(* Skill surfaces.                                                         *)

\* The base, or the first base-2, base-3, ... nobody has yet.
DedupeSlug(seen, base) ==
    IF base \notin seen THEN base
    ELSE LET Taken(n) == Append(base, n) \in seen
         IN  Append(base, CHOOSE n \in 2..(Cardinality(seen) + 2) :
                             ~Taken(n) /\ \A m \in 2..(n - 1) : Taken(m))

AttachmentDirs == [script |-> {"scripts"}, example |-> {"references", "templates"},
                   asset |-> {"assets"}]

\* Resources in the directory of a SKILL.md, under the directory of their kind.
Attached(pack, instruction) ==
    IF instruction.file # "SKILL.md" THEN {}
    ELSE {r \in OfKind(pack, DOMAIN AttachmentDirs) :
            r.root = instruction.root /\ r.dir \in AttachmentDirs[r.kind]}

\* One surface for every instruction, and one for a pack that has none.
DeriveSurfaces(pack, view) ==
    LET instructions == Instructions(pack)
        Next(done, r) ==
          LET slug == DedupeSlug({done[i].slug : i \in DOMAIN done}, view[r.path].slug)
          IN  Append(done, [id |-> <<pack.id, slug>>, slug |-> slug, from |-> {r.path},
                            primary |-> done = <<>>, tier |-> r.tier, root |-> r.root,
                            attached |-> Attached(pack, r), front |-> view[r.path].front,
                            body |-> view[r.path].body])
    IN  IF instructions = <<>>
        THEN <<[id |-> <<pack.id, <<"skill">>>>, slug |-> <<"skill">>, from |-> {},
                primary |-> FALSE, tier |-> NoRef, root |-> pack.id,
                attached |-> OfKind(pack, DOMAIN AttachmentDirs), front |-> "valid",
                body |-> "default"]>>
        ELSE FoldLeft(Next, <<>>, instructions)

SurfaceIds(pack, view) ==
    LET s == DeriveSurfaces(pack, view) IN {s[i].id : i \in DOMAIN s}

AlwaysOn(surface) ==
    surface.tier = "always_on" \/ (surface.tier = NoRef /\ surface.primary)

\* Wrong: a pin is looked at before a block.
Emitted_PinsFirst(surface, mode, auto) ==
    CASE mode = "full" -> TRUE
      [] mode = "minimal" -> AlwaysOn(surface)
      [] mode = "auto" -> \/ auto # NoRef /\ surface.id \in auto.pinned \cup auto.selected
                          \/ /\ auto = NoRef \/ surface.id \notin auto.blocked
                             /\ AlwaysOn(surface)

\* A block beats a pin and a selection, and those beat the surface's own tier.
Emitted(surface, mode, auto) ==
    CASE mode = "full" -> TRUE
      [] mode = "minimal" -> AlwaysOn(surface)
      [] mode = "auto" -> /\ auto = NoRef \/ surface.id \notin auto.blocked
                          /\ \/ auto # NoRef /\ surface.id \in auto.pinned \cup auto.selected
                             \/ AlwaysOn(surface)

EmittedSurfaces(pack, view, mode, auto) ==
    LET surfaces == DeriveSurfaces(pack, view)
    IN  Restrict(surfaces, {i \in DOMAIN surfaces : Emitted(surfaces[i], mode, auto)})

Several(surfaces) == Cardinality(DOMAIN surfaces) > 1

EffectiveSelection(ct, override) ==
    IF override # NoRef THEN override ELSE IF ct.selection # NoRef THEN ct.selection ELSE "full"

\* A path template is [base, pack, surface, resource]: which names it has.
NeedsError(target, ct, surfaces) ==
    /\ Several(surfaces) /\ target.folders /\ ct.multi
    /\ ~ct.path.surface /\ ct.merge = "none"

Separate(target, ct, surfaces) ==
    IF ~Several(surfaces) THEN ct.path.surface
    ELSE target.folders /\ ct.multi /\ ct.path.surface

Path(template, pack, name) ==
    <<template.base, IF template.pack THEN pack.id ELSE NoPack, name>>

\* A template that names surfaces cannot take a merged pack.
MergedPathError(target, ct, surfaces) ==
    ~Separate(target, ct, surfaces) /\ ct.path.surface

SkillTargets(target) == SelectSeq(target.compile, LAMBDA ct : ct.kind = "codex_skill")

\* `status`: how a pack's surfaces would be emitted on a target.
EmissionMode(pack, target, view, mode, auto) ==
    LET emitted == EmittedSurfaces(pack, view, mode, auto) IN
    IF DOMAIN emitted = {} THEN "suppressed"
    ELSE IF SkillTargets(target) = <<>> THEN "not_emitted"
    ELSE IF Separate(target, Head(SkillTargets(target)), emitted) THEN "separate"
    ELSE IF Several(emitted) THEN "merged" ELSE "single"

-----------------------------------------------------------------------------
(* Instruction indexes.                                                    *)

PathlessResource(ct) == ~ct.path.resource /\ ~ct.path.pack

\* Where the skills of a pack are: all of its surfaces, emitted or not.
SkillPaths(target, skill, pack, surfaces) ==
    IF Separate(target, skill, surfaces)
    THEN {Path(skill.path, pack, surfaces[i].slug) : i \in DOMAIN surfaces}
    ELSE {Path(skill.path, pack, <<>>)}

\* Where its instructions are, if the target takes them as files.
InstructionPaths(target, pack) ==
    {Path(ct.path, pack, <<r.file>>) :
       ct \in ToSet(SubSeq(SelectSeq(target.compile, LAMBDA c :
                    c.kind = "pack_resource" /\ "instruction" \in c.resources), 1, 1)),
       r \in OfKind(pack, {"instruction"})}

\* What an index says of a pack: where its skills are, or its text inline.
References(pack, target, view) ==
    IF SkillTargets(target) = <<>> THEN InstructionPaths(target, pack)
    ELSE SkillPaths(target, Head(SkillTargets(target)), pack, DeriveSurfaces(pack, view))

PathError(target, skill, surfaces) ==
    NeedsError(target, skill, surfaces) \/ MergedPathError(target, skill, surfaces)

PlanError(pack, target, ct, view) ==
    /\ ct.mode = "reference_index" /\ SkillTargets(target) # <<>>
    /\ PathError(target, Head(SkillTargets(target)), DeriveSurfaces(pack, view))

Snippet(pack, view) == {<<"body", view[r.path].body>> : r \in OfKind(pack, {"instruction"})}

\* One line of the index: [kind, pack, size, text].
Line(pack, inline, refs, snippet) ==
    [pack |-> pack.id, size |-> pack.size,
     kind |-> IF refs = {} /\ (inline \/ snippet # {}) THEN "inline" ELSE "pack",
     text |-> {<<"name">>} \cup (IF refs = {} THEN snippet ELSE {<<"open", p>> : p \in refs})]

PackLine(pack, target, ct, view) ==
    LET inline == ct.mode = "inline"
    IN  Line(pack, inline, IF inline THEN {} ELSE References(pack, target, view),
             Snippet(pack, view))

\* The gaps an index may name: never a saved selection's id, and a rule or a
\* capability only when every pack it is about is in this index.
GapLine(gap, policy, target, ids) ==
    CASE gap[1] = "auto_surface_selection" -> {<<"gap", "auto_surface_selection">>}
      [] gap[1] = "pack_selection" -> {<<"gap", "pack_selection">>}
      [] OTHER -> IF /\ gap[1] \in target.capabilities \cup {policy.rules[i].id : i \in DOMAIN policy.rules}
                     /\ gap[2] # {} /\ \A r \in gap[2] : r.id \in ids
                  THEN {<<"gap", gap[1]>>} ELSE {}

TotalSize(lines) ==
    HeaderSize + FoldFunction(LAMBDA n, m : n + m, 0, [i \in DOMAIN lines |-> lines[i].size])

\* Cut the longest lines until the index fits, the first of two of a length.
Shortened(lines, cut) ==
    [i \in DOMAIN lines |->
       IF i \in cut THEN [kind |-> lines[i].kind, pack |-> lines[i].pack, size |-> ShortSize,
                          text |-> {<<"name">>, <<"pointer">>}]
       ELSE lines[i]]

CutLines(lines) ==
    LET long == {i \in DOMAIN lines : lines[i].kind \in {"pack", "inline"} /\ lines[i].size > ShortSize}
        Earlier(i) == {j \in long : \/ lines[j].size > lines[i].size
                                    \/ lines[j].size = lines[i].size /\ j < i}
    IN  Shortened(lines, {i \in long : TotalSize(Shortened(lines, Earlier(i))) > WarnSize})

\* Then drop lines from the end until it does.
Without(lines, dropped) == Restrict(lines, DOMAIN lines \ dropped)
DropLines(lines) ==
    LET droppable == {i \in DOMAIN lines : lines[i].kind \in {"gap", "pack"}}
        Later(i) == {j \in droppable : j > i}
    IN  Without(lines, {i \in droppable : TotalSize(Without(lines, Later(i))) > WarnSize})

\* A shortened index says so, at the cost of one more line.
PointerLine == [kind |-> "pointer", pack |-> NoPack, size |-> 1, text |-> {<<"pointer">>}]
After(lines) == Max(DOMAIN lines \cup {0})
WithPointer(lines) ==
    IF \E i \in DOMAIN lines : <<"pointer">> \in lines[i].text THEN lines
    ELSE DropLines([i \in DOMAIN lines \cup {After(lines) + 1} |->
                      IF i \in DOMAIN lines THEN lines[i] ELSE PointerLine])

Budgeted(lines) ==
    IF TotalSize(lines) <= WarnSize THEN lines ELSE WithPointer(DropLines(CutLines(lines)))

\* A line for every pack, then one for every gap.
IndexLines(packs, graph, policy, target, ct, view) ==
    LET ids == {packs[i].id : i \in DOMAIN packs}
        gaps == SetToSeq(UNION {GapLine(h, policy, target, ids) : h \in graph.gaps})
        last == After(packs)
    IN  [i \in DOMAIN packs \cup {last + k : k \in DOMAIN gaps} |->
           IF i \in DOMAIN packs THEN PackLine(packs[i], target, ct, view)
           ELSE [kind |-> "gap", pack |-> NoPack, size |-> 1, text |-> {gaps[i - last]}]]

TextOf(lines) ==
    IF TotalSize(lines) > WarnSize THEN Failed
    ELSE UNION {{<<lines[i].pack, t>> : t \in lines[i].text} : i \in DOMAIN lines}

\* The text of an index, or Failed when even the cut index is too long.
IndexText(packs, graph, policy, target, ct, view) ==
    IF \E i \in DOMAIN packs : PlanError(packs[i], target, ct, view) THEN Failed
    ELSE TextOf(Budgeted(IndexLines(packs, graph, policy, target, ct, view)))

-----------------------------------------------------------------------------
(* Outputs: [dest, kind, pack, surface, text].                             *)

Output(dest, kind, pack, surface, text) ==
    [dest |-> dest, kind |-> kind, pack |-> pack, surface |-> surface, text |-> text]

\* An import stub says only where to look, and needs a file to name.
IndexOutputs(ct, text, applyMode) ==
    IF text = Failed \/ (applyMode = "import_stub" /\ ct.stub = NoRef) THEN Failed
    ELSE {Output(<<ct.path.base, NoPack, <<>>>>, "instruction_file", NoPack, NoSurface,
                 IF applyMode = "import_stub" THEN {<<NoPack, <<"import", ct.stub>>>>} ELSE text)}

HasLocal(target) == target.local.support = "exact" /\ target.local.surface # NoRef
LocalIndex(target, text) ==
    IF text = Failed THEN Failed
    ELSE {Output(target.local.surface, "instruction_file", NoPack, NoSurface, text)}

\* A surface's document: its text, with frontmatter if it has none.
SkillText(pack, surface) == {<<pack.id, <<"body", surface.body>>>>}
BadFrontmatter(ct, surface) == ct.frontmatter /\ surface.front = "invalid"

\* Resources of a surface that the target takes.
Packaged(ct, surface) ==
    {a \in surface.attached :
       /\ a.root = surface.root /\ a.dir \in AttachmentDirs[a.kind]
       /\ IF a.kind = "script" THEN ct.scripts ELSE ct.assets}

PackageOutputs(ct, pack, surface, skillPath, view) ==
    {Output(<<skillPath[1], skillPath[2], skillPath[3] \o <<r.dir, r.file>>>>,
            "resource_file", RefTo(pack), surface.id, {<<pack.id, <<"body", view[r.path].body>>>>}) :
       r \in Packaged(ct, surface)}

SkillOutputs(target, ct, pack, surfaces, view) ==
    LET Own(s) == Path(ct.path, pack, s.slug)
        bundle == Path(ct.path, pack, <<>>)
        body == IF Instructions(pack) = <<>> THEN {<<"name">>} ELSE Snippet(pack, view)
    IN  IF Separate(target, ct, surfaces)
        THEN UNION {{Output(Own(s), "skill_folder", RefTo(pack), s.id, SkillText(pack, s))}
                      \cup PackageOutputs(ct, pack, s, Own(s), view) : s \in Range(surfaces)}
        ELSE \* all the instructions of the pack, whichever surfaces are emitted
             {Output(bundle, "skill_folder", RefTo(pack),
                     IF Several(surfaces) THEN NoSurface
                     ELSE surfaces[CHOOSE i \in DOMAIN surfaces : TRUE].id,
                     {<<pack.id, t>> : t \in body})}
               \cup UNION {PackageOutputs(ct, pack, s, bundle, view) : s \in Range(surfaces)}

SkillErrors(target, ct, pack, surfaces, view) ==
    \/ DOMAIN surfaces # {} /\ PathError(target, ct, surfaces)
    \/ Separate(target, ct, surfaces) /\ \E s \in Range(surfaces) : BadFrontmatter(ct, s)
    \/ \E s \in Range(surfaces) : \E r \in Packaged(ct, s) : ~view[r.path].exists

\* Resources of the kinds the target asks for; of the instructions, the first.
ResourceOutputs(ct, pack, view) ==
    {Output(Path(ct.path, pack, IF ct.path.resource THEN <<r.file>> ELSE <<>>),
            "resource_file", RefTo(pack), NoSurface, {<<pack.id, <<"body", view[r.path].body>>>>}) :
       r \in {q \in OfKind(pack, ct.resources) :
                ct.primary /\ q.kind = "instruction" => q = Head(Instructions(pack))}}

ManifestOutput(ct, pack) ==
    Output(Path(ct.path, pack, <<>>), "extension_manifest", RefTo(pack), NoSurface,
           {<<pack.id, <<"version", pack.version>>>>})

\* The first private pack stands for an output made from several.
PrivateContributor(packs) ==
    LET private == {i \in DOMAIN packs : packs[i].vis # "shared"}
    IN  IF private = {} THEN NoPack ELSE RefTo(packs[Min(private)])

McpOutput(ct, packs) ==
    Output(<<ct.path.base, NoPack, <<>>>>, "mcp_config", PrivateContributor(packs), NoSurface,
           {<<packs[i].id, <<"active">>>> : i \in DOMAIN packs})

\* A wiring is [targets, command], or NoRef if it is malformed.  It is for the
\* targets it lists, none if the list is empty, or for all if it lists none (NoRef).
Wirings(pack) == OfKind(pack, {"hook_wiring"})
Malformed(wiring) == wiring = NoRef
For(wiring, target) ==
    ~Malformed(wiring) /\ (wiring.targets = NoRef \/ target.id \in wiring.targets)

\* Hooks the packs wire up, for this target and only if it runs hooks.
HookText(target, packs, view) ==
    IF ~target.hooks THEN {}
    ELSE UNION {{<<packs[i].id, <<"hook", view[r.path].body>>>> :
                   r \in {w \in Wirings(packs[i]) : For(view[w.path].wiring, target)}} :
                i \in DOMAIN packs}

\* One that is malformed, whatever it is for, or that is for this target and
\* names no command, is an error.
HookError(target, packs, view) ==
    /\ target.hooks
    /\ \E i \in DOMAIN packs : \E r \in Wirings(packs[i]) : LET wiring == view[r.path].wiring IN
          Malformed(wiring) \/ (For(wiring, target) /\ ~wiring.command)

RuntimeText(target, packs, view) ==
    (IF target.runtime.listsPacks THEN {<<packs[i].id, <<"active">>>> : i \in DOMAIN packs} ELSE {})
      \cup (IF target.runtime.hooks THEN HookText(target, packs, view) ELSE {})

\* Labelled with a private pack exactly when the private packs change it.  Its
\* template must be there, and the wirings are read if it shows hooks or not.
RuntimeOutputs(target, packs, shared, view) ==
    IF target.runtime = NoRef THEN {}
    ELSE IF ~view[target.runtime.template].exists \/ HookError(target, packs, view) THEN Failed
    ELSE {Output(target.runtime.dest, "runtime",
                 IF text # RuntimeText(target, shared, view) THEN PrivateContributor(packs) ELSE NoPack,
                 NoSurface, text) : text \in {RuntimeText(target, packs, view)}}

\* The skills of all packs; emitted[p] are the surfaces of p that are emitted.
AllSkills(target, ct, packs, emitted, view) ==
    IF \E p \in packs : SkillErrors(target, ct, p, emitted[p], view) THEN Failed
    ELSE UNION {SkillOutputs(target, ct, p, emitted[p], view) : p \in {q \in packs : DOMAIN emitted[q] # {}}}

OutputsOf(ct, packs, shared, graph, policy, target, applyMode, override, view) ==
    CASE ct.kind \in IndexKinds ->
           IndexOutputs(ct, IndexText(shared, graph, policy, target, ct, view), applyMode)
      [] ct.kind = "codex_skill" ->
           AllSkills(target, ct, Range(packs),
               [p \in Range(packs) |->
                  EmittedSurfaces(p, view, EffectiveSelection(ct, override), graph.auto)], view)
      [] ct.kind = "pack_resource" ->
           IF \/ ct.resources = {}
              \/ PathlessResource(ct) /\ \E p \in Range(packs) : OfKind(p, ct.resources) # {}
           THEN Failed ELSE UNION {ResourceOutputs(ct, p, view) : p \in Range(packs)}
      [] ct.kind = "pack_extension_manifest" -> {ManifestOutput(ct, p) : p \in Range(packs)}
      [] ct.kind = "mcp_config" -> {McpOutput(ct, packs)}
      [] OTHER -> {}

\* The private packs' own index: once, made for the first index of the target.
LocalOutputs(private, graph, policy, target, view) ==
    LET indexes == SelectSeq(target.compile, LAMBDA ct : ct.kind \in IndexKinds)
    IN  IF DOMAIN private = {} \/ indexes = <<>> \/ ~HasLocal(target) THEN {}
        ELSE LocalIndex(target, IndexText(private, graph, policy, target, Head(indexes), view))

OfVis(packs, vis) == Restrict(packs, {i \in DOMAIN packs : packs[i].vis = vis})
AllOf(parts) == IF Failed \in parts THEN Failed ELSE UNION parts

\* Everything compile generates, or Failed.  Two outputs for one file fail.
Synthesize(packs, graph, policy, target, applyMode, override, view) ==
    LET shared == OfVis(packs, "shared")
        private == OfVis(packs, "private")
    IN  AllOf({LocalOutputs(private, graph, policy, target, view),
               RuntimeOutputs(target, packs, shared, view)}
              \cup {OutputsOf(ct, packs, shared, graph, policy, target, applyMode, override, view) :
                       ct \in ToSet(target.compile)})

Collides(outputs, packs) ==
    \/ \E a, b \in outputs : a # b /\ a.dest = b.dest
    \/ \E i, j \in DOMAIN packs : /\ i # j /\ packs[i].id = packs[j].id
                                 /\ \E o \in outputs : /\ o.pack = RefTo(packs[i])
                                                       /\ o.kind \notin {"mcp_config", "runtime"}

-----------------------------------------------------------------------------
(* What the target cannot do.                                              *)

Realized(rule, target) ==
    CASE rule.operator \in {"deny", "quarantine_only", "budget_cap"} -> "enforced"
      [] rule.operator = "require_approval" ->
           IF \/ rule.subject = "filesystem" /\ target.hooks
              \/ rule.subject \in {"network", "artifact", "filesystem"} /\ target.approvals
           THEN "enforced" ELSE "degraded"
      [] OTHER -> "degraded"

AffectedRefs(rule, graph) ==
    CASE rule.subject = "pack" -> {s.ref : s \in graph.suppressed}
      [] rule.subject \in {"filesystem", "artifact"} -> Range(graph.activated)
      [] OTHER -> {Ref(rule.subject, AnyVersion)}

PolicyReport(policy, target, graph) ==
    {[rule |-> r.id, status |-> Realized(r, target), affected |-> AffectedRefs(r, graph)] :
       r \in ToSet(policy.rules)}

Lacking(pack, target) ==
    CASE pack.class = "hook" /\ ~target.hooks -> {"deterministic_hooks"}
      [] pack.class = "script" /\ ~target.localScripts -> {"local_scripts"}
      [] pack.class = "service" /\ ~target.mcp -> {"mcp_servers"}
      [] OTHER -> {}

Merged(target, pack, view, override, auto) ==
    \E ct \in ToSet(SkillTargets(target)) :
       LET s == EmittedSurfaces(pack, view, EffectiveSelection(ct, override), auto)
       IN  Several(s) /\ ~Separate(target, ct, s)

\* The gaps of the graph, of the packs, of the policy and of the outputs.
Degradations(packs, graph, policy, target, override, view) ==
    LET private == {p \in Range(packs) : p.vis = "private"} IN
    graph.gaps
      \cup UNION {{<<f, {RefTo(p)}>> : f \in Lacking(p, target)} : p \in Range(packs)}
      \cup {<<r.rule, r.affected>> : r \in {x \in PolicyReport(policy, target, graph) : x.status = "degraded"}}
      \cup {<<"surface_merge", {RefTo(p)}>> : p \in {q \in Range(packs) : Merged(target, q, view, override, graph.auto)}}
      \cup (IF private # {} /\ ~HasLocal(target) /\ \E ct \in ToSet(target.compile) : ct.kind \in IndexKinds
            THEN {<<"private_packs_no_local_surface", {RefTo(p) : p \in private}>>} ELSE {})
=============================================================================
