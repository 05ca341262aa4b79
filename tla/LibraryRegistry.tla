-------------------------- MODULE LibraryRegistry --------------------------
(***************************************************************************)
(* The registry of a library (crates/metactl/src/library_registry.rs and   *)
(* library_discovery.rs): loading the roots, finding what a reference      *)
(* names, deciding which packs a configuration activates, searching and    *)
(* routing.  Reads only: the commands that use it are in LibraryPipeline.  *)
(***************************************************************************)
EXTENDS Integers, Sequences, FiniteSets, SequencesExt, FiniteSetsExt

CONSTANTS
    AnyVersion,        \* the version of a reference that names none
    CandidateVersion,  \* the version every normalised import gets
    NoRef,             \* no target, no policy mode, no selection
    Bundled            \* the targets of the bundled starter library

ASSUME RegistryAssumption == CandidateVersion # AnyVersion

DiscoveryModes == {"none", "curated_only", "candidate_search", "exploratory"}

Ref(id, version) == [id |-> id, version |-> version]
RefMatches(ref, version) == ref.version \in {AnyVersion, version}
RefTo(manifest) == Ref(manifest.id, manifest.version)
Known(table, ref) == ref.id \in DOMAIN table /\ RefMatches(ref, table[ref.id].version)

-----------------------------------------------------------------------------
(* Loading.  A root is a record of sequences of manifests.                 *)

\* A pack's manifest has id, version, vis, roles, targets, tags, trust, class,
\* needs (the terms of its metadata) and resources; an import has only a
\* directory with an AGENTS.md or a SKILL.md, and everything else is default.
NormalizeCandidate(import) ==
    [id |-> import.id, version |-> CandidateVersion, vis |-> "shared", roles |-> {},
     targets |-> {}, tags |-> import.tags, trust |-> "candidate_quarantined",
     class |-> "instruction", terms |-> import.terms, resources |-> import.resources,
     size |-> import.size, status |-> "candidate", provenance |-> TRUE]

\* A collection is a function: its domain says where the members are and in
\* which order.  Where a root has a manifest: <<kind, root, place>>.
Positions(roots, kind) ==
    UNION {{<<kind, i, k>> : k \in DOMAIN roots[i][kind]} : i \in DOMAIN roots}
Everything(roots, kind) == [p \in Positions(roots, kind) |-> roots[p[2]][kind][p[3]]]
Unique(all) == \A p, q \in DOMAIN all : all[p].id = all[q].id => p = q
Table(all) == [id \in {all[p].id : p \in DOMAIN all} |->
                  all[CHOOSE p \in DOMAIN all : all[p].id = id]]

\* Optional fields a user's target leaves out come from the bundled one.
WithBundledDefaults(target) ==
    LET Stub(ct) ==
          IF ct.stub # NoRef \/ target.id \notin DOMAIN Bundled THEN ct.stub
          ELSE LET same == {b \in ToSet(Bundled[target.id].compile) :
                              b.kind = ct.kind /\ b.path = ct.path}
               IN  IF same = {} THEN NoRef ELSE (CHOOSE b \in same : TRUE).stub
    IN  [target EXCEPT !.compile = [i \in DOMAIN @ |-> [@[i] EXCEPT !.stub = Stub(target.compile[i])]]]

\* A declared pack is promoted whatever its provenance says; an import is not.
AsDeclared(pack, provenance) ==
    [id |-> pack.id, version |-> pack.version, vis |-> pack.vis, roles |-> pack.roles,
     targets |-> pack.targets, tags |-> pack.tags, trust |-> pack.trust,
     class |-> pack.class, terms |-> pack.terms, resources |-> pack.resources,
     size |-> pack.size, status |-> "promoted",
     provenance |-> RefTo(pack) \in provenance]

PacksOf(roots) ==
    LET prov == Range(Everything(roots, "provenance"))
    IN  [p \in Positions(roots, "packs") \cup Positions(roots, "imports") |->
           IF p[1] = "packs" THEN AsDeclared(roots[p[2]].packs[p[3]], prov)
           ELSE NormalizeCandidate(roots[p[2]].imports[p[3]])]

Loads(roots) ==
    /\ roots # <<>>
    /\ \A kind \in {"roles", "policies", "targets", "knowledge"} :
          Unique(Everything(roots, kind))
    /\ IsInjective(Everything(roots, "provenance"))
    /\ Unique(PacksOf(roots))

Load(roots) ==
    LET targets == Table(Everything(roots, "targets"))
    IN  [roles    |-> Table(Everything(roots, "roles")),
         policies |-> Table(Everything(roots, "policies")),
         targets  |-> [t \in DOMAIN targets |-> WithBundledDefaults(targets[t])],
         packs    |-> Table(PacksOf(roots))]

-----------------------------------------------------------------------------
(* Selection.  A configuration is [role, policy, packs, targets, mode,     *)
(* auto]; an overlay may name another target for one invocation.           *)

SelectedTarget(cfg, overlay) ==
    IF overlay # NoRef THEN overlay
    ELSE IF cfg.targets = <<>> THEN NoRef ELSE Head(cfg.targets)

EffectiveMode(cfg, policy) ==
    IF cfg.mode # NoRef THEN cfg.mode
    ELSE IF policy.mode # NoRef THEN policy.mode ELSE "curated_only"

IsCandidate(pack) == pack.status = "candidate"

\* Selectors name packs by id, by tag and by trust tier; an empty set names all.
SelectorsMatch(rule, pack) ==
    /\ rule.ids = {} \/ pack.id \in rule.ids
    /\ rule.tags = {} \/ rule.tags \cap pack.tags # {}
    /\ rule.trust = {} \/ pack.trust \in rule.trust

RuleSuppresses(rule, pack) ==
    /\ rule.subject = "pack"
    /\ SelectorsMatch(rule, pack)
    /\ \/ rule.operator = "deny"
       \/ rule.operator = "quarantine_only" /\ IsCandidate(pack)

PolicyRuleSuppression(pack, policy) ==
    LET hits == {i \in DOMAIN policy.rules : RuleSuppresses(policy.rules[i], pack)}
    IN  IF hits = {} THEN <<>>
        ELSE LET rule == policy.rules[CHOOSE i \in hits : \A j \in hits : i <= j]
             IN  IF rule.operator = "deny" THEN <<"suppressed_by_policy", rule.id>>
                 ELSE <<"untrusted_pack">>

\* Wrong: a candidate is withheld only when nothing is discovered at all.
SuppressionReason_CandidatesPass(pack, role, policy, target, mode) ==
    IF pack.roles # {} /\ role.id \notin pack.roles THEN <<"incompatible_role", role.id>>
    ELSE IF pack.targets # {} /\ target.id \notin pack.targets
    THEN <<"unsupported_target", target.id>>
    ELSE IF IsCandidate(pack) /\ mode = "none" THEN <<"suppressed_by_mode">>
    ELSE PolicyRuleSuppression(pack, policy)

\* Why a pack is withheld, <<>> if it is not: role, target, mode, then policy.
SuppressionReason(pack, role, policy, target, mode) ==
    IF pack.roles # {} /\ role.id \notin pack.roles THEN <<"incompatible_role", role.id>>
    ELSE IF pack.targets # {} /\ target.id \notin pack.targets
    THEN <<"unsupported_target", target.id>>
    ELSE IF IsCandidate(pack) /\ mode \notin {"candidate_search", "exploratory"}
    THEN <<"suppressed_by_mode">>
    ELSE PolicyRuleSuppression(pack, policy)

\* What every request needs: a role, a policy and a target the library knows.
Answerable(reg, cfg, overlay) ==
    /\ Known(reg.roles, cfg.role)
    /\ Known(reg.policies, cfg.policy)
    /\ SelectedTarget(cfg, overlay) # NoRef
    /\ Known(reg.targets, SelectedTarget(cfg, overlay))

\* Why a requested pack is not activated, <<>> if it is.
Withheld(reg, cfg, overlay, ref) ==
    IF ~Known(reg.packs, ref) THEN <<"not_found">>
    ELSE LET role   == reg.roles[cfg.role.id]
             policy == reg.policies[cfg.policy.id]
         IN  SuppressionReason(reg.packs[ref.id], role, policy,
                 RefTo(reg.targets[SelectedTarget(cfg, overlay).id]),
                 EffectiveMode(cfg, policy))

\* The reference a pack is recorded under: its own when it is known.
Recorded(reg, ref) == IF Known(reg.packs, ref) THEN RefTo(reg.packs[ref.id]) ELSE ref

Requested(reg, cfg) ==
    IF cfg.packs = <<>> THEN reg.roles[cfg.role.id].defaults ELSE cfg.packs

SavedSurfaces(auto) ==
    IF auto = NoRef THEN {} ELSE auto.selected \cup auto.pinned \cup auto.blocked

\* The graph `resolve` returns; surfacesOf[id] are the surface ids of pack id.
Resolve(reg, cfg, overlay, surfacesOf) ==
    LET requested == Requested(reg, cfg)
        Active(ref) == Withheld(reg, cfg, overlay, ref) = <<>>
        active == {i \in DOMAIN requested : Active(requested[i])}
        passed == {Recorded(reg, requested[i]) : i \in active}
        surfaces == UNION {surfacesOf[r.id] : r \in passed}
        role == RefTo(reg.roles[cfg.role.id])
        policy == RefTo(reg.policies[cfg.policy.id])
    IN  [role |-> role, policy |-> policy,
         target |-> RefTo(reg.targets[SelectedTarget(cfg, overlay).id]),
         requested |-> ToSet(requested),
         activated |-> [i \in active |-> Recorded(reg, requested[i])],
         suppressed |-> {[ref |-> Recorded(reg, r), why |-> Withheld(reg, cfg, overlay, r)] :
                           r \in {q \in ToSet(requested) : ~Active(q)}},
         gaps |-> (IF active = {} THEN {<<"pack_selection", {role, policy}>>} ELSE {})
                  \cup {<<"auto_surface_selection", s>> : s \in SavedSurfaces(cfg.auto) \ surfaces},
         provenance |-> {r.id : r \in {q \in passed : reg.packs[q.id].provenance}},
         auto |-> cfg.auto,
         visibility |-> [id \in {r.id : r \in passed} |-> reg.packs[id].vis]]

\* What `explain` says is active: the packs of the graph, private ones marked.
WhatIsActive(graph) ==
    {<<graph.activated[i].id,
       graph.activated[i].id \in DOMAIN graph.visibility
         /\ graph.visibility[graph.activated[i].id] = "private">> : i \in DOMAIN graph.activated}

-----------------------------------------------------------------------------
(* Searching and routing.  A query is a set of terms.                      *)

MatchedFields(pack, query) == {f \in DOMAIN pack.terms : pack.terms[f] \cap query # {}}
MatchedPaths(pack, query, view) ==
    {r.path : r \in {s \in ToSet(pack.resources) :
                       /\ s.kind \in {"instruction", "example"}
                       /\ view[s.path].terms \cap query # {}}}

\* In hundredths.
RelevanceScore(pack, query, view, role, target) ==
    LET haystack == UNION {pack.terms[f] : f \in DOMAIN pack.terms}
    IN  18 * Cardinality(query \cap haystack)
        + 18 * Cardinality(MatchedPaths(pack, query, view))
        + 4 * Cardinality(MatchedFields(pack, query))
        + (IF pack.roles = {} \/ role.id \in pack.roles THEN 15 ELSE 0)
        + (IF pack.targets = {} \/ target.id \in pack.targets THEN 10 ELSE 0)
        + (IF IsCandidate(pack) THEN 0 ELSE 10)

\* S as a sequence in which nothing follows what it comes before.
InOrder(S, Before(_, _)) ==
    CHOOSE s \in [1..Cardinality(S) -> S] :
       IsInjective(s) /\ \A i, j \in DOMAIN s : i < j => ~Before(s[j], s[i])

Truncate(seq, limit) == IF limit # NoRef /\ Len(seq) > limit THEN SubSeq(seq, 1, limit) ELSE seq

\* Wrong: search forgets the policy's rules.
SearchHides_NoPolicy(reg, cfg, overlay, id) ==
    LET pack == reg.packs[id] IN
    SuppressionReason(pack, reg.roles[cfg.role.id], [rules |-> <<>>],
        RefTo(reg.targets[SelectedTarget(cfg, overlay).id]),
        EffectiveMode(cfg, reg.policies[cfg.policy.id])) # <<>>

SearchHides(reg, cfg, overlay, id) ==
    Withheld(reg, cfg, overlay, RefTo(reg.packs[id])) # <<>>

\* `search`: the packs of `among` (all, if it is empty), best first.
Search(reg, cfg, overlay, query, among, view, limit) ==
    LET role == reg.roles[cfg.role.id]
        target == RefTo(reg.targets[SelectedTarget(cfg, overlay).id])
        looked == {id \in DOMAIN reg.packs : among = {} \/ RefTo(reg.packs[id]) \in among}
        hidden == {id \in looked : SearchHides(reg, cfg, overlay, id)}
        Score(id) == RelevanceScore(reg.packs[id], query, view, role, target)
        found == {id \in looked \ hidden : Score(id) > 0}
        Better(a, b) == Score(a) > Score(b)
    IN  [matches |-> Truncate(InOrder(found, Better), limit),
         suppressed |-> hidden,
         notes |-> {id \in hidden : IsCandidate(reg.packs[id])}]

\* `route`: a skill's score against its own name and its declared card.
RouteScore(card, query) ==
    (IF card.name \in query THEN 12 ELSE 0)
      + 10 * Cardinality(card.aliases \cap query)
      + 6 * Cardinality(card.positive \cap query)
      - 20 * Cardinality(card.negative \cap query)

RouteCandidates(reg, view, query, target) ==
    LET Skills(pack) == {r \in ToSet(pack.resources) :
                           r.file = "SKILL.md" /\ RouteScore(view[r.path].card, query) > 0}
        Declared(pack, r) == IF view[r.path].card.targets = {} THEN pack.targets
                             ELSE view[r.path].card.targets
        Candidate(pack, r) ==
          [pack |-> pack.id, path |-> r.path, score |-> RouteScore(view[r.path].card, query),
           compatible |-> \/ target = NoRef
                          \/ Declared(pack, r) = {}
                          \/ target \in Declared(pack, r)]
    IN  UNION {{Candidate(reg.packs[id], r) : r \in Skills(reg.packs[id])} : id \in DOMAIN reg.packs}

\* Compatible skills first, then by score.
RouteSkills(reg, view, query, target, limit) ==
    LET Before(a, b) ==
          \/ a.compatible /\ ~b.compatible
          \/ a.compatible = b.compatible /\ a.score > b.score
    IN  Truncate(InOrder(RouteCandidates(reg, view, query, target), Before), limit)
=============================================================================
