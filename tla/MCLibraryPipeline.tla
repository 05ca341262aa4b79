------------------------- MODULE MCLibraryPipeline -------------------------
(* Two targets, a shared pack p, a pack q that is private in one library   *)
(* and shared in another, a pack r that is an import in one and declared   *)
(* in the other; a policy that denies p; and a small stack of libraries.   *)
EXTENDS LibraryPipeline, LibraryStack, TLC

Text(stamp, slug, body, front) ==
    [exists |-> TRUE, slug |-> slug, body |-> body, front |-> front, terms |-> {body},
     wiring |-> NoRef, stamp |-> stamp,
     card |-> [name |-> "skill", aliases |-> {"a"}, positive |-> {"one"}, negative |-> {"two"},
               targets |-> {}]]
NoCard == [name |-> "none", aliases |-> {}, positive |-> {}, negative |-> {}, targets |-> {}]
Plain(stamp, body) == [Text(stamp, <<"plain">>, body, "none") EXCEPT !.card = NoCard]
Gone == [Plain(3, "gone") EXCEPT !.exists = FALSE]
Hook(stamp, body, targets, command) ==
    [Plain(stamp, body) EXCEPT !.wiring = [targets |-> targets, command |-> command]]

\* A text of the same size and time is not told from the one it replaces.
MCFiles ==
  [p1 |-> <<Text(1, <<"a">>, "one", "valid"), Text(1, <<"a">>, "two", "valid"),
            Gone>>,
   p2 |-> <<Text(1, <<"a">>, "more", "none")>>,
   ps |-> <<Plain(1, "script")>>,
   q1 |-> <<Text(1, <<"q">>, "secret", "valid"), Text(2, <<"q">>, "other", "invalid")>>,
   qh |-> <<Hook(1, "hook", NoRef, TRUE), Hook(2, "hook", {}, FALSE),
            Hook(3, "hook", {"claude"}, FALSE), Plain(4, "hook")>>,
   settings |-> <<Plain(1, "template"), Gone>>,
   r1 |-> <<Text(1, <<"r">>, "found", "none")>>]

Res(path, kind, root, dir, file, tier) ==
    [path |-> path, kind |-> kind, root |-> root, dir |-> dir, file |-> file, tier |-> tier]
PackOf(id, vis, class, tags, resources, size) ==
    [id |-> id, version |-> "1", vis |-> vis, roles |-> {}, targets |-> {}, tags |-> tags,
     trust |-> "curated", class |-> class, terms |-> [name |-> {id}, tag |-> tags],
     resources |-> resources, size |-> size]

PackP == [PackOf("p", "shared", "hook", {"core"},
            <<Res("p1", "instruction", "p/a", "a", "SKILL.md", NoRef),
              Res("p2", "instruction", "p", "p", "more.md", "on_demand"),
              Res("ps", "script", "p/a", "scripts", "run.sh", NoRef)>>, 3)
          EXCEPT !.roles = {"dev"}]
\* When it is shared q has two scripts that ask for one file of `agents`.
QText == <<Res("q1", "instruction", "q", "q", "SKILL.md", NoRef),
           Res("qh", "hook_wiring", "q", "q", "hooks.json", NoRef)>>
PackQ(vis) == PackOf("q", vis, "service", {},
    IF vis = "private" THEN QText
    ELSE QText \o <<Res("ps", "script", "q/a", "scripts", "run.sh", NoRef),
                    Res("qh", "script", "q/b", "scripts", "run.sh", NoRef)>>, 2)
RText == <<Res("r1", "instruction", "r", "r", "SKILL.md", NoRef)>>
PackR == PackOf("r", "shared", "script", {}, RText, 1)
ImportR == [id |-> "r", tags |-> {}, terms |-> [name |-> {"r"}], resources |-> RText, size |-> 1]

Tmpl(base, pack, surface, resource) ==
    [base |-> base, pack |-> pack, surface |-> surface, resource |-> resource]
Ct(kind, path, stub, mode, multi, merge, kinds) ==
    [kind |-> kind, path |-> path, stub |-> stub, mode |-> mode, selection |-> "minimal",
     multi |-> multi, merge |-> merge, frontmatter |-> TRUE, scripts |-> TRUE, assets |-> FALSE,
     resources |-> kinds, primary |-> TRUE]
Claude == [id |-> "claude", version |-> "1", hooks |-> TRUE, folders |-> TRUE, approvals |-> FALSE,
           localScripts |-> TRUE, mcp |-> FALSE, capabilities |-> {"mcp_servers"},
           local |-> [support |-> "exact", surface |-> <<"CLAUDE.local.md", NoPack, <<>>>>],
           runtime |-> [template |-> "settings", dest |-> <<"settings", NoPack, <<>>>>, listsPacks |-> TRUE, hooks |-> TRUE],
           compile |-> <<Ct("claude_md", Tmpl("CLAUDE.md", FALSE, FALSE, FALSE), "stub", "reference_index", FALSE, "none", {}),
                         Ct("codex_skill", Tmpl("skills", TRUE, TRUE, FALSE), NoRef, "none", TRUE, "none", {})>>]
Agents == [id |-> "agents", version |-> "1", hooks |-> FALSE, folders |-> TRUE, approvals |-> TRUE,
           localScripts |-> FALSE, mcp |-> TRUE, capabilities |-> {},
           local |-> [support |-> "none", surface |-> NoRef], runtime |-> NoRef,
           compile |-> <<Ct("agents_md", Tmpl("AGENTS.md", FALSE, FALSE, FALSE), NoRef, "inline", FALSE, "none", {}),
                         Ct("codex_skill", Tmpl("bundle", TRUE, FALSE, FALSE), NoRef, "none", FALSE, "append", {}),
                         Ct("pack_resource", Tmpl("res", TRUE, FALSE, TRUE), NoRef, "none", FALSE, "none", {"script", "instruction"}),
                         Ct("pack_extension_manifest", Tmpl("ext", TRUE, FALSE, FALSE), NoRef, "none", FALSE, "none", {}),
                         Ct("mcp_config", Tmpl("mcp", FALSE, FALSE, FALSE), NoRef, "none", FALSE, "none", {})>>]
MCBundled == [claude |-> Claude, agents |-> Agents]

Rule(id, subject, operator, ids) ==
    [id |-> id, subject |-> subject, operator |-> operator, ids |-> ids, tags |-> {}, trust |-> {}]
Policy(rules) == [id |-> "pol", version |-> "1", mode |-> NoRef, rules |-> rules]
Ask == Rule("ask", "filesystem", "require_approval", {})
Role == [id |-> "dev", version |-> "1", defaults |-> <<Ref("p", AnyVersion), Ref("r", AnyVersion)>>]

Root(policy, packs, imports) ==
    [roles |-> <<Role>>, policies |-> <<policy>>, targets |-> <<Claude, Agents>>,
     knowledge |-> <<>>, packs |-> packs, provenance |-> <<Ref("p", "1")>>, imports |-> imports]
DenyP == Rule("no", "pack", "deny", {"p"})
MCLibraries ==
  [l \in 1..4 |->
   CASE l = 1 -> <<Root(Policy(<<Ask>>), <<PackP, PackQ("private")>>, <<ImportR>>)>>
     [] l = 2 -> <<Root(Policy(<<Ask>>), <<PackP, PackQ("shared")>>, <<ImportR>>)>>
     [] l = 3 -> <<Root(Policy(<<DenyP>>), <<PackP, PackQ("private"), PackR>>, <<>>)>>
     [] OTHER -> \* does not load: p is in both roots
          <<Root(Policy(<<>>), <<PackP>>, <<>>),
            [Root(Policy(<<>>), <<PackP>>, <<>>)
               EXCEPT !.roles = <<>>, !.policies = <<>>, !.targets = <<>>, !.provenance = <<>>]>>]

Cfg(packs, targets, mode, auto) ==
    [role |-> Ref("dev", AnyVersion), policy |-> Ref("pol", AnyVersion),
     packs |-> [i \in DOMAIN packs |-> Ref(packs[i], AnyVersion)],
     targets |-> [i \in DOMAIN targets |-> Ref(targets[i], AnyVersion)], mode |-> mode, auto |-> auto]
BothWays == [selected |-> {}, pinned |-> {<<"p", <<"a">>>>, <<"p", <<"a", 2>>>>},
             blocked |-> {<<"p", <<"a">>>>}]
MCConfigs ==
  {Cfg(<<"p", "q", "r">>, <<"claude">>, NoRef, NoRef),
   Cfg(<<>>, <<"claude">>, "candidate_search", BothWays)}

MCOverlays == {NoRef, Ref("agents", AnyVersion)}
MCState == <<"state", NoPack, <<>>>>
MCGuards == {{},
             {MCState, <<"CLAUDE.local.md", NoPack, <<>>>>, <<"settings", NoPack, <<>>>>,
              <<"skills", "q", <<"q">>>>}}
MCLegacy ==
  {[graph |-> NoGraph, target |-> Ref("claude", "1"), selection |-> NoRef, degradations |-> {},
    outputs |-> {Output(<<"CLAUDE.md", NoPack, <<>>>>, "instruction_file", NoPack, NoSurface,
                        {<<"q", <<"name">>>>})}]}
MCApplyModes == {"copy", "import_stub"}
MCOverrides == {NoRef, "auto"}
MCQueries == {{"one"}}

Artifacts(id) == {<<>>} \cup
  {<<[id |-> id, locked |-> l, policy |-> p]>> :
     l \in BOOLEAN, p \in {"none", "allow_overlay", "allow_baseline_precedence"}}
Source(id, role, artifacts) ==
    [id |-> id, role |-> role, readOnly |-> role = "baseline", writable |-> role = "overlay",
     pinned |-> TRUE, artifacts |-> artifacts]
Other == [id |-> "b", locked |-> FALSE, policy |-> "allow_overlay"]
StackOf(one, two, over, explicit) ==
    [sources |-> <<Source("o", "overlay", over), Source("b1", "baseline", one), Source("b2", "baseline", two)>>,
     profiles |-> <<[id |-> "p", baselines |-> <<"b2", "b1">>, overlay |-> "o", explicit |-> explicit]>>,
     active |-> "p"]
Good == StackOf(<<Other>>, <<>>, <<Other, Other>>, TRUE)
MCStacks ==
    {StackOf(one, two \o <<Other>>, over, e) :
       one \in Artifacts("a"), two \in Artifacts("a"), over \in Artifacts("a"), e \in BOOLEAN}
      \cup {Good, [Good EXCEPT !.active = "none"], [Good EXCEPT !.profiles[1].overlay = "b1"],
            [Good EXCEPT !.profiles[1].overlay = "x"], [Good EXCEPT !.profiles[1].baselines = <<"x">>],
            [Good EXCEPT !.sources[2].pinned = FALSE], [Good EXCEPT !.sources[2].id = "o"]}

\* No command resolves a stack: a behaviour resolves one, or runs the pipeline.
Idle == /\ lib = 1 /\ files = [p \in Paths |-> 1] /\ cfg \in {c \in Configs : c.mode = NoRef}
        /\ guard = {} /\ proc = NoProc /\ graph = NoGraph /\ manifest = NoManifest
        /\ consent = NoRef /\ settled = NoRef /\ last = <<"none">> /\ edits = MaxEdits
MCInit == (Init /\ StackIdle) \/ (StackInit /\ Idle)
MCNext == (stack = NoStack /\ Next /\ UNCHANGED svars) \/ (StackNext /\ UNCHANGED vars)
MCSpec == MCInit /\ [][MCNext]_<<vars, svars>>
=============================================================================
