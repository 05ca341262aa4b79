----------------------- MODULE MCDiscoveryConnection -----------------------
(* Two projects that share Codex's user configuration; one of them also      *)
(* connects a client with a JSON configuration of its own.                   *)
EXTENDS DiscoveryConnection, TLC

CONSTANTS c1, c2, r1, r2

Baseline == [trial |-> "baseline", prefs |-> FALSE, allow |-> FALSE, project |-> None,
             class |-> None, calls |-> 4, deadline |-> 50, gateway |-> "jev"]
Advisory == [Baseline EXCEPT !.trial = "advisory", !.allow = TRUE, !.project = "p1",
                             !.class = "public-nonsensitive"]

Ask(root, target, scope, mode, replace, routing) ==
    [root |-> root, target |-> target, scope |-> scope, mode |-> mode, replace |-> replace,
     allowUnignored |-> FALSE, python |-> "python3", catalog |-> "project", profile |-> None,
     routing |-> routing]

AskSome ==
    {Ask(r1, "codex-cli", "user", "apply", FALSE, Baseline),
     Ask(r1, "codex-cli", "user", "remove", FALSE, Baseline),
     Ask(r2, "codex-cli", "user", "apply", TRUE, Advisory),
     Ask(r2, "codex-cli", "user", "remove", FALSE, Baseline),
     Ask(r1, "cursor", "project", "preview", FALSE, Baseline),
     Ask(r1, "cursor", "project", "apply", FALSE, Baseline),
     [Ask(r1, "cursor", "project", "apply", TRUE, Advisory) EXCEPT !.allowUnignored = TRUE],
     Ask(r1, "cursor", "project", "remove", FALSE, Baseline)}

Installed(exe, present, log) == [exe |-> exe, present |-> present \cup {exe}, log |-> log]
SomeMachines ==
    <<Installed("metactl-1", {"python3", "jev"}, "log1"), Installed("metactl-2", {"python3"}, "log1")>>

SomeVisibility ==
    {[p \in Path |-> "ignored"], [p \in Path |-> IF p = <<"user">> THEN "tracked" ELSE "unignored"]}

\* One of the files is a link, which nobody follows: each behaviour is about
\* the other.
Plain == [EmptyFile EXCEPT !.others = "s1"]
Link == [EmptyFile EXCEPT !.form = "link"]
Starts == {[p \in Path |-> IF p = <<"user">> THEN Plain ELSE Link],
           [p \in Path |-> IF p = <<"user">> THEN [Plain EXCEPT !.bare = TRUE] ELSE Link],
           [p \in Path |-> IF p = <<"user">> THEN Link ELSE NoFile]}

Twins == Permutations(Command)
=============================================================================
