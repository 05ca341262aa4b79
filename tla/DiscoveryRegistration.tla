----------------------- MODULE DiscoveryRegistration -----------------------
(***************************************************************************)
(* The entry that `metactl skills connect` keeps in a coding client's      *)
(* configuration (crates/metactl/src/cli_skill_discovery_connection.rs):   *)
(* which requests make one, which entries metactl takes for its own, what  *)
(* connecting and removing make of a file, and what `skills doctor` says   *)
(* of it.  A file is its form, the settings of others, the one server of   *)
(* metactl's name, and in Codex's TOML the comments that mark its block    *)
(* and whether [mcp_servers] is written out with nothing else beneath it   *)
(* (bare).                                                                 *)
(***************************************************************************)
EXTENDS Naturals

CONSTANTS
    None,            \* no gateway project, class or profile
    Unresolved,      \* a program that is not found on PATH
    GatewayProjects  \* well-formed gateway project names

Forms == {"plain", "rigid", "invalid", "link"}  \* rigid: see Add and EditJson
Marks == [begin : 0..2, end : 0..2]             \* how often each is there; 2: several
NoMarks == [begin |-> 0, end |-> 0]
Whole == [begin |-> 1, end |-> 1]
Layouts == {"block", "table", "odd"}            \* odd: inline, or several lines
Shapes == {"managed", "extra", "foreign"}       \* extra: with settings of others

NoServer == [shape |-> "none"]
IsServer(s) ==
    s # NoServer => {"shape", "by", "layout"} \subseteq DOMAIN s /\ s.shape \in Shapes

NoFile == [form |-> "absent"]
IsFile(f) ==
    /\ {"form", "others", "server", "marks", "bare"} \subseteq DOMAIN f
    /\ f.form \in Forms /\ f.marks \in Marks /\ f.bare \in BOOLEAN
    /\ IsServer(f.server)

EmptyFile ==
    [form |-> "plain", others |-> None, server |-> NoServer, marks |-> NoMarks, bare |-> FALSE]
Text(f) == IF f = NoFile THEN EmptyFile ELSE f

-----------------------------------------------------------------------------
(* Requests.                                                               *)

ProjectTargets == {"codex-cli", "claude-code", "cursor", "gemini-cli", "opencode"}
HasPath(q) == q.target \in (IF q.scope = "user" THEN {"codex-cli"} ELSE ProjectTargets)
\* User scope is one file for all projects.
PathOf(q) == IF q.scope = "user" THEN <<"user">> ELSE <<q.root, q.target>>
IsCodex(p) == p = <<"user">> \/ p[2] = "codex-cli"
\* JSON has neither comments nor headers.
MarksFit(p, f) == IsCodex(p) \/ (f.marks = NoMarks /\ ~f.bare)

Removes(q) == q.mode = "remove"
IsProvider(r) == r.trial # "baseline"
Resolved(program, machine) == IF program \in machine.present THEN program ELSE Unresolved

RoutingAllowed(r) ==
    /\ ~(r.prefs /\ IsProvider(r))
    /\ ~IsProvider(r) => ~r.allow /\ r.project = None /\ r.class = None
    /\ IsProvider(r) =>
         /\ r.allow /\ r.project # None /\ r.class \notin {None, "synthetic"}
         /\ r.calls \in 1..10
         /\ r.deadline \in 1..50  \* tenths of a second
    /\ r.project \in GatewayProjects \cup {None}

\* lenient: removing, or the doctor's; programs need not be there.
CommandAllowed(q, machine, lenient) ==
    /\ RoutingAllowed(q.routing)
    /\ lenient \/ q.python \in machine.present
    /\ IsProvider(q.routing) => lenient \/ q.routing.gateway \in machine.present

RoutingArgs(r, machine) ==
    IF IsProvider(r) THEN [r EXCEPT !.gateway = Resolved(r.gateway, machine)]
                     ELSE [trial |-> r.trial, prefs |-> r.prefs]

\* The registration of a request: a command and its arguments.
HostCommand(q, machine) ==
    [root |-> q.root, exe |-> machine.exe,
     python |-> IF Removes(q) THEN q.python ELSE Resolved(q.python, machine),
     policy |-> [catalog |-> q.catalog, profile |-> q.profile,
                 routing |-> RoutingArgs(q.routing, machine)],
     log |-> machine.log]

\* Whether the strict shape of managed_entry fits: the generated entry must, too.
FitsShape(by) ==
    "gateway" \in DOMAIN by.policy.routing => by.policy.routing.gateway # Unresolved

\* Wrong: does not look at the project.
Managed_AnyProject(server, root) == server.shape = "managed"

Managed(server, root) == server.shape = "managed" /\ server.by.root = root

PolicyArgs(by) == <<by.root, by.policy, by.log>>
PolicyMatches(server, by, replace) == replace \/ PolicyArgs(server.by) = PolicyArgs(by)

-----------------------------------------------------------------------------
(* Edits.                                                                  *)

Refused == [ok |-> FALSE]
Becomes(f, action) == [ok |-> TRUE, file |-> f, action |-> action]
Registered(f, by, marks, layout) ==
    [f EXCEPT !.server = [by |-> by, shape |-> "managed", layout |-> layout], !.marks = marks]
Without(f) == [f EXCEPT !.server = NoServer, !.marks = NoMarks]

\* A bare header leaves an empty table when the server goes, and that is taken
\* for a change of other settings.
RemovesOnlyServer(f) == ~f.bare

\* The block between the comments, exactly as written.
StrictBlock(f, root) ==
    /\ f.marks = Whole
    /\ f.server # NoServer /\ f.server.layout = "block"
    /\ f.server.shape # "foreign" /\ f.server.by.root = root

\* Wrong: needs the comments.
Recoverable_Marked(f, root) ==
    /\ f.server # NoServer /\ Managed(f.server, root) /\ f.server.layout = "block"
    /\ f.marks = Whole /\ RemovesOnlyServer(f)

\* A client may have rewritten the comments away, but none twice.
Recoverable(f, root) ==
    /\ f.server # NoServer /\ Managed(f.server, root) /\ f.server.layout # "odd"
    /\ f.marks.begin <= 1 /\ f.marks.end <= 1
    /\ RemovesOnlyServer(f)

\* A table cannot be added where mcp_servers is an inline table.
Add(f, by) ==
    IF f.form = "rigid" THEN Refused
    ELSE Becomes(Registered(f, by, Whole, "block"), "connected")

EditCodex(f, root, by, remove, replace) ==
    CASE f.form = "invalid" -> Refused
      [] StrictBlock(f, root) /\ f.form # "invalid" ->
           IF f.server.shape = "extra" THEN Refused
           ELSE IF remove THEN
             IF RemovesOnlyServer(f) THEN Becomes(Without(f), "removed") ELSE Refused
           ELSE IF f.server.by = by THEN Becomes(f, "already_connected")
           ELSE IF ~PolicyMatches(f.server, by, replace) THEN Refused
           ELSE Becomes(Registered(f, by, Whole, "block"), "updated")
      [] ~StrictBlock(f, root) /\ Recoverable(f, root) /\ f.form # "invalid" ->
           IF remove THEN Becomes(Without(f), "removed")
           ELSE IF ~PolicyMatches(f.server, by, replace) THEN Refused
           ELSE [Add(Without(f), by) EXCEPT !.action = "updated"]
      [] OTHER ->
           IF f.marks # NoMarks \/ f.server # NoServer THEN Refused
           ELSE IF remove THEN Becomes(f, "already_absent")
           ELSE Add(f, by)

\* Rigid: integers beyond 64 bits, or no object where the entry belongs.
EditJson(f, root, by, remove, replace) ==
    CASE f.form \in {"invalid", "rigid"} -> Refused
      [] f.form = "plain" /\ f.server = NoServer ->
           IF remove THEN Becomes(f, "already_absent")
           ELSE Becomes(Registered(f, by, NoMarks, "table"), "connected")
      [] f.form = "plain" /\ f.server # NoServer ->
           IF ~Managed(f.server, root) THEN Refused
           ELSE IF remove THEN Becomes(Without(f), "removed")
           ELSE IF f.server.by = by THEN Becomes(f, "already_connected")
           ELSE IF ~PolicyMatches(f.server, by, replace) THEN Refused
           ELSE Becomes(Registered(f, by, NoMarks, "table"), "updated")

Edit(p, f, root, by, remove, replace) ==
    IF f.form = "link" THEN Refused
    ELSE IF IsCodex(p) THEN EditCodex(f, root, by, remove, replace)
    ELSE EditJson(f, root, by, remove, replace)

-----------------------------------------------------------------------------
(* `skills doctor`.                                                        *)

\* Wrong: a rewritten block is no registration.
Registration_StrictOnly(p, f, root) ==
    CASE f.form = "link" -> "symlink_refused"
      [] f.form = "invalid" -> "invalid_config"
      [] OTHER ->
           IF IF IsCodex(p) THEN StrictBlock(f, root) /\ f.server.shape = "managed"
                            ELSE f.server # NoServer /\ Managed(f.server, root)
           THEN "configured"
           ELSE IF f.server # NoServer \/ f.marks.begin > 0 THEN "conflict"
           ELSE "missing"

Registration(p, f, root) ==
    CASE f.form = "link" -> "symlink_refused"
      [] f.form = "invalid" -> "invalid_config"
      [] OTHER ->
           IF IF IsCodex(p) THEN \/ StrictBlock(f, root) /\ f.server.shape = "managed"
                                 \/ Recoverable(f, root)
                            ELSE f.server # NoServer /\ Managed(f.server, root)
           THEN "configured"
           ELSE IF f.server # NoServer \/ f.marks.begin > 0 THEN "conflict"
           ELSE "missing"

\* How a registration that was found differs from the one of the request.
Drift(found, by, machine) ==
    CASE found.exe \notin machine.present -> "registered_command_missing"
      [] found.exe \in machine.present /\ found.python \notin machine.present ->
           "registered_python_missing"
      [] {found.exe, found.python} \subseteq machine.present ->
           IF /\ "gateway" \in DOMAIN found.policy.routing
              /\ found.policy.routing.gateway \notin machine.present
           THEN "registered_gateway_command_unavailable"
           ELSE IF found.exe # by.exe THEN "command_differs"
           ELSE IF found.log # by.log THEN "event_log_differs"
           ELSE IF found # by THEN "options_differ"
           ELSE "none"
=============================================================================
