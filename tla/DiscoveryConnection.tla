------------------------ MODULE DiscoveryConnection ------------------------
(***************************************************************************)
(* `metactl skills connect` and `skills doctor` run beside the coding      *)
(* clients and the people who edit the same configuration files, and       *)
(* beside connects of other projects: Codex's user configuration is one    *)
(* file for all, and the operation lock is one per project.  A command     *)
(* checks its host, reads the file, asks Git about it, and writes a        *)
(* temporary file that it renames over the first if that still holds what  *)
(* was read.                                                               *)
(***************************************************************************)
EXTENDS DiscoveryRegistration, FiniteSets

CONSTANTS
    Command,     \* processes, each runs one command after another
    Requests,    \* the requests they may be given
    Jsonc,       \* projects with an opencode.jsonc
    StartFiles,  \* what a configuration may hold at first
    Visibility,  \* what Git may say of each file: "tracked", "unknown", "not_git",
                 \* "ignored" or "unignored"
    Settings,    \* the settings of others a person may write
    Machines,    \* installations, [exe, present, log]; Machines[1] is there first
    MaxEdits     \* bound on what others do

Path == {PathOf(q) : q \in Requests}
Root == {q.root : q \in Requests}

ASSUME ConnectionAssumption ==
    /\ \A s \in StartFiles : /\ s = [p \in Path |-> s[p]]
                             /\ \A p \in Path : s[p] # NoFile => IsFile(s[p]) /\ MarksFit(p, s[p])
    /\ \A q \in Requests : q.replace \in BOOLEAN /\ q.root # None
    /\ None \notin Command

VARIABLES
    config,     \* config[p]: the file
    git,        \* git[p]: what Git says of it; nobody changes that here
    machine,    \* the installation in use
    gone,       \* projects whose directory was removed
    linked,     \* files whose directory is a symbolic link
    pc, req,    \* per command: its place and its request
    want,       \* per command: the registration it is about
    old, new,   \* per command: the text it read, and what it makes of it
    touched,    \* history: per command, the file changed after its comparison
    connected,  \* history: connected[p]: whose registration metactl wrote
    edits       \* edits so far, to bound them

local == <<pc, req, want, old, new>>
world == <<git, machine, gone, linked>>
dvars == <<config, world, local, touched, connected, edits>>

DInit ==
    /\ config \in StartFiles
    /\ git \in Visibility
    /\ machine = Machines[1]
    /\ gone = {}
    /\ linked = {}
    /\ pc = [c \in Command |-> "idle"]
    /\ req = [c \in Command |-> None]
    /\ want = [c \in Command |-> None]
    /\ old = [c \in Command |-> EmptyFile]
    /\ new = [c \in Command |-> EmptyFile]
    /\ touched = [c \in Command |-> FALSE]
    /\ connected = [p \in Path |-> None]
    /\ edits = 0

-----------------------------------------------------------------------------
(* A command.                                                              *)

At(c, place) == pc[c] = place
P(c) == PathOf(req[c])

Go(c, place) == pc' = [pc EXCEPT ![c] = place]
\* Done or refused: what it knew is forgotten.
End(c) ==
    /\ pc' = [pc EXCEPT ![c] = "idle"]
    /\ req' = [req EXCEPT ![c] = None]
    /\ want' = [want EXCEPT ![c] = None]
    /\ old' = [old EXCEPT ![c] = EmptyFile]
    /\ new' = [new EXCEPT ![c] = EmptyFile]

\* Without its project only a user-wide removal runs, and without the lock.
NeedsLock(q) == q.mode # "preview" /\ q.root \notin gone
Admissible(q) == q.root \in gone => Removes(q) /\ q.scope = "user"

Begin(c, q) ==
    /\ At(c, "idle")
    /\ Admissible(q) /\ HasPath(q) /\ CommandAllowed(q, machine, Removes(q))
    /\ q.target = "opencode" /\ ~Removes(q) /\ config[PathOf(q)] = NoFile => q.root \notin Jsonc
    /\ NeedsLock(q) => ~\E d \in Command : req[d] # None /\ req[d].root = q.root /\ NeedsLock(req[d])
    /\ req' = [req EXCEPT ![c] = q]
    /\ want' = [want EXCEPT ![c] = HostCommand(q, machine)]
    /\ Go(c, IF Removes(q) THEN "read" ELSE "host")
    /\ UNCHANGED <<config, world, old, new, touched, connected, edits>>

\* The host, started as it would be registered, answers that it is ready and has
\* skills to offer.
HostIsReady(c) ==
    /\ At(c, "host")
    /\ {want[c].exe, want[c].python} \subseteq machine.present
    /\ Go(c, "read")
    /\ UNCHANGED <<config, world, req, want, old, new, touched, connected, edits>>

ReadAndEdit(c) ==
    /\ At(c, "read")
    /\ LET q == req[c]
           text == Text(config[P(c)])
           edit == Edit(P(c), text, q.root, want[c], Removes(q), q.replace)
       IN  IF P(c) \notin linked /\ FitsShape(want[c]) /\ edit.ok
           THEN /\ old' = [old EXCEPT ![c] = text]
                /\ new' = [new EXCEPT ![c] = edit.file]
                /\ Go(c, "look")
                /\ UNCHANGED <<req, want>>
           ELSE End(c)
    /\ UNCHANGED <<config, world, touched, connected, edits>>

\* A preview has only this look at Git, for its report.
Look(c) ==
    /\ At(c, "look")
    /\ IF req[c].mode = "preview" THEN End(c)
       ELSE Go(c, "check") /\ UNCHANGED <<req, want, old, new>>
    /\ UNCHANGED <<config, world, touched, connected, edits>>

Publishes(c) ==
    /\ req[c].mode = "apply" /\ old[c] # new[c]
    /\ req[c].scope = "project" /\ git[P(c)] = "unignored" /\ ~req[c].allowUnignored

CheckTracked(c) ==
    /\ At(c, "check")
    /\ IF git[P(c)] \in {"tracked", "unknown"} \/ Publishes(c) \/ old[c] = new[c]
       THEN End(c)
       ELSE Go(c, "compare") /\ UNCHANGED <<req, want, old, new>>
    /\ UNCHANGED <<config, world, touched, connected, edits>>

\* Wrong: renames whatever is there by now.
Compare_Skipped(c) ==
    /\ At(c, "compare")
    /\ Go(c, "persist")
    /\ touched' = [touched EXCEPT ![c] = FALSE]
    /\ UNCHANGED <<config, world, req, want, old, new, connected, edits>>

\* The temporary file is written; the configuration is read once more.
Compare(c) ==
    /\ At(c, "compare")
    /\ LET text == Text(config[P(c)]) IN
         IF text = old[c] THEN Go(c, "persist") /\ UNCHANGED <<req, want, old, new>>
         ELSE End(c)
    /\ touched' = [touched EXCEPT ![c] = FALSE]
    /\ UNCHANGED <<config, world, connected, edits>>

\* Who else is about to rename over p does not know of the change.
Touch(p, by) ==
    touched' = [d \in Command |->
                  IF d # by /\ At(d, "persist") /\ P(d) = p THEN TRUE ELSE touched[d]]

Persist(c) ==
    /\ At(c, "persist")
    /\ config' = [config EXCEPT ![P(c)] = new[c]]
    /\ connected' = [connected EXCEPT ![P(c)] = IF Removes(req[c]) THEN None ELSE req[c].root]
    /\ Touch(P(c), c)
    /\ End(c)
    /\ UNCHANGED <<world, edits>>

\* Any step may fail, and the process may die: nothing was renamed.
Stop(c) ==
    /\ pc[c] # "idle"
    /\ End(c)
    /\ UNCHANGED <<config, world, touched, connected, edits>>

-----------------------------------------------------------------------------
(* Everybody else.                                                         *)

Torn == {[begin |-> 1, end |-> 0], [begin |-> 0, end |-> 1]}

\* Settings of others, the header above them, and the comments lost as clients
\* rewrite the file.
HarmlessEdits(p, f) ==
    {[f EXCEPT !.others = s] : s \in Settings}
    \cup {[f EXCEPT !.bare = b] : b \in IF IsCodex(p) THEN BOOLEAN ELSE {f.bare}}
    \cup {[f EXCEPT !.marks = m, !.server.layout = "table"] :
            m \in IF f.marks = Whole /\ f.server # NoServer THEN {NoMarks} \cup Torn ELSE {}}

\* Edits of the registration itself, and of the form of the file.
HarmfulEdits(p, f) ==
    {NoFile, Without(f)}
    \cup {[f EXCEPT !.form = k, !.bare = FALSE] :
            k \in IF IsCodex(p) /\ f.server # NoServer THEN {"invalid", "link"}
                  ELSE IF f.marks = NoMarks THEN {"rigid", "invalid", "link"} ELSE {"invalid"}}
    \cup (IF f.server = NoServer
          THEN {Registered(f, HostCommand(q, machine), f.marks, "table") :
                  q \in {r \in Requests : PathOf(r) = p /\ r.mode = "apply"}}
          ELSE {[f EXCEPT !.server.shape = s] : s \in {"extra", "foreign"}}
               \cup {[Without(f) EXCEPT !.marks = m] :
                       m \in IF f.marks = Whole THEN Torn ELSE {}}
               \cup {[f EXCEPT !.marks = [begin |-> 2, end |-> 2]] :
                       x \in IF f.marks = Whole THEN {1} ELSE {}}
               \cup {[f EXCEPT !.server.layout = "odd", !.marks = NoMarks] :
                       x \in IF IsCodex(p) THEN {1} ELSE {}})

SomeoneEdits(p) ==
    /\ edits < MaxEdits
    /\ edits' = edits + 1
    /\ LET f == Text(config[p]) IN
         \/ /\ f.form = "plain"
            /\ config' \in {[config EXCEPT ![p] = g] : g \in HarmlessEdits(p, f)}
            /\ UNCHANGED connected
         \/ /\ f.form = "plain"
            /\ config' \in {[config EXCEPT ![p] = g] : g \in HarmfulEdits(p, f)}
            /\ connected' = [connected EXCEPT ![p] = None]
    /\ Touch(p, None)
    /\ UNCHANGED <<world, local>>

\* metactl or Python is upgraded or removed, or the log moves.
Reinstall ==
    /\ edits < MaxEdits /\ edits' = edits + 1
    /\ \E i \in DOMAIN Machines : machine' = Machines[i] /\ machine' # machine
    /\ UNCHANGED <<config, git, gone, linked, local, touched, connected>>

DeleteProject(r) ==
    /\ edits < MaxEdits /\ edits' = edits + 1
    /\ r \notin gone
    /\ ~\E c \in Command : req[c] # None /\ req[c].root = r
    /\ gone' = gone \cup {r}
    /\ UNCHANGED <<config, git, machine, linked, local, touched, connected>>

\* The directory of the configuration is moved, and a link put in its place.
LinkDirectory(p) ==
    /\ edits < MaxEdits /\ edits' = edits + 1
    /\ linked' = linked \cup {p} /\ linked' # linked
    /\ UNCHANGED <<config, git, machine, gone, local, touched, connected>>

DNext ==
    \/ \E c \in Command :
         \/ \E q \in Requests : Begin(c, q)
         \/ HostIsReady(c) \/ ReadAndEdit(c) \/ Look(c) \/ CheckTracked(c)
         \/ Compare(c) \/ Persist(c) \/ Stop(c)
    \/ \E p \in Path : SomeoneEdits(p) \/ LinkDirectory(p)
    \/ Reinstall
    \/ \E r \in Root : DeleteProject(r)

DSpec == DInit /\ [][DNext]_dvars

-----------------------------------------------------------------------------
(* Properties.                                                             *)

\* What a command writes over is what it read: the settings of others stay as
\* they are, unless they were written in the instant between the comparison and
\* the rename (write_private).
OthersAreKept ==
    [][\A c \in Command : Persist(c) /\ ~touched[c] =>
          config'[P(c)].others = Text(config[P(c)]).others]_dvars

\* A project's command replaces or removes no server but its own project's,
\* also in the file that projects share, and changes the options of that one
\* only if asked to replace them.
OnlyItsOwnServer ==
    [][\A c \in Command : Persist(c) /\ ~touched[c] =>
          LET before == Text(config[P(c)]).server
              after == config'[P(c)].server
          IN  /\ before # NoServer =>
                   before.shape = "managed" /\ before.by.root = req[c].root
              /\ before # NoServer /\ after # NoServer /\ ~req[c].replace =>
                   PolicyArgs(before.by) = PolicyArgs(after.by)]_dvars

\* The rollback that connect prints works: as long as nobody has edited the
\* registration itself, its project can remove it, with whatever installation
\* there is by then and however a client has rewritten the comments.  It does
\* not in a directory that is a link, nor beneath a bare [mcp_servers] header,
\* though connect accepts that header when it is there first.
RollbackWorks ==
    \A q \in Requests : LET p == PathOf(q)
                            f == Text(config[p])
                            edit == Edit(p, f, q.root, HostCommand(q, machine), TRUE, FALSE) IN
        Removes(q) /\ connected[p] = q.root /\ p \notin linked /\ ~f.bare =>
            /\ edit.ok /\ edit.action = "removed"
            /\ edit.file.others = f.others /\ edit.file.server = NoServer

\* The doctor's word on a registration is what connect and remove then do.  (It
\* does not know of forms and directories that metactl will not edit, nor of a
\* closing comment that is left alone; and what it calls configured beneath a
\* bare header can be connected again, and not removed.)
DoctorAgrees ==
    \A q \in Requests : LET p == PathOf(q)
                            f == Text(config[p]) IN
        q.mode = "apply" /\ f.form # "rigid" /\ p \notin linked =>
            LET by == HostCommand(q, machine)
                says == Registration(p, f, q.root)
                connect == Edit(p, f, q.root, by, FALSE, q.replace)
                remove == Edit(p, f, q.root, by, TRUE, FALSE)
            IN  /\ says \in {"conflict", "invalid_config", "symlink_refused"} =>
                     ~connect.ok /\ ~remove.ok
                /\ says = "configured" =>
                     IF f.bare THEN ~remove.ok ELSE remove.ok /\ remove.action = "removed"
                /\ says = "configured" /\ Drift(f.server.by, by, machine) = "none" =>
                     connect.ok /\ connect.file.server.by = f.server.by
                /\ says = "missing" /\ f.marks.end = 0 =>
                     connect.ok /\ remove.ok /\ remove.action = "already_absent"
=============================================================================
