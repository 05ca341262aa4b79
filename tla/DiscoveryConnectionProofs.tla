--------------------- MODULE DiscoveryConnectionProofs ---------------------
(***************************************************************************)
(* What `metactl skills connect` does to a file that others edit, for any  *)
(* number of commands, projects, requests and edits.  The text a command   *)
(* makes keeps the settings of others and replaces no server but its own   *)
(* project's (EditIsMine), and the text it writes over is the one it made  *)
(* it from, unless the file was touched after the comparison (the last     *)
(* part of ConnInv).  That text has a registration which a removal         *)
(* accepts (EditIsRollable), and only edits of the registration itself     *)
(* take that away (RollInv).                                               *)
(***************************************************************************)
EXTENDS DiscoveryConnection, TLAPS

\* What the command may have made of the file f.
Mine(f, g, root, replace) ==
    /\ IsFile(f) /\ IsFile(g)
    /\ g.others = f.others
    /\ f.server # NoServer => f.server.shape = "managed" /\ f.server.by.root = root
    /\ f.server # NoServer /\ g.server # NoServer /\ ~replace =>
         PolicyArgs(f.server.by) = PolicyArgs(g.server.by)

-----------------------------------------------------------------------------
(* Edits.                                                                  *)

LEMMA MarkKinds ==
    /\ NoMarks \in Marks /\ Whole \in Marks /\ Torn \subseteq Marks
    /\ \A m \in {NoMarks, Whole} \cup Torn : m.begin <= 1 /\ m.end <= 1
    /\ NoMarks.begin = 0 /\ NoMarks.end = 0
BY DEF NoMarks, Whole, Torn, Marks

LEMMA WithoutIsFile ==
    ASSUME NEW f, IsFile(f)
    PROVE  /\ IsFile(Without(f))
           /\ Without(f).others = f.others
           /\ Without(f).form = f.form
           /\ Without(f).server = NoServer
BY MarkKinds DEF Without, IsFile, IsServer

LEMMA RegisteredIsFile ==
    ASSUME NEW f, IsFile(f), NEW by, NEW marks \in Marks, NEW layout
    PROVE  /\ IsFile(Registered(f, by, marks, layout))
           /\ Registered(f, by, marks, layout).others = f.others
           /\ Registered(f, by, marks, layout).server.by = by
BY DEF Registered, IsFile, IsServer, Shapes, NoServer

LEMMA AddIsFile ==
    ASSUME NEW f, IsFile(f), NEW by, Add(f, by).ok
    PROVE  /\ IsFile(Add(f, by).file)
           /\ Add(f, by).file.others = f.others
           /\ Add(f, by).file.server.by = by
BY RegisteredIsFile, MarkKinds DEF Add, Refused, Becomes

\* A command keeps the settings of others, and takes no server for its own but
\* its project's.
LEMMA CodexIsMine ==
    ASSUME NEW f, IsFile(f), NEW root, NEW by, NEW remove \in BOOLEAN,
           NEW replace \in BOOLEAN,
           EditCodex(f, root, by, remove, replace).ok
    PROVE  Mine(f, EditCodex(f, root, by, remove, replace).file, root, replace)
<1> DEFINE edit == EditCodex(f, root, by, remove, replace)
<1>1. CASE f.form = "invalid"
  BY <1>1 DEF EditCodex, Refused
<1>2. CASE f.form # "invalid" /\ StrictBlock(f, root)
  <2>1. f.server.shape # "extra"
    BY <1>2 DEF EditCodex, Refused
  <2>2. f.server # NoServer /\ f.server.shape = "managed" /\ f.server.by.root = root
    BY <1>2, <2>1 DEF StrictBlock, IsFile, IsServer, Shapes
  <2>3. CASE remove
    <3>1. edit.file = Without(f)
      BY <1>2, <2>1, <2>3 DEF EditCodex, Becomes, Refused
    <3> QED BY <2>2, <3>1, WithoutIsFile DEF Mine
  <2>4. CASE ~remove /\ f.server.by = by
    <3>1. edit.file = f
      BY <1>2, <2>1, <2>4 DEF EditCodex, Becomes
    <3> QED BY <2>2, <3>1 DEF Mine
  <2>5. CASE ~remove /\ f.server.by # by
    <3>1. PolicyMatches(f.server, by, replace)
      BY <1>2, <2>1, <2>5 DEF EditCodex, Refused
    <3>2. edit.file = Registered(f, by, Whole, "block")
      BY <1>2, <2>1, <2>5, <3>1 DEF EditCodex, Becomes
    <3> QED BY <2>2, <3>1, <3>2, RegisteredIsFile, MarkKinds DEF Mine, PolicyMatches
  <2> QED BY <2>3, <2>4, <2>5
<1>3. CASE f.form # "invalid" /\ ~StrictBlock(f, root) /\ Recoverable(f, root)
  <2>1. f.server # NoServer /\ f.server.shape = "managed" /\ f.server.by.root = root
    BY <1>3 DEF Recoverable, Managed
  <2>2. CASE remove
    <3>1. edit.file = Without(f)
      BY <1>3, <2>2 DEF EditCodex, Becomes
    <3> QED BY <2>1, <3>1, WithoutIsFile DEF Mine
  <2>3. CASE ~remove
    <3>1. PolicyMatches(f.server, by, replace)
      BY <1>3, <2>3 DEF EditCodex, Refused
    <3>2. edit = [Add(Without(f), by) EXCEPT !.action = "updated"]
      BY <1>3, <2>3, <3>1 DEF EditCodex
    <3>3. Add(Without(f), by).ok /\ edit.file = Add(Without(f), by).file
      BY <3>2 DEF Add, Refused, Becomes
    <3> QED BY <2>1, <3>1, <3>3, WithoutIsFile, AddIsFile DEF Mine, PolicyMatches
  <2> QED BY <2>2, <2>3
<1>4. CASE f.form # "invalid" /\ ~StrictBlock(f, root) /\ ~Recoverable(f, root)
  <2>1. f.server = NoServer
    BY <1>4 DEF EditCodex, Refused
  <2>2. edit.file # f => Add(f, by).ok /\ edit.file = Add(f, by).file
    BY <1>4 DEF EditCodex, Refused, Becomes
  <2> QED BY <2>1, <2>2, AddIsFile DEF Mine
<1> QED BY <1>1, <1>2, <1>3, <1>4

LEMMA JsonIsMine ==
    ASSUME NEW f, IsFile(f), f.form # "link", NEW root, NEW by, NEW remove \in BOOLEAN,
           NEW replace \in BOOLEAN,
           EditJson(f, root, by, remove, replace).ok
    PROVE  Mine(f, EditJson(f, root, by, remove, replace).file, root, replace)
<1> DEFINE edit == EditJson(f, root, by, remove, replace)
<1>1. f.form = "plain"
  BY DEF EditJson, Refused, IsFile, Forms
<1>2. CASE f.server = NoServer
  <2>1. edit.file = f \/ edit.file = Registered(f, by, NoMarks, "table")
    BY <1>1, <1>2 DEF EditJson, Becomes
  <2> QED BY <1>2, <2>1, RegisteredIsFile, MarkKinds DEF Mine
<1>3. CASE f.server # NoServer
  <2>1. Managed(f.server, root)
    BY <1>1, <1>3 DEF EditJson, Refused
  <2>2. f.server.shape = "managed" /\ f.server.by.root = root
    BY <2>1 DEF Managed
  <2>3. CASE remove
    <3>1. edit.file = Without(f)
      BY <1>1, <1>3, <2>1, <2>3 DEF EditJson, Becomes
    <3> QED BY <2>2, <3>1, WithoutIsFile DEF Mine
  <2>4. CASE ~remove /\ f.server.by = by
    <3>1. edit.file = f
      BY <1>1, <1>3, <2>1, <2>4 DEF EditJson, Becomes
    <3> QED BY <2>2, <3>1 DEF Mine
  <2>5. CASE ~remove /\ f.server.by # by
    <3>1. PolicyMatches(f.server, by, replace)
      BY <1>1, <1>3, <2>1, <2>5 DEF EditJson, Refused
    <3>2. edit.file = Registered(f, by, NoMarks, "table")
      BY <1>1, <1>3, <2>1, <2>5, <3>1 DEF EditJson, Becomes
    <3> QED BY <2>2, <3>1, <3>2, RegisteredIsFile, MarkKinds DEF Mine, PolicyMatches
  <2> QED BY <2>3, <2>4, <2>5
<1> QED BY <1>2, <1>3

LEMMA EditIsMine ==
    ASSUME NEW f, IsFile(f), NEW p, NEW root, NEW by, NEW remove \in BOOLEAN,
           NEW replace \in BOOLEAN,
           Edit(p, f, root, by, remove, replace).ok
    PROVE  Mine(f, Edit(p, f, root, by, remove, replace).file, root, replace)
BY CodexIsMine, JsonIsMine DEF Edit, Refused

-----------------------------------------------------------------------------
(* The invariant.                                                          *)

Places == {"idle", "host", "read", "look", "check", "compare", "persist"}
Made == {"look", "check", "compare", "persist"}

Replaces(c) == req[c].replace

ConnInv ==
    /\ config = [p \in Path |-> config[p]]
    /\ \A p \in Path : config[p] # NoFile => IsFile(config[p])
    /\ pc \in [Command -> Places]
    /\ req \in [Command -> Requests \cup {None}]
    /\ want = [c \in Command |-> want[c]]
    /\ \A c \in Command :
          pc[c] # "idle" => req[c] \in Requests /\ want[c].root = req[c].root
    /\ old = [c \in Command |-> old[c]]
    /\ new = [c \in Command |-> new[c]]
    /\ touched \in [Command -> BOOLEAN]
    /\ \A c \in Command : pc[c] \in Made => Mine(old[c], new[c], req[c].root, Replaces(c))
    /\ \A c \in Command :
          pc[c] = "persist" /\ ~touched[c] => Text(config[P(c)]) = old[c]

LEMMA TextIsFile ==
    ASSUME NEW f, f # NoFile => IsFile(f)
    PROVE  IsFile(Text(f))
BY MarkKinds DEF Text, EmptyFile, IsFile, IsServer, Forms

LEMMA ConnInit == DInit => ConnInv
<1> SUFFICES ASSUME DInit PROVE ConnInv
  OBVIOUS
<1>1. config = [p \in Path |-> config[p]] /\ \A p \in Path : config[p] # NoFile => IsFile(config[p])
  BY ConnectionAssumption DEF DInit
<1> QED BY <1>1 DEF DInit, ConnInv, Places, Made

\* A command that ends, or goes on to a place where it has made nothing, takes
\* nothing from what the others know.
LEMMA EndKeeps ==
    ASSUME ConnInv, NEW c \in Command, End(c), UNCHANGED config,
           touched' = touched
    PROVE  ConnInv'
BY DEF ConnInv, End, Places, Made, P, Replaces

\* So does a command that goes on and changes nothing else.
LEMMA GoKeeps ==
    ASSUME ConnInv, NEW c \in Command, NEW place \in Places \ {"idle", "persist"},
           Go(c, place), pc[c] # "idle",
           place \in Made => pc[c] \in Made,
           UNCHANGED <<config, req, want, old, new, touched>>
    PROVE  ConnInv'
BY DEF ConnInv, Go, Places, Made, P, Replaces

LEMMA BeginKeeps ==
    ASSUME ConnInv, NEW c \in Command, NEW q \in Requests, Begin(c, q)
    PROVE  ConnInv'
<1> USE DEF Begin, Go, At
<1>1. pc' \in [Command -> Places] /\ req' \in [Command -> Requests \cup {None}]
  BY DEF ConnInv, Places
<1>2. pc[c] = "idle" /\ pc'[c] \notin Made /\ pc'[c] \in Places
  BY DEF ConnInv, Places, Made
<1>3. \A d \in Command : d # c => pc'[d] = pc[d] /\ req'[d] = req[d]
  BY DEF ConnInv
<1>4. req'[c] = q /\ want'[c].root = q.root
      /\ want' = [d \in Command |-> want'[d]]
      /\ \A d \in Command : d # c => want'[d] = want[d]
  BY DEF ConnInv, HostCommand
<1>5. UNCHANGED <<config, old, new, touched>>
  OBVIOUS
<1> HIDE DEF Begin, Go, At
<1> QED BY <1>1, <1>2, <1>3, <1>4, <1>5 DEF ConnInv, Places, Made, P, Replaces

LEMMA ReadAndEditKeeps ==
    ASSUME ConnInv, NEW c \in Command, ReadAndEdit(c)
    PROVE  ConnInv'
<1> DEFINE q == req[c]
           by == want[c]
           text == Text(config[P(c)])
           edit == Edit(P(c), text, q.root, by, Removes(q), q.replace)
<1>1. CASE ~(P(c) \notin linked /\ FitsShape(by) /\ edit.ok)
  BY <1>1, EndKeeps DEF ReadAndEdit
<1>2. CASE P(c) \notin linked /\ FitsShape(by) /\ edit.ok
  <2>1. q \in Requests /\ P(c) \in Path
    BY DEF ConnInv, ReadAndEdit, At, Path, P
  <2>2. IsFile(text)
    BY <2>1, TextIsFile DEF ConnInv
  <2>3. Mine(text, edit.file, q.root, q.replace)
    <3>1. Removes(q) \in BOOLEAN /\ q.replace \in BOOLEAN
      BY <2>1, ConnectionAssumption DEF Removes
    <3> HIDE DEF text, by, q
    <3> QED BY <1>2, <2>2, <3>1, EditIsMine
  <2>4. /\ old' = [old EXCEPT ![c] = text]
        /\ new' = [new EXCEPT ![c] = edit.file]
        /\ pc' = [pc EXCEPT ![c] = "look"]
        /\ UNCHANGED <<config, req, want, touched>>
    BY <1>2 DEF ReadAndEdit, Go
  <2>5. pc[c] = "read"
    BY DEF ReadAndEdit, At
  <2> HIDE DEF edit, text, by
  <2> QED BY <2>1, <2>3, <2>4, <2>5 DEF ConnInv, Places, Made, P, Replaces
<1> QED BY <1>1, <1>2

LEMMA CompareKeeps ==
    ASSUME ConnInv, NEW c \in Command, Compare(c)
    PROVE  ConnInv'
<1>1. pc[c] = "compare" /\ touched' = [touched EXCEPT ![c] = FALSE] /\ UNCHANGED config
  BY DEF Compare, At
<1>2. CASE Text(config[P(c)]) = old[c]
  <2>1. pc' = [pc EXCEPT ![c] = "persist"] /\ UNCHANGED <<req, want, old, new>>
    BY <1>2 DEF Compare, Go
  <2> QED BY <1>1, <1>2, <2>1 DEF ConnInv, Places, Made, P, Replaces
<1>3. CASE Text(config[P(c)]) # old[c]
  <2>1. End(c)
    BY <1>3 DEF Compare
  <2> QED BY <1>1, <2>1 DEF ConnInv, End, Places, Made, P, Replaces
<1> QED BY <1>2, <1>3

\* A change of p is noted with all who are about to rename over p.
LEMMA TouchNotes ==
    ASSUME ConnInv, NEW p, NEW by, Touch(p, by)
    PROVE  /\ touched' \in [Command -> BOOLEAN]
           /\ \A d \in Command :
                 /\ d # by /\ pc[d] = "persist" /\ P(d) = p => touched'[d]
                 /\ ~touched'[d] => ~touched[d]
BY DEF Touch, At, ConnInv

LEMMA PersistKeeps ==
    ASSUME ConnInv, NEW c \in Command, Persist(c)
    PROVE  ConnInv'
<1>1. pc[c] = "persist" /\ P(c) \in Path
  BY DEF Persist, At, ConnInv, P, Path
<1>2. config' = [config EXCEPT ![P(c)] = new[c]] /\ End(c) /\ Touch(P(c), c)
  BY DEF Persist
<1>3. IsFile(new[c])
  BY <1>1 DEF ConnInv, Made, Mine
<1>4. /\ config' = [p \in Path |-> config'[p]]
      /\ \A p \in Path : config'[p] # NoFile => IsFile(config'[p])
      /\ \A p \in Path : p # P(c) => config'[p] = config[p]
  BY <1>1, <1>2, <1>3 DEF ConnInv
<1>5. \A d \in Command : pc'[d] = "persist" /\ ~touched'[d] => Text(config'[P(d)]) = old[d]
  <2> SUFFICES ASSUME NEW d \in Command, pc'[d] = "persist", ~touched'[d]
               PROVE  Text(config'[P(d)]) = old[d]
    OBVIOUS
  <2>1. d # c /\ pc[d] = "persist"
    BY <1>2 DEF End, ConnInv
  <2>2. P(d) # P(c) /\ ~touched[d]
    BY <1>2, <2>1, TouchNotes
  <2>3. P(d) \in Path
    BY <2>1 DEF ConnInv, P, Path
  <2> QED BY <1>4, <2>1, <2>2, <2>3 DEF ConnInv
<1>6. touched' \in [Command -> BOOLEAN]
  BY <1>2, TouchNotes
<1> QED BY <1>2, <1>4, <1>5, <1>6 DEF ConnInv, End, Places, Made, P, Replaces

LEMMA EditedIsFile ==
    ASSUME NEW p, NEW f, IsFile(f), NEW g \in HarmlessEdits(p, f) \cup HarmfulEdits(p, f)
    PROVE  g # NoFile => IsFile(g)
<1>1. CASE g \in HarmlessEdits(p, f)
  <2>1. CASE \E s \in Settings : g = [f EXCEPT !.others = s]
    BY <2>1 DEF IsFile, IsServer
  <2>2. CASE \E m \in Marks : /\ f.server # NoServer
                              /\ g = [f EXCEPT !.marks = m, !.server.layout = "table"]
    BY <2>2 DEF IsFile, IsServer
  <2>3. CASE \E b \in BOOLEAN : g = [f EXCEPT !.bare = b]
    BY <2>3 DEF IsFile, IsServer
  <2> QED BY <1>1, <2>1, <2>2, <2>3, MarkKinds DEF HarmlessEdits, IsFile
<1>2. CASE g \in HarmfulEdits(p, f)
  <2>1. CASE g = NoFile \/ g = Without(f)
    BY <2>1, WithoutIsFile
  <2>2. CASE \E k \in Forms : g = [f EXCEPT !.form = k, !.bare = FALSE]
    BY <2>2 DEF IsFile, IsServer
  <2>3. CASE \E by : g = Registered(f, by, f.marks, "table")
    BY <2>3, RegisteredIsFile DEF IsFile
  <2>4. CASE f.server # NoServer /\ \E s \in Shapes : g = [f EXCEPT !.server.shape = s]
    BY <2>4 DEF IsFile, IsServer
  <2>5. CASE \E m \in Marks : g = [Without(f) EXCEPT !.marks = m]
    <3>1. IsFile(Without(f))
      BY WithoutIsFile
    <3> QED BY <2>5, <3>1 DEF IsFile, IsServer
  <2>6. CASE f.server # NoServer /\ g = [f EXCEPT !.server.layout = "odd", !.marks = NoMarks]
    BY <2>6, MarkKinds DEF IsFile, IsServer
  <2>7. CASE g = [f EXCEPT !.marks = [begin |-> 2, end |-> 2]]
    BY <2>7 DEF IsFile, IsServer, Marks
  <2> QED BY <1>2, <2>1, <2>2, <2>3, <2>4, <2>5, <2>6, <2>7, MarkKinds
    DEF HarmfulEdits, Forms, Shapes
<1> QED BY <1>1, <1>2

LEMMA SomeoneEditsKeeps ==
    ASSUME ConnInv, NEW p \in Path, SomeoneEdits(p)
    PROVE  ConnInv'
<1> DEFINE f == Text(config[p])
<1>1. IsFile(f)
  BY TextIsFile DEF ConnInv
<1>2. PICK g \in HarmlessEdits(p, f) \cup HarmfulEdits(p, f) :
         config' = [config EXCEPT ![p] = g]
  BY DEF SomeoneEdits
<1>3. g # NoFile => IsFile(g)
  BY <1>1, <1>2, EditedIsFile
<1>4. Touch(p, None) /\ UNCHANGED <<pc, req, want, old, new>>
  BY DEF SomeoneEdits, local
<1>5. touched' \in [Command -> BOOLEAN]
  BY <1>4, TouchNotes
<1>6. \A d \in Command : pc'[d] = "persist" /\ ~touched'[d] => Text(config'[P(d)]) = old[d]
  <2> SUFFICES ASSUME NEW d \in Command, pc'[d] = "persist", ~touched'[d]
               PROVE  Text(config'[P(d)]) = old[d]
    OBVIOUS
  <2>1. pc[d] = "persist" /\ d # None
    BY <1>4, ConnectionAssumption
  <2>2. P(d) # p /\ ~touched[d]
    BY <1>4, <2>1, TouchNotes
  <2>3. P(d) \in Path
    BY <2>1 DEF ConnInv, P, Path
  <2> QED BY <1>2, <2>1, <2>2, <2>3 DEF ConnInv
<1> QED BY <1>2, <1>3, <1>4, <1>5, <1>6 DEF ConnInv, P, Replaces

LEMMA ConnStep == ConnInv /\ [DNext]_dvars => ConnInv'
<1> SUFFICES ASSUME ConnInv, [DNext]_dvars PROVE ConnInv'
  OBVIOUS
<1>1. ASSUME NEW c \in Command, NEW q \in Requests, Begin(c, q) PROVE ConnInv'
  BY <1>1, BeginKeeps
<1>2. ASSUME NEW c \in Command, HostIsReady(c) PROVE ConnInv'
  BY <1>2, GoKeeps DEF HostIsReady, At, Places, Made
<1>3. ASSUME NEW c \in Command, ReadAndEdit(c) PROVE ConnInv'
  BY <1>3, ReadAndEditKeeps
<1>4. ASSUME NEW c \in Command, Look(c) PROVE ConnInv'
  BY <1>4, GoKeeps, EndKeeps DEF Look, At, Places, Made
<1>5. ASSUME NEW c \in Command, CheckTracked(c) PROVE ConnInv'
  BY <1>5, GoKeeps, EndKeeps DEF CheckTracked, At, Places, Made
<1>6. ASSUME NEW c \in Command, Compare(c) PROVE ConnInv'
  BY <1>6, CompareKeeps
<1>7. ASSUME NEW c \in Command, Persist(c) PROVE ConnInv'
  BY <1>7, PersistKeeps
<1>8. ASSUME NEW c \in Command, Stop(c) PROVE ConnInv'
  BY <1>8, EndKeeps DEF Stop
<1>9. ASSUME NEW p \in Path, SomeoneEdits(p) PROVE ConnInv'
  BY <1>9, SomeoneEditsKeeps
<1>10. CASE UNCHANGED <<config, pc, req, want, old, new, touched>>
  BY <1>10 DEF ConnInv, P, Replaces
<1>11. (\/ Reinstall \/ \E r \in Root : DeleteProject(r)
        \/ \E p \in Path : LinkDirectory(p)
        \/ UNCHANGED dvars)
          => UNCHANGED <<config, pc, req, want, old, new, touched>>
  BY DEF Reinstall, DeleteProject, LinkDirectory, dvars, local
<1> QED
  BY <1>1, <1>2, <1>3, <1>4, <1>5, <1>6, <1>7, <1>8, <1>9, <1>10, <1>11 DEF DNext

-----------------------------------------------------------------------------
(* Theorems.                                                               *)

\* A rename by connect or its removal keeps what others set in the file, for
\* any number of commands and edits: only an edit between the comparison and
\* the rename is lost (write_private).
THEOREM KeepsOthers == DSpec => OthersAreKept
<1>1. ConnInv /\ [DNext]_dvars =>
        [\A c \in Command : Persist(c) /\ ~touched[c] =>
            config'[P(c)].others = Text(config[P(c)]).others]_dvars
  <2> SUFFICES ASSUME ConnInv, NEW c \in Command, Persist(c), ~touched[c]
               PROVE  config'[P(c)].others = Text(config[P(c)]).others
    OBVIOUS
  <2>1. pc[c] = "persist" /\ P(c) \in Path /\ config'[P(c)] = new[c]
    BY DEF Persist, At, ConnInv, P, Path
  <2> QED BY <2>1 DEF ConnInv, Made, Mine
<1> QED BY <1>1, ConnInit, ConnStep, PTL DEF DSpec, OthersAreKept

\* Whatever projects share a configuration, a rename replaces or removes only
\* the server of the command's own project, and its options only when asked.
THEOREM TouchesOnlyItsOwn == DSpec => OnlyItsOwnServer
<1>1. ConnInv /\ [DNext]_dvars =>
        [\A c \in Command : Persist(c) /\ ~touched[c] =>
          LET before == Text(config[P(c)]).server
              after == config'[P(c)].server
          IN  /\ before # NoServer =>
                   before.shape = "managed" /\ before.by.root = req[c].root
              /\ before # NoServer /\ after # NoServer /\ ~req[c].replace =>
                   PolicyArgs(before.by) = PolicyArgs(after.by)]_dvars
  <2> SUFFICES ASSUME ConnInv, NEW c \in Command, Persist(c), ~touched[c]
               PROVE  LET before == Text(config[P(c)]).server
                          after == config'[P(c)].server
                      IN  /\ before # NoServer =>
                               before.shape = "managed" /\ before.by.root = req[c].root
                          /\ before # NoServer /\ after # NoServer /\ ~req[c].replace =>
                               PolicyArgs(before.by) = PolicyArgs(after.by)
    OBVIOUS
  <2>1. pc[c] = "persist" /\ P(c) \in Path /\ config'[P(c)] = new[c]
    BY DEF Persist, At, ConnInv, P, Path
  <2> QED BY <2>1 DEF ConnInv, Made, Mine, Replaces
<1> QED BY <1>1, ConnInit, ConnStep, PTL DEF DSpec, OnlyItsOwnServer

-----------------------------------------------------------------------------
(* What metactl wrote can be removed.                                      *)

\* A file whose registration a removal for root's project accepts.
Rollable(p, f, root) ==
    /\ f.form = "plain" \/ (IsCodex(p) /\ f.form = "rigid")
    /\ f.server # NoServer /\ f.server.shape = "managed" /\ f.server.by.root = root
    /\ IsCodex(p) => f.server.layout # "odd" /\ f.marks.begin <= 1 /\ f.marks.end <= 1

\* Its removal takes the registration, and nothing else.
LEMMA RollableIsRemoved ==
    ASSUME NEW p, NEW f, NEW root, NEW by, Rollable(p, f, root), ~f.bare
    PROVE  LET edit == Edit(p, f, root, by, TRUE, FALSE)
           IN  /\ edit.ok /\ edit.action = "removed"
               /\ edit.file = Without(f)
<1>1. f.form # "link" /\ f.form # "invalid"
  BY DEF Rollable
<1>2. CASE IsCodex(p) /\ StrictBlock(f, root)
  <2>1. f.server.shape # "extra"
    BY DEF Rollable
  <2> QED BY <1>1, <1>2, <2>1 DEF Edit, EditCodex, Becomes, RemovesOnlyServer
<1>3. CASE IsCodex(p) /\ ~StrictBlock(f, root)
  <2>1. Recoverable(f, root)
    BY <1>3 DEF Rollable, Recoverable, Managed, RemovesOnlyServer
  <2> QED BY <1>1, <1>3, <2>1 DEF Edit, EditCodex, Becomes
<1>4. CASE ~IsCodex(p)
  <2>1. f.form = "plain" /\ f.server # NoServer /\ Managed(f.server, root)
    BY <1>4 DEF Rollable, Managed
  <2> QED BY <1>1, <1>4, <2>1 DEF Edit, EditJson, Becomes
<1> QED BY <1>2, <1>3, <1>4

LEMMA RegisteredIsRollable ==
    ASSUME NEW p, NEW f, IsFile(f), NEW by, NEW marks, NEW layout,
           f.form = "plain" \/ (IsCodex(p) /\ f.form = "rigid"),
           IsCodex(p) => layout # "odd" /\ marks \in {NoMarks, Whole},
           ~IsCodex(p) => marks = NoMarks /\ ~f.bare
    PROVE  /\ Rollable(p, Registered(f, by, marks, layout), by.root)
           /\ MarksFit(p, Registered(f, by, marks, layout))
<1> DEFINE g == Registered(f, by, marks, layout)
<1>1. g.form = f.form /\ g.marks = marks /\ g.bare = f.bare
      /\ g.server = [by |-> by, shape |-> "managed", layout |-> layout]
  BY DEF Registered, IsFile
<1>2. g.server # NoServer
  BY <1>1 DEF NoServer
<1> HIDE DEF g
<1>3. Rollable(p, g, by.root) /\ MarksFit(p, g)
  BY <1>1, <1>2 DEF Rollable, MarksFit, NoMarks, Whole
<1> QED BY <1>3 DEF g

\* What a command makes of a file fits it, and unless it removes, its project
\* can remove it later.
LEMMA CodexIsRollable ==
    ASSUME NEW p, IsCodex(p), NEW f, IsFile(f), f.form # "link", NEW root, NEW by, by.root = root,
           NEW remove \in BOOLEAN, NEW replace \in BOOLEAN,
           EditCodex(f, root, by, remove, replace).ok
    PROVE  ~remove => Rollable(p, EditCodex(f, root, by, remove, replace).file, root)
<1> SUFFICES ASSUME ~remove PROVE Rollable(p, EditCodex(f, root, by, remove, replace).file, root)
  OBVIOUS
<1> DEFINE edit == EditCodex(f, root, by, remove, replace)
<1>1. f.form # "invalid"
  BY DEF EditCodex, Refused
<1>2. f.form = "plain" \/ f.form = "rigid"
  BY <1>1 DEF IsFile, Forms
<1>3. Rollable(p, Registered(f, by, Whole, "block"), root)
  BY <1>2, RegisteredIsRollable
<1>4. CASE StrictBlock(f, root)
  <2>1. f.server.shape # "extra"
    BY <1>1, <1>4 DEF EditCodex, Refused
  <2>2. Rollable(p, f, root)
    BY <1>2, <1>4, <2>1, MarkKinds DEF Rollable, StrictBlock, IsFile, IsServer, Shapes
  <2>3. edit.file = f \/ edit.file = Registered(f, by, Whole, "block")
    BY <1>1, <1>4, <2>1 DEF EditCodex, Becomes, Refused
  <2> QED BY <1>3, <2>2, <2>3
<1>5. CASE ~StrictBlock(f, root) /\ Recoverable(f, root)
  <2>1. PolicyMatches(f.server, by, replace)
    BY <1>1, <1>5 DEF EditCodex, Refused
  <2>2. edit = [Add(Without(f), by) EXCEPT !.action = "updated"]
    BY <1>1, <1>5, <2>1 DEF EditCodex
  <2>3. edit.file = Add(Without(f), by).file /\ Add(Without(f), by).ok
    BY <2>2 DEF Add, Refused, Becomes
  <2>4. edit.file = Registered(Without(f), by, Whole, "block")
    BY <2>3 DEF Add, Refused, Becomes
  <2>5. IsFile(Without(f)) /\ Without(f).form = f.form
    BY WithoutIsFile
  <2> QED BY <1>2, <2>4, <2>5, RegisteredIsRollable
<1>6. CASE ~StrictBlock(f, root) /\ ~Recoverable(f, root)
  <2>1. edit = Add(f, by)
    BY <1>1, <1>6 DEF EditCodex, Refused
  <2>2. edit.file = Registered(f, by, Whole, "block")
    BY <2>1 DEF Add, Refused, Becomes
  <2> QED BY <1>3, <2>2
<1> QED BY <1>4, <1>5, <1>6

LEMMA JsonIsRollable ==
    ASSUME NEW p, ~IsCodex(p), NEW f, IsFile(f), MarksFit(p, f), f.form # "link",
           NEW root, NEW by, by.root = root,
           NEW remove \in BOOLEAN, NEW replace \in BOOLEAN,
           EditJson(f, root, by, remove, replace).ok
    PROVE  LET g == EditJson(f, root, by, remove, replace).file
           IN  MarksFit(p, g) /\ (~remove => Rollable(p, g, root))
<1> DEFINE edit == EditJson(f, root, by, remove, replace)
           reg == Registered(f, by, NoMarks, "table")
<1>1. f.form = "plain"
  BY DEF EditJson, Refused, IsFile, Forms
<1>2. Rollable(p, reg, root) /\ MarksFit(p, reg)
  BY <1>1, RegisteredIsRollable DEF MarksFit
<1>3. MarksFit(p, Without(f))
  BY DEF MarksFit, Without, IsFile
<1>4. CASE f.server = NoServer
  <2>1. CASE remove
    <3>1. edit.file = f
      BY <1>1, <1>4, <2>1 DEF EditJson, Becomes
    <3> QED BY <2>1, <3>1
  <2>2. CASE ~remove
    <3>1. edit.file = reg
      BY <1>1, <1>4, <2>2 DEF EditJson, Becomes
    <3> HIDE DEF edit, reg
    <3> QED BY <1>2, <3>1 DEF edit
  <2> QED BY <2>1, <2>2
<1>5. CASE f.server # NoServer
  <2>1. Managed(f.server, root)
    BY <1>1, <1>5 DEF EditJson, Refused
  <2>2. CASE remove
    <3>1. edit.file = Without(f)
      BY <1>1, <1>5, <2>1, <2>2 DEF EditJson, Becomes
    <3> QED BY <1>3, <2>2, <3>1
  <2>3. CASE ~remove
    <3>1. edit.file = f \/ edit.file = reg
      BY <1>1, <1>5, <2>1, <2>3 DEF EditJson, Becomes, Refused
    <3>2. Rollable(p, f, root)
      BY <1>1, <1>5, <2>1 DEF Rollable, Managed
    <3> HIDE DEF edit, reg
    <3> QED BY <1>2, <3>1, <3>2 DEF edit
  <2> QED BY <2>2, <2>3
<1> QED BY <1>4, <1>5

LEMMA EditIsRollable ==
    ASSUME NEW p, NEW f, IsFile(f), MarksFit(p, f), NEW root, NEW by, by.root = root,
           NEW remove \in BOOLEAN, NEW replace \in BOOLEAN,
           Edit(p, f, root, by, remove, replace).ok
    PROVE  LET g == Edit(p, f, root, by, remove, replace).file
           IN  MarksFit(p, g) /\ (~remove => Rollable(p, g, root))
<1>1. f.form # "link"
  BY DEF Edit, Refused
<1>2. CASE IsCodex(p)
  BY <1>1, <1>2, CodexIsRollable DEF Edit, MarksFit
<1>3. CASE ~IsCodex(p)
  BY <1>1, <1>3, JsonIsRollable DEF Edit
<1> QED BY <1>2, <1>3

\* As long as it is connected, the registration can be removed; and so it is
\* with what a command is about to write.
RollInv ==
    /\ ConnInv
    /\ \A p \in Path : MarksFit(p, Text(config[p]))
    /\ connected = [p \in Path |-> connected[p]]
    /\ \A p \in Path :
          connected[p] # None => Rollable(p, Text(config[p]), connected[p])
    /\ \A c \in Command : pc[c] \in Made =>
          /\ MarksFit(P(c), new[c])
          /\ ~Removes(req[c]) => Rollable(P(c), new[c], req[c].root)

LEMMA RollInit == DInit => RollInv
<1> SUFFICES ASSUME DInit PROVE RollInv
  OBVIOUS
<1>1. \A p \in Path : MarksFit(p, Text(config[p]))
  BY ConnectionAssumption DEF DInit, MarksFit, Text, EmptyFile
<1> QED BY <1>1, ConnInit DEF DInit, RollInv, Made

\* A command that goes on with what it has, or ends.
LEMMA RollEnds ==
    ASSUME RollInv, ConnInv', NEW c \in Command, End(c), UNCHANGED <<config, connected>>
    PROVE  RollInv'
<1>1. \A d \in Command : pc'[d] \in Made =>
         pc[d] \in Made /\ req'[d] = req[d] /\ new'[d] = new[d]
  BY DEF RollInv, ConnInv, End, Made
<1> QED BY <1>1 DEF RollInv, P

LEMMA RollGoes ==
    ASSUME RollInv, ConnInv', NEW c \in Command, NEW place, Go(c, place),
           place \in Made => pc[c] \in Made,
           UNCHANGED <<config, connected, req, new>>
    PROVE  RollInv'
<1>1. \A d \in Command : pc'[d] \in Made => pc[d] \in Made
  BY DEF RollInv, ConnInv, Go
<1> QED BY <1>1 DEF RollInv, P

LEMMA RollBegins ==
    ASSUME RollInv, ConnInv', NEW c \in Command, NEW q \in Requests, Begin(c, q)
    PROVE  RollInv'
<1>1. \A d \in Command : pc'[d] \in Made =>
         pc[d] \in Made /\ req'[d] = req[d] /\ new'[d] = new[d]
  BY DEF RollInv, ConnInv, Begin, Go, Made
<1>2. UNCHANGED <<config, connected>>
  BY DEF Begin
<1> QED BY <1>1, <1>2 DEF RollInv, P

LEMMA RollReads ==
    ASSUME RollInv, ConnInv', NEW c \in Command, ReadAndEdit(c)
    PROVE  RollInv'
<1> DEFINE q == req[c]
           by == want[c]
           text == Text(config[P(c)])
           edit == Edit(P(c), text, q.root, by, Removes(q), q.replace)
<1>1. UNCHANGED <<config, connected>>
  BY DEF ReadAndEdit
<1>2. CASE ~(P(c) \notin linked /\ FitsShape(by) /\ edit.ok)
  BY <1>1, <1>2, RollEnds DEF ReadAndEdit
<1>3. CASE P(c) \notin linked /\ FitsShape(by) /\ edit.ok
  <2>1. q \in Requests /\ P(c) \in Path
    BY DEF RollInv, ConnInv, ReadAndEdit, At, Path, P
  <2>2. IsFile(text) /\ MarksFit(P(c), text)
    BY <2>1, TextIsFile DEF RollInv, ConnInv
  <2>3. /\ MarksFit(P(c), edit.file)
        /\ ~Removes(q) => Rollable(P(c), edit.file, q.root)
    <3>1. Removes(q) \in BOOLEAN /\ q.replace \in BOOLEAN
      BY <2>1, ConnectionAssumption DEF Removes
    <3>2. by.root = q.root
      BY DEF ReadAndEdit, At, RollInv, ConnInv
    <3> HIDE DEF text, by, q
    <3> QED BY <1>3, <2>2, <3>1, <3>2, EditIsRollable
  <2>4. new' = [new EXCEPT ![c] = edit.file] /\ pc' = [pc EXCEPT ![c] = "look"] /\ req' = req
    BY <1>3 DEF ReadAndEdit, Go
  <2> HIDE DEF edit, text, by
  <2>5. \A d \in Command : pc'[d] \in Made =>
          /\ MarksFit(P(d), new'[d])
          /\ ~Removes(req[d]) => Rollable(P(d), new'[d], req[d].root)
    <3> SUFFICES ASSUME NEW d \in Command, pc'[d] \in Made
                 PROVE  /\ MarksFit(P(d), new'[d])
                        /\ ~Removes(req[d]) => Rollable(P(d), new'[d], req[d].root)
      OBVIOUS
    <3>1. CASE d = c
      BY <2>3, <2>4, <3>1 DEF RollInv, ConnInv
    <3>2. CASE d # c
      <4>1. pc[d] \in Made /\ new'[d] = new[d]
        BY <2>4, <3>2 DEF RollInv, ConnInv
      <4> QED BY <4>1 DEF RollInv
    <3> QED BY <3>1, <3>2
  <2> QED BY <1>1, <2>4, <2>5 DEF RollInv, P
<1> QED BY <1>2, <1>3

LEMMA RollPersists ==
    ASSUME RollInv, ConnInv', NEW c \in Command, Persist(c)
    PROVE  RollInv'
<1>1. /\ pc[c] = "persist" /\ P(c) \in Path /\ req[c] \in Requests
      /\ config' = [config EXCEPT ![P(c)] = new[c]]
      /\ connected' = [connected EXCEPT ![P(c)] = IF Removes(req[c]) THEN None ELSE req[c].root]
      /\ End(c)
  BY DEF Persist, At, RollInv, ConnInv, P, Path
<1>2. IsFile(new[c])
  BY <1>1 DEF RollInv, ConnInv, Made, Mine
<1>3. new[c] # NoFile
  BY <1>2 DEF IsFile, NoFile, Forms
<1>4. Text(config'[P(c)]) = new[c] /\ \A p \in Path : p # P(c) => config'[p] = config[p]
  BY <1>1, <1>3 DEF Text, RollInv, ConnInv
<1>5. /\ MarksFit(P(c), new[c])
      /\ ~Removes(req[c]) => Rollable(P(c), new[c], req[c].root)
  BY <1>1 DEF RollInv, Made
<1>6. /\ connected' = [p \in Path |-> connected'[p]]
      /\ connected'[P(c)] = IF Removes(req[c]) THEN None ELSE req[c].root
      /\ \A p \in Path : p # P(c) => connected'[p] = connected[p]
  BY <1>1 DEF RollInv
<1>7. \A d \in Command : pc'[d] \in Made =>
         pc[d] \in Made /\ req'[d] = req[d] /\ new'[d] = new[d]
  BY <1>1 DEF RollInv, ConnInv, End, Made
<1>8. \A p \in Path : MarksFit(p, Text(config'[p]))
  BY <1>4, <1>5 DEF RollInv
<1>9. \A p \in Path : connected'[p] # None => Rollable(p, Text(config'[p]), connected'[p])
  <2> SUFFICES ASSUME NEW p \in Path, connected'[p] # None
               PROVE  Rollable(p, Text(config'[p]), connected'[p])
    OBVIOUS
  <2>1. CASE p = P(c)
    BY <1>4, <1>5, <1>6, <2>1
  <2>2. CASE p # P(c)
    BY <1>4, <1>6, <2>2 DEF RollInv
  <2> QED BY <2>1, <2>2
<1> QED BY <1>6, <1>7, <1>8, <1>9 DEF RollInv, P

\* An edit of others that leaves the registration alone leaves it removable.
LEMMA HarmlessKeepsRollable ==
    ASSUME NEW p, NEW f, IsFile(f), NEW g \in HarmlessEdits(p, f), NEW root,
           Rollable(p, f, root)
    PROVE  Rollable(p, g, root)
<1>1. CASE \E s \in Settings : g = [f EXCEPT !.others = s]
  <2>1. g.form = f.form /\ g.server = f.server /\ g.marks = f.marks
    BY <1>1 DEF IsFile
  <2> QED BY <2>1 DEF Rollable
<1>2. CASE \E m \in {NoMarks} \cup Torn :
               f.server # NoServer /\ g = [f EXCEPT !.marks = m, !.server.layout = "table"]
  <2>1. /\ g.form = f.form /\ g.server = [f.server EXCEPT !.layout = "table"]
        /\ g.marks.begin <= 1 /\ g.marks.end <= 1
    BY <1>2, MarkKinds DEF IsFile
  <2>2. /\ g.server.shape = f.server.shape /\ g.server.by = f.server.by
        /\ g.server.layout = "table"
    BY <1>2, <2>1 DEF IsFile, IsServer
  <2>3. g.server # NoServer
    BY <2>2 DEF NoServer, Rollable
  <2> QED BY <2>1, <2>2, <2>3 DEF Rollable
<1>3. CASE \E b : g = [f EXCEPT !.bare = b]
  <2>1. g.form = f.form /\ g.server = f.server /\ g.marks = f.marks
    BY <1>3 DEF IsFile
  <2> QED BY <2>1 DEF Rollable
<1> QED BY <1>1, <1>2, <1>3 DEF HarmlessEdits

\* Comments come into a file of Codex alone.
LEMMA EditedFits ==
    ASSUME NEW p, NEW f, IsFile(f), MarksFit(p, f),
           NEW g \in HarmlessEdits(p, f) \cup HarmfulEdits(p, f)
    PROVE  MarksFit(p, Text(g))
<1> SUFFICES ASSUME ~IsCodex(p) PROVE Text(g).marks = NoMarks /\ ~Text(g).bare
  BY DEF MarksFit
<1>1. f.marks = NoMarks /\ ~f.bare /\ NoMarks # Whole
  BY DEF MarksFit, NoMarks, Whole
<1>2. CASE g = NoFile
  BY <1>2 DEF Text, EmptyFile
<1>3. CASE g # NoFile
  <2> SUFFICES g.marks = NoMarks /\ ~g.bare
    BY <1>3 DEF Text
  <2>1. CASE \E s \in Settings : g = [f EXCEPT !.others = s]
    BY <1>1, <2>1 DEF IsFile
  <2>2. CASE g = Without(f)
    BY <1>1, <2>2 DEF Without, IsFile
  <2>3. CASE \E k \in Forms : g = [f EXCEPT !.form = k, !.bare = FALSE]
    BY <1>1, <2>3 DEF IsFile
  <2>4. CASE \E by : g = Registered(f, by, f.marks, "table")
    BY <1>1, <2>4 DEF Registered, IsFile
  <2>5. CASE \E s \in Shapes : g = [f EXCEPT !.server.shape = s]
    BY <1>1, <2>5 DEF IsFile
  <2>6. CASE g = [f EXCEPT !.bare = f.bare]
    BY <1>1, <2>6 DEF IsFile
  <2>7. CASE g \in HarmlessEdits(p, f)
    BY <1>1, <2>1, <2>6, <2>7 DEF HarmlessEdits
  <2>8. CASE g \in HarmfulEdits(p, f)
    BY <1>1, <1>3, <2>2, <2>3, <2>4, <2>5, <2>8 DEF HarmfulEdits, Forms, Shapes
  <2> QED BY <2>7, <2>8
<1> QED BY <1>2, <1>3

LEMMA RollEdited ==
    ASSUME RollInv, ConnInv', NEW p \in Path, SomeoneEdits(p)
    PROVE  RollInv'
<1> DEFINE f == Text(config[p])
<1>1. IsFile(f) /\ MarksFit(p, f)
  BY TextIsFile DEF RollInv, ConnInv
<1>2. PICK g \in HarmlessEdits(p, f) \cup HarmfulEdits(p, f) :
         /\ config' = [config EXCEPT ![p] = g]
         /\ \/ g \in HarmlessEdits(p, f) /\ UNCHANGED connected
            \/ connected' = [connected EXCEPT ![p] = None]
  BY DEF SomeoneEdits
<1>3. UNCHANGED <<pc, req, want, old, new>>
  BY DEF SomeoneEdits, local
<1>4. config'[p] = g /\ \A r \in Path : r # p => config'[r] = config[r]
  BY <1>2 DEF RollInv, ConnInv
<1>5. \A r \in Path : r # p => connected'[r] = connected[r]
  BY <1>2 DEF RollInv
<1>6. connected' = [r \in Path |-> connected'[r]]
  BY <1>2 DEF RollInv
<1>7. MarksFit(p, Text(g))
  BY <1>1, <1>2, EditedFits
<1>8. connected'[p] # None => Rollable(p, Text(config'[p]), connected'[p])
  <2> SUFFICES ASSUME connected'[p] # None PROVE Rollable(p, Text(g), connected'[p])
    BY <1>4
  <2>1. g \in HarmlessEdits(p, f) /\ connected'[p] = connected[p]
    BY <1>2 DEF RollInv
  <2>2. Rollable(p, g, connected'[p])
    BY <1>1, <2>1, HarmlessKeepsRollable DEF RollInv
  <2>3. g # NoFile
    BY <2>2 DEF Rollable, NoFile
  <2> QED BY <2>2, <2>3 DEF Text
<1>9. \A r \in Path : MarksFit(r, Text(config'[r]))
  BY <1>4, <1>7 DEF RollInv
<1>10. \A r \in Path : connected'[r] # None => Rollable(r, Text(config'[r]), connected'[r])
  <2> SUFFICES ASSUME NEW r \in Path, connected'[r] # None, r # p
               PROVE  Rollable(r, Text(config'[r]), connected'[r])
    BY <1>8
  <2> QED BY <1>4, <1>5 DEF RollInv
<1> QED BY <1>3, <1>6, <1>9, <1>10 DEF RollInv, P

LEMMA RollStep == RollInv /\ [DNext]_dvars => RollInv'
<1> SUFFICES ASSUME RollInv, [DNext]_dvars PROVE RollInv'
  OBVIOUS
<1>0. ConnInv'
  BY ConnStep DEF RollInv
<1>1. ASSUME NEW c \in Command, NEW q \in Requests, Begin(c, q) PROVE RollInv'
  BY <1>0, <1>1, RollBegins
<1>2. ASSUME NEW c \in Command, HostIsReady(c) PROVE RollInv'
  BY <1>0, <1>2, RollGoes DEF HostIsReady, Made
<1>3. ASSUME NEW c \in Command, ReadAndEdit(c) PROVE RollInv'
  BY <1>0, <1>3, RollReads
<1>4. ASSUME NEW c \in Command, Look(c) PROVE RollInv'
  BY <1>0, <1>4, RollGoes, RollEnds DEF Look, At, Made
<1>5. ASSUME NEW c \in Command, CheckTracked(c) PROVE RollInv'
  BY <1>0, <1>5, RollGoes, RollEnds DEF CheckTracked, At, Made
<1>6. ASSUME NEW c \in Command, Compare(c) PROVE RollInv'
  BY <1>0, <1>6, RollGoes, RollEnds DEF Compare, At, Made
<1>7. ASSUME NEW c \in Command, Persist(c) PROVE RollInv'
  BY <1>0, <1>7, RollPersists
<1>8. ASSUME NEW c \in Command, Stop(c) PROVE RollInv'
  BY <1>0, <1>8, RollEnds DEF Stop
<1>9. ASSUME NEW p \in Path, SomeoneEdits(p) PROVE RollInv'
  BY <1>0, <1>9, RollEdited
<1>10. CASE UNCHANGED <<config, connected, pc, req, new>>
  BY <1>0, <1>10 DEF RollInv, P
<1>11. (\/ Reinstall \/ \E r \in Root : DeleteProject(r)
        \/ \E p \in Path : LinkDirectory(p)
        \/ UNCHANGED dvars)
          => UNCHANGED <<config, connected, pc, req, new>>
  BY DEF Reinstall, DeleteProject, LinkDirectory, dvars, local
<1> QED
  BY <1>1, <1>2, <1>3, <1>4, <1>5, <1>6, <1>7, <1>8, <1>9, <1>10, <1>11 DEF DNext

\* Until somebody edits the registration itself, the project that connected can
\* remove it: whatever other projects do in the shared file, whatever
\* installation is there by then, and however a client has rewritten the comments;
\* but in a linked directory, or beneath a bare header, it is refused.
THEOREM ConnectedIsRemovable == DSpec => []RollbackWorks
<1>1. RollInv => RollbackWorks
  <2> SUFFICES ASSUME RollInv, NEW q \in Requests, Removes(q), connected[PathOf(q)] = q.root,
                      ~Text(config[PathOf(q)]).bare
               PROVE  LET f == Text(config[PathOf(q)])
                          edit == Edit(PathOf(q), f, q.root, HostCommand(q, machine), TRUE, FALSE)
                      IN  /\ edit.ok /\ edit.action = "removed"
                          /\ edit.file.others = f.others /\ edit.file.server = NoServer
    BY DEF RollbackWorks
  <2> DEFINE p == PathOf(q)
             f == Text(config[p])
             by == HostCommand(q, machine)
  <2>1. p \in Path /\ q.root # None
    BY ConnectionAssumption DEF Path
  <2>2. Rollable(p, f, q.root) /\ IsFile(f) /\ ~f.bare
    BY <2>1, TextIsFile DEF RollInv, ConnInv
  <2> HIDE DEF p, f, by
  <2>3. LET edit == Edit(p, f, q.root, by, TRUE, FALSE)
        IN  edit.ok /\ edit.action = "removed" /\ edit.file = Without(f)
    BY <2>2, RollableIsRemoved
  <2>4. Without(f).others = f.others /\ Without(f).server = NoServer
    BY <2>2, WithoutIsFile
  <2> QED BY <2>3, <2>4 DEF p, f, by
<1> QED BY <1>1, RollInit, RollStep, PTL DEF DSpec

-----------------------------------------------------------------------------
(* The doctor.                                                             *)

\* Without drift, the registration is the one that connect would write.
LEMMA NoDrift ==
    ASSUME NEW found, NEW by, NEW m, Drift(found, by, m) = "none"
    PROVE  found = by
BY DEF Drift

\* What the doctor calls the file is what connect and remove make of it.
DoctorFits(p, f, root, by, replace) ==
    LET says == Registration(p, f, root)
        connect == Edit(p, f, root, by, FALSE, replace)
        remove == Edit(p, f, root, by, TRUE, FALSE)
    IN  /\ says \in {"conflict", "invalid_config", "symlink_refused"} =>
             ~connect.ok /\ ~remove.ok
        /\ says = "configured" =>
             IF f.bare THEN ~remove.ok ELSE remove.ok /\ remove.action = "removed"
        /\ says = "configured" /\ f.server.by = by =>
             connect.ok /\ connect.file.server.by = f.server.by
        /\ says = "missing" /\ f.marks.end = 0 =>
             connect.ok /\ remove.ok /\ remove.action = "already_absent"

LEMMA DoctorOfCodex ==
    ASSUME NEW p, IsCodex(p), NEW f, IsFile(f), f.form = "plain", NEW root, NEW by,
           NEW replace \in BOOLEAN
    PROVE  DoctorFits(p, f, root, by, replace)
<1> DEFINE connect == EditCodex(f, root, by, FALSE, replace)
           remove == EditCodex(f, root, by, TRUE, FALSE)
<1>0. connect = Edit(p, f, root, by, FALSE, replace) /\ remove = Edit(p, f, root, by, TRUE, FALSE)
  BY DEF Edit
<1>1. CASE StrictBlock(f, root)
  <2>0. f.server # NoServer
    BY <1>1 DEF StrictBlock
  <2>1. CASE f.server.shape = "extra"
    <3>1. ~connect.ok /\ ~remove.ok
      BY <1>1, <2>1 DEF EditCodex, Refused
    <3>2. Registration(p, f, root) = "conflict"
      BY <2>0, <2>1 DEF Registration, Recoverable, Managed
    <3> QED BY <1>0, <3>1, <3>2 DEF DoctorFits
  <2>2. CASE f.server.shape # "extra"
    <3>1. Registration(p, f, root) = "configured"
      BY <1>1, <2>2 DEF Registration, StrictBlock, IsFile, IsServer, Shapes
    <3>2. IF f.bare THEN ~remove.ok ELSE remove.ok /\ remove.action = "removed"
      BY <1>1, <2>2 DEF EditCodex, Becomes, Refused, RemovesOnlyServer
    <3>3. f.server.by = by => connect.ok /\ connect.file = f
      BY <1>1, <2>2 DEF EditCodex, Becomes
    <3> QED BY <1>0, <3>1, <3>2, <3>3 DEF DoctorFits
  <2> QED BY <2>1, <2>2
<1>2. CASE ~StrictBlock(f, root) /\ Recoverable(f, root)
  <2>1. Registration(p, f, root) = "configured"
    BY <1>2 DEF Registration
  <2>2. remove.ok /\ remove.action = "removed" /\ ~f.bare
    BY <1>2 DEF EditCodex, Becomes, Recoverable, RemovesOnlyServer
  <2>3. ASSUME f.server.by = by PROVE connect.ok /\ connect.file.server.by = by
    <3>1. PolicyMatches(f.server, by, replace)
      BY <2>3 DEF PolicyMatches
    <3>2. connect = [Add(Without(f), by) EXCEPT !.action = "updated"]
      BY <1>2, <3>1 DEF EditCodex
    <3>3. IsFile(Without(f)) /\ Without(f).form = "plain"
      BY WithoutIsFile
    <3>4. connect.ok /\ connect.file = Registered(Without(f), by, Whole, "block")
      BY <3>2, <3>3 DEF Add, Becomes
    <3>5. Registered(Without(f), by, Whole, "block").server.by = by
      BY <3>3, RegisteredIsFile, MarkKinds
    <3> QED BY <3>4, <3>5
  <2> QED BY <1>0, <2>1, <2>2, <2>3 DEF DoctorFits
<1>3. CASE ~StrictBlock(f, root) /\ ~Recoverable(f, root)
  <2>1. CASE f.marks # NoMarks \/ f.server # NoServer
    <3>1. ~connect.ok /\ ~remove.ok
      BY <1>3, <2>1 DEF EditCodex, Refused
    <3>2. \/ Registration(p, f, root) = "conflict"
          \/ Registration(p, f, root) = "missing" /\ f.marks.end # 0
      <4>1. f.marks # NoMarks /\ f.marks.begin = 0 => f.marks.end # 0
        BY DEF IsFile, Marks, NoMarks
      <4>2. (f.server = NoServer /\ f.marks = NoMarks) \/ f.server # NoServer \/ f.marks.begin > 0
              \/ (f.marks # NoMarks /\ f.marks.begin = 0)
        BY DEF IsFile, Marks
      <4> QED BY <1>3, <2>1, <4>1, <4>2 DEF Registration
    <3> QED BY <1>0, <3>1, <3>2 DEF DoctorFits
  <2>2. CASE f.marks = NoMarks /\ f.server = NoServer
    <3>1. Registration(p, f, root) = "missing"
      BY <1>3, <2>2, MarkKinds DEF Registration, StrictBlock
    <3>2. remove.ok /\ remove.action = "already_absent"
      BY <1>3, <2>2 DEF EditCodex, Becomes
    <3>3. connect.ok
      BY <1>3, <2>2 DEF EditCodex, Becomes, Add
    <3> QED BY <1>0, <3>1, <3>2, <3>3 DEF DoctorFits
  <2> QED BY <2>1, <2>2
<1> QED BY <1>1, <1>2, <1>3

LEMMA DoctorOfJson ==
    ASSUME NEW p, ~IsCodex(p), NEW f, IsFile(f), MarksFit(p, f), f.form = "plain",
           NEW root, NEW by, NEW replace \in BOOLEAN
    PROVE  DoctorFits(p, f, root, by, replace)
<1> DEFINE connect == EditJson(f, root, by, FALSE, replace)
           remove == EditJson(f, root, by, TRUE, FALSE)
<1>0. connect = Edit(p, f, root, by, FALSE, replace) /\ remove = Edit(p, f, root, by, TRUE, FALSE)
  BY DEF Edit
<1>1. f.marks = NoMarks /\ ~f.bare
  BY DEF MarksFit
<1>2. CASE f.server = NoServer
  <2>1. Registration(p, f, root) = "missing"
    BY <1>1, <1>2, MarkKinds DEF Registration
  <2>2. connect.ok /\ remove.ok /\ remove.action = "already_absent"
    BY <1>2 DEF EditJson, Becomes
  <2> QED BY <1>0, <2>1, <2>2 DEF DoctorFits
<1>3. CASE f.server # NoServer /\ ~Managed(f.server, root)
  <2>1. Registration(p, f, root) = "conflict"
    BY <1>3 DEF Registration
  <2>2. ~connect.ok /\ ~remove.ok
    BY <1>3 DEF EditJson, Refused
  <2> QED BY <1>0, <2>1, <2>2 DEF DoctorFits
<1>4. CASE f.server # NoServer /\ Managed(f.server, root)
  <2>1. Registration(p, f, root) = "configured"
    BY <1>4 DEF Registration
  <2>2. remove.ok /\ remove.action = "removed"
    BY <1>4 DEF EditJson, Becomes
  <2>3. f.server.by = by => connect.ok /\ connect.file = f
    BY <1>4 DEF EditJson, Becomes
  <2> QED BY <1>0, <1>1, <2>1, <2>2, <2>3 DEF DoctorFits
<1> QED BY <1>2, <1>3, <1>4

\* What `skills doctor` says of a configuration, at any time, is what connect
\* and remove would then do with it: what it calls configured can be removed,
\* what it calls a conflict they refuse, what it calls missing can be connected.
THEOREM DoctorIsRight == DSpec => []DoctorAgrees
<1>1. RollInv => DoctorAgrees
  <2> SUFFICES ASSUME RollInv, NEW q \in Requests, q.mode = "apply",
                      Text(config[PathOf(q)]).form # "rigid"
               PROVE  LET p == PathOf(q)
                          f == Text(config[p])
                          by == HostCommand(q, machine)
                          says == Registration(p, f, q.root)
                          connect == Edit(p, f, q.root, by, FALSE, q.replace)
                          remove == Edit(p, f, q.root, by, TRUE, FALSE)
                      IN  /\ says \in {"conflict", "invalid_config", "symlink_refused"} =>
                               ~connect.ok /\ ~remove.ok
                          /\ says = "configured" =>
                               IF f.bare THEN ~remove.ok
                                         ELSE remove.ok /\ remove.action = "removed"
                          /\ says = "configured" /\ Drift(f.server.by, by, machine) = "none" =>
                               connect.ok /\ connect.file.server.by = f.server.by
                          /\ says = "missing" /\ f.marks.end = 0 =>
                               connect.ok /\ remove.ok /\ remove.action = "already_absent"
    BY DEF DoctorAgrees
  <2> DEFINE p == PathOf(q)
             f == Text(config[p])
             by == HostCommand(q, machine)
  <2>1. p \in Path /\ q.replace \in BOOLEAN
    BY ConnectionAssumption DEF Path
  <2>2. IsFile(f) /\ MarksFit(p, f) /\ f.form # "rigid"
    BY <2>1, TextIsFile DEF RollInv, ConnInv
  <2>3. Drift(f.server.by, by, machine) = "none" => f.server.by = by
    BY NoDrift
  <2> HIDE DEF p, f, by
  <2>4. DoctorFits(p, f, q.root, by, q.replace)
    <3>1. CASE f.form = "plain"
      BY <2>1, <2>2, <3>1, DoctorOfCodex, DoctorOfJson
    <3>2. CASE f.form = "link"
      <4>1. Registration(p, f, q.root) = "symlink_refused"
        BY <3>2 DEF Registration
      <4>2. \A remove, replace : ~Edit(p, f, q.root, by, remove, replace).ok
        BY <3>2 DEF Edit, Refused
      <4> QED BY <4>1, <4>2 DEF DoctorFits
    <3>3. CASE f.form = "invalid"
      <4>1. Registration(p, f, q.root) = "invalid_config"
        BY <3>3 DEF Registration
      <4>2. \A remove, replace : ~EditCodex(f, q.root, by, remove, replace).ok
        BY <3>3 DEF EditCodex, Refused
      <4>3. \A remove, replace : ~EditJson(f, q.root, by, remove, replace).ok
        BY <3>3 DEF EditJson, Refused
      <4>4. \A remove, replace : ~Edit(p, f, q.root, by, remove, replace).ok
        BY <3>3, <4>2, <4>3 DEF Edit
      <4> QED BY <4>1, <4>4 DEF DoctorFits
    <3> QED BY <2>2, <3>1, <3>2, <3>3 DEF IsFile, Forms
  <2> QED BY <2>3, <2>4 DEF DoctorFits, p, f, by
<1> QED BY <1>1, RollInit, RollStep, PTL DEF DSpec
=============================================================================
