----------------------------- MODULE ApplyPlan -----------------------------
(***************************************************************************)
(* How one target's apply decides what to do with each generated output,   *)
(* and what each decision does to the destination: the pure part of        *)
(* crates/metactl/src/materializer.rs (plan_apply_from_staging,            *)
(* classify_review_action, the match on ActionKind, managed_output_state). *)
(*                                                                         *)
(* Outputs are numbered 1..N in manifest order and each has a destination  *)
(* of its own (the review plan refuses two outputs with one path).         *)
(*                                                                         *)
(* Bytes are kept as far as the code tells them apart: the text a file was *)
(* made of (own) and the generated texts merged or patched into it (gen).  *)
(* A digest is injective, so it is modelled by the bytes themselves.       *)
(***************************************************************************)
EXTENDS Naturals, FiniteSets

CONSTANTS
    N,           \* the number of generated outputs
    Kind,        \* Kind[o]: what the target data says of output o
    Legacy,      \* Legacy[o]: bytes at the legacy Codex path, or Absent
    UserText,    \* texts only a user writes
    GenText,     \* texts the compiler generates
    Modes,       \* the apply modes in use
    Absent,      \* no file
    Link,        \* a symbolic link to the staged copy
    NoRecord,    \* the output has no entry in the managed state
    Conflict     \* the plan of an output that apply must refuse

Out == 1..N

OutputKinds == {"instruction", "json", "regular", "file", "retained"}
AllModes == {"copy", "import_stub", "patch", "symlink", "takeover"}

Text  == UserText \union GenText
Bytes == [own : Text, gen : SUBSET GenText]
Raw(t) == [own |-> t, gen |-> {}]

\* What a path holds: nothing, a regular file, or a link to the staged copy.
Entry == Bytes \union {Absent, Link}

ASSUME ConstantsAssumption ==
    /\ N \in Nat \ {0}
    /\ Kind \in [Out -> OutputKinds]
    /\ Legacy \in [Out -> Bytes \union {Absent}]
    /\ Modes \subseteq AllModes

\* A user's text is not, word for word, one the compiler generates.
ASSUME TextAssumption == UserText \intersect GenText = {}

(***************************************************************************)
(* The managed state file of the target: one record per applied output.    *)
(***************************************************************************)
Record == [digest : Bytes,      \* applied_digest
           source : GenText,    \* source_digest
           backup : BOOLEAN,    \* backup_path is recorded
           marker : BOOLEAN,    \* patch_marker is recorded
           existed : BOOLEAN]   \* existed_before
StateFile == [mode : AllModes \union {"none"},
              outs : [Out -> Record \union {NoRecord}]]
EmptyState == [mode |-> "none", outs |-> [o \in Out |-> NoRecord]]

ActionKinds == {"Noop", "CreateFile", "CreateSymlink", "OverwriteManaged",
                "MergeJsonManaged", "PatchManaged", "MergeJsonUnmanaged",
                "PatchUnmanaged", "TakeoverUnmanaged"}
UnmanagedKinds == {"MergeJsonUnmanaged", "PatchUnmanaged", "TakeoverUnmanaged"}
PlannedAction == [kind : ActionKinds, backup : BOOLEAN,
                  marker : BOOLEAN, existed : BOOLEAN]
ASSUME SentinelAssumption ==
    /\ Absent \notin Bytes \union {Link} \union GenText
    /\ Link \notin Bytes
    /\ NoRecord \notin Record
    /\ Conflict \notin PlannedAction

Plan(k, b, m, e) == [kind |-> k, backup |-> b, marker |-> m, existed |-> e]

\* Reading a path follows a link; a link to an absent staged file reads nothing.
Read(entry, staged) == IF entry = Link THEN staged ELSE entry

MaterializeAsRegularFile(o) == Kind[o] \in {"instruction", "json", "regular"}

\* An instruction that existed before the first apply is always patched.
InstructionMarker(o, rec) ==
    rec.marker \/ (Kind[o] = "instruction" /\ rec.existed)

CreateKind(o, mode) ==
    IF mode = "symlink" /\ ~MaterializeAsRegularFile(o)
    THEN "CreateSymlink" ELSE "CreateFile"

\* The record's file changed since the apply: reconcile by the requested mode.
DriftPlan(o, mode, rec) ==
    LET marker == InstructionMarker(o, rec) IN
    CASE mode = "takeover" -> Plan("TakeoverUnmanaged", TRUE, FALSE, TRUE)
      [] mode = "patch" ->
           IF Kind[o] = "instruction" /\ marker
           THEN Plan("PatchManaged", rec.backup, TRUE, rec.existed)
           ELSE Plan(IF Kind[o] = "json" THEN "MergeJsonManaged"
                                         ELSE "OverwriteManaged",
                     rec.backup, FALSE, rec.existed)
      [] mode \in {"copy", "import_stub"} ->
           Plan(CASE marker           -> "PatchManaged"
                  [] ~marker /\ Kind[o] = "json" -> "MergeJsonManaged"
                  [] OTHER            -> "OverwriteManaged",
                rec.backup, marker, rec.existed)
      [] mode = "symlink" ->
           Plan(CASE marker           -> "PatchManaged"
                  [] ~marker /\ Kind[o] = "json" -> "MergeJsonManaged"
                  [] ~marker /\ Kind[o] \in {"instruction", "regular"}
                                      -> "OverwriteManaged"
                  [] OTHER            -> "CreateSymlink",
                FALSE, marker, rec.existed)

\* Wrong: compares with the bytes on disk, which a merge or a patch made differ
\* from the generated text.
Reusable_ByDigest(mode, state, rec, text) ==
    state.mode = mode /\ rec.digest = Raw(text)

\* Same mode and same generated text as recorded: the file is left alone.
Reusable(mode, state, rec, text) == state.mode = mode /\ rec.source = text

ManagedPlan(o, mode, state, entry, text) ==
    LET rec   == state.outs[o]
        bytes == Read(entry, Raw(text))
    IN  CASE bytes = Absent ->
               Plan(CreateKind(o, mode), rec.backup, FALSE, FALSE)
          [] bytes # Absent /\ bytes # rec.digest -> DriftPlan(o, mode, rec)
          [] bytes = rec.digest /\ Reusable(mode, state, rec, text) ->
               Plan("Noop", rec.backup, rec.marker, rec.existed)
          [] OTHER ->
               Plan(CASE Kind[o] = "json" -> "MergeJsonManaged"
                      [] Kind[o] # "json" /\ InstructionMarker(o, rec)
                                          -> "PatchManaged"
                      [] OTHER            -> "OverwriteManaged",
                    rec.backup, InstructionMarker(o, rec), rec.existed)

UnmanagedPlan(o, mode, entry, text) ==
    LET bytes == Read(entry, Raw(text)) IN
    CASE bytes = Absent -> Plan(CreateKind(o, mode), FALSE, FALSE, FALSE)
      [] mode = "patch" /\ bytes = Raw(text) ->
           Plan("OverwriteManaged", FALSE, FALSE, TRUE)
      [] mode = "patch" /\ bytes \notin {Absent, Raw(text)} ->
           Plan(CASE Kind[o] = "instruction" -> "PatchUnmanaged"
                  [] Kind[o] = "json"        -> "MergeJsonUnmanaged"
                  [] OTHER                   -> "TakeoverUnmanaged",
                TRUE, Kind[o] = "instruction", TRUE)
      [] mode = "takeover" /\ bytes # Absent ->
           Plan("TakeoverUnmanaged", TRUE, FALSE, TRUE)
      [] OTHER -> Conflict

\* A retained Codex command is never rewritten; if it vanished, apply refuses.
RetainedPlan(state, o, entry, text) ==
    LET rec == state.outs[o] IN
    CASE Read(entry, Raw(text)) = Absent -> Conflict
      [] OTHER -> IF rec = NoRecord THEN Plan("Noop", FALSE, FALSE, TRUE)
                  ELSE Plan("Noop", rec.backup, rec.marker, rec.existed)

\* plan_apply_from_staging, for one output whose staged copy holds text.
PlanFor(o, mode, state, entry, text) ==
    CASE Kind[o] = "retained" -> RetainedPlan(state, o, entry, text)
      [] Kind[o] # "retained" /\ state.outs[o] # NoRecord ->
           ManagedPlan(o, mode, state, entry, text)
      [] OTHER -> UnmanagedPlan(o, mode, entry, text)

\* The review plan refuses a link metactl does not manage, and a new canonical
\* file that would shadow legacy bytes that differ from it.
ReviewConflict(o, state, entry, text) ==
    /\ state.outs[o] = NoRecord
    /\ \/ entry = Link
       \/ /\ Kind[o] # "retained"
          /\ entry = Absent
          /\ Legacy[o] \notin {Absent, Raw(text)}

(***************************************************************************)
(* What an action writes.                                                  *)
(***************************************************************************)
\* patch_document: the generated block is replaced, or appended once.
PatchDocument(bytes, text) == [bytes EXCEPT !.gen = {text}]
\* merge_json_document: existing values stay, missing generated ones are added.
MergeJson(bytes, text) == [bytes EXCEPT !.gen = @ \union ({text} \ {bytes.own})]

\* Wrong: a file that is taken over is not backed up.
BackupIsTaken_NotTakeover(p) ==
    p.existed /\ p.kind \in UnmanagedKinds \ {"TakeoverUnmanaged"} /\ p.backup

BackupIsTaken(p) == p.existed /\ p.kind \in UnmanagedKinds /\ p.backup

Effect(p, entry, text) ==
    CASE p.kind = "Noop" -> entry
      [] p.kind = "CreateSymlink" -> Link
      [] p.kind \in {"CreateFile", "TakeoverUnmanaged", "OverwriteManaged"} ->
           Raw(text)
      [] p.kind \in {"PatchManaged", "PatchUnmanaged"} ->
           PatchDocument(Read(entry, Raw(text)), text)
      [] p.kind \in {"MergeJsonManaged", "MergeJsonUnmanaged"} ->
           MergeJson(Read(entry, Raw(text)), text)

\* Wrong: an apply that takes no backup forgets the one an earlier apply took.
RecordOf_ForgetsBackup(p, entry, text) ==
    [digest |-> Read(entry, Raw(text)), source |-> text,
     backup |-> BackupIsTaken(p), marker |-> p.marker, existed |-> p.existed]
\* Wrong: records the generated bytes, not those the destination got.
RecordOf_Generated(p, entry, text) ==
    [digest |-> Raw(text), source |-> text, backup |-> p.backup,
     marker |-> p.marker, existed |-> p.existed]

\* managed_output_state, recorded once the output is applied.
RecordOf(p, entry, text) ==
    [digest |-> Read(entry, Raw(text)), source |-> text, backup |-> p.backup,
     marker |-> p.marker, existed |-> p.existed]
=============================================================================
