------------------------- MODULE IgnorePublication -------------------------
(***************************************************************************)
(* `metactl ignore install` and `ignore fix` (main.rs, ignore_privacy.rs,  *)
(* ignore_publication.rs, ignore_recovery.rs, git_privacy.rs): the managed *)
(* rules are written into one or two ignore files that a user edits at the *)
(* same time, without losing any bytes of hers and without ever letting a  *)
(* private destination become visible to git.  The same evaluation guards  *)
(* the publication of a private projection by compile and apply.           *)
(***************************************************************************)
EXTENDS IgnoreRules, FiniteSets, SequencesExt

CONSTANTS
    Runs,        \* the commands: [cmd, scope, exchange] records
    StartFiles,  \* the contents the two files may have at first
    StartTracked,\* the sets of paths git may track at first
    EditShapes,  \* what the user may write: [negates, block] records
    Mishaps,     \* which steps may fail (see MishapKinds)
    MaxEdits     \* bound on the user's steps during one command

MishapKinds == {"recovery", "sync", "staging", "restore", "crash"}

RunRecords ==
    [cmd : {"install", "plan", "publish"}, scope : {"local", "repo", "both"},
     exchange : BOOLEAN]   \* files can be exchanged atomically

ASSUME PublicationAssumption ==
    /\ Runs \subseteq RunRecords
    /\ StartFiles \subseteq [File -> Content(0)]
    /\ StartTracked \subseteq SUBSET Path
    /\ EditShapes \subseteq [negates : Negations, block : Blocks]
    /\ Mishaps \subseteq MishapKinds
    /\ MaxEdits \in Nat

VARIABLES
    live,      \* live[f]: the content of ignore file f
    copies,    \* copies[f][s]: what lies in the recovery directory for f
    tracked,   \* the paths in git's index
    stamp,     \* changes whenever the index is written
    proven,    \* the public file holds the generated bytes, in index and tree
    run,       \* the command
    pc, round, \* its next step; the evaluation before ("plan") or "after"
    at,        \* the position in the files of the scope, or in written
    original,  \* original[f]: what the command read of f to build its write
    evidence,  \* what the evaluation captured
    verified,  \* the public path is proven to hold generated bytes
    written,   \* the files published so far, which a failure rolls back
    handle,    \* history: where the file is that an editor holds open
    authored,  \* history: contents of the user's that she has not replaced
    began,     \* history: the files when the command began
    edits,     \* the user's steps so far
    mishap,    \* history: the step that failed, if any
    safe       \* history: the private path was hidden during the evaluation

world == <<tracked, stamp, proven>>
disk == <<live, copies, handle>>
plan == <<run, original, verified>>
user == <<authored, began, edits>>
vars == <<disk, world, plan, user, pc, round, at, evidence, written, mishap, safe>>

Slots == {"staged", "backup", "second"}
NoCopies == [s \in Slots |-> NoFile]
NoEvidence == [tracked |-> {}, stamp |-> 0, files |-> [f \in File |-> NoFile],
               before |-> {}, after |-> {}]

Order == ScopeFiles(run.scope)
Current == Order[at]
Updated(f) == Upsert(original[f])
\* The writes the evaluation applies to its copy of the worktree.
Proposed == IF round = "plan" /\ run.cmd # "publish" THEN Range(Order) ELSE {}
Protected(files, index) == Ignored(files, "private") /\ "private" \notin index
Ended == {"done", "refused", "failed", "dead"}

Init ==
    /\ run \in Runs
    /\ live \in StartFiles
    /\ tracked \in StartTracked
    /\ proven \in BOOLEAN
    /\ copies = [f \in File |-> NoCopies]
    /\ stamp = 0
    /\ pc = IF run.cmd = "publish" THEN "capture" ELSE "scope"
    /\ round = "plan"
    /\ at = 1
    /\ original = [f \in File |-> NoFile]
    /\ evidence = NoEvidence
    /\ verified = FALSE
    /\ written = <<>>
    /\ handle = [f \in File |-> IF live[f] = NoFile THEN "gone" ELSE "live"]
    /\ authored = [f \in File |-> {live[f]} \ {NoFile}]
    /\ began = live
    /\ edits = 0
    /\ mishap = "none"
    /\ safe = FALSE

Goto(step) == pc' = step
Refuse == Goto("refused") /\ UNCHANGED <<round, at, evidence, written>>
MayFail(kind) == mishap = "none" /\ kind \in Mishaps
Fails(kind) == MayFail(kind) /\ mishap' = kind

-----------------------------------------------------------------------------
(* The plan: which files, what they hold, what is known of the public path. *)

\* ensure_no_broad_untouched_scope: the file the scope leaves alone must not
\* keep a broad rule.
CheckScope ==
    /\ pc = "scope"
    /\ IF \E f \in UntouchedFile(run.scope) :
             HasBroadRoots(live[f]) \/ Malformed(live[f])
       THEN Refuse
       ELSE Goto("prepare") /\ UNCHANGED <<round, at, evidence, written>>
    /\ UNCHANGED <<disk, world, plan, user, mishap>>

\* prepare_ignore_write
PrepareWrite ==
    /\ pc = "prepare"
    /\ UNCHANGED <<disk, world, run, verified, user, mishap, evidence, written, round>>
    /\ IF Malformed(live[Current])
       THEN Goto("refused") /\ UNCHANGED <<at, original>>
       ELSE /\ original' = [original EXCEPT ![Current] = live[Current]]
            /\ IF at = Len(Order) THEN at' = 1 /\ Goto("classify")
                                  ELSE at' = at + 1 /\ UNCHANGED pc

\* The installed public projection is compared with the synthesised one, in
\* the working tree and in the index.
ProjectionBytesMatch == proven

\* Which destinations are private, and whether the public one is proven.
Classify ==
    /\ pc = "classify"
    /\ verified' = ProjectionBytesMatch
    /\ Goto("capture")
    /\ UNCHANGED <<disk, world, run, original, user, round, at, evidence, written, mishap>>

-----------------------------------------------------------------------------
(* The evaluation of the effective rules (git_privacy.rs).                  *)

Forget == evidence' = NoEvidence

\* A refusal of the evaluation before the first write ends the command; after
\* the last one it rolls every write back.
Reject ==
    IF round = "after" /\ written # <<>>
    THEN Goto("undo") /\ at' = Len(written) /\ Forget /\ UNCHANGED <<round, written>>
    ELSE /\ Goto(IF round = "after" THEN "failed" ELSE "refused")
         /\ Forget /\ UNCHANGED <<at, round, written>>

Evaluate(step, next) ==
    /\ pc = step /\ UNCHANGED <<disk, world, plan, user, mishap>>
    /\ next
Proceed(step) == Goto(step) /\ UNCHANGED <<at, round, written>>

SnapshotIndex == [NoEvidence EXCEPT !.stamp = stamp]

\* SelectedIndex::capture
CaptureIndex == Evaluate("capture",
    /\ evidence' = SnapshotIndex
    /\ Proceed("enumerate"))

\* The tracked names, read by git, belong to the captured index.
Enumerate == Evaluate("enumerate",
    IF stamp # evidence.stamp \/ (run.cmd = "publish" /\ "private" \in tracked)
    THEN Reject
    ELSE evidence' = [evidence EXCEPT !.tracked = tracked] /\ Proceed("read exclude"))

ReadSource(f, step, following) == Evaluate(step,
    /\ evidence' = [evidence EXCEPT !.files[f] = live[f]]
    /\ Proceed(following))

\* The decisions of git here must equal those over the captured sources; the
\* decisions with the proposed writes come from the captured sources.
Probe == Evaluate("probe",
    IF Decisions(live) # Decisions(evidence.files) THEN Reject
    ELSE /\ evidence' = [evidence EXCEPT
                !.before = Decisions(live),
                !.after = Decisions([f \in File |-> IF f \in Proposed THEN Updated(f)
                                                    ELSE evidence.files[f]])]
         /\ Proceed("reread exclude"))

RereadSource(f, step, following) == Evaluate(step,
    IF live[f] # evidence.files[f] THEN Reject
    ELSE Proceed(following) /\ UNCHANGED evidence)

ProbeAgain == Evaluate("reprobe",
    IF Decisions(live) # evidence.before THEN Reject
    ELSE Proceed("revalidate") /\ UNCHANGED evidence)

\* Wrong: the index is not looked at again.
Revalidate_Skipped == Evaluate("revalidate", Proceed("judge") /\ UNCHANGED evidence)

Revalidate == Evaluate("revalidate",
    IF stamp # evidence.stamp THEN Reject
    ELSE Proceed("judge") /\ UNCHANGED evidence)

\* What the evidence must show: the private path stays hidden and untracked,
\* the public one loses its protection only when its bytes are proven.
Accepted ==
    /\ "private" \in evidence.after /\ "private" \notin evidence.tracked
    /\ "shared" \in evidence.before \ evidence.after => verified

Judge == Evaluate("judge",
    IF ~Accepted THEN Reject
    ELSE /\ Goto(IF round = "plan" /\ run.cmd = "install" THEN "check" ELSE "done")
         /\ at' = 1 /\ Forget /\ UNCHANGED <<round, written>>)

Evaluation ==
    \/ CaptureIndex \/ Enumerate \/ Probe \/ ProbeAgain \/ Revalidate \/ Judge
    \/ ReadSource("exclude", "read exclude", "read gitignore")
    \/ ReadSource("gitignore", "read gitignore", "probe")
    \/ RereadSource("exclude", "reread exclude", "reread gitignore")
    \/ RereadSource("gitignore", "reread gitignore", "reprobe")

-----------------------------------------------------------------------------
(* The publication (ignore_publication.rs) and its rollback.                *)

\* Wrong: a failure leaves the files already published.
Fail_Stops == /\ Goto("failed") /\ at' = Len(written)
              /\ UNCHANGED <<round, evidence, written>>

\* Rolls back what is in written, newest first.
Fail == /\ Goto(IF written = <<>> THEN "failed" ELSE "undo")
        /\ at' = Len(written)
        /\ UNCHANGED <<round, evidence, written>>

Publishing == UNCHANGED <<world, plan, user>>

NextFile ==
    /\ IF at = Len(Order) THEN at' = 1 /\ Goto("staging")
                          ELSE at' = at + 1 /\ Goto("check")
    /\ UNCHANGED <<round, evidence>>

\* ensure_ignore_recovery_dir: a private directory that git must be seen to
\* ignore; then the new bytes are staged in it.
StageInRecoveryDir ==
    \/ Fails("recovery") /\ Fail /\ UNCHANGED disk
    \/ /\ copies' = [copies EXCEPT ![Current].staged = Updated(Current)]
       /\ Goto("swap")
       /\ UNCHANGED <<live, handle, mishap, round, at, evidence, written>>

\* The file must still be what the write was built from; then the recovery
\* directory is made and the new bytes are staged in it.
CheckFile ==
    /\ pc = "check" /\ Publishing
    /\ \/ /\ live[Current] # original[Current]
          /\ Fail /\ UNCHANGED <<disk, mishap>>
       \/ /\ live[Current] = original[Current] /\ live[Current] = Updated(Current)
          /\ NextFile /\ UNCHANGED <<disk, written, mishap>>
       \/ /\ live[Current] = original[Current] /\ live[Current] # Updated(Current)
          /\ StageInRecoveryDir

\* The file the editor holds open moves with its bytes.
Moved(f, from, to) == handle' = [handle EXCEPT ![f] =
    CASE @ = from -> to [] @ = to -> from [] OTHER -> @]

\* Wrong: the staged file is renamed over the live one.
Exchange_Overwrites ==
    /\ pc = "swap" /\ run.exchange /\ original[Current] # NoFile /\ Publishing
    /\ IF live[Current] = NoFile THEN Fail /\ UNCHANGED disk
       ELSE /\ live' = [live EXCEPT ![Current] = Updated(Current)]
            /\ copies' = [copies EXCEPT ![Current] =
                   [NoCopies EXCEPT !.backup = original[Current]]]
            /\ Moved(Current, "live", "backup")
            /\ Goto("displaced") /\ UNCHANGED <<round, at, evidence, written>>
    /\ UNCHANGED mishap

\* replace_preserving_live by exchange: the displaced file becomes the copy.
Exchange ==
    /\ pc = "swap" /\ run.exchange /\ original[Current] # NoFile /\ Publishing
    /\ IF live[Current] = NoFile THEN Fail /\ UNCHANGED disk
       ELSE /\ live' = [live EXCEPT ![Current] = Updated(Current)]
            /\ copies' = [copies EXCEPT ![Current] =
                   [NoCopies EXCEPT !.backup = live[Current]]]
            /\ Moved(Current, "live", "backup")
            /\ Goto("displaced") /\ UNCHANGED <<round, at, evidence, written>>
    /\ UNCHANGED mishap

\* A new file is linked where none is; its copy is a file of its own.
Create ==
    /\ pc = "swap" /\ original[Current] = NoFile /\ Publishing
    /\ copies' = [copies EXCEPT ![Current].backup = Updated(Current),
                    ![Current].staged = IF live[Current] = NoFile THEN NoFile ELSE @]
    /\ IF live[Current] # NoFile THEN Fail /\ UNCHANGED live
       ELSE /\ live' = [live EXCEPT ![Current] = Updated(Current)]
            /\ Goto("sync") /\ UNCHANGED <<round, at, evidence, written>>
    /\ UNCHANGED <<handle, mishap>>

\* Elsewhere the live file is captured by a rename, which leaves a gap.
Capture ==
    /\ pc = "swap" /\ ~run.exchange /\ original[Current] # NoFile /\ Publishing
    /\ IF live[Current] = NoFile THEN Fail /\ UNCHANGED disk
       ELSE /\ copies' = [copies EXCEPT ![Current].backup = live[Current]]
            /\ live' = [live EXCEPT ![Current] = NoFile]
            /\ Moved(Current, "live", "backup")
            /\ Goto("link") /\ UNCHANGED <<round, at, evidence, written>>
    /\ UNCHANGED mishap

\* The link does not replace what somebody created in the gap.
Link ==
    /\ pc = "link" /\ Publishing
    /\ IF live[Current] # NoFile THEN Fail /\ UNCHANGED disk
       ELSE /\ live' = [live EXCEPT ![Current] = Updated(Current)]
            /\ copies' = [copies EXCEPT ![Current].staged = NoFile]
            /\ Goto("displaced") /\ UNCHANGED <<handle, round, at, evidence, written>>
    /\ UNCHANGED mishap

\* The displaced bytes must be the original: a user's edit since the check
\* fails the command, with both versions kept.
CompareDisplaced ==
    /\ pc = "displaced" /\ Publishing
    /\ IF copies[Current].backup # original[Current] THEN Fail
       ELSE Goto("sync") /\ UNCHANGED <<round, at, evidence, written>>
    /\ UNCHANGED <<disk, mishap>>

\* sync_directories; only now is the file in the list a failure rolls back.
SyncDirectories ==
    /\ pc = "sync" /\ Publishing
    /\ \/ Fails("sync") /\ Fail
       \/ written' = Append(written, Current) /\ NextFile /\ UNCHANGED mishap
    /\ UNCHANGED disk

\* recovery_copies_ignored_by_git, then the second evaluation.
CheckStaging ==
    /\ pc = "staging" /\ Publishing
    /\ \/ Fails("staging") /\ Fail
       \/ /\ round' = "after" /\ Goto("classify")
          /\ UNCHANGED <<at, evidence, written, mishap>>
    /\ UNCHANGED disk

\* rollback_ignore_writes, one file: a created file stays, any other changes
\* places with its copy; a failed replacement is reported and passed over.
Undone == /\ at' = at - 1 /\ UNCHANGED <<round, evidence, written>>
          /\ Goto(IF at = 1 THEN "failed" ELSE "undo")

Rollback ==
    /\ pc = "undo" /\ Publishing
    /\ LET f == written[at] IN
       \/ /\ original[f] = NoFile \/ live[f] = NoFile
          /\ Undone /\ UNCHANGED <<disk, mishap>>
       \/ /\ original[f] # NoFile /\ live[f] # NoFile
          /\ \/ Fails("restore") /\ Undone /\ UNCHANGED disk
             \/ /\ run.exchange
                /\ live' = [live EXCEPT ![f] = copies[f].backup]
                /\ copies' = [copies EXCEPT ![f].backup = live[f]]
                /\ Moved(f, "live", "backup")
                /\ Undone /\ UNCHANGED mishap
             \/ /\ ~run.exchange
                /\ live' = [live EXCEPT ![f] = NoFile]
                /\ copies' = [copies EXCEPT ![f].second = live[f]]
                /\ Moved(f, "live", "second")
                /\ Goto("relink")
                /\ UNCHANGED <<mishap, round, at, evidence, written>>

Relink ==
    /\ pc = "relink" /\ Publishing
    /\ LET f == written[at] IN
       IF live[f] # NoFile THEN UNCHANGED disk
       ELSE /\ live' = [live EXCEPT ![f] = copies[f].backup]
            /\ copies' = [copies EXCEPT ![f].backup = NoFile]
            /\ Moved(f, "backup", "live")
    /\ Undone /\ UNCHANGED mishap

Die == /\ pc \notin Ended /\ Fails("crash") /\ Goto("dead")
       /\ UNCHANGED <<disk, world, plan, user, round, at, evidence, written>>

Publication ==
    \/ CheckFile \/ Exchange \/ Create \/ Capture \/ Link \/ CompareDisplaced
    \/ SyncDirectories \/ CheckStaging \/ Rollback \/ Relink

-----------------------------------------------------------------------------
(* The user, who edits both files and the index between any two steps.      *)

Acts == /\ pc \notin Ended /\ edits < MaxEdits /\ edits' = edits + 1
        /\ UNCHANGED <<plan, began, pc, round, at, evidence, written, mishap>>
Fresh(shape) == [text |-> edits + 1, negates |-> shape.negates, block |-> shape.block]

\* Writes to the path, whatever file lies there now, or makes a new one.
EditPath(f) ==
    /\ Acts
    /\ \E shape \in EditShapes :
          /\ live' = [live EXCEPT ![f] = Fresh(shape)]
          /\ authored' = [authored EXCEPT ![f] = (@ \ {live[f]}) \union {Fresh(shape)}]
    /\ UNCHANGED <<copies, handle, world>>

\* Saves through an editor that opened the file before the command.
EditHandle(f) ==
    /\ Acts /\ handle[f] \in {"backup", "second"}
    /\ \E shape \in EditShapes :
          /\ copies' = [copies EXCEPT ![f][handle[f]] = Fresh(shape)]
          /\ authored' = [authored EXCEPT ![f] =
                (@ \ {copies[f][handle[f]]}) \union {Fresh(shape)}]
    /\ UNCHANGED <<live, handle, world>>

Delete(f) ==
    /\ Acts /\ live[f] # NoFile
    /\ live' = [live EXCEPT ![f] = NoFile]
    /\ authored' = [authored EXCEPT ![f] = @ \ {live[f]}]
    /\ handle' = [handle EXCEPT ![f] = IF @ = "live" THEN "gone" ELSE @]
    /\ UNCHANGED <<copies, world>>

\* git add --force, git rm --cached
TrackOrUntrack ==
    /\ Acts /\ stamp' = stamp + 1
    /\ tracked' = IF "private" \in tracked THEN tracked \ {"private"}
                                          ELSE tracked \union {"private"}
    /\ UNCHANGED <<disk, proven, authored>>

User == TrackOrUntrack \/ \E f \in File : EditPath(f) \/ EditHandle(f) \/ Delete(f)

\* safe is set anew when an evaluation captures the index.
Observe == safe' = IF pc' = "enumerate" /\ pc = "capture" THEN Protected(live', tracked')
                   ELSE safe \/ Protected(live', tracked')

Next ==
    /\ CheckScope \/ PrepareWrite \/ Classify \/ Evaluation \/ Publication \/ Die \/ User
    /\ Observe

Spec == Init /\ [][Next]_vars

-----------------------------------------------------------------------------
(* Properties.                                                              *)

\* A concurrent edit may make the command fail, but both versions are kept
\* (README.md): whatever the user wrote and did not replace herself is live or
\* in the recovery directory, at every step, also when an editor still holds
\* the displaced file, when the command rolls back and when it dies.
UserBytesRetained ==
    \A f \in File : \A c \in authored[f] :
        c = live[f] \/ \E s \in Slots : c = copies[f][s]

\* A command succeeds only if the private destination was hidden from git and
\* absent from its index at some moment of the last evaluation, whatever the
\* user did to the files and to the index meanwhile: the evaluation reads
\* twice and may not combine readings that were never true together.
SuccessProtects == pc = "done" /\ run.cmd # "plan" => safe

\* As long as nobody else interferes and no published file is left out of the
\* rollback, a private path that was hidden at first stays hidden at every
\* step: the files are written, and rolled back, in an order that never takes
\* the old rules away before the new ones are there.
KeepsProtection ==
    run.exchange /\ edits = 0 /\ mishap \notin {"sync", "restore"}
      /\ Protected(began, tracked)
    => Protected(live, tracked)

\* A failed command that was not disturbed leaves every file it had replaced
\* as it found it.
FailureRestores ==
    pc = "failed" /\ edits = 0 /\ mishap \notin {"sync", "restore"} =>
        \A f \in File : began[f] # NoFile => live[f] = began[f]

\* After an undisturbed install in both files, `ignore status` offers no fix.
DoneNeedsNoFix ==
    pc = "done" /\ run.cmd = "install" /\ run.scope = "both" /\ edits = 0 =>
        ~FixAvailable(live)
=============================================================================
