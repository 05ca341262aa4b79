---------------------------- MODULE IgnoreRules ----------------------------
(***************************************************************************)
(* What metactl and git read in the two ignore files of a project          *)
(* (main.rs, ignore_privacy.rs, git_privacy.rs).  A file is its authored   *)
(* text, of which only a negation of the private path matters, and at most *)
(* one managed block, of which only what its rules hide matters.           *)
(***************************************************************************)
EXTENDS Naturals, Sequences

File == {"exclude", "gitignore"}   \* .git/info/exclude and .gitignore
Path == {"private", "shared"}      \* a private and a public destination

Blocks == {"absent", "none", "broad", "exact", "torn"}
Negations == {"no", "before", "after"}  \* !private, before or after the block

Content(maxText) == [text : 0..maxText, negates : Negations, block : Blocks]
NoFile == [text |-> 0, negates |-> "no", block |-> "absent"]

\* Wrong: the shared file first.
ScopeFiles_SharedFirst(scope) ==
    (IF scope \in {"repo", "both"} THEN <<"gitignore">> ELSE <<>>) \o
    (IF scope \in {"local", "both"} THEN <<"exclude">> ELSE <<>>)

\* ignore_block_specs: the files of a scope, in the order they are written.
ScopeFiles(scope) ==
    (IF scope \in {"local", "both"} THEN <<"exclude">> ELSE <<>>) \o
    (IF scope \in {"repo", "both"} THEN <<"gitignore">> ELSE <<>>)

UntouchedFile(scope) ==
    CASE scope = "local" -> {"gitignore"}
      [] scope = "repo" -> {"exclude"}
      [] OTHER -> {}

\* marked_block_span: duplicate, reversed or unmatched markers.
Malformed(c) == c.block = "torn"

\* Wrong: an existing block is taken for up to date.
Upsert_OnlyAppends(c) ==
    IF c.block = "broad" THEN c
    ELSE [c EXCEPT !.block = "exact",
                   !.negates = IF c.block = "none" /\ @ = "after" THEN "before" ELSE @]

\* upsert_marked_block: the block is replaced where it stands or appended
\* behind the text, so that it overrides the negations written before it.
Upsert(c) ==
    [c EXCEPT !.block = "exact",
              !.negates = IF c.block = "none" /\ @ = "after" THEN "before" ELSE @]

\* managed_ignore_file_has_broad_roots
HasBroadRoots(c) == c.block = "broad"

\* The private destinations enter the block of the exclude file only: their
\* names must not appear in the shared .gitignore.
BlockHides(f, block) ==
    CASE block \in {"broad", "torn"} -> Path
      [] block = "exact" /\ f = "exclude" -> {"private"}
      [] OTHER -> {}

\* git check-ignore: the last matching rule of a file decides, and a match in
\* .gitignore goes before one in the exclude file.
Verdict(f, c, p) ==
    LET negated(where) == p = "private" /\ c.negates = where
    IN  IF negated("after") THEN "visible"
        ELSE IF p \in BlockHides(f, c.block) THEN "ignored"
        ELSE IF negated("before") THEN "visible" ELSE "unmatched"

Ignored(files, p) ==
    LET shared == Verdict("gitignore", files["gitignore"], p)
        local == Verdict("exclude", files["exclude"], p)
    IN  shared = "ignored" \/ (shared = "unmatched" /\ local = "ignored")

Decisions(files) == {p \in Path : Ignored(files, p)}

\* ignore_status_file: the begin marker is in the file.
Installed(c) == c.block \in {"broad", "exact", "torn"}

\* cmd_ignore_status: a required file has no block, or a block has broad roots
\* (as a malformed one may).
FixAvailable(files) ==
    \E f \in File : ~Installed(files[f]) \/ HasBroadRoots(files[f]) \/ Malformed(files[f])
=============================================================================
