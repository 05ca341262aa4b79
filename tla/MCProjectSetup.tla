--------------------------- MODULE MCProjectSetup ---------------------------
(***************************************************************************)
(* A project with one profile, two targets and a few packs; a git source   *)
(* whose lock entry is redacted, the same id with another url, a directory,*)
(* and a git source whose entry is not; another project to import from,    *)
(* with a private source, and a directory of another tool.                 *)
(***************************************************************************)
EXTENDS SourceLocks

CONSTANTS builder, writer, starter, team, imported, steward,
          codex, cursor, home, s1, s2, s3, s4, u1, u2

MCRole == {builder, writer}
MCPack == {starter, team, imported, steward}
MCStarter == {starter, steward}
MCDetected == {cursor}
MCTarget == {codex, cursor}
MCProfile == {home}
MCSourceId == {s1, s2, s3, s4}
MCUrl == {u1, u2}
MCRolePacks == [r \in MCRole |-> IF r = builder THEN {starter} ELSE {}]
MCTemplate == [p \in MCProfile |-> Unset]
MCOffers == [id \in MCSourceId |-> IF id = s1 THEN {team} ELSE {}]

git(id, u, open) == [id |-> id, git |-> TRUE, url |-> u, private |-> TRUE, hidden |-> ~open]
dir(id) == [id |-> id, git |-> FALSE, url |-> u1, private |-> TRUE, hidden |-> FALSE]

MCRecords == {git(s1, u1, FALSE), git(s1, u2, FALSE), git(s3, u1, TRUE)}
MCImportedFrom == dir(s4)
MCConfigured == [EmptyLayer EXCEPT !.sources = {git(s1, u1, FALSE), dir(s2)}]
MCDonor == [raw |-> [EmptyLayer EXCEPT !.extends = home, !.packs = {starter},
                                       !.sources = {git(s1, u1, FALSE)}],
            local |-> [EmptyLayer EXCEPT !.packs = {team}]]
MCUserLayer == [EmptyLayer EXCEPT !.role = builder, !.targets = {codex}]
MCProfileEdits == {[EmptyLayer EXCEPT !.role = writer, !.packs = {team}], Unset}
MCLocalEdits == {[EmptyLayer EXCEPT !.targets = {cursor}], Unset}
MCCalls == {[profile |-> Unset, noDefault |-> b] : b \in BOOLEAN}
MCOptions == {[mode |-> "auto", fields |-> ByDefault, public |-> TRUE, private |-> TRUE],
              [mode |-> "materialize", fields |-> Fields, public |-> FALSE, private |-> FALSE]}
=============================================================================
