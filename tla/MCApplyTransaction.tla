------------------------- MODULE MCApplyTransaction -------------------------
(* Small instances of ApplyTransaction for TLC. *)
EXTENDS ApplyTransaction

CONSTANTS u1, u2, g1, g2

KindInstructionFile == <<"instruction", "file">>
KindRetainedInstruction == <<"retained", "instruction">>
KindJsonFile        == <<"json", "file">>
NoLegacy            == <<Absent, Absent>>
KindOneFile         == <<"file">>
NoLegacyOne         == <<Absent>>
\* The second output has other bytes at its legacy Codex path.
LegacySecond        == <<Absent, Raw(u1)>>
=============================================================================
