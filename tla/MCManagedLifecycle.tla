------------------------ MODULE MCManagedLifecycle ------------------------
(* Small instances of ManagedLifecycle for TLC. *)
EXTENDS ManagedLifecycle

CONSTANTS u1, u2, g1, g2

KindOneInstruction     == <<"instruction">>
KindOneJson            == <<"json">>
NoLegacyOne            == <<Absent>>
=============================================================================
