---------------------------- MODULE MCFleetSync ----------------------------
(* A fleet that lists its own project and another fleet's, and that other    *)
(* fleet, which lists the project of the first.                              *)
EXTENDS FleetSync

CONSTANTS f1, f2, a1, a2, b1, r1, r2

Roots == [p \in Proc |-> IF p \in {f1, a1, b1} THEN r1 ELSE r2]
Lists == [f \in Fleet |-> IF f = f1 THEN <<r1, r2>> ELSE <<r1>>]
Spawns == [f \in Fleet |-> IF f = f1 THEN <<a1, a2>> ELSE <<b1>>]
=============================================================================
