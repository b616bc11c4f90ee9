------------------------------ MODULE MCPpsTod ------------------------------
(* Instances of PpsTod for TLC: quarter seconds, and clocks that are two or   *)
(* three seconds off or start at the epoch.                                   *)
EXTENDS PpsTod

MCOffsets == {3 * Q, -2 * Q - 2, -Boot * Q}
=============================================================================
