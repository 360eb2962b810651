---------------------------- MODULE MCCallstack ----------------------------
(* Three malloc-table entries, two callstacks and three callstack objects: *)
(* enough for two entries to share a callstack, for a duplicate record to  *)
(* be made while the table holds the first, and for an object to be freed *)
(* and its memory reused for another callstack.                            *)
EXTENDS Callstack

CONSTANTS a1, a2, a3, c1, c2, noData

MCAllocs == {a1, a2, a3}
MCContents == {c1, c2}
MCIds == 1 .. 3
=============================================================================
