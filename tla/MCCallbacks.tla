---------------------------- MODULE MCCallbacks ----------------------------
(* An eight-byte stack, a walk of at most four bytes, kernel data of two   *)
(* or three bytes (a CONTEXT of two one-byte registers at the bottom)  ,   *)
(* and one level of callback: enough for a dispatch near the base and far  *)
(* from it, an exception inside a callback, and NtContinue and cbret after *)
(* pushes and pops.                                                        *)
EXTENDS Callbacks
=============================================================================
