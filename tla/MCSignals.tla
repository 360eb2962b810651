----------------------------- MODULE MCSignals -----------------------------
(* Ten addresses: the thread's stack above 6 and four alternate stacks     *)
(* below it.  [1, 6) and [2, 6) hold two frames of two bytes, so that a    *)
(* signal can nest on either stack; [1, 4) holds one frame with one byte   *)
(* to spare, the tightest frame the kernel delivers, and [1, 3) is filled  *)
(* exactly by a frame, which the kernel refuses.  Two handler functions.   *)
EXTENDS Signals

CONSTANTS h1, h2, sigIgn, sigDfl

MCAltRegions == {[sp |-> 1, size |-> 5], [sp |-> 2, size |-> 4],
                 [sp |-> 1, size |-> 3], [sp |-> 1, size |-> 2]}
=============================================================================
