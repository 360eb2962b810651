---------------------------- MODULE MCDelayFree ----------------------------
(* DelayFree on four chunks in two heaps and a FIFO of three slots: enough *)
(* for the FIFO to fill, wrap its head past the last slot and hold an      *)
(* invalidated slot while older and newer entries are still valid.         *)
EXTENDS DelayFree

CONSTANTS h1, h2

(* b1 and b4 have redzones of 1 (real 1..3 and 10..12), b2 is pre-us       *)
(* (real = app 4..5), b3 has redzones in the other heap (real 6..9).       *)
MCBlocks ==
  { [base |-> 2, cap |-> 1, rb |-> 1, heap |-> h1],
    [base |-> 4, cap |-> 2, rb |-> 4, heap |-> h1],
    [base |-> 7, cap |-> 2, rb |-> 6, heap |-> h2],
    [base |-> 11, cap |-> 1, rb |-> 10, heap |-> h2] }
=============================================================================
