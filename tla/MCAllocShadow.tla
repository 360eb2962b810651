--------------------------- MODULE MCAllocShadow ---------------------------
(* AllocShadow on three chunks with redzones of 1 in one heap and a        *)
(* quarantine of one slot: chunks of app size 1 and 2, so that realloc     *)
(* grows and shrinks both in place and by moving, and freed chunks are     *)
(* recycled after one further free.                                        *)
EXTENDS AllocShadow

CONSTANTS heap, t1, t2

MCBlocks ==
  { [base |-> 2, cap |-> 1, rb |-> 1, heap |-> heap],
    [base |-> 5, cap |-> 2, rb |-> 4, heap |-> heap],
    [base |-> 9, cap |-> 1, rb |-> 8, heap |-> heap] }
=============================================================================
