--------------------------- MODULE DelayFreeFIFO ---------------------------
(***************************************************************************)
(* What the delayed-free quarantine promises (spec 4.5): a FIFO of at most *)
(* DelayFrees freed chunks.  A free appends the chunk; once DelayFrees are *)
(* held, the oldest entry leaves and the chunk it names is really freed.   *)
(* A heap destroy voids the entries of that heap in place: a voided entry  *)
(* still takes its turn, and frees nothing when it leaves.                 *)
(***************************************************************************)
EXTENDS Naturals, Sequences

CONSTANTS DelayFrees, Heaps, NullHeap, Blocks

NULL == 0

VARIABLES queue, alloc_state, alloc_size, heap_live

vars == <<queue, alloc_state, alloc_size, heap_live>>

Init ==
  /\ queue = << >>
  /\ alloc_state = [b \in Blocks |-> "free"]
  /\ alloc_size = [b \in Blocks |-> 0]
  /\ heap_live = [h \in Heaps |-> TRUE]

Malloc(b, sz) ==
  /\ heap_live[b.heap]
  /\ alloc_state[b] = "free"
  /\ sz \in 1 .. b.cap
  /\ alloc_state' = [alloc_state EXCEPT ![b] = "live"]
  /\ alloc_size' = [alloc_size EXCEPT ![b] = sz]
  /\ UNCHANGED <<queue, heap_live>>

HeapCreate(h) ==
  /\ ~heap_live[h]
  /\ heap_live' = [heap_live EXCEPT ![h] = TRUE]
  /\ UNCHANGED <<queue, alloc_state, alloc_size>>

Free(b) ==
  LET e       == [addr |-> b.rb, heap |-> b.heap]
      full    == Len(queue) = DelayFrees
      evicted == IF full THEN Head(queue).addr ELSE NULL
  IN
  /\ alloc_state[b] = "live"
  /\ queue' = IF full THEN Append(Tail(queue), e) ELSE Append(queue, e)
  /\ alloc_state' = [c \in Blocks |->
                       IF c = b THEN "delayed"
                       ELSE IF evicted # NULL /\ c.rb = evicted THEN "free"
                       ELSE alloc_state[c]]
  /\ UNCHANGED <<alloc_size, heap_live>>

HeapDestroy(h) ==
  /\ heap_live[h]
  /\ heap_live' = [heap_live EXCEPT ![h] = FALSE]
  /\ queue' = [k \in DOMAIN queue |->
                 IF queue[k].heap = h THEN [queue[k] EXCEPT !.addr = NULL]
                 ELSE queue[k]]
  /\ alloc_state' = [c \in Blocks |-> IF c.heap = h THEN "free" ELSE alloc_state[c]]
  /\ UNCHANGED alloc_size

Next ==
  \/ \E b \in Blocks : Free(b) \/ \E sz \in 1 .. b.cap : Malloc(b, sz)
  \/ \E h \in Heaps : HeapCreate(h) \/ HeapDestroy(h)

Spec == Init /\ [][Next]_vars
=============================================================================
