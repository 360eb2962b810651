----------------------------- MODULE DelayFree -----------------------------
(***************************************************************************)
(* The delayed-free quarantine of alloc_drmem.c: the FIFO array            *)
(* delay_free_list with its indices delay_free_head and delay_free_fill,   *)
(* and the interval tree delay_free_tree that mirrors it for the           *)
(* overlaps_delayed_free query.  Every operation on it runs under          *)
(* delay_free_lock, so each one is a single atomic step here.              *)
(*                                                                         *)
(* The external allocator is abstracted to a fixed set of Blocks, chunks   *)
(* it can hand out, each with its app base, the largest app size it holds, *)
(* its real base (the start of its leading redzone) and its Windows heap.  *)
(* alloc_state says whether the allocator has the chunk live, held in the  *)
(* quarantine, or free, and alloc_size is the app size of its allocation;  *)
(* the free() that client_handle_free's return value reaches is folded     *)
(* into the Free step.  Addresses are naturals and 0 is NULL.              *)
(***************************************************************************)
EXTENDS Naturals, FiniteSets

CONSTANTS
  DelayFrees,   \* options.delay_frees: the capacity of the FIFO
  RedzoneSize,  \* options.redzone_size
  Heaps,        \* Windows heap handles
  NullHeap,     \* the heap field of a slot never written
  Blocks        \* chunks: [base, cap (largest app size), rb (real base), heap]

NULL == 0

ASSUME DelayFreesAssumption == DelayFrees \in Nat \ {0}
ASSUME RedzoneAssumption == RedzoneSize \in Nat
ASSUME HeapsAssumption == NullHeap \notin Heaps

(* A block is ours (base = rb + redzone) or pre-us, without a redzone.     *)
BlockType == [base : Nat, cap : Nat \ {0}, rb : Nat \ {0}, heap : Heaps]

(* The real size a free of an allocation of size sz records (487-493).     *)
RealSize(b, sz) == IF b.base # b.rb THEN sz + 2 * RedzoneSize ELSE sz

RealRange(b, sz) == b.rb .. (b.rb + RealSize(b, sz) - 1)

AppRange(b, sz) == b.base .. (b.base + sz - 1)

ASSUME BlocksAssumption ==
  /\ Blocks \subseteq BlockType
  /\ \A b \in Blocks : b.base = b.rb \/ b.base = b.rb + RedzoneSize
  /\ \A b, c \in Blocks : b # c => RealRange(b, b.cap) \cap RealRange(c, c.cap) = {}

Slots == 0 .. (DelayFrees - 1)

Entry == [addr : Nat, heap : Heaps \cup {NullHeap}]

(* A node of delay_free_tree: real base, real size and the payload         *)
(* (void * )(base == real_base) that free stores with it (line 494).       *)
Node == [base : Nat, size : Nat, nored : BOOLEAN]

VARIABLES
  delay_free_list,   \* the FIFO array, Slots -> Entry
  delay_free_head,   \* the oldest entry once the FIFO is full
  delay_free_fill,   \* one past the furthest slot filled; DelayFrees when full
  delay_free_tree,   \* the interval tree, a set of Node
  tree_assert,       \* TRUE once ASSERT(false, "delay_free_tree inconsistent") ran
  alloc_state,       \* the external allocator: Blocks -> {"live","delayed","free"}
  alloc_size,        \* the app size of each chunk's allocation: Blocks -> Nat
  heap_live          \* the app's heaps: Heaps -> BOOLEAN (a handle may be reused)

vars == <<delay_free_list, delay_free_head, delay_free_fill, delay_free_tree,
          tree_assert, alloc_state, alloc_size, heap_live>>

-----------------------------------------------------------------------------
(* The interval tree (redblack.c, not in this repository).                 *)

NodeRange(n) == n.base .. (n.base + n.size - 1)

(* rb_insert adds the node unless it overlaps one already there, in which  *)
(* case it returns that one and the tree is unchanged.                     *)
RbInsert(t, n) ==
  IF \E m \in t : NodeRange(m) \cap NodeRange(n) # {} THEN t ELSE t \cup {n}

(* rb_find: the node whose base is addr, if any.                           *)
RbFind(t, addr) == {m \in t : m.base = addr}

(* Mutant: the node keyed by the app base rather than the real base (the   *)
(* state before PR 572716), so an eviction's rb_find misses it.            *)
FreeNodeAppBase(b, sz) ==
  [base |-> b.base, size |-> RealSize(b, sz), nored |-> b.base = b.rb]

(* The node free inserts for block b of app size sz.                       *)
FreeNode(b, sz) == [base |-> b.rb, size |-> RealSize(b, sz), nored |-> b.base = b.rb]

(* if (node != NULL) rb_delete(node); else ASSERT(false, ...)              *)
TreeRemove(t, addr) == t \ RbFind(t, addr)

-----------------------------------------------------------------------------
(* Mutant: the FIFO counted full one entry early.                          *)
FullOffByOne == delay_free_fill = DelayFrees - 1

DELAY_FREE_FULL == delay_free_fill = DelayFrees

(* Mutant: the wrap test of the head index off by one.                     *)
NextHeadLateWrap ==
  IF delay_free_head + 1 > DelayFrees THEN 0 ELSE delay_free_head + 1

(* delay_free_head++; if (delay_free_head >= options.delay_frees) ... = 0  *)
NextHead ==
  IF delay_free_head + 1 >= DelayFrees THEN 0 ELSE delay_free_head + 1

(* Mutant: the heap-destroy sweep stops one slot short of fill.            *)
DestroyedSlotsShort(h) ==
  {i \in 0 .. (delay_free_fill - 2) : delay_free_list[i].heap = h}

(* The slots the heap-destroy sweep invalidates (lines 557-558).           *)
DestroyedSlots(h) ==
  {i \in 0 .. (delay_free_fill - 1) : delay_free_list[i].heap = h}

Init ==
  /\ delay_free_list = [i \in Slots |-> [addr |-> NULL, heap |-> NullHeap]]
  /\ delay_free_head = 0
  /\ delay_free_fill = 0
  /\ delay_free_tree = {}
  /\ tree_assert = FALSE
  /\ alloc_state = [b \in Blocks |-> "free"]
  /\ alloc_size = [b \in Blocks |-> 0]
  /\ heap_live = [h \in Heaps |-> TRUE]

(* The allocator hands out a chunk of a live heap for sz bytes (malloc).   *)
Malloc(b, sz) ==
  /\ heap_live[b.heap]
  /\ alloc_state[b] = "free"
  /\ sz \in 1 .. b.cap
  /\ alloc_state' = [alloc_state EXCEPT ![b] = "live"]
  /\ alloc_size' = [alloc_size EXCEPT ![b] = sz]
  /\ UNCHANGED <<delay_free_list, delay_free_head, delay_free_fill,
                 delay_free_tree, tree_assert, heap_live>>

(* The app creates a heap and is given a handle a destroyed heap had.      *)
HeapCreate(h) ==
  /\ ~heap_live[h]
  /\ heap_live' = [heap_live EXCEPT ![h] = TRUE]
  /\ UNCHANGED <<delay_free_list, delay_free_head, delay_free_fill,
                 delay_free_tree, tree_assert, alloc_state, alloc_size>>

(* The quarantine part of client_handle_free for block b: insert it in the *)
(* tree, then store it at the tail, or, when full, over the head entry,    *)
(* whose address becomes the pointer passed to the real free() and whose  *)
(* node leaves the tree.  The real free of that pointer ends the step.     *)
Free(b) ==
  LET e     == [addr |-> b.rb, heap |-> b.heap]
      tree1 == RbInsert(delay_free_tree, FreeNode(b, alloc_size[b]))
      pass  == IF DELAY_FREE_FULL THEN delay_free_list[delay_free_head].addr
                                  ELSE NULL
  IN
  /\ alloc_state[b] = "live"
  /\ IF DELAY_FREE_FULL
       THEN /\ delay_free_list' = [delay_free_list EXCEPT ![delay_free_head] = e]
            /\ delay_free_head' = NextHead
            /\ UNCHANGED delay_free_fill
       ELSE /\ delay_free_list' = [delay_free_list EXCEPT ![delay_free_fill] = e]
            /\ delay_free_fill' = delay_free_fill + 1
            /\ UNCHANGED delay_free_head
  /\ delay_free_tree' = IF pass # NULL THEN TreeRemove(tree1, pass) ELSE tree1
  /\ tree_assert' = (tree_assert \/ (pass # NULL /\ RbFind(tree1, pass) = {}))
  /\ alloc_state' = [c \in Blocks |->
                       IF c = b THEN "delayed"
                       ELSE IF pass # NULL /\ c.rb = pass THEN "free"
                       ELSE alloc_state[c]]
  /\ UNCHANGED <<alloc_size, heap_live>>

(* client_handle_heap_destroy: every slot below fill that names heap h     *)
(* loses its tree node and has its address set to NULL; the heap's chunks, *)
(* live or quarantined, are gone with it.                                  *)
HeapDestroy(h) ==
  LET hit == DestroyedSlots(h) IN
  /\ heap_live[h]
  /\ heap_live' = [heap_live EXCEPT ![h] = FALSE]
  /\ delay_free_tree' =
       delay_free_tree \ {m \in delay_free_tree :
                            \E i \in hit : m.base = delay_free_list[i].addr}
  /\ tree_assert' =
       (tree_assert \/ \E i \in hit : RbFind(delay_free_tree,
                                              delay_free_list[i].addr) = {})
  /\ delay_free_list' = [i \in Slots |->
                           IF i \in hit THEN [delay_free_list[i] EXCEPT !.addr = NULL]
                           ELSE delay_free_list[i]]
  /\ alloc_state' = [c \in Blocks |-> IF c.heap = h THEN "free" ELSE alloc_state[c]]
  /\ UNCHANGED <<delay_free_head, delay_free_fill, alloc_size>>

Next ==
  \/ \E b \in Blocks : Free(b) \/ \E sz \in 1 .. b.cap : Malloc(b, sz)
  \/ \E h \in Heaps : HeapCreate(h) \/ HeapDestroy(h)

Spec == Init /\ [][Next]_vars

-----------------------------------------------------------------------------
(* overlaps_delayed_free(start, end): the first tree node overlapping      *)
(* [start, end) and, when it counts as a hit, the app range it reports.    *)
OverlapsDelayedFree(start, end) ==
  LET hits == {m \in delay_free_tree : m.base < end /\ start < m.base + m.size}
      node == CHOOSE m \in hits : \A k \in hits : m.base <= k.base
  IN IF hits = {} THEN [res |-> FALSE, lo |-> NULL, hi |-> NULL]
     ELSE IF ~node.nored
             \/ (start < node.base + node.size - RedzoneSize
                 /\ end >= node.base + RedzoneSize)
          THEN [res |-> TRUE, lo |-> node.base + RedzoneSize,
                hi |-> node.base + node.size - RedzoneSize]
          ELSE [res |-> FALSE, lo |-> NULL, hi |-> NULL]

-----------------------------------------------------------------------------
TypeOK ==
  /\ delay_free_list \in [Slots -> Entry]
  /\ delay_free_head \in Slots
  /\ delay_free_fill \in 0 .. DelayFrees
  /\ delay_free_tree \subseteq Node
  /\ tree_assert \in BOOLEAN
  /\ alloc_state \in [Blocks -> {"live", "delayed", "free"}]
  /\ alloc_size \in [Blocks -> Nat]
  /\ heap_live \in [Heaps -> BOOLEAN]

(* The slots in use.                                                       *)
InUse == 0 .. (delay_free_fill - 1)

(* The chunks held in the quarantine.                                      *)
Delayed == {b \in Blocks : alloc_state[b] = "delayed"}

(* The addresses held by the slots in use.                                 *)
ListAddrs == {delay_free_list[i].addr : i \in InUse} \ {NULL}

(* Invariant 3 of the spec: the tree and the array describe the same set   *)
(* of real bases, so an eviction or a heap-destroy always finds the node   *)
(* it removes and overlaps_delayed_free sees exactly the quarantine.       *)
TreeMirrorsList == {m.base : m \in delay_free_tree} = ListAddrs

(* The quarantine neither leaks nor double-frees: the chunks the allocator *)
(* still holds for it are exactly those whose real base a slot in use      *)
(* names.  A missed eviction, a wrong wrap of delay_free_head or a slot    *)
(* left valid by a heap destroy would hand free() a chunk twice, or never. *)
QuarantineExact == Delayed = {b \in Blocks : b.rb \in ListAddrs}

(* overlaps_delayed_free reports an access to a quarantined chunk exactly  *)
(* when it touches the app-requested bytes, and then reports those bytes   *)
(* (spec 4.5 and scenario 2: redzone bytes do not count).                  *)
OverlapReportsAppBody ==
  \A b \in Blocks : alloc_state[b] = "delayed" =>
    \A a \in RealRange(b, alloc_size[b]) :
      LET r == OverlapsDelayedFree(a, a + 1) IN
      /\ r.res <=> a \in AppRange(b, alloc_size[b])
      /\ r.res => r.lo = b.base /\ r.hi = b.base + alloc_size[b]

(* Every valid slot in use names a quarantined chunk of the slot's heap.   *)
SlotsNameDelayed ==
  \A i \in InUse : delay_free_list[i].addr # NULL =>
    \E b \in Delayed : b.rb = delay_free_list[i].addr /\ b.heap = delay_free_list[i].heap

(* No two slots in use name the same chunk.                                *)
SlotsDistinct ==
  \A i, j \in InUse : i # j /\ delay_free_list[i].addr # NULL =>
    delay_free_list[i].addr # delay_free_list[j].addr

(* Every quarantined chunk has a slot in use.                              *)
DelayedHaveSlot == \A b \in Delayed : \E i \in InUse : delay_free_list[i].addr = b.rb

(* The tree holds exactly the nodes free inserted for the quarantined      *)
(* chunks.                                                                 *)
TreeIsDelayed == delay_free_tree = {FreeNode(b, alloc_size[b]) : b \in Delayed}

(* A chunk the allocator handed out has a size within its capacity.        *)
SizesInCap == \A b \in Blocks : alloc_state[b] # "free" => alloc_size[b] \in 1 .. b.cap

(* The inductive strengthening of TreeMirrorsList and QuarantineExact.     *)
IInv ==
  /\ TypeOK
  /\ SlotsNameDelayed
  /\ SlotsDistinct
  /\ DelayedHaveSlot
  /\ TreeIsDelayed
  /\ SizesInCap

(* delay_free_head moves only once the FIFO is full, and fill never goes  *)
(* back down, so until the first eviction the oldest entry is in slot 0.   *)
HeadAtZeroUntilFull == delay_free_fill < DelayFrees => delay_free_head = 0

(* The quarantine as the FIFO it implements: the slots in use, oldest     *)
(* first, read from delay_free_head round the array.                       *)
Queue == [k \in 1 .. delay_free_fill |->
            delay_free_list[(delay_free_head + k - 1) % DelayFrees]]

FIFO == INSTANCE DelayFreeFIFO WITH queue <- Queue

(* The circular array with head and fill implements the FIFO of spec 4.5:  *)
(* each free evicts exactly the oldest of the last DelayFrees entries, so  *)
(* a chunk is really freed after exactly DelayFrees further frees.         *)
FIFOSpec == FIFO!Spec

(* ASSERT(false, "delay_free_tree inconsistent") never runs: every removal *)
(* finds its node.                                                         *)
NoTreeAssert == ~tree_assert
=============================================================================
