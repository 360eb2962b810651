-------------------------- MODULE DelayFreeProofs --------------------------
(***************************************************************************)
(* Proofs about the delayed-free quarantine of module DelayFree, for every *)
(* capacity delay_frees, redzone size, set of heaps and set of chunks the  *)
(* assumptions of DelayFree allow.                                         *)
(***************************************************************************)
EXTENDS DelayFree, SequenceTheorems, TLAPS

-----------------------------------------------------------------------------
(* Facts about the constants.                                              *)

(* Every chunk is a record of BlockType: its real base is a non-NULL       *)
(* address, its capacity positive, and its heap a real heap handle.        *)
LEMMA BlockFacts ==
  ASSUME NEW b \in Blocks
  PROVE  /\ b.base \in Nat /\ b.rb \in Nat \ {0} /\ b.cap \in Nat \ {0}
         /\ b.heap \in Heaps
         /\ b.base = b.rb \/ b.base = b.rb + RedzoneSize
BY BlocksAssumption DEF BlockType

(* The real size free records for an allocation of at most the chunk's    *)
(* capacity is a natural at least the app size.                            *)
LEMMA RealSizeFacts ==
  ASSUME NEW b \in Blocks, NEW sz \in Nat
  PROVE  /\ RealSize(b, sz) \in Nat
         /\ sz <= RealSize(b, sz)
         /\ RealSize(b, sz) <= RealSize(b, b.cap) \/ sz > b.cap
BY RedzoneAssumption, BlockFacts DEF RealSize

(* The node client_handle_free inserts is a Node.                          *)
LEMMA FreeNodeType ==
  ASSUME NEW b \in Blocks, NEW sz \in Nat
  PROVE  FreeNode(b, sz) \in Node
BY BlockFacts, RealSizeFacts DEF FreeNode, Node

(* Distinct chunks have distinct real bases, so rb_find by real base       *)
(* names one chunk.                                                        *)
LEMMA RbUnique ==
  ASSUME NEW b \in Blocks, NEW c \in Blocks, b.rb = c.rb
  PROVE  b = c
<1> SUFFICES ASSUME b # c PROVE FALSE
  OBVIOUS
<1>1. b.rb \in RealRange(b, b.cap) /\ c.rb \in RealRange(c, c.cap)
  BY BlockFacts, RealSizeFacts DEF RealRange
<1> QED
  BY <1>1, BlocksAssumption

(* The nodes free inserts for two distinct chunks, each allocated within   *)
(* its capacity, do not overlap, so rb_insert of one never meets the       *)
(* other.                                                                  *)
LEMMA NodesDisjoint ==
  ASSUME NEW b \in Blocks, NEW c \in Blocks, b # c,
         NEW sb \in 1 .. b.cap, NEW sc \in 1 .. c.cap
  PROVE  NodeRange(FreeNode(b, sb)) \cap NodeRange(FreeNode(c, sc)) = {}
<1>1. NodeRange(FreeNode(b, sb)) \subseteq RealRange(b, b.cap)
  BY BlockFacts, RealSizeFacts DEF NodeRange, FreeNode, RealRange
<1>2. NodeRange(FreeNode(c, sc)) \subseteq RealRange(c, c.cap)
  BY BlockFacts, RealSizeFacts DEF NodeRange, FreeNode, RealRange
<1> QED
  BY <1>1, <1>2, BlocksAssumption

-----------------------------------------------------------------------------
(* Type correctness.                                                       *)

(* Every step of the quarantine code keeps its globals within their        *)
(* types: in particular the head wrap at line 514 and the fill increment   *)
(* at line 530 keep both indices inside the array.                         *)
LEMMA TypeOKInductive == TypeOK /\ [Next]_vars => TypeOK'
<1> SUFFICES ASSUME TypeOK, [Next]_vars PROVE TypeOK'
  OBVIOUS
<1>1. CASE \E b \in Blocks : Free(b)
  <2> PICK b \in Blocks : Free(b)
    BY <1>1
  <2>1. [addr |-> b.rb, heap |-> b.heap] \in Entry
    BY BlockFacts DEF Entry
  <2>2. FreeNode(b, alloc_size[b]) \in Node
    BY FreeNodeType DEF TypeOK
  <2>3. delay_free_tree' \subseteq Node
    <3>1. RbInsert(delay_free_tree, FreeNode(b, alloc_size[b])) \subseteq Node
      BY <2>2 DEF TypeOK, RbInsert
    <3> QED
      BY <3>1 DEF Free, TreeRemove
  <2>4. alloc_state' \in [Blocks -> {"live", "delayed", "free"}]
    BY DEF Free, TypeOK
  <2>5. CASE DELAY_FREE_FULL
    <3>1. delay_free_head \in Slots /\ delay_free_fill = DelayFrees
      BY <2>5 DEF TypeOK, DELAY_FREE_FULL
    <3>2. NextHead \in Slots
      BY <3>1, DelayFreesAssumption DEF NextHead, Slots
    <3>3. delay_free_list' \in [Slots -> Entry]
      BY <2>1, <2>5, <3>1 DEF Free, TypeOK
    <3>4. delay_free_head' \in Slots /\ delay_free_fill' = delay_free_fill
      BY <2>5, <3>2 DEF Free
    <3> QED
      BY <2>3, <2>4, <3>1, <3>3, <3>4 DEF Free, TypeOK
  <2>6. CASE ~DELAY_FREE_FULL
    <3>1. delay_free_fill \in Slots
      BY <2>6, DelayFreesAssumption DEF TypeOK, DELAY_FREE_FULL, Slots
    <3>2. delay_free_list' \in [Slots -> Entry]
      BY <2>1, <2>6, <3>1 DEF Free, TypeOK
    <3>3. delay_free_fill' \in 0 .. DelayFrees /\ delay_free_head' = delay_free_head
      BY <2>6, <3>1, DelayFreesAssumption DEF Free, Slots
    <3> QED
      BY <2>3, <2>4, <3>2, <3>3 DEF Free, TypeOK
  <2> QED
    BY <2>5, <2>6
<1>2. CASE \E b \in Blocks : \E sz \in 1 .. b.cap : Malloc(b, sz)
  BY <1>2 DEF Malloc, TypeOK
<1>3. CASE \E h \in Heaps : HeapCreate(h)
  BY <1>3 DEF HeapCreate, TypeOK
<1>4. CASE \E h \in Heaps : HeapDestroy(h)
  <2> PICK h \in Heaps : HeapDestroy(h)
    BY <1>4
  <2>1. delay_free_list' \in [Slots -> Entry]
    BY DEF HeapDestroy, TypeOK, Entry, NULL
  <2> QED
    BY <2>1 DEF HeapDestroy, TypeOK
<1>5. CASE UNCHANGED vars
  BY <1>5 DEF vars, TypeOK
<1> QED
  BY <1>1, <1>2, <1>3, <1>4, <1>5 DEF Next

(* alloc_drmem_init sets the globals within their types.                  *)
LEMMA InitTypeOK == Init => TypeOK
<1> SUFFICES ASSUME Init PROVE TypeOK
  OBVIOUS
<1>1. delay_free_list \in [Slots -> Entry]
  BY DEF Init, Entry, NULL
<1>2. delay_free_head \in Slots /\ delay_free_fill \in 0 .. DelayFrees
  BY DelayFreesAssumption DEF Init, Slots
<1> QED
  BY <1>1, <1>2 DEF Init, TypeOK

(* The type invariant of the quarantine holds in every reachable state.    *)
THEOREM TypeCorrect == Spec => []TypeOK
BY InitTypeOK, TypeOKInductive, PTL DEF Spec

-----------------------------------------------------------------------------
(* The quarantine invariants.                                              *)

(* The slots below fill lie in the array.                                  *)
LEMMA InUseSlots == TypeOK => InUse \subseteq Slots
BY DelayFreesAssumption DEF TypeOK, InUse, Slots

(* The initial globals of alloc_drmem_init satisfy the strengthening.      *)
LEMMA InitIInv == Init => IInv
<1> SUFFICES ASSUME Init PROVE IInv
  OBVIOUS
<1>1. TypeOK
  BY InitTypeOK
<1>2. InUse = {} /\ Delayed = {}
  BY DEF Init, InUse, Delayed
<1> QED
  BY <1>1, <1>2 DEF IInv, SlotsNameDelayed, SlotsDistinct, DelayedHaveSlot,
                    TreeIsDelayed, SizesInCap, Init

(* The strengthening gives the two invariants the runs check.              *)
LEMMA IInvProperties == IInv => TreeMirrorsList /\ QuarantineExact
<1> SUFFICES ASSUME IInv PROVE TreeMirrorsList /\ QuarantineExact
  OBVIOUS
<1>1. {m.base : m \in delay_free_tree} = {b.rb : b \in Delayed}
  <2>1. \A m \in delay_free_tree : \E b \in Delayed : m.base = b.rb
    BY DEF IInv, TreeIsDelayed, FreeNode
  <2>2. \A b \in Delayed : \E m \in delay_free_tree : m.base = b.rb
    <3> TAKE b \in Delayed
    <3>1. FreeNode(b, alloc_size[b]) \in delay_free_tree
      BY DEF IInv, TreeIsDelayed
    <3> QED
      BY <3>1 DEF FreeNode
  <2> QED
    BY <2>1, <2>2
<1>2. \A b \in Delayed : b.rb \in ListAddrs
  BY BlockFacts DEF IInv, DelayedHaveSlot, ListAddrs, Delayed, NULL
<1>3. \A a \in ListAddrs : \E b \in Delayed : b.rb = a
  BY DEF IInv, SlotsNameDelayed, ListAddrs
<1>4. TreeMirrorsList
  BY <1>1, <1>2, <1>3 DEF TreeMirrorsList
<1>5. QuarantineExact
  <2>1. \A b \in Blocks : b.rb \in ListAddrs => b \in Delayed
    BY <1>3, RbUnique DEF Delayed
  <2> QED
    BY <1>2, <2>1 DEF QuarantineExact, Delayed
<1> QED
  BY <1>4, <1>5

(* The allocator handing out a free chunk leaves the quarantine alone.     *)
LEMMA MallocIInv ==
  ASSUME IInv, NEW b \in Blocks, NEW sz \in 1 .. b.cap, Malloc(b, sz)
  PROVE  IInv'
<1>1. TypeOK'
  BY TypeOKInductive DEF IInv, Next
<1>2. Delayed' = Delayed
  BY DEF Malloc, Delayed, IInv, TypeOK
<1>3. \A c \in Delayed : alloc_size'[c] = alloc_size[c]
  BY DEF Malloc, Delayed, IInv, TypeOK
<1>4. InUse' = InUse /\ UNCHANGED <<delay_free_list, delay_free_tree>>
  BY DEF Malloc, InUse
<1>5. TreeIsDelayed'
  BY <1>2, <1>3, <1>4 DEF IInv, TreeIsDelayed
<1>6. SizesInCap'
  BY DEF Malloc, IInv, TypeOK, SizesInCap
<1> QED
  BY <1>1, <1>2, <1>4, <1>5, <1>6
  DEF IInv, SlotsNameDelayed, SlotsDistinct, DelayedHaveSlot

(* A heap handle coming back into use changes none of the quarantine.     *)
LEMMA HeapCreateIInv ==
  ASSUME IInv, NEW h \in Heaps, HeapCreate(h)
  PROVE  IInv'
<1>1. TypeOK'
  BY TypeOKInductive DEF IInv, Next
<1> QED
  BY <1>1 DEF HeapCreate, IInv, SlotsNameDelayed, SlotsDistinct, DelayedHaveSlot,
             TreeIsDelayed, SizesInCap, Delayed, InUse

(* What every free of a live chunk b can rely on: b is not quarantined,    *)
(* its size is within its capacity, no slot in use names it, and its node  *)
(* overlaps none in the tree, so rb_insert (line 494) adds it.             *)
LEMMA FreeFacts ==
  ASSUME IInv, NEW b \in Blocks, alloc_state[b] = "live"
  PROVE  /\ b \notin Delayed
         /\ alloc_size[b] \in 1 .. b.cap
         /\ \A i \in InUse : delay_free_list[i].addr # b.rb
         /\ RbInsert(delay_free_tree, FreeNode(b, alloc_size[b]))
              = delay_free_tree \cup {FreeNode(b, alloc_size[b])}
<1>1. b \notin Delayed
  BY DEF Delayed
<1>2. alloc_size[b] \in 1 .. b.cap
  BY DEF IInv, SizesInCap
<1>3. \A i \in InUse : delay_free_list[i].addr # b.rb
  <2> SUFFICES ASSUME NEW i \in InUse, delay_free_list[i].addr = b.rb PROVE FALSE
    OBVIOUS
  <2>1. delay_free_list[i].addr # NULL
    BY BlockFacts DEF NULL
  <2>2. PICK c \in Delayed : c.rb = b.rb
    BY <2>1 DEF IInv, SlotsNameDelayed
  <2>3. c = b
    BY <2>2, RbUnique DEF Delayed
  <2> QED
    BY <1>1, <2>2, <2>3
<1>4. \A m \in delay_free_tree :
        NodeRange(m) \cap NodeRange(FreeNode(b, alloc_size[b])) = {}
  <2> TAKE m \in delay_free_tree
  <2>1. PICK c \in Delayed : m = FreeNode(c, alloc_size[c])
    BY DEF IInv, TreeIsDelayed
  <2>2. c \in Blocks /\ c # b /\ alloc_size[c] \in 1 .. c.cap
    BY <1>1, <2>1 DEF Delayed, IInv, SizesInCap
  <2> QED
    BY <1>2, <2>1, <2>2, NodesDisjoint
<1> QED
  BY <1>1, <1>2, <1>3, <1>4 DEF RbInsert

(* A free while the FIFO is filling (lines 516-536) stores the chunk in    *)
(* slot fill, adds its node and frees nothing.                             *)
LEMMA FreeFillingIInv ==
  ASSUME IInv, NEW b \in Blocks, Free(b), ~DELAY_FREE_FULL
  PROVE  IInv'
<1> DEFINE nb == FreeNode(b, alloc_size[b])
<1>1. TypeOK'
  BY TypeOKInductive DEF IInv, Next
<1>2. /\ b \notin Delayed
      /\ alloc_size[b] \in 1 .. b.cap
      /\ \A i \in InUse : delay_free_list[i].addr # b.rb
      /\ RbInsert(delay_free_tree, nb) = delay_free_tree \cup {nb}
  BY FreeFacts DEF Free
<1>3. delay_free_fill \in Slots
  BY DelayFreesAssumption DEF IInv, TypeOK, DELAY_FREE_FULL, Slots
<1>4. /\ InUse' = InUse \cup {delay_free_fill}
      /\ delay_free_fill \notin InUse
      /\ \A i \in InUse : delay_free_list'[i] = delay_free_list[i]
      /\ delay_free_list'[delay_free_fill] = [addr |-> b.rb, heap |-> b.heap]
  <2>1. delay_free_list' = [delay_free_list EXCEPT ![delay_free_fill] =
                              [addr |-> b.rb, heap |-> b.heap]]
        /\ delay_free_fill' = delay_free_fill + 1
    BY DEF Free
  <2>2. InUse \subseteq Slots
    BY InUseSlots DEF IInv
  <2> QED
    BY <1>3, <2>1, <2>2 DEF InUse, IInv, TypeOK, Slots
<1>5. Delayed' = Delayed \cup {b}
  BY DEF Free, Delayed, DELAY_FREE_FULL
<1>6. delay_free_tree' = delay_free_tree \cup {nb} /\ alloc_size' = alloc_size
  BY <1>2 DEF Free
<1>7. SlotsNameDelayed'
  BY <1>4, <1>5 DEF IInv, SlotsNameDelayed
<1>8. SlotsDistinct'
  BY <1>2, <1>4 DEF IInv, SlotsDistinct
<1>9. DelayedHaveSlot'
  BY <1>4, <1>5 DEF IInv, DelayedHaveSlot
<1>10. TreeIsDelayed'
  BY <1>5, <1>6 DEF IInv, TreeIsDelayed
<1>11. SizesInCap'
  BY <1>2, <1>6 DEF Free, IInv, SizesInCap
<1> QED
  BY <1>1, <1>7, <1>8, <1>9, <1>10, <1>11 DEF IInv

(* The facts both full-FIFO cases share (lines 495-515): the chunk         *)
(* overwrites the head slot, and every other slot is unchanged.            *)
LEMMA FreeFullFacts ==
  ASSUME IInv, NEW b \in Blocks, Free(b), DELAY_FREE_FULL
  PROVE  /\ InUse' = InUse
         /\ InUse = Slots
         /\ delay_free_head \in InUse
         /\ \A i \in InUse \ {delay_free_head} : delay_free_list'[i] = delay_free_list[i]
         /\ delay_free_list'[delay_free_head] = [addr |-> b.rb, heap |-> b.heap]
<1>1. delay_free_list' = [delay_free_list EXCEPT ![delay_free_head] =
                            [addr |-> b.rb, heap |-> b.heap]]
      /\ delay_free_fill' = delay_free_fill
  BY DEF Free
<1>2. InUse = Slots /\ delay_free_head \in Slots
  BY DEF IInv, TypeOK, DELAY_FREE_FULL, InUse, Slots
<1> QED
  BY <1>1, <1>2 DEF InUse, IInv, TypeOK

(* A free over an invalidated head slot (a chunk of a destroyed heap)      *)
(* passes NULL to free(): nothing leaves the quarantine.                   *)
LEMMA FreeFullNullIInv ==
  ASSUME IInv, NEW b \in Blocks, Free(b), DELAY_FREE_FULL,
         delay_free_list[delay_free_head].addr = NULL
  PROVE  IInv'
<1> DEFINE nb == FreeNode(b, alloc_size[b])
<1>1. TypeOK'
  BY TypeOKInductive DEF IInv, Next
<1>2. /\ b \notin Delayed
      /\ alloc_size[b] \in 1 .. b.cap
      /\ \A i \in InUse : delay_free_list[i].addr # b.rb
      /\ RbInsert(delay_free_tree, nb) = delay_free_tree \cup {nb}
  BY FreeFacts DEF Free
<1>3. /\ InUse' = InUse
      /\ delay_free_head \in InUse
      /\ \A i \in InUse \ {delay_free_head} : delay_free_list'[i] = delay_free_list[i]
      /\ delay_free_list'[delay_free_head] = [addr |-> b.rb, heap |-> b.heap]
  BY FreeFullFacts
<1>4. Delayed' = Delayed \cup {b}
  BY DEF Free, Delayed
<1>5. delay_free_tree' = delay_free_tree \cup {nb} /\ alloc_size' = alloc_size
  BY <1>2 DEF Free
<1>6. SlotsNameDelayed'
  BY <1>3, <1>4 DEF IInv, SlotsNameDelayed
<1>7. SlotsDistinct'
  BY <1>2, <1>3 DEF IInv, SlotsDistinct
<1>8. DelayedHaveSlot'
  <2> SUFFICES ASSUME NEW c \in Delayed PROVE \E i \in InUse' : delay_free_list'[i].addr = c.rb
    BY <1>3, <1>4 DEF DelayedHaveSlot
  <2>1. PICK i \in InUse : delay_free_list[i].addr = c.rb
    BY DEF IInv, DelayedHaveSlot
  <2>2. i # delay_free_head
    BY <2>1, BlockFacts DEF Delayed, NULL
  <2> QED
    BY <1>3, <2>1, <2>2
<1>9. TreeIsDelayed'
  BY <1>4, <1>5 DEF IInv, TreeIsDelayed
<1>10. SizesInCap'
  BY <1>2, <1>5 DEF Free, IInv, SizesInCap
<1> QED
  BY <1>1, <1>6, <1>7, <1>8, <1>9, <1>10 DEF IInv

(* A free into a full FIFO whose head slot names chunk c (lines 495-515,   *)
(* 537-543): c's node leaves the tree and c goes back to the allocator,    *)
(* while b takes its slot.                                                 *)
LEMMA FreeEvictIInv ==
  ASSUME IInv, NEW b \in Blocks, Free(b), DELAY_FREE_FULL,
         delay_free_list[delay_free_head].addr # NULL
  PROVE  IInv'
<1> DEFINE nb == FreeNode(b, alloc_size[b])
           pass == delay_free_list[delay_free_head].addr
<1>1. TypeOK'
  BY TypeOKInductive DEF IInv, Next
<1>2. /\ b \notin Delayed
      /\ alloc_size[b] \in 1 .. b.cap
      /\ \A i \in InUse : delay_free_list[i].addr # b.rb
      /\ RbInsert(delay_free_tree, nb) = delay_free_tree \cup {nb}
  BY FreeFacts DEF Free
<1>3. /\ InUse' = InUse
      /\ delay_free_head \in InUse
      /\ \A i \in InUse \ {delay_free_head} : delay_free_list'[i] = delay_free_list[i]
      /\ delay_free_list'[delay_free_head] = [addr |-> b.rb, heap |-> b.heap]
  BY FreeFullFacts
<1>4. PICK c \in Delayed : c.rb = pass
  BY <1>3 DEF IInv, SlotsNameDelayed
<1>5. c \in Blocks /\ c # b /\ \A x \in Blocks : x.rb = pass <=> x = c
  BY <1>2, <1>4, RbUnique DEF Delayed
<1>6. Delayed' = (Delayed \ {c}) \cup {b}
  BY <1>5 DEF Free, Delayed
<1>7. alloc_size' = alloc_size
  BY DEF Free
<1>8. delay_free_tree' = {m \in delay_free_tree \cup {nb} : m.base # pass}
  BY <1>2 DEF Free, TreeRemove, RbFind
<1>9. \A i \in InUse \ {delay_free_head} : delay_free_list[i].addr # pass
  BY <1>3 DEF IInv, SlotsDistinct
<1>10. SlotsNameDelayed'
  <2> SUFFICES ASSUME NEW i \in InUse', delay_free_list'[i].addr # NULL
               PROVE \E x \in Delayed' : /\ x.rb = delay_free_list'[i].addr
                                         /\ x.heap = delay_free_list'[i].heap
    BY DEF SlotsNameDelayed
  <2>1. CASE i = delay_free_head
    BY <1>3, <1>6, <2>1
  <2>2. CASE i # delay_free_head
    <3>1. PICK x \in Delayed : /\ x.rb = delay_free_list[i].addr
                               /\ x.heap = delay_free_list[i].heap
      BY <1>3, <2>2 DEF IInv, SlotsNameDelayed
    <3>2. x # c
      BY <1>3, <1>4, <1>9, <2>2, <3>1
    <3> QED
      BY <1>3, <1>6, <2>2, <3>1, <3>2
  <2> QED
    BY <2>1, <2>2
<1>11. SlotsDistinct'
  BY <1>2, <1>3 DEF IInv, SlotsDistinct
<1>12. DelayedHaveSlot'
  <2> SUFFICES ASSUME NEW x \in Delayed' PROVE \E i \in InUse' : delay_free_list'[i].addr = x.rb
    BY DEF DelayedHaveSlot
  <2>1. CASE x = b
    BY <1>3, <2>1
  <2>2. CASE x # b
    <3>1. x \in Delayed /\ x # c
      BY <1>6, <2>2
    <3>2. PICK i \in InUse : delay_free_list[i].addr = x.rb
      BY <3>1 DEF IInv, DelayedHaveSlot
    <3>3. i # delay_free_head
      BY <1>5, <3>1, <3>2 DEF Delayed
    <3> QED
      BY <1>3, <3>2, <3>3
  <2> QED
    BY <2>1, <2>2
<1>13. TreeIsDelayed'
  <2>1. \A x \in Delayed \cup {b} : FreeNode(x, alloc_size[x]).base # pass <=> x # c
    BY <1>5 DEF FreeNode, Delayed
  <2>2. delay_free_tree \cup {nb} = {FreeNode(x, alloc_size[x]) : x \in Delayed \cup {b}}
    BY DEF IInv, TreeIsDelayed
  <2>3. {m \in delay_free_tree \cup {nb} : m.base # pass}
          = {FreeNode(x, alloc_size[x]) : x \in (Delayed \ {c}) \cup {b}}
    <3>1. \A m \in delay_free_tree \cup {nb} : m.base # pass =>
            \E x \in (Delayed \ {c}) \cup {b} : m = FreeNode(x, alloc_size[x])
      <4> SUFFICES ASSUME NEW m \in delay_free_tree \cup {nb}, m.base # pass
                   PROVE \E x \in (Delayed \ {c}) \cup {b} : m = FreeNode(x, alloc_size[x])
        OBVIOUS
      <4>1. PICK x \in Delayed \cup {b} : m = FreeNode(x, alloc_size[x])
        BY <2>2
      <4>2. x # c
        BY <2>1, <4>1
      <4> QED
        BY <4>1, <4>2
    <3>2. \A x \in (Delayed \ {c}) \cup {b} :
            /\ FreeNode(x, alloc_size[x]) \in delay_free_tree \cup {nb}
            /\ FreeNode(x, alloc_size[x]).base # pass
      <4> TAKE x \in (Delayed \ {c}) \cup {b}
      <4>1. x \in Delayed \cup {b} /\ x # c
        BY <1>5
      <4>2. FreeNode(x, alloc_size[x]) \in delay_free_tree \cup {nb}
        BY <4>1, <2>2
      <4>3. FreeNode(x, alloc_size[x]).base # pass
        BY <4>1, <2>1
      <4> QED
        BY <4>2, <4>3
    <3> QED
      BY <3>1, <3>2
  <2> QED
    BY <1>6, <1>7, <1>8, <2>3 DEF TreeIsDelayed
<1>14. SizesInCap'
  BY <1>2, <1>5, <1>7 DEF Free, IInv, SizesInCap
<1> QED
  BY <1>1, <1>10, <1>11, <1>12, <1>13, <1>14 DEF IInv

(* The heap-destroy sweep (lines 557-568) on a state satisfying the        *)
(* strengthening: a slot in use names a chunk of heap h exactly when the   *)
(* sweep hits it, so the sweep removes exactly the nodes of h's chunks.    *)
LEMMA HeapDestroyIInv ==
  ASSUME IInv, NEW h \in Heaps, HeapDestroy(h)
  PROVE  IInv'
<1> DEFINE hit == DestroyedSlots(h)
<1>1. TypeOK'
  BY TypeOKInductive DEF IInv, Next
<1>2. Delayed' = {x \in Delayed : x.heap # h}
  BY DEF HeapDestroy, Delayed, IInv, TypeOK
<1>3. /\ InUse' = InUse
      /\ hit \subseteq InUse
      /\ \A i \in InUse : delay_free_list'[i] =
            IF i \in hit THEN [delay_free_list[i] EXCEPT !.addr = NULL]
                         ELSE delay_free_list[i]
  <2>1. InUse \subseteq Slots
    BY InUseSlots DEF IInv
  <2> QED
    BY <2>1 DEF HeapDestroy, InUse, DestroyedSlots
<1>11. \A i \in InUse : /\ delay_free_list'[i].addr =
                            IF i \in hit THEN NULL ELSE delay_free_list[i].addr
                       /\ delay_free_list'[i].heap = delay_free_list[i].heap
  <2> TAKE i \in InUse
  <2>1. delay_free_list[i] \in Entry
    BY InUseSlots DEF IInv, TypeOK
  <2> QED
    BY <1>3, <2>1 DEF Entry
<1>4. \A i \in InUse, x \in Delayed :
        delay_free_list[i].addr = x.rb => (i \in hit <=> x.heap = h)
  <2> SUFFICES ASSUME NEW i \in InUse, NEW x \in Delayed, delay_free_list[i].addr = x.rb
               PROVE i \in hit <=> x.heap = h
    OBVIOUS
  <2>1. PICK y \in Delayed : y.rb = delay_free_list[i].addr
                            /\ y.heap = delay_free_list[i].heap
    BY BlockFacts DEF IInv, SlotsNameDelayed, Delayed, NULL
  <2>2. y = x
    BY <2>1, RbUnique DEF Delayed
  <2> QED
    BY <2>1, <2>2 DEF DestroyedSlots, InUse
<1>5. alloc_size' = alloc_size
  BY DEF HeapDestroy
<1>6. SlotsNameDelayed'
  <2> SUFFICES ASSUME NEW i \in InUse', delay_free_list'[i].addr # NULL
               PROVE \E x \in Delayed' : /\ x.rb = delay_free_list'[i].addr
                                         /\ x.heap = delay_free_list'[i].heap
    BY DEF SlotsNameDelayed
  <2>1. i \notin hit /\ delay_free_list'[i] = delay_free_list[i]
    BY <1>3, <1>11
  <2>2. PICK x \in Delayed : /\ x.rb = delay_free_list[i].addr
                             /\ x.heap = delay_free_list[i].heap
    BY <1>3, <2>1 DEF IInv, SlotsNameDelayed
  <2> QED
    BY <1>2, <1>3, <1>4, <2>1, <2>2
<1>7. SlotsDistinct'
  BY <1>3, <1>11 DEF IInv, SlotsDistinct
<1>8. DelayedHaveSlot'
  <2> SUFFICES ASSUME NEW x \in Delayed' PROVE \E i \in InUse' : delay_free_list'[i].addr = x.rb
    BY DEF DelayedHaveSlot
  <2>1. x \in Delayed /\ x.heap # h
    BY <1>2
  <2>2. PICK i \in InUse : delay_free_list[i].addr = x.rb
    BY <2>1 DEF IInv, DelayedHaveSlot
  <2> QED
    BY <1>3, <1>4, <2>1, <2>2
<1>9. TreeIsDelayed'
  <2>1. delay_free_tree' =
          {m \in delay_free_tree : \A i \in hit : m.base # delay_free_list[i].addr}
    BY DEF HeapDestroy
  <2>2. \A x \in Delayed :
          (\A i \in hit : x.rb # delay_free_list[i].addr) <=> x.heap # h
    <3> SUFFICES ASSUME NEW x \in Delayed
                 PROVE (\A i \in hit : x.rb # delay_free_list[i].addr) <=> x.heap # h
      OBVIOUS
    <3>1. PICK j \in InUse : delay_free_list[j].addr = x.rb
      BY DEF IInv, DelayedHaveSlot
    <3> QED
      BY <1>3, <1>4, <3>1
  <2>3. \A x \in Delayed : FreeNode(x, alloc_size[x]).base = x.rb
    BY DEF FreeNode
  <2> QED
    BY <1>2, <1>5, <2>1, <2>2, <2>3 DEF IInv, TreeIsDelayed
<1>10. SizesInCap'
  BY <1>5 DEF HeapDestroy, IInv, SizesInCap
<1> QED
  BY <1>1, <1>6, <1>7, <1>8, <1>9, <1>10 DEF IInv

(* Every step of the quarantine code, and every step of the allocator and  *)
(* the application around it, preserves the strengthening.                 *)
LEMMA IInvInductive == IInv /\ [Next]_vars => IInv'
<1> SUFFICES ASSUME IInv, [Next]_vars PROVE IInv'
  OBVIOUS
<1>1. ASSUME NEW b \in Blocks, Free(b) PROVE IInv'
  <2>1. CASE ~DELAY_FREE_FULL
    BY <1>1, <2>1, FreeFillingIInv
  <2>2. CASE DELAY_FREE_FULL /\ delay_free_list[delay_free_head].addr = NULL
    BY <1>1, <2>2, FreeFullNullIInv
  <2>3. CASE DELAY_FREE_FULL /\ delay_free_list[delay_free_head].addr # NULL
    BY <1>1, <2>3, FreeEvictIInv
  <2> QED
    BY <2>1, <2>2, <2>3
<1>2. CASE UNCHANGED vars
  BY <1>2 DEF vars, IInv, TypeOK, SlotsNameDelayed, SlotsDistinct, DelayedHaveSlot,
              TreeIsDelayed, SizesInCap, Delayed, InUse
<1> QED
  BY <1>1, <1>2, MallocIInv, HeapCreateIInv, HeapDestroyIInv DEF Next

(* The strengthening holds in every reachable state.                       *)
THEOREM IInvHolds == Spec => []IInv
BY InitIInv, IInvInductive, PTL DEF Spec

(* delay_free_tree mirrors the FIFO array in every reachable state, for    *)
(* every capacity and redzone size: the rb_find of an eviction (line 538)  *)
(* or of a heap destroy (line 560) on a valid slot always finds its node.  *)
THEOREM TreeMirrorsListHolds == Spec => []TreeMirrorsList
BY IInvHolds, IInvProperties, PTL

(* The chunks client_handle_free keeps from the allocator are exactly the  *)
(* ones its slots in use name, in every reachable state: no chunk is       *)
(* passed to free() twice and none is kept forever.                        *)
THEOREM QuarantineExactHolds == Spec => []QuarantineExact
BY IInvHolds, IInvProperties, PTL

-----------------------------------------------------------------------------
(* The refinement of the FIFO of spec 4.5 (module DelayFreeFIFO) by the    *)
(* circular array: Queue reads the slots in use from delay_free_head.      *)

(* What the refinement needs: the types, and the head at slot 0 until the  *)
(* array first fills.                                                      *)
RInv == TypeOK /\ HeadAtZeroUntilFull

(* Any index taken modulo delay_frees is a slot of the array.             *)
LEMMA ModSlot ==
  ASSUME NEW x \in Int
  PROVE  x % DelayFrees \in Slots
BY DelayFreesAssumption DEF Slots

LEMMA InitRInv == Init => RInv
BY InitTypeOK, DelayFreesAssumption DEF Init, RInv, HeadAtZeroUntilFull

(* Only a free on a full array moves the head, and fill never decreases.  *)
LEMMA RInvInductive == RInv /\ [Next]_vars => RInv'
<1> SUFFICES ASSUME RInv, [Next]_vars PROVE RInv'
  OBVIOUS
<1>1. TypeOK'
  BY TypeOKInductive DEF RInv
<1>2. ASSUME NEW b \in Blocks, Free(b) PROVE HeadAtZeroUntilFull'
  <2>1. CASE DELAY_FREE_FULL
    <3>1. delay_free_fill' = delay_free_fill
      BY <1>2, <2>1 DEF Free
    <3> QED
      BY <2>1, <3>1, DelayFreesAssumption DEF DELAY_FREE_FULL, HeadAtZeroUntilFull
  <2>2. CASE ~DELAY_FREE_FULL
    <3>1. delay_free_head' = delay_free_head
      BY <1>2, <2>2 DEF Free
    <3>2. delay_free_head = 0
      BY <2>2, DelayFreesAssumption DEF RInv, TypeOK, DELAY_FREE_FULL, HeadAtZeroUntilFull
    <3> QED
      BY <3>1, <3>2 DEF HeadAtZeroUntilFull
  <2> QED
    BY <2>1, <2>2
<1>3. CASE UNCHANGED <<delay_free_head, delay_free_fill>>
  BY <1>1, <1>3 DEF RInv, HeadAtZeroUntilFull
<1> QED
  BY <1>1, <1>2, <1>3 DEF Next, Malloc, HeapCreate, HeapDestroy, vars, RInv

(* The k-th oldest entry is in a slot in use.                              *)
LEMMA QueueSlots ==
  ASSUME RInv, NEW k \in 1 .. delay_free_fill
  PROVE  (delay_free_head + k - 1) % DelayFrees \in InUse
<1>1. CASE delay_free_fill = DelayFrees
  BY <1>1, DelayFreesAssumption DEF RInv, TypeOK, InUse, Slots
<1>2. CASE delay_free_fill # DelayFrees
  BY <1>2, DelayFreesAssumption DEF RInv, TypeOK, HeadAtZeroUntilFull, InUse
<1> QED
  BY <1>1, <1>2

(* Queue is a sequence of entries, as long as the fill.                    *)
LEMMA QueueType ==
  ASSUME RInv
  PROVE  /\ Queue \in Seq(Entry)
         /\ Len(Queue) = delay_free_fill
<1>1. \A k \in 1 .. delay_free_fill : Queue[k] \in Entry
  BY QueueSlots, InUseSlots DEF RInv, TypeOK, Queue
<1>2. Queue \in [1 .. delay_free_fill -> Entry]
  BY <1>1 DEF Queue
<1>3. delay_free_fill \in Nat
  BY DEF RInv, TypeOK
<1> QED
  BY <1>2, <1>3, SeqDef


(* The allocator's steps leave the array alone, so the FIFO takes the same *)
(* step.                                                                   *)
LEMMA MallocRefines ==
  ASSUME NEW b \in Blocks, NEW sz \in 1 .. b.cap, Malloc(b, sz)
  PROVE  FIFO!Malloc(b, sz)
BY DEF Malloc, FIFO!Malloc, Queue

LEMMA HeapCreateRefines ==
  ASSUME NEW h \in Heaps, HeapCreate(h)
  PROVE  FIFO!HeapCreate(h)
BY DEF HeapCreate, FIFO!HeapCreate, Queue

(* A heap destroy voids, in place, exactly the entries of the FIFO that    *)
(* name heap h: the sweep over the slots below fill meets every slot in    *)
(* use, wherever the head is.                                              *)
LEMMA HeapDestroyRefines ==
  ASSUME RInv, NEW h \in Heaps, HeapDestroy(h)
  PROVE  FIFO!HeapDestroy(h)
<1> DEFINE Slot(k) == (delay_free_head + k - 1) % DelayFrees
<1>1. DOMAIN Queue = 1 .. delay_free_fill
  BY DEF Queue
<1>2. ASSUME NEW k \in 1 .. delay_free_fill
      PROVE  Queue'[k] = IF Queue[k].heap = h
                         THEN [Queue[k] EXCEPT !.addr = FIFO!NULL] ELSE Queue[k]
  <2>1. Slot(k) \in InUse /\ Slot(k) \in Slots
    BY QueueSlots, InUseSlots DEF RInv
  <2>2. Queue'[k] = delay_free_list'[Slot(k)] /\ Queue[k] = delay_free_list[Slot(k)]
    BY DEF HeapDestroy, Queue
  <2>3. Slot(k) \in DestroyedSlots(h) <=> delay_free_list[Slot(k)].heap = h
    BY <2>1 DEF DestroyedSlots, InUse
  <2> QED
    BY <2>1, <2>2, <2>3 DEF HeapDestroy, NULL, FIFO!NULL
<1>3. Queue' = [k \in DOMAIN Queue |->
                  IF Queue[k].heap = h THEN [Queue[k] EXCEPT !.addr = FIFO!NULL]
                  ELSE Queue[k]]
  BY <1>1, <1>2 DEF HeapDestroy, Queue
<1> QED
  BY <1>3 DEF HeapDestroy, FIFO!HeapDestroy


(* What a free leaves of the array, in both branches: the entry e stored   *)
(* at the slot written, and the pointer passed to the real free() is the   *)
(* address of the FIFO's oldest entry when it is full.                     *)
LEMMA FreeQueueFacts ==
  ASSUME RInv, NEW b \in Blocks, Free(b)
  PROVE  /\ RInv'
         /\ Queue \in Seq(Entry) /\ Len(Queue) = delay_free_fill
         /\ Queue' \in Seq(Entry) /\ Len(Queue') = delay_free_fill'
         /\ [addr |-> b.rb, heap |-> b.heap] \in Entry
         /\ DELAY_FREE_FULL => Queue # << >> /\ Head(Queue) = delay_free_list[delay_free_head]
<1>1. RInv'
  BY RInvInductive DEF Next
<1>2. Queue \in Seq(Entry) /\ Len(Queue) = delay_free_fill
  BY QueueType
<1>3. Queue' \in Seq(Entry) /\ Len(Queue') = delay_free_fill'
  <2>0. \A k \in 1 .. delay_free_fill' : (delay_free_head' + k - 1) % DelayFrees \in Slots
    <3> SUFFICES ASSUME NEW k \in 1 .. delay_free_fill'
                 PROVE  (delay_free_head' + k - 1) % DelayFrees \in Slots
      OBVIOUS
    <3>1. delay_free_head' + k - 1 \in Int
      BY <1>1, DelayFreesAssumption DEF RInv, TypeOK, Slots
    <3> QED
      BY <3>1, ModSlot
  <2>1. Queue' \in [1 .. delay_free_fill' -> Entry]
    BY <1>1, <2>0 DEF RInv, TypeOK, Queue
  <2>2. delay_free_fill' \in Nat
    BY <1>1 DEF RInv, TypeOK
  <2> QED
    BY <2>1, <2>2, SeqDef
<1>4. ASSUME DELAY_FREE_FULL
      PROVE  Queue # << >> /\ Head(Queue) = delay_free_list[delay_free_head]
  <2>1. delay_free_fill = DelayFrees /\ delay_free_head \in Slots
    BY <1>4 DEF DELAY_FREE_FULL, RInv, TypeOK
  <2>2. Len(Queue) # 0
    BY <1>2, <2>1, DelayFreesAssumption
  <2>3. (delay_free_head + 1 - 1) % DelayFrees = delay_free_head
    BY <2>1, DelayFreesAssumption DEF Slots
  <2> QED
    BY <1>2, <2>1, <2>2, <2>3, DelayFreesAssumption DEF Queue
<1> QED
  BY <1>1, <1>2, <1>3, <1>4, BlockFacts DEF Entry

(* A free on a full array overwrites the head slot and advances the head:  *)
(* the FIFO drops its oldest entry and appends the new one.                *)
LEMMA FreeFullQueue ==
  ASSUME RInv, NEW b \in Blocks, Free(b), DELAY_FREE_FULL
  PROVE  Queue' = Append(Tail(Queue), [addr |-> b.rb, heap |-> b.heap])
<1> DEFINE e == [addr |-> b.rb, heap |-> b.heap]
           D == DelayFrees
           hd == delay_free_head
<1>1. D \in Nat \ {0} /\ hd \in 0 .. D - 1 /\ delay_free_fill = D
  BY DelayFreesAssumption DEF RInv, TypeOK, Slots, DELAY_FREE_FULL
<1>2. /\ delay_free_list' = [delay_free_list EXCEPT ![hd] = e]
      /\ delay_free_head' = NextHead
      /\ delay_free_fill' = D
  BY <1>1 DEF Free, DELAY_FREE_FULL
<1>3. delay_free_head' = IF hd + 1 = D THEN 0 ELSE hd + 1
  BY <1>1, <1>2 DEF NextHead
<1>4. /\ Queue \in Seq(Entry) /\ Len(Queue) = D
      /\ Queue' \in Seq(Entry) /\ Len(Queue') = D
      /\ e \in Entry /\ Queue # << >>
  BY <1>1, <1>2, FreeQueueFacts
<1>5. /\ Tail(Queue) \in Seq(Entry) /\ Len(Tail(Queue)) = D - 1
      /\ \A i \in 1 .. D - 1 : Tail(Queue)[i] = Queue[i + 1]
  BY <1>4, HeadTailProperties
<1>6. /\ Append(Tail(Queue), e) \in Seq(Entry)
      /\ Len(Append(Tail(Queue), e)) = D
      /\ \A i \in 1 .. D - 1 : Append(Tail(Queue), e)[i] = Queue[i + 1]
      /\ Append(Tail(Queue), e)[D] = e
  BY <1>1, <1>4, <1>5, AppendProperties
<1>7. ASSUME NEW i \in 1 .. D - 1 PROVE Queue'[i] = Queue[i + 1]
  <2>1. (delay_free_head' + i - 1) % D = (hd + (i + 1) - 1) % D
    <3>1. CASE hd + 1 = D
      BY <1>1, <1>3, <3>1
    <3>2. CASE hd + 1 # D
      BY <1>1, <1>3, <3>2
    <3> QED
      BY <3>1, <3>2
  <2>2. (hd + (i + 1) - 1) % D # hd /\ (hd + (i + 1) - 1) % D \in 0 .. D - 1
    BY <1>1
  <2> QED
    BY <1>1, <1>2, <2>1, <2>2 DEF Queue, RInv, TypeOK, Slots
<1>8. Queue'[D] = e
  <2>1. (delay_free_head' + D - 1) % D = hd
    <3>1. CASE hd + 1 = D
      BY <1>1, <1>3, <3>1
    <3>2. CASE hd + 1 # D
      BY <1>1, <1>3, <3>2
    <3> QED
      BY <3>1, <3>2
  <2> QED
    BY <1>1, <1>2, <2>1 DEF Queue, RInv, TypeOK, Slots
<1> QED
  <2>1. \A i \in 1 .. Len(Queue') : Queue'[i] = Append(Tail(Queue), e)[i]
    BY <1>1, <1>4, <1>6, <1>7, <1>8
  <2> QED
    BY <1>4, <1>6, <2>1, SeqEqual


(* A free before the array first fills writes slot fill, behind the        *)
(* entries in use, with the head at 0: the FIFO appends the new entry.     *)
LEMMA FreeFillingQueue ==
  ASSUME RInv, NEW b \in Blocks, Free(b), ~DELAY_FREE_FULL
  PROVE  Queue' = Append(Queue, [addr |-> b.rb, heap |-> b.heap])
<1> DEFINE e == [addr |-> b.rb, heap |-> b.heap]
           n == delay_free_fill
<1>1. DelayFrees \in Nat \ {0} /\ n \in 0 .. DelayFrees - 1 /\ delay_free_head = 0
  BY DelayFreesAssumption DEF RInv, TypeOK, DELAY_FREE_FULL, HeadAtZeroUntilFull
<1>2. /\ delay_free_list' = [delay_free_list EXCEPT ![n] = e]
      /\ delay_free_head' = 0
      /\ delay_free_fill' = n + 1
  BY <1>1 DEF Free
<1>3. /\ Queue \in Seq(Entry) /\ Len(Queue) = n
      /\ Queue' \in Seq(Entry) /\ Len(Queue') = n + 1
      /\ e \in Entry
  BY <1>2, FreeQueueFacts
<1>4. /\ Append(Queue, e) \in Seq(Entry)
      /\ Len(Append(Queue, e)) = n + 1
      /\ \A i \in 1 .. n : Append(Queue, e)[i] = Queue[i]
      /\ Append(Queue, e)[n + 1] = e
  BY <1>3, AppendProperties
<1>5. ASSUME NEW i \in 1 .. n + 1
      PROVE  /\ Queue'[i] = delay_free_list'[i - 1]
             /\ i <= n => Queue[i] = delay_free_list[i - 1]
  <2>1. (0 + i - 1) % DelayFrees = i - 1
    BY <1>1
  <2> QED
    BY <1>1, <1>2, <2>1 DEF Queue
<1>6. ASSUME NEW i \in 1 .. n + 1 PROVE Queue'[i] = Append(Queue, e)[i]
  <2>1. CASE i <= n
    <3>1. i - 1 \in Slots /\ i - 1 # n
      BY <1>1, <2>1 DEF Slots
    <3>2. delay_free_list'[i - 1] = delay_free_list[i - 1]
      BY <1>2, <3>1 DEF RInv, TypeOK
    <3>3. Queue'[i] = delay_free_list'[i - 1] /\ Queue[i] = delay_free_list[i - 1]
      BY <1>5, <2>1
    <3>4. Append(Queue, e)[i] = Queue[i]
      BY <1>4, <2>1
    <3> QED
      BY <3>2, <3>3, <3>4
  <2>2. CASE i = n + 1
    <3>1. delay_free_list'[n] = e
      BY <1>1, <1>2 DEF RInv, TypeOK, Slots
    <3>2. Queue'[i] = delay_free_list'[i - 1]
      BY <1>5
    <3>3. i - 1 = n
      BY <2>2, <1>1
    <3>4. Append(Queue, e)[i] = e
      BY <1>4, <2>2
    <3> QED
      BY <3>1, <3>2, <3>3, <3>4
  <2>3. i <= n \/ i = n + 1
    BY <1>1
  <2> QED
    BY <2>1, <2>2, <2>3
<1> QED
  BY <1>3, <1>4, <1>6, SeqEqual

(* The quarantine part of client_handle_free is the FIFO's free: the same  *)
(* entry appended, and, on a full FIFO, the chunk the oldest entry names   *)
(* passed to the real free().                                              *)
LEMMA FreeRefines ==
  ASSUME RInv, NEW b \in Blocks, Free(b)
  PROVE  FIFO!Free(b)
<1> DEFINE e == [addr |-> b.rb, heap |-> b.heap]
<1>1. /\ Len(Queue) = delay_free_fill
      /\ DELAY_FREE_FULL => Head(Queue) = delay_free_list[delay_free_head]
  BY FreeQueueFacts
<1>2. (Len(Queue) = DelayFrees) <=> DELAY_FREE_FULL
  BY <1>1 DEF DELAY_FREE_FULL
<1>3. Queue' = IF Len(Queue) = DelayFrees THEN Append(Tail(Queue), e)
                                          ELSE Append(Queue, e)
  BY <1>2, FreeFullQueue, FreeFillingQueue
<1>4. (IF Len(Queue) = DelayFrees THEN Head(Queue).addr ELSE FIFO!NULL)
        = (IF DELAY_FREE_FULL THEN delay_free_list[delay_free_head].addr ELSE NULL)
  BY <1>1, <1>2 DEF NULL, FIFO!NULL
<1> DEFINE pass == IF DELAY_FREE_FULL THEN delay_free_list[delay_free_head].addr ELSE NULL
<1>5. alloc_state' = [c \in Blocks |->
                       IF c = b THEN "delayed"
                       ELSE IF pass # NULL /\ c.rb = pass THEN "free"
                       ELSE alloc_state[c]]
  BY DEF Free
<1>6. alloc_state[b] = "live" /\ UNCHANGED <<alloc_size, heap_live>>
  BY DEF Free
<1> QED
  BY <1>3, <1>4, <1>5, <1>6 DEF FIFO!Free, NULL, FIFO!NULL

(* Every step of the quarantine, of the allocator and of the application   *)
(* is a step of the FIFO or leaves it unchanged.                           *)
LEMMA StepRefines == RInv /\ [Next]_vars => [FIFO!Next]_FIFO!vars
<1> SUFFICES ASSUME RInv, [Next]_vars PROVE [FIFO!Next]_FIFO!vars
  OBVIOUS
<1>1. CASE \E b \in Blocks : Free(b)
  BY <1>1, FreeRefines DEF FIFO!Next
<1>2. CASE \E b \in Blocks : \E sz \in 1 .. b.cap : Malloc(b, sz)
  BY <1>2, MallocRefines DEF FIFO!Next
<1>3. CASE \E h \in Heaps : HeapCreate(h)
  BY <1>3, HeapCreateRefines DEF FIFO!Next
<1>4. CASE \E h \in Heaps : HeapDestroy(h)
  BY <1>4, HeapDestroyRefines DEF FIFO!Next
<1>5. CASE UNCHANGED vars
  BY <1>5 DEF vars, FIFO!vars, Queue
<1> QED
  BY <1>1, <1>2, <1>3, <1>4, <1>5 DEF Next

(* The initial array is the empty FIFO.                                    *)
LEMMA InitRefines == Init => FIFO!Init
<1> SUFFICES ASSUME Init PROVE FIFO!Init
  OBVIOUS
<1>1. Queue = << >>
  <2>1. Queue \in Seq(Entry) /\ Len(Queue) = 0
    BY InitRInv, QueueType DEF Init
  <2> QED
    BY <2>1, EmptySeq, SeqEqual
<1> QED
  BY <1>1 DEF Init, FIFO!Init

(* The circular array delay_free_list, with delay_free_head and            *)
(* delay_free_fill, implements the FIFO of spec 4.5 for every capacity:    *)
(* every free appends its chunk and, once delay_frees are held, passes to  *)
(* the real free() exactly the oldest entry's chunk, and a heap destroy    *)
(* voids that heap's entries where they stand.                             *)
THEOREM FIFOSpecHolds == Spec => FIFOSpec
<1>1. Spec => []RInv
  BY InitRInv, RInvInductive, PTL DEF Spec
<1> QED
  BY <1>1, InitRefines, StepRefines, PTL DEF Spec, FIFOSpec, FIFO!Spec

=============================================================================
