------------------------------ MODULE MmapTree ------------------------------
(***************************************************************************)
(* The anonymous-mapping tracker mmap_tree (lines 186-254) and the Linux   *)
(* memory-map handlers that drive it together with the shadow             *)
(* (client_handle_mmap, client_handle_munmap, client_handle_munmap_fail,  *)
(* client_handle_mremap, lines 619-730).  Addresses are pages 0..Mem-1.    *)
(* Each system call and its handlers form one step: mmap_tree_lock         *)
(* serializes the tree, and the kernel's own order of the calls is the     *)
(* order of the steps.  mapped is the kernel's set of anonymous pages.     *)
(* File mappings go to mmap_walk, outside this repository: the model has   *)
(* none, and mmap_walk on a range with no tracked mapping changes nothing  *)
(* of the anonymous pages.                                                 *)
(***************************************************************************)
EXTENDS Shadow

CONSTANTS
  MemSize,        \* the number of pages
  MapFixed,       \* whether the application uses MAP_FIXED over existing maps
  MremapMayMove   \* whether the application lets mremap move a mapping

ASSUME MmapConstantsAssumption ==
  MemSize \in Nat \ {0} /\ MapFixed \in BOOLEAN /\ MremapMayMove \in BOOLEAN

Mem == 0 .. (MemSize - 1)

(* A range [base, base + size) inside the address space: a tree node or   *)
(* the range of a system call.                                             *)
Ranges == {r \in [base : Mem, size : 1 .. MemSize] : r.base + r.size <= MemSize}

Pages(r) == r.base .. (r.base + r.size - 1)

VARIABLES
  mapped,       \* the anonymous pages the kernel has mapped
  mmap_tree,    \* the interval tree: a set of Ranges
  mmap_assert,  \* TRUE once ASSERT(node != NULL, "mmap tree error") fired
  shadow        \* the shadow of each page

vars == <<mapped, mmap_tree, mmap_assert, shadow>>

-----------------------------------------------------------------------------
(* The nodes of t that rb_insert or rb_overlaps_node meets for [b, b+s).   *)
Overlapping(t, b, s) == {n \in t : n.base < b + s /\ b < n.base + n.size}

(* mmap_tree_add(base, size): the outcomes, one for each overlapping node  *)
(* rb_insert may return.  On overlap, that one node is deleted, the union  *)
(* of the two is inserted, and ASSERT(node != NULL) runs on the result.    *)
MmapTreeAdd(t, b, s) ==
  IF Overlapping(t, b, s) = {}
    THEN {[tree |-> t \cup {[base |-> b, size |-> s]}, fired |-> FALSE]}
    ELSE {LET t1 == t \ {n}
              mb == IF b < n.base THEN b ELSE n.base
              me == IF b + s > n.base + n.size THEN b + s ELSE n.base + n.size
              ok == Overlapping(t1, mb, me - mb) = {}
          IN [tree  |-> IF ok THEN t1 \cup {[base |-> mb, size |-> me - mb]} ELSE t1,
              fired |-> ok]
          : n \in Overlapping(t, b, s)}

(* Mutant: the removal loop handling only the first overlapping node.      *)
MmapTreeRemoveOnce(t, b, s) ==
  LET ov == IF Overlapping(t, b, s) = {} THEN {}
            ELSE {CHOOSE n \in Overlapping(t, b, s) : TRUE}
  IN [tree |-> (t \ ov)
               \cup {[base |-> n.base, size |-> b - n.base] : n \in {m \in ov : m.base < b}}
               \cup {[base |-> b + s, size |-> (n.base + n.size) - (b + s)] :
                       n \in {m \in ov : m.base + m.size > b + s}},
      res  |-> ov # {}]

(* Mutant: the residual after the removed range one page too long.         *)
MmapTreeRemoveLongTail(t, b, s) ==
  LET ov == Overlapping(t, b, s) IN
  [tree |-> (t \ ov)
            \cup {[base |-> n.base, size |-> b - n.base] : n \in {m \in ov : m.base < b}}
            \cup {[base |-> b + s, size |-> (n.base + n.size) - (b + s) + 1] :
                    n \in {m \in ov : m.base + m.size > b + s}},
   res  |-> ov # {}]

(* mmap_tree_remove(base, size): every overlapping node is deleted and its *)
(* parts below base and above base + size are re-inserted; the result     *)
(* says whether any node overlapped.                                       *)
MmapTreeRemove(t, b, s) ==
  LET ov == Overlapping(t, b, s) IN
  [tree |-> (t \ ov)
            \cup {[base |-> n.base, size |-> b - n.base] : n \in {m \in ov : m.base < b}}
            \cup {[base |-> b + s, size |-> (n.base + n.size) - (b + s)] :
                    n \in {m \in ov : m.base + m.size > b + s}},
   res  |-> ov # {}]

(* mmap_anon_lookup(addr): the node containing addr, if any.               *)
MmapAnonLookup(addr) == {n \in mmap_tree : addr \in Pages(n)}

-----------------------------------------------------------------------------
Init ==
  /\ mapped = {}
  /\ mmap_tree = {}
  /\ mmap_assert = FALSE
  /\ shadow = [a \in Mem |-> SHADOW_UNADDRESSABLE]

(* An anonymous mmap of r succeeds (at a free range, or anywhere with      *)
(* MAP_FIXED) and client_handle_mmap runs: defined unless the calling      *)
(* thread is inside a heap routine, then mmap_tree_add.                    *)
ClientHandleMmap(r, fixed, in_heap) ==
  /\ IF fixed THEN MapFixed ELSE Pages(r) \cap mapped = {}
  /\ mapped' = mapped \cup Pages(r)
  /\ shadow' = IF in_heap THEN shadow
               ELSE ShadowSetRange(shadow, r.base, r.base + r.size, SHADOW_DEFINED)
  /\ \E o \in MmapTreeAdd(mmap_tree, r.base, r.size) :
       /\ mmap_tree' = o.tree
       /\ mmap_assert' = (mmap_assert \/ o.fired)

(* munmap of r: client_handle_munmap runs before the call (the range      *)
(* leaves the tree and, if it was tracked, becomes unaddressable); then    *)
(* the call succeeds, or fails (ENOMEM on splitting a mapping) and         *)
(* client_handle_munmap_fail marks the range defined and re-adds it.       *)
ClientHandleMunmap(r, ok) ==
  LET rm == MmapTreeRemove(mmap_tree, r.base, r.size)
      s1 == IF rm.res THEN ShadowSetRange(shadow, r.base, r.base + r.size,
                                          SHADOW_UNADDRESSABLE)
            ELSE shadow
  IN
  \/ /\ ok
     /\ mapped' = mapped \ Pages(r)
     /\ mmap_tree' = rm.tree
     /\ shadow' = s1
     /\ UNCHANGED mmap_assert
  \/ /\ ~ok
     /\ Pages(r) \subseteq mapped
     /\ shadow' = ShadowSetRange(s1, r.base, r.base + r.size, SHADOW_DEFINED)
     /\ \E o \in MmapTreeAdd(rm.tree, r.base, r.size) :
          /\ mmap_tree' = o.tree
          /\ mmap_assert' = (mmap_assert \/ o.fired)
     /\ UNCHANGED mapped

(* Mutant: the shrink leaving the last page of the old tail addressable.   *)
MremapShadowShortTail(s, old_base, old_size, new_base, new_size) ==
  IF new_size < old_size
    THEN ShadowSetRange(ShadowCopyRange(s, old_base, new_base, new_size),
                        old_base + new_size, old_base + old_size - 1, SHADOW_UNADDRESSABLE)
    ELSE ShadowSetRange(ShadowCopyRange(s, old_base, new_base, old_size),
                        new_base + old_size, new_base + new_size, SHADOW_UNDEFINED)

(* The shadow update of client_handle_mremap (lines 715-725), anonymous,   *)
(* not an image.                                                           *)
MremapShadow(s, old_base, old_size, new_base, new_size) ==
  IF new_size < old_size
    THEN ShadowSetRange(ShadowCopyRange(s, old_base, new_base, new_size),
                        old_base + new_size, old_base + old_size, SHADOW_UNADDRESSABLE)
    ELSE ShadowSetRange(ShadowCopyRange(s, old_base, new_base, old_size),
                        new_base + old_size, new_base + new_size, SHADOW_UNDEFINED)

(* mremap of the anonymous mapping o to n succeeds, in place or moved to   *)
(* a free range when growing with MREMAP_MAYMOVE, and client_handle_mremap *)
(* runs: the shadow update, then the old range leaves the tree and the new *)
(* one enters it.                                                          *)
ClientHandleMremap(o, n) ==
  /\ Pages(o) \subseteq mapped
  /\ \/ /\ n.base = o.base
        /\ (Pages(n) \ Pages(o)) \cap mapped = {}
     \/ /\ MremapMayMove
        /\ n.base # o.base
        /\ n.size > o.size
        /\ Pages(n) \cap mapped = {}
  /\ mapped' = (mapped \ Pages(o)) \cup Pages(n)
  /\ shadow' = MremapShadow(shadow, o.base, o.size, n.base, n.size)
  /\ \E a \in MmapTreeAdd(MmapTreeRemove(mmap_tree, o.base, o.size).tree,
                          n.base, n.size) :
       /\ mmap_tree' = a.tree
       /\ mmap_assert' = (mmap_assert \/ a.fired)

Next ==
  \/ \E r \in Ranges, fixed, in_heap \in BOOLEAN : ClientHandleMmap(r, fixed, in_heap)
  \/ \E r \in Ranges, ok \in BOOLEAN : ClientHandleMunmap(r, ok)
  \/ \E o, n \in Ranges : o # n /\ ClientHandleMremap(o, n)

Spec == Init /\ [][Next]_vars

-----------------------------------------------------------------------------
TypeOK ==
  /\ mapped \subseteq Mem
  /\ mmap_tree \subseteq Ranges
  /\ mmap_assert \in BOOLEAN
  /\ shadow \in [Mem -> Tags]

(* The tracker knows exactly the anonymous mappings (spec 4.3, property 6  *)
(* of section 8): every mapped anonymous page is in a node, so             *)
(* mmap_anon_lookup finds it, and no node outlives its mapping.  A merge   *)
(* that drops a node or a removal that leaves or misplaces a residual      *)
(* breaks it.                                                              *)
TreeTracksAnon == UNION {Pages(n) : n \in mmap_tree} = mapped

(* Invariant 1 of the spec for mappings: a page no mapping covers is       *)
(* unaddressable after munmap, a failed munmap or mremap.                  *)
UnmappedUnaddressable == \A a \in Mem \ mapped : shadow[a] = SHADOW_UNADDRESSABLE

(* ASSERT(node != NULL, "mmap tree error") in mmap_tree_add never fires.   *)
NoMmapAssert == ~mmap_assert
=============================================================================
