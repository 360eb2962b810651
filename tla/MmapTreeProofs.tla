--------------------------- MODULE MmapTreeProofs ---------------------------
(***************************************************************************)
(* Proofs about the anonymous-mapping tracker and the Linux memory-map    *)
(* handlers of module MmapTree, for every number of pages, when the        *)
(* application maps only free ranges (no MAP_FIXED over a mapping) and     *)
(* mremap resizes in place.  Under those conditions the tree's pages are   *)
(* always the mapped pages, and the unmapped pages are unaddressable; the  *)
(* two are inductive together, because munmap marks the range only when    *)
(* mmap_tree_remove found a node, which the tree's exactness guarantees    *)
(* whenever a mapped page is in the range.                                 *)
(***************************************************************************)
EXTENDS MmapTree, TLAPS

(* The applications the theorems are about: no MAP_FIXED over existing    *)
(* mappings and no moving mremap.                                          *)
InPlace == ~MapFixed /\ ~MremapMayMove

(* The pages the nodes of t cover.                                         *)
TreePages(t) == UNION {Pages(n) : n \in t}

IInv == TypeOK /\ TreeTracksAnon /\ UnmappedUnaddressable

-----------------------------------------------------------------------------
(* A range is a base and a positive size inside the address space.         *)
LEMMA RangeFacts ==
  ASSUME NEW r \in Ranges
  PROVE  /\ r.base \in Nat /\ r.size \in Nat \ {0}
         /\ r.base + r.size <= MemSize
         /\ Pages(r) \subseteq Mem
         /\ r = [base |-> r.base, size |-> r.size]
BY MmapConstantsAssumption DEF Ranges, Pages, Mem

(* A range meets a node exactly when they share a page.                    *)
LEMMA OverlapShares ==
  ASSUME NEW t \in SUBSET Ranges, NEW r \in Ranges
  PROVE  Overlapping(t, r.base, r.size) = {} <=> TreePages(t) \cap Pages(r) = {}
<1>1. ASSUME NEW n \in t
      PROVE  (n.base < r.base + r.size /\ r.base < n.base + n.size)
               <=> Pages(n) \cap Pages(r) # {}
  <2>1. n \in Ranges
    OBVIOUS
  <2>2. CASE n.base < r.base + r.size /\ r.base < n.base + n.size
    <3> DEFINE x == IF n.base < r.base THEN r.base ELSE n.base
    <3>1. x \in Pages(n) /\ x \in Pages(r)
      BY <2>1, <2>2, RangeFacts DEF Pages
    <3>. QED  BY <3>1, <2>2
  <2>3. CASE ~(n.base < r.base + r.size /\ r.base < n.base + n.size)
    BY <2>1, <2>3, RangeFacts DEF Pages
  <2>. QED  BY <2>2, <2>3
<1>. QED  BY <1>1 DEF Overlapping, TreePages

(* mmap_tree_remove takes exactly the range's pages out of the tree, keeps *)
(* every node a range, and finds a node whenever the tree had a page of    *)
(* the range: the residuals below and above the range cover what the      *)
(* deleted nodes covered outside it.                                       *)
LEMMA RemoveTree ==
  ASSUME NEW t \in SUBSET Ranges, NEW r \in Ranges
  PROVE  LET rm == MmapTreeRemove(t, r.base, r.size) IN
         /\ rm.tree \in SUBSET Ranges
         /\ TreePages(rm.tree) = TreePages(t) \ Pages(r)
         /\ rm.res = (TreePages(t) \cap Pages(r) # {})
<1> DEFINE b == r.base
           s == r.size
           ov == Overlapping(t, b, s)
           Lo == {[base |-> n.base, size |-> b - n.base] : n \in {m \in ov : m.base < b}}
           Hi == {[base |-> b + s, size |-> (n.base + n.size) - (b + s)] :
                    n \in {m \in ov : m.base + m.size > b + s}}
<1>1. MmapTreeRemove(t, b, s) = [tree |-> (t \ ov) \cup Lo \cup Hi, res |-> ov # {}]
  BY DEF MmapTreeRemove
<1>2. Lo \cup Hi \subseteq Ranges
  BY RangeFacts, MmapConstantsAssumption DEF Overlapping, Ranges, Mem
<1>3. \A n \in t \ ov : Pages(n) \cap Pages(r) = {}
  BY RangeFacts DEF Overlapping, Pages
<1>4. TreePages((t \ ov) \cup Lo \cup Hi) \subseteq TreePages(t) \ Pages(r)
  <2> SUFFICES ASSUME NEW x, NEW n \in (t \ ov) \cup Lo \cup Hi, x \in Pages(n)
               PROVE  x \in TreePages(t) \ Pages(r)
    BY DEF TreePages
  <2>1. CASE n \in t \ ov
    BY <2>1, <1>3 DEF TreePages
  <2>2. CASE n \in Lo
    <3>1. PICK m \in ov : m.base < b /\ n = [base |-> m.base, size |-> b - m.base]
      BY <2>2
    <3>2. m \in Ranges /\ x \in Pages(m) /\ x \notin Pages(r)
      BY <3>1, RangeFacts DEF Overlapping, Pages
    <3>. QED  BY <3>1, <3>2 DEF TreePages, Overlapping
  <2>3. CASE n \in Hi
    <3>1. PICK m \in ov : m.base + m.size > b + s
                          /\ n = [base |-> b + s, size |-> (m.base + m.size) - (b + s)]
      BY <2>3
    <3>2. m \in Ranges /\ x \in Pages(m) /\ x \notin Pages(r)
      BY <3>1, RangeFacts DEF Overlapping, Pages
    <3>. QED  BY <3>1, <3>2 DEF TreePages, Overlapping
  <2>. QED  BY <2>1, <2>2, <2>3
<1>5. TreePages(t) \ Pages(r) \subseteq TreePages((t \ ov) \cup Lo \cup Hi)
  <2> SUFFICES ASSUME NEW x, NEW n \in t, x \in Pages(n), x \notin Pages(r)
               PROVE  x \in TreePages((t \ ov) \cup Lo \cup Hi)
    BY DEF TreePages
  <2>1. CASE n \notin ov
    BY <2>1 DEF TreePages
  <2>2. CASE n \in ov /\ x < b
    <3> DEFINE lo == [base |-> n.base, size |-> b - n.base]
    <3>1. lo \in Lo /\ x \in Pages(lo)
      BY <2>2, RangeFacts DEF Pages
    <3>. QED  BY <3>1 DEF TreePages
  <2>3. CASE n \in ov /\ x >= b
    <3> DEFINE hi == [base |-> b + s, size |-> (n.base + n.size) - (b + s)]
    <3>1. hi \in Hi /\ x \in Pages(hi)
      BY <2>3, RangeFacts DEF Pages
    <3>. QED  BY <3>1 DEF TreePages
  <2>. QED  BY <2>1, <2>2, <2>3, RangeFacts DEF Pages
<1>6. (ov # {}) = (TreePages(t) \cap Pages(r) # {})
  BY OverlapShares
<1>. QED  BY <1>1, <1>2, <1>4, <1>5, <1>6

(* mmap_tree_add of a range no node meets inserts it as it is, and the     *)
(* assertion does not run.                                                 *)
LEMMA AddFree ==
  ASSUME NEW t \in SUBSET Ranges, NEW r \in Ranges, TreePages(t) \cap Pages(r) = {}
  PROVE  /\ MmapTreeAdd(t, r.base, r.size) = {[tree |-> t \cup {r}, fired |-> FALSE]}
         /\ TreePages(t \cup {r}) = TreePages(t) \cup Pages(r)
<1>1. Overlapping(t, r.base, r.size) = {}
  BY OverlapShares
<1>. QED  BY <1>1, RangeFacts DEF MmapTreeAdd, TreePages

(* shadow_set_range over a shadow of the address space.                    *)
LEMMA SetRangeFacts ==
  ASSUME NEW s \in [Mem -> Tags], NEW lo \in Nat, NEW hi \in Nat, NEW v \in Tags
  PROVE  /\ ShadowSetRange(s, lo, hi, v) \in [Mem -> Tags]
         /\ \A a \in Mem : ShadowSetRange(s, lo, hi, v)[a] =
                             IF lo <= a /\ a < hi THEN v ELSE s[a]
BY DEF ShadowSetRange

(* shadow_copy_range onto the range itself changes nothing.                *)
LEMMA CopyInPlace ==
  ASSUME NEW s \in [Mem -> Tags], NEW b \in Nat, NEW k \in Nat
  PROVE  ShadowCopyRange(s, b, b, k) = s
BY DEF ShadowCopyRange, Mem

-----------------------------------------------------------------------------
(* The initial state: nothing mapped, an empty tree, all unaddressable.    *)
LEMMA InitIInv == Init => IInv
BY DEF Init, IInv, TypeOK, TreeTracksAnon, UnmappedUnaddressable, Tags

(* client_handle_mmap of a free range: the range enters the tree as a node *)
(* of its own and the kernel's pages alike; only its pages change shadow.  *)
LEMMA MmapIInv ==
  ASSUME IInv, InPlace, NEW r \in Ranges, NEW fixed \in BOOLEAN,
         NEW in_heap \in BOOLEAN, ClientHandleMmap(r, fixed, in_heap)
  PROVE  IInv'
<1>1. Pages(r) \cap mapped = {} /\ mapped' = mapped \cup Pages(r)
  BY DEF ClientHandleMmap, InPlace
<1>2. TreePages(mmap_tree) \cap Pages(r) = {} /\ mmap_tree \in SUBSET Ranges
  BY <1>1 DEF IInv, TreeTracksAnon, TreePages, TypeOK
<1>3. mmap_tree' = mmap_tree \cup {r} /\ mmap_assert' = mmap_assert
  <2>1. MmapTreeAdd(mmap_tree, r.base, r.size) = {[tree |-> mmap_tree \cup {r}, fired |-> FALSE]}
    BY <1>2, AddFree
  <2>. QED  BY <2>1 DEF ClientHandleMmap, IInv, TypeOK
<1>4. /\ shadow' \in [Mem -> Tags]
      /\ \A a \in Mem \ Pages(r) : shadow'[a] = shadow[a]
  <2>1. CASE in_heap
    BY <2>1 DEF ClientHandleMmap, IInv, TypeOK
  <2>2. CASE ~in_heap
    <3>1. shadow' = ShadowSetRange(shadow, r.base, r.base + r.size, SHADOW_DEFINED)
      BY <2>2 DEF ClientHandleMmap
    <3>2. r.base \in Nat /\ r.base + r.size \in Nat /\ SHADOW_DEFINED \in Tags
      BY RangeFacts DEF Tags
    <3>3. /\ ShadowSetRange(shadow, r.base, r.base + r.size, SHADOW_DEFINED) \in [Mem -> Tags]
          /\ \A a \in Mem : ShadowSetRange(shadow, r.base, r.base + r.size, SHADOW_DEFINED)[a] =
               IF r.base <= a /\ a < r.base + r.size THEN SHADOW_DEFINED ELSE shadow[a]
      BY <3>2, SetRangeFacts DEF IInv, TypeOK
    <3>. QED  BY <3>1, <3>3, RangeFacts DEF Pages, Mem
  <2>. QED  BY <2>1, <2>2
<1>5. TypeOK'
  BY <1>1, <1>3, <1>4, RangeFacts DEF IInv, TypeOK
<1>6. TreeTracksAnon'
  BY <1>1, <1>2, <1>3, AddFree DEF IInv, TreeTracksAnon, TreePages
<1>7. UnmappedUnaddressable'
  BY <1>1, <1>4 DEF IInv, UnmappedUnaddressable
<1>. QED  BY <1>5, <1>6, <1>7 DEF IInv

(* munmap: client_handle_munmap removes the range from the tree and, when  *)
(* mmap_tree_remove found a node, marks it unaddressable.  On success the  *)
(* kernel's pages lose the range too, and every mapped page of it was in  *)
(* a node, so it was marked.  On failure client_handle_munmap_fail marks   *)
(* the (mapped) range defined and re-adds it, which meets no node.         *)
LEMMA MunmapIInv ==
  ASSUME IInv, NEW r \in Ranges, NEW ok \in BOOLEAN, ClientHandleMunmap(r, ok)
  PROVE  IInv'
<1> DEFINE rm == MmapTreeRemove(mmap_tree, r.base, r.size)
           s1 == IF rm.res THEN ShadowSetRange(shadow, r.base, r.base + r.size,
                                               SHADOW_UNADDRESSABLE)
                 ELSE shadow
<1>1. /\ rm.tree \in SUBSET Ranges
      /\ TreePages(rm.tree) = mapped \ Pages(r)
      /\ rm.res = (mapped \cap Pages(r) # {})
  BY RemoveTree DEF IInv, TypeOK, TreeTracksAnon, TreePages
<1>2. /\ r.base \in Nat /\ r.base + r.size \in Nat
      /\ SHADOW_UNADDRESSABLE \in Tags /\ SHADOW_DEFINED \in Tags
  BY RangeFacts DEF Tags
<1>3. /\ s1 \in [Mem -> Tags]
      /\ \A a \in Mem \ mapped : s1[a] = SHADOW_UNADDRESSABLE
      /\ \A a \in (mapped \cap Pages(r)) : s1[a] = SHADOW_UNADDRESSABLE
  <2>1. CASE rm.res
    <3>1. /\ ShadowSetRange(shadow, r.base, r.base + r.size, SHADOW_UNADDRESSABLE) \in [Mem -> Tags]
          /\ \A a \in Mem : ShadowSetRange(shadow, r.base, r.base + r.size, SHADOW_UNADDRESSABLE)[a] =
               IF r.base <= a /\ a < r.base + r.size THEN SHADOW_UNADDRESSABLE ELSE shadow[a]
      BY <1>2, SetRangeFacts DEF IInv, TypeOK
    <3>. QED  BY <2>1, <3>1, RangeFacts DEF IInv, TypeOK, UnmappedUnaddressable, Pages, Mem
  <2>2. CASE ~rm.res
    BY <2>2, <1>1 DEF IInv, TypeOK, UnmappedUnaddressable
  <2>. QED  BY <2>1, <2>2
<1>4. CASE ok
  <2>1. /\ mapped' = mapped \ Pages(r)
        /\ mmap_tree' = rm.tree
        /\ shadow' = s1
        /\ UNCHANGED mmap_assert
    BY <1>4 DEF ClientHandleMunmap
  <2>2. TypeOK'
    BY <2>1, <1>1, <1>3 DEF IInv, TypeOK
  <2>3. TreeTracksAnon'
    BY <2>1, <1>1 DEF TreeTracksAnon, TreePages
  <2>4. UnmappedUnaddressable'
    BY <2>1, <1>3 DEF UnmappedUnaddressable, IInv, TypeOK
  <2>. QED  BY <2>2, <2>3, <2>4 DEF IInv
<1>5. CASE ~ok
  <2>1. /\ Pages(r) \subseteq mapped
        /\ shadow' = ShadowSetRange(s1, r.base, r.base + r.size, SHADOW_DEFINED)
        /\ \E o \in MmapTreeAdd(rm.tree, r.base, r.size) :
             /\ mmap_tree' = o.tree
             /\ mmap_assert' = (mmap_assert \/ o.fired)
        /\ UNCHANGED mapped
    BY <1>5 DEF ClientHandleMunmap
  <2>2. /\ MmapTreeAdd(rm.tree, r.base, r.size) = {[tree |-> rm.tree \cup {r}, fired |-> FALSE]}
        /\ TreePages(rm.tree \cup {r}) = TreePages(rm.tree) \cup Pages(r)
    BY <1>1, AddFree
  <2>3. mmap_tree' = rm.tree \cup {r} /\ mmap_assert' = mmap_assert
    BY <2>1, <2>2 DEF IInv, TypeOK
  <2>4. /\ shadow' \in [Mem -> Tags]
        /\ \A a \in Mem \ Pages(r) : shadow'[a] = s1[a]
    <3>1. /\ ShadowSetRange(s1, r.base, r.base + r.size, SHADOW_DEFINED) \in [Mem -> Tags]
          /\ \A a \in Mem : ShadowSetRange(s1, r.base, r.base + r.size, SHADOW_DEFINED)[a] =
               IF r.base <= a /\ a < r.base + r.size THEN SHADOW_DEFINED ELSE s1[a]
      <4>1. s1 \in [Mem -> Tags]
        BY <1>3
      <4>. HIDE DEF s1
      <4>. QED  BY <1>2, <4>1, SetRangeFacts
    <3>. QED  BY <2>1, <3>1, RangeFacts DEF Pages, Mem
  <2>5. TypeOK'
    BY <2>1, <2>3, <2>4, <1>1, RangeFacts DEF IInv, TypeOK
  <2>6. TreeTracksAnon'
    BY <2>1, <2>2, <2>3, <1>1 DEF TreeTracksAnon, TreePages
  <2>7. UnmappedUnaddressable'
    BY <2>1, <2>4, <1>3 DEF UnmappedUnaddressable
  <2>. QED  BY <2>5, <2>6, <2>7 DEF IInv
<1>. QED  BY <1>4, <1>5

(* mremap in place: the old range leaves the tree and the new one, which   *)
(* meets no other node, enters it; the shadow copy is onto itself, so the  *)
(* only change is the shrunk tail made unaddressable or the grown tail     *)
(* made undefined, and every page left unmapped was in the old range.      *)
LEMMA MremapIInv ==
  ASSUME IInv, InPlace, NEW o \in Ranges, NEW n \in Ranges, ClientHandleMremap(o, n)
  PROVE  IInv'
<1> DEFINE rm == MmapTreeRemove(mmap_tree, o.base, o.size)
<1>1. /\ Pages(o) \subseteq mapped
      /\ n.base = o.base
      /\ (Pages(n) \ Pages(o)) \cap mapped = {}
      /\ mapped' = (mapped \ Pages(o)) \cup Pages(n)
      /\ shadow' = MremapShadow(shadow, o.base, o.size, n.base, n.size)
      /\ \E a \in MmapTreeAdd(rm.tree, n.base, n.size) :
           /\ mmap_tree' = a.tree
           /\ mmap_assert' = (mmap_assert \/ a.fired)
  BY DEF ClientHandleMremap, InPlace
<1>2. /\ rm.tree \in SUBSET Ranges
      /\ TreePages(rm.tree) = mapped \ Pages(o)
  BY RemoveTree DEF IInv, TypeOK, TreeTracksAnon, TreePages
<1>3. TreePages(rm.tree) \cap Pages(n) = {}
  BY <1>1, <1>2
<1>4. /\ MmapTreeAdd(rm.tree, n.base, n.size) = {[tree |-> rm.tree \cup {n}, fired |-> FALSE]}
      /\ TreePages(rm.tree \cup {n}) = TreePages(rm.tree) \cup Pages(n)
  BY <1>2, <1>3, AddFree
<1>5. mmap_tree' = rm.tree \cup {n} /\ mmap_assert' = mmap_assert
  BY <1>1, <1>4 DEF IInv, TypeOK
<1>6. /\ o.base \in Nat /\ o.size \in Nat /\ n.size \in Nat
      /\ o.base + o.size \in Nat /\ o.base + n.size \in Nat
      /\ SHADOW_UNADDRESSABLE \in Tags /\ SHADOW_UNDEFINED \in Tags
  BY RangeFacts DEF Tags
<1>7. /\ shadow' \in [Mem -> Tags]
      /\ \A a \in Mem \ (Pages(o) \cup Pages(n)) : shadow'[a] = shadow[a]
  <2>1. ShadowCopyRange(shadow, o.base, o.base, n.size) = shadow
        /\ ShadowCopyRange(shadow, o.base, o.base, o.size) = shadow
    BY <1>6, CopyInPlace DEF IInv, TypeOK
  <2>2. CASE n.size < o.size
    <3>1. shadow' = ShadowSetRange(shadow, o.base + n.size, o.base + o.size, SHADOW_UNADDRESSABLE)
      BY <1>1, <2>1, <2>2 DEF MremapShadow
    <3>2. /\ ShadowSetRange(shadow, o.base + n.size, o.base + o.size, SHADOW_UNADDRESSABLE) \in [Mem -> Tags]
          /\ \A a \in Mem : ShadowSetRange(shadow, o.base + n.size, o.base + o.size, SHADOW_UNADDRESSABLE)[a] =
               IF o.base + n.size <= a /\ a < o.base + o.size THEN SHADOW_UNADDRESSABLE ELSE shadow[a]
      BY <1>6 DEF IInv, TypeOK, ShadowSetRange
    <3>. QED  BY <3>1, <3>2, RangeFacts DEF Pages, Mem
  <2>3. CASE ~(n.size < o.size)
    <3>1. shadow' = ShadowSetRange(shadow, o.base + o.size, o.base + n.size, SHADOW_UNDEFINED)
      BY <1>1, <2>1, <2>3 DEF MremapShadow
    <3>2. /\ ShadowSetRange(shadow, o.base + o.size, o.base + n.size, SHADOW_UNDEFINED) \in [Mem -> Tags]
          /\ \A a \in Mem : ShadowSetRange(shadow, o.base + o.size, o.base + n.size, SHADOW_UNDEFINED)[a] =
               IF o.base + o.size <= a /\ a < o.base + n.size THEN SHADOW_UNDEFINED ELSE shadow[a]
      BY <1>6 DEF IInv, TypeOK, ShadowSetRange
    <3>. QED  BY <3>1, <3>2, <1>1, RangeFacts DEF Pages, Mem
  <2>. QED  BY <2>2, <2>3
<1>8. TypeOK'
  BY <1>1, <1>2, <1>5, <1>7, RangeFacts DEF IInv, TypeOK
<1>9. TreeTracksAnon'
  BY <1>1, <1>2, <1>4, <1>5 DEF TreeTracksAnon, TreePages
<1>10. UnmappedUnaddressable'
  <2>1. \A a \in Mem \ mapped' : a \notin Pages(o) \cup Pages(n) \/ shadow'[a] = SHADOW_UNADDRESSABLE
    <3> SUFFICES ASSUME NEW a \in Mem \ mapped', a \in Pages(o) \cup Pages(n)
                 PROVE  shadow'[a] = SHADOW_UNADDRESSABLE
      OBVIOUS
    <3>1. a \in Pages(o) /\ a \notin Pages(n) /\ n.size < o.size
      BY <1>1, RangeFacts DEF Pages
    <3>2. shadow'[a] = SHADOW_UNADDRESSABLE
      <4>1. shadow' = ShadowSetRange(ShadowCopyRange(shadow, o.base, o.base, n.size),
                                     o.base + n.size, o.base + o.size, SHADOW_UNADDRESSABLE)
        BY <1>1, <3>1 DEF MremapShadow
      <4>2. ShadowCopyRange(shadow, o.base, o.base, n.size) = shadow
        BY <1>6, CopyInPlace DEF IInv, TypeOK
      <4>3. \A x \in Mem : ShadowSetRange(shadow, o.base + n.size, o.base + o.size, SHADOW_UNADDRESSABLE)[x] =
               IF o.base + n.size <= x /\ x < o.base + o.size THEN SHADOW_UNADDRESSABLE ELSE shadow[x]
        BY <1>6 DEF IInv, TypeOK, ShadowSetRange
      <4>4. o.base + n.size <= a /\ a < o.base + o.size
        BY <3>1, <1>1, RangeFacts DEF Pages, Mem
      <4>. QED  BY <4>1, <4>2, <4>3, <4>4
    <3>. QED  BY <3>2
  <2>. QED  BY <2>1, <1>1, <1>7 DEF IInv, UnmappedUnaddressable
<1>. QED  BY <1>8, <1>9, <1>10 DEF IInv

-----------------------------------------------------------------------------
(* Every step of an in-place application, or a stutter, keeps the          *)
(* invariant.                                                              *)
LEMMA NextIInv ==
  ASSUME InPlace
  PROVE  IInv /\ [Next]_vars => IInv'
<1> SUFFICES ASSUME IInv, [Next]_vars PROVE IInv'
  OBVIOUS
<1>1. ASSUME NEW r \in Ranges, NEW fixed \in BOOLEAN, NEW in_heap \in BOOLEAN,
             ClientHandleMmap(r, fixed, in_heap)
      PROVE  IInv'
  BY <1>1, MmapIInv
<1>2. ASSUME NEW r \in Ranges, NEW ok \in BOOLEAN, ClientHandleMunmap(r, ok)
      PROVE  IInv'
  BY <1>2, MunmapIInv
<1>3. ASSUME NEW o \in Ranges, NEW n \in Ranges, ClientHandleMremap(o, n)
      PROVE  IInv'
  BY <1>3, MremapIInv
<1>4. CASE UNCHANGED vars
  BY <1>4 DEF vars, IInv, TypeOK, TreeTracksAnon, UnmappedUnaddressable
<1>. QED  BY <1>1, <1>2, <1>3, <1>4 DEF Next

(* The strengthened invariant holds in every reachable state of an         *)
(* application without MAP_FIXED over mappings or moving mremap.           *)
THEOREM IInvHolds ==
  ASSUME InPlace
  PROVE  Spec => []IInv
BY InitIInv, NextIInv, PTL DEF Spec

(* Spec 4.3: with anonymous mmap at free ranges, munmap (partial,          *)
(* spanning several mappings, or failing) and in-place mremap, the pages   *)
(* of mmap_tree's nodes are always exactly the mapped anonymous pages, for *)
(* every size of the address space.                                        *)
THEOREM TreeTracksAnonHolds ==
  ASSUME InPlace
  PROVE  Spec => []TreeTracksAnon
BY IInvHolds, PTL DEF IInv

(* Invariant 1 of the spec for mappings: through the same calls, every     *)
(* page no mapping covers is unaddressable.                                *)
THEOREM UnmappedUnaddressableHolds ==
  ASSUME InPlace
  PROVE  Spec => []UnmappedUnaddressable
BY IInvHolds, PTL DEF IInv
-----------------------------------------------------------------------------
(* Type correctness holds for every application, MAP_FIXED over existing   *)
(* mappings and moving mremap included: the union rb_insert's overlap path *)
(* inserts stays inside the address space, and the shadow copy of mremap   *)
(* reads only the old range.                                               *)

(* Every outcome of mmap_tree_add on a tree of ranges is a tree of ranges. *)
LEMMA AddTree ==
  ASSUME NEW t \in SUBSET Ranges, NEW r \in Ranges,
         NEW o \in MmapTreeAdd(t, r.base, r.size)
  PROVE  o.tree \in SUBSET Ranges /\ o.fired \in BOOLEAN
<1>1. CASE Overlapping(t, r.base, r.size) = {}
  <2>1. o = [tree |-> t \cup {[base |-> r.base, size |-> r.size]}, fired |-> FALSE]
    BY <1>1 DEF MmapTreeAdd
  <2>2. [base |-> r.base, size |-> r.size] \in Ranges
    BY RangeFacts
  <2> QED
    BY <2>1, <2>2
<1>2. CASE Overlapping(t, r.base, r.size) # {}
  <2>1. PICK n \in Overlapping(t, r.base, r.size) :
          o = LET t1 == t \ {n}
                  mb == IF r.base < n.base THEN r.base ELSE n.base
                  me == IF r.base + r.size > n.base + n.size THEN r.base + r.size
                        ELSE n.base + n.size
                  ok == Overlapping(t1, mb, me - mb) = {}
              IN [tree  |-> IF ok THEN t1 \cup {[base |-> mb, size |-> me - mb]} ELSE t1,
                  fired |-> ok]
    BY <1>2 DEF MmapTreeAdd
  <2> DEFINE mb == IF r.base < n.base THEN r.base ELSE n.base
             me == IF r.base + r.size > n.base + n.size THEN r.base + r.size
                   ELSE n.base + n.size
  <2>2. n \in Ranges
    BY DEF Overlapping
  <2>3. [base |-> mb, size |-> me - mb] \in Ranges
    BY <2>2, RangeFacts, MmapConstantsAssumption DEF Ranges, Mem
  <2> QED
    BY <2>1, <2>3
<1> QED
  BY <1>1, <1>2

(* client_handle_mremap's shadow update keeps the shadow's type: the copy  *)
(* reads the old range only, which lies in the address space.              *)
LEMMA MremapShadowType ==
  ASSUME NEW s \in [Mem -> Tags], NEW o \in Ranges, NEW n \in Ranges
  PROVE  MremapShadow(s, o.base, o.size, n.base, n.size) \in [Mem -> Tags]
<1>1. ASSUME NEW k \in 0 .. o.size
      PROVE  ShadowCopyRange(s, o.base, n.base, k) \in [Mem -> Tags]
  BY RangeFacts, MmapConstantsAssumption DEF ShadowCopyRange, Mem
<1>2. o.base \in Nat /\ o.size \in Nat /\ n.base \in Nat /\ n.size \in Nat
  BY RangeFacts
<1>3. CASE n.size < o.size
  <2>1. ShadowCopyRange(s, o.base, n.base, n.size) \in [Mem -> Tags]
    BY <1>1, <1>2, <1>3
  <2>2. o.base + n.size \in Nat /\ o.base + o.size \in Nat
    BY <1>2
  <2> QED
    BY <1>3, <2>1, <2>2, SetRangeFacts DEF MremapShadow, Tags
<1>4. CASE ~(n.size < o.size)
  <2>1. ShadowCopyRange(s, o.base, n.base, o.size) \in [Mem -> Tags]
    BY <1>1, <1>2
  <2>2. n.base + o.size \in Nat /\ n.base + n.size \in Nat
    BY <1>2
  <2> QED
    BY <1>4, <2>1, <2>2, SetRangeFacts DEF MremapShadow, Tags
<1> QED
  BY <1>3, <1>4

(* Each memory-map handler keeps the types, whatever the application does. *)
LEMMA TypeOKInductive == TypeOK /\ [Next]_vars => TypeOK'
<1> SUFFICES ASSUME TypeOK, [Next]_vars PROVE TypeOK'
  OBVIOUS
<1>1. ASSUME NEW r \in Ranges, NEW fixed \in BOOLEAN, NEW in_heap \in BOOLEAN,
             ClientHandleMmap(r, fixed, in_heap)
      PROVE  TypeOK'
  <2>1. shadow' \in [Mem -> Tags]
    <3>0. r.base \in Nat /\ r.base + r.size \in Nat /\ SHADOW_DEFINED \in Tags
          /\ shadow \in [Mem -> Tags]
      BY RangeFacts DEF TypeOK, Tags
    <3>1. ShadowSetRange(shadow, r.base, r.base + r.size, SHADOW_DEFINED) \in [Mem -> Tags]
      BY <3>0, SetRangeFacts
    <3> QED
      BY <1>1, <3>1 DEF ClientHandleMmap, TypeOK
  <2>2. mmap_tree' \in SUBSET Ranges /\ mmap_assert' \in BOOLEAN
    BY <1>1, AddTree DEF ClientHandleMmap, TypeOK
  <2> QED
    BY <1>1, <2>1, <2>2, RangeFacts DEF ClientHandleMmap, TypeOK
<1>2. ASSUME NEW r \in Ranges, NEW ok \in BOOLEAN, ClientHandleMunmap(r, ok)
      PROVE  TypeOK'
  <2> DEFINE rm == MmapTreeRemove(mmap_tree, r.base, r.size)
             s1 == IF rm.res THEN ShadowSetRange(shadow, r.base, r.base + r.size,
                                                 SHADOW_UNADDRESSABLE)
                   ELSE shadow
  <2>1. rm.tree \in SUBSET Ranges
    BY RemoveTree DEF TypeOK
  <2>2. s1 \in [Mem -> Tags] /\ r.base \in Nat /\ r.base + r.size \in Nat
    BY RangeFacts, SetRangeFacts DEF TypeOK, Tags
  <2>3. CASE ok
    BY <1>2, <2>1, <2>2, <2>3 DEF ClientHandleMunmap, TypeOK
  <2>4. CASE ~ok
    <3>1. shadow' \in [Mem -> Tags]
      BY <1>2, <2>2, <2>4, SetRangeFacts DEF ClientHandleMunmap, Tags
    <3>2. mmap_tree' \in SUBSET Ranges /\ mmap_assert' \in BOOLEAN
      BY <1>2, <2>1, <2>4, AddTree DEF ClientHandleMunmap, TypeOK
    <3> QED
      BY <1>2, <2>4, <3>1, <3>2 DEF ClientHandleMunmap, TypeOK
  <2> QED
    BY <2>3, <2>4
<1>3. ASSUME NEW o \in Ranges, NEW n \in Ranges, ClientHandleMremap(o, n)
      PROVE  TypeOK'
  <2>1. MmapTreeRemove(mmap_tree, o.base, o.size).tree \in SUBSET Ranges
    BY RemoveTree DEF TypeOK
  <2>2. mmap_tree' \in SUBSET Ranges /\ mmap_assert' \in BOOLEAN
    BY <1>3, <2>1, AddTree DEF ClientHandleMremap, TypeOK
  <2>3. shadow' \in [Mem -> Tags]
    BY <1>3, MremapShadowType DEF ClientHandleMremap, TypeOK
  <2> QED
    BY <1>3, <2>2, <2>3, RangeFacts DEF ClientHandleMremap, TypeOK
<1>4. CASE UNCHANGED vars
  BY <1>4 DEF vars, TypeOK
<1> QED
  BY <1>1, <1>2, <1>3, <1>4 DEF Next

(* The tracker's tree, the kernel's mapped pages and the shadow keep their *)
(* types for every number of pages and every application, MAP_FIXED over  *)
(* existing mappings and moving mremap included.                           *)
THEOREM TypeCorrect == Spec => []TypeOK
<1>1. Init => TypeOK
  BY InitIInv DEF IInv
<1> QED
  BY <1>1, TypeOKInductive, PTL DEF Spec
=============================================================================
