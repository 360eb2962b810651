-------------------------- MODULE CallstackProofs --------------------------
(***************************************************************************)
(* Proofs about the shared-callstack pool of module Callstack, for every   *)
(* set of objects, callstacks and malloc-table entries the assumption of   *)
(* Callstack allows.  The type invariant, RefcountsExact and               *)
(* CallstacksLive are inductive together: the count of an object is only   *)
(* kept exact because the object a new record is made in is known to be   *)
(* outside the table (it is not live), and only a table object can be     *)
(* some entry's data.                                                      *)
(***************************************************************************)
EXTENDS Callstack, FiniteSetTheorems, TLAPS

(* The malloc-table entries whose client data is object p.                 *)
Users(p) == {e \in Entries : malloc_data[e] = p}

IInv == TypeOK /\ RefcountsExact /\ CallstacksLive

-----------------------------------------------------------------------------
(* The users of an object are finitely many.                               *)
LEMMA UsersFinite ==
  ASSUME TypeOK, NEW p
  PROVE  IsFiniteSet(Users(p))
<1>1. Users(p) \in SUBSET Allocs
  BY DEF Users, Entries
<1>. QED  BY <1>1, CallstackAssumption, FS_Subset

-----------------------------------------------------------------------------
(* The initial state: an empty table, no live object, no entry.            *)
LEMMA InitIInv == Init => IInv
<1> SUFFICES ASSUME Init PROVE IInv
  OBVIOUS
<1>1. Entries = {}
  BY CallstackAssumption DEF Init, Entries
<1>. QED  BY <1>1 DEF Init, IInv, TypeOK, RefcountsExact, CallstacksLive

-----------------------------------------------------------------------------
(* client_add_malloc_pre for a new entry keeps the invariant.  The object  *)
(* packed_callstack_record returns is not live, so it is in no entry and   *)
(* not in the table; the entry gains one user on the object it ends up     *)
(* with, the new one (count 2) or the table's one of the same callstack.   *)
LEMMA AddMallocPreNewIInv ==
  ASSUME IInv, NEW e \in Allocs, NEW c \in Contents, NEW p \in Ids,
         AddMallocPreNew(e, c, p)
  PROVE  IInv'
<1> DEFINE dup == TableWith(c)
           pcs == IF dup = {} THEN p ELSE CHOOSE q \in dup : TRUE
<1>1. /\ p \notin alloc_stack_table
      /\ \A f \in Entries : malloc_data[f] # p
      /\ e \notin Entries
  BY DEF AddMallocPreNew, IInv, CallstacksLive
<1>2. /\ pcs \in alloc_stack_table \cup {p}
      /\ pcs_content[pcs] = c \/ pcs = p
      /\ dup # {} => pcs \in alloc_stack_table
  BY DEF TableWith
<1>3. /\ alloc_stack_table' = IF dup = {} THEN alloc_stack_table \cup {p}
                              ELSE alloc_stack_table
      /\ pcs_live' = IF dup = {} THEN pcs_live \cup {p} ELSE pcs_live
      /\ pcs_content' = [pcs_content EXCEPT ![p] = c]
      /\ pcs_refcount' = [pcs_refcount EXCEPT ![p] = IF dup = {} THEN 2 ELSE 0,
                                              ![pcs] = IF dup = {} THEN 2 ELSE @ + 1]
      /\ malloc_data' = [malloc_data EXCEPT ![e] = pcs]
  BY DEF AddMallocPreNew
<1>4. TypeOK'
  BY <1>2, <1>3 DEF IInv, TypeOK
<1>5. Entries' = Entries \cup {e}
  <2>1. pcs # NoData
    BY <1>2, CallstackAssumption DEF IInv, TypeOK
  <2>. QED  BY <1>3, <2>1 DEF Entries, IInv, TypeOK
<1>6. \A f \in Allocs : malloc_data'[f] = IF f = e THEN pcs ELSE malloc_data[f]
  BY <1>3 DEF IInv, TypeOK
<1>7. Entries \subseteq Allocs
  BY DEF Entries
<1>8. \A q : Users(q)' = IF q = pcs THEN Users(q) \cup {e} ELSE Users(q)
  <2> SUFFICES ASSUME NEW q
               PROVE  Users(q)' = IF q = pcs THEN Users(q) \cup {e} ELSE Users(q)
    OBVIOUS
  <2>1. Users(q)' = {f \in Entries \cup {e} : malloc_data'[f] = q}
    BY <1>5 DEF Users
  <2>2. CASE q = pcs
    BY <2>1, <2>2, <1>6, <1>7 DEF Users
  <2>3. CASE q # pcs
    <3>1. \A f \in Entries \cup {e} : malloc_data'[f] = q <=> f # e /\ malloc_data[f] = q
      BY <2>3, <1>6, <1>7
    <3>2. {f \in Entries \cup {e} : malloc_data'[f] = q} = Users(q)
      BY <3>1, <1>1 DEF Users
    <3>. QED  BY <2>1, <2>3, <3>2
  <2>. QED  BY <2>2, <2>3
<1>9. CallstacksLive'
  <2>1. pcs_live' = alloc_stack_table'
    BY <1>3 DEF IInv, CallstacksLive
  <2>2. ASSUME NEW f \in Entries' PROVE malloc_data'[f] \in alloc_stack_table'
    <3>1. CASE f = e
      BY <3>1, <1>2, <1>3, <1>6
    <3>2. CASE f # e
      BY <3>2, <1>3, <1>5, <1>6, <1>7 DEF IInv, CallstacksLive
    <3>. QED  BY <3>1, <3>2
  <2>. QED  BY <2>1, <2>2 DEF CallstacksLive
<1>10. \A q, r \in alloc_stack_table' : q # r => pcs_content'[q] # pcs_content'[r]
  BY <1>1, <1>3 DEF IInv, RefcountsExact, TableWith, TypeOK
<1>11. /\ pcs_refcount'[pcs] = IF dup = {} THEN 2 ELSE pcs_refcount[pcs] + 1
       /\ \A q \in Ids \ {p, pcs} : pcs_refcount'[q] = pcs_refcount[q]
  BY <1>2, <1>3 DEF IInv, TypeOK
<1>12. \A q \in alloc_stack_table' : pcs_refcount'[q] = 1 + Cardinality(Users(q)')
  <2> SUFFICES ASSUME NEW q \in alloc_stack_table'
               PROVE  pcs_refcount'[q] = 1 + Cardinality(Users(q)')
    OBVIOUS
  <2>1. IsFiniteSet(Users(q))
    BY UsersFinite DEF IInv
  <2>2. e \notin Users(q)
    BY <1>1 DEF Users
  <2>3. CASE q = pcs /\ dup = {}
    <3>1. Users(q) = {}
      BY <2>3, <1>1 DEF Users
    <3>2. Cardinality(Users(q)') = 1
      BY <3>1, <2>3, <1>8, FS_Singleton
    <3>. QED  BY <3>2, <2>3, <1>11
  <2>4. CASE q = pcs /\ dup # {}
    <3>1. Cardinality(Users(q)') = Cardinality(Users(q)) + 1
      BY <2>1, <2>2, <2>4, <1>8, FS_AddElement
    <3>2. q \in alloc_stack_table
      BY <2>4, <1>2
    <3>3. pcs_refcount[q] = 1 + Cardinality(Users(q))
      BY <3>2 DEF IInv, RefcountsExact, Users
    <3>4. Cardinality(Users(q)) \in Nat
      BY <2>1, FS_CardinalityType
    <3>. QED  BY <3>1, <3>3, <3>4, <2>4, <1>11
  <2>5. CASE q # pcs
    <3>1. q \in alloc_stack_table /\ q # p
      BY <2>5, <1>1, <1>3
    <3>2. pcs_refcount[q] = 1 + Cardinality(Users(q))
      BY <3>1 DEF IInv, RefcountsExact, Users
    <3>3. q \in Ids
      BY <3>1 DEF IInv, TypeOK
    <3>. QED  BY <3>1, <3>2, <3>3, <2>5, <1>8, <1>11
  <2>. QED  BY <2>3, <2>4, <2>5
<1>. QED  BY <1>4, <1>9, <1>10, <1>12 DEF IInv, RefcountsExact, Users

-----------------------------------------------------------------------------
(* client_add_malloc_pre with existing_data keeps the invariant: the       *)
(* object of entry e0 is in the table, and it gains the new entry e as a   *)
(* user along with one count.                                              *)
LEMMA AddMallocPreExistingIInv ==
  ASSUME IInv, NEW e \in Allocs, NEW e0 \in Allocs, AddMallocPreExisting(e, e0)
  PROVE  IInv'
<1> DEFINE pcs == malloc_data[e0]
<1>1. /\ e \notin Entries
      /\ pcs \in alloc_stack_table
      /\ pcs \in Ids
  BY DEF AddMallocPreExisting, IInv, CallstacksLive, TypeOK
<1>2. /\ pcs_refcount' = [pcs_refcount EXCEPT ![pcs] = @ + 1]
      /\ malloc_data' = [malloc_data EXCEPT ![e] = pcs]
      /\ UNCHANGED <<alloc_stack_table, pcs_live, pcs_content>>
  BY DEF AddMallocPreExisting
<1>3. TypeOK'
  BY <1>1, <1>2 DEF IInv, TypeOK
<1>4. \A f \in Allocs : malloc_data'[f] = IF f = e THEN pcs ELSE malloc_data[f]
  BY <1>2 DEF IInv, TypeOK
<1>5. Entries' = Entries \cup {e} /\ Entries \subseteq Allocs
  BY <1>1, <1>2, CallstackAssumption DEF Entries, IInv, TypeOK
<1>6. \A q : Users(q)' = IF q = pcs THEN Users(q) \cup {e} ELSE Users(q)
  <2> SUFFICES ASSUME NEW q
               PROVE  Users(q)' = IF q = pcs THEN Users(q) \cup {e} ELSE Users(q)
    OBVIOUS
  <2>1. Users(q)' = {f \in Entries \cup {e} : malloc_data'[f] = q}
    BY <1>5 DEF Users
  <2>2. CASE q = pcs
    BY <2>1, <2>2, <1>4, <1>5 DEF Users
  <2>3. CASE q # pcs
    <3>1. \A f \in Entries \cup {e} : malloc_data'[f] = q <=> f # e /\ malloc_data[f] = q
      BY <2>3, <1>4, <1>5
    <3>2. {f \in Entries \cup {e} : malloc_data'[f] = q} = Users(q)
      BY <3>1, <1>1 DEF Users
    <3>. QED  BY <2>1, <2>3, <3>2
  <2>. QED  BY <2>2, <2>3
<1>7. CallstacksLive'
  BY <1>1, <1>2, <1>4, <1>5 DEF IInv, CallstacksLive
<1>8. \A q \in alloc_stack_table' : pcs_refcount'[q] = 1 + Cardinality(Users(q)')
  <2> SUFFICES ASSUME NEW q \in alloc_stack_table'
               PROVE  pcs_refcount'[q] = 1 + Cardinality(Users(q)')
    OBVIOUS
  <2>1. /\ q \in alloc_stack_table /\ q \in Ids
        /\ pcs_refcount[q] = 1 + Cardinality(Users(q))
    BY <1>2 DEF IInv, TypeOK, RefcountsExact, Users
  <2>2. IsFiniteSet(Users(q)) /\ Cardinality(Users(q)) \in Nat
    BY UsersFinite, FS_CardinalityType DEF IInv
  <2>3. CASE q = pcs
    <3>1. e \notin Users(q)
      BY <1>1 DEF Users
    <3>2. Cardinality(Users(q)') = Cardinality(Users(q)) + 1
      BY <2>2, <2>3, <3>1, <1>6, FS_AddElement
    <3>. QED  BY <2>1, <2>2, <2>3, <3>2, <1>2 DEF IInv, TypeOK
  <2>4. CASE q # pcs
    BY <2>1, <2>4, <1>2, <1>6 DEF IInv, TypeOK
  <2>. QED  BY <2>3, <2>4
<1>. QED  BY <1>2, <1>3, <1>7, <1>8 DEF IInv, RefcountsExact, Users

-----------------------------------------------------------------------------
(* client_malloc_data_free keeps the invariant.  The entry's object is in  *)
(* the table with the entry among its users, so count, its count less one, *)
(* is its number of users; when that is 1 the entry was the last user and  *)
(* no other entry still names the object the table frees.                  *)
LEMMA MallocDataFreeIInv ==
  ASSUME IInv, NEW e \in Allocs, MallocDataFree(e)
  PROVE  IInv'
<1> DEFINE pcs   == malloc_data[e]
           count == pcs_refcount[pcs] - 1
<1>1. /\ e \in Entries
      /\ pcs \in alloc_stack_table /\ pcs \in Ids
      /\ e \in Users(pcs)
  BY DEF MallocDataFree, IInv, CallstacksLive, TypeOK, Users
<1>2. /\ IsFiniteSet(Users(pcs))
      /\ Cardinality(Users(pcs) \ {e}) = Cardinality(Users(pcs)) - 1
      /\ Cardinality(Users(pcs) \ {e}) \in Nat
  BY <1>1, UsersFinite, FS_RemoveElement, FS_CardinalityType DEF IInv
<1>3. count = Cardinality(Users(pcs)) /\ count \in Nat \ {0}
  <2>1. pcs_refcount[pcs] = 1 + Cardinality(Users(pcs))
    BY <1>1 DEF IInv, RefcountsExact, Users
  <2>2. Cardinality(Users(pcs)) \in Nat
    BY <1>2, FS_CardinalityType
  <2>. QED  BY <1>2, <2>1, <2>2
<1>4. \A f \in Allocs : malloc_data'[f] = IF f = e THEN NoData ELSE malloc_data[f]
  BY DEF MallocDataFree, IInv, TypeOK
<1>5. Entries' = Entries \ {e} /\ Entries \subseteq Allocs
  BY <1>4 DEF Entries
<1>6. \A q \in Ids : Users(q)' = IF q = pcs THEN Users(q) \ {e} ELSE Users(q)
  <2> SUFFICES ASSUME NEW q \in Ids
               PROVE  Users(q)' = IF q = pcs THEN Users(q) \ {e} ELSE Users(q)
    OBVIOUS
  <2>1. Users(q)' = {f \in Entries \ {e} : malloc_data'[f] = q}
    BY <1>5 DEF Users
  <2>. QED  BY <2>1, <1>4, <1>5 DEF Users
<1>7. UNCHANGED pcs_content /\ malloc_data' \in [Allocs -> Ids \cup {NoData}]
  BY <1>4, CallstackAssumption DEF MallocDataFree, IInv, TypeOK
<1>8. CASE count = 1
  <2>1. /\ alloc_stack_table' = alloc_stack_table \ {pcs}
        /\ pcs_live' = pcs_live \ {pcs}
        /\ pcs_refcount' = [pcs_refcount EXCEPT ![pcs] = 0]
    BY <1>8 DEF MallocDataFree
  <2>2. Users(pcs) = {e}
    <3>1. Cardinality(Users(pcs) \ {e}) = 0
      BY <1>2, <1>3, <1>8
    <3>2. IsFiniteSet(Users(pcs) \ {e})
      BY <1>2, FS_RemoveElement
    <3>3. Users(pcs) \ {e} = {}
      BY <3>1, <3>2, FS_EmptySet
    <3>. QED  BY <1>1, <3>3
  <2>3. \A f \in Entries' : malloc_data'[f] # pcs
    BY <2>2, <1>4, <1>5 DEF Users
  <2>4. TypeOK'
    BY <2>1, <1>7 DEF IInv, TypeOK
  <2>5. CallstacksLive'
    BY <2>1, <2>3, <1>4, <1>5 DEF IInv, CallstacksLive
  <2>6. RefcountsExact'
    BY <2>1, <1>6, <1>7 DEF IInv, TypeOK, RefcountsExact, Users
  <2>. QED  BY <2>4, <2>5, <2>6 DEF IInv
<1>9. CASE count # 1
  <2>1. /\ pcs_refcount' = [pcs_refcount EXCEPT ![pcs] = count]
        /\ UNCHANGED <<alloc_stack_table, pcs_live>>
    BY <1>9 DEF MallocDataFree
  <2>2. TypeOK'
    BY <2>1, <1>3, <1>7 DEF IInv, TypeOK
  <2>3. \A f \in Entries' : malloc_data'[f] \in alloc_stack_table'
    BY <2>1, <1>4, <1>5 DEF IInv, CallstacksLive
  <2>4. CallstacksLive'
    BY <2>1, <2>3 DEF IInv, CallstacksLive
  <2>5. \A q \in alloc_stack_table' : pcs_refcount'[q] = 1 + Cardinality(Users(q)')
    <3> SUFFICES ASSUME NEW q \in alloc_stack_table'
                 PROVE  pcs_refcount'[q] = 1 + Cardinality(Users(q)')
      OBVIOUS
    <3>1. q \in alloc_stack_table /\ q \in Ids
      BY <2>1 DEF IInv, TypeOK
    <3>2. CASE q = pcs
      BY <3>1, <3>2, <2>1, <1>2, <1>3, <1>6 DEF IInv, TypeOK
    <3>3. CASE q # pcs
      BY <3>1, <3>3, <2>1, <1>6 DEF IInv, TypeOK, RefcountsExact, Users
    <3>. QED  BY <3>2, <3>3
  <2>6. RefcountsExact'
    BY <2>1, <2>5, <1>7 DEF IInv, RefcountsExact, Users
  <2>. QED  BY <2>2, <2>4, <2>6 DEF IInv
<1>. QED  BY <1>8, <1>9

-----------------------------------------------------------------------------
(* Every step, or a stutter, keeps the invariant.                          *)
LEMMA NextIInv == IInv /\ [Next]_vars => IInv'
<1> SUFFICES ASSUME IInv, [Next]_vars PROVE IInv'
  OBVIOUS
<1>1. ASSUME NEW e \in Allocs, NEW c \in Contents, NEW p \in Ids,
             AddMallocPreNew(e, c, p)
      PROVE  IInv'
  BY <1>1, AddMallocPreNewIInv
<1>2. ASSUME NEW e \in Allocs, NEW e0 \in Allocs, AddMallocPreExisting(e, e0)
      PROVE  IInv'
  BY <1>2, AddMallocPreExistingIInv
<1>3. ASSUME NEW e \in Allocs, MallocDataFree(e)
      PROVE  IInv'
  BY <1>3, MallocDataFreeIInv
<1>4. CASE UNCHANGED vars
  BY <1>4 DEF vars, IInv, TypeOK, RefcountsExact, CallstacksLive, Entries
<1>. QED  BY <1>1, <1>2, <1>3, <1>4 DEF Next

(* The strengthened invariant holds in every reachable state.              *)
THEOREM IInvHolds == Spec => []IInv
BY InitIInv, NextIInv, PTL DEF Spec

(* The pool's table, the entries' client data and the objects' counts    *)
(* keep their types through every record, re-add and free.                *)
THEOREM TypeCorrect == Spec => []TypeOK
BY IInvHolds, PTL DEF IInv

(* Invariant 2 of the spec, for every set of objects, callstacks and       *)
(* entries: through client_add_malloc_pre (new records, duplicates freed,  *)
(* existing_data) and client_malloc_data_free, the table holds one object  *)
(* per callstack and each object's count is 1 plus its users.              *)
THEOREM RefcountsExactHolds == Spec => []RefcountsExact
BY IInvHolds, PTL DEF IInv

(* No callstack object leaks or is used after free: the live objects are   *)
(* the table's, and every entry's data is a table object.                  *)
THEOREM CallstacksLiveHolds == Spec => []CallstacksLive
BY IInvHolds, PTL DEF IInv
=============================================================================
