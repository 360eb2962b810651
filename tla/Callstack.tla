------------------------------ MODULE Callstack ------------------------------
(***************************************************************************)
(* The shared allocation-callstack pool alloc_stack_table (lines 39-45)    *)
(* and the two malloc-table callbacks that keep its reference counts:      *)
(* client_add_malloc_pre (285-322) and client_malloc_data_free (268-283). *)
(* Both run with the malloc table's lock held, so each call is one step.   *)
(*                                                                         *)
(* A packed callstack is an object of Ids with a content and a reference   *)
(* count (callstack.c, outside this repository: packed_callstack_record    *)
(* returns a new object with count 1, packed_callstack_free decrements and *)
(* frees at 0).  The table is keyed by content (HASH_CUSTOM with           *)
(* packed_callstack_cmp) and frees an entry it removes through             *)
(* alloc_callstack_free.  Allocations are the malloc table's entries; the  *)
(* malloc-table code that calls these callbacks is outside this           *)
(* repository and is modelled by the calls it makes.                      *)
(***************************************************************************)
EXTENDS Naturals, FiniteSets

CONSTANTS
  Ids,       \* packed_callstack_t objects that can be live at once
  Contents,  \* distinct callstacks (the frames a record captures)
  Allocs,    \* malloc-table entries
  NoData     \* the client data of an entry not in the malloc table

(* NoData is no object; the malloc table has finitely many entries.       *)
ASSUME CallstackAssumption == NoData \notin Ids /\ IsFiniteSet(Allocs)

VARIABLES
  alloc_stack_table,  \* the objects in the table, SUBSET Ids
  pcs_live,           \* the objects allocated and not yet freed
  pcs_content,        \* Ids -> Contents
  pcs_refcount,       \* Ids -> Nat
  malloc_data         \* each entry's client data: Allocs -> Ids \cup {NoData}

vars == <<alloc_stack_table, pcs_live, pcs_content, pcs_refcount, malloc_data>>

(* The entries in the malloc table.                                        *)
Entries == {e \in Allocs : malloc_data[e] # NoData}

(* hashtable_lookup: the table's object with content c, if any.            *)
TableWith(c) == {q \in alloc_stack_table : pcs_content[q] = c}

-----------------------------------------------------------------------------
Init ==
  /\ alloc_stack_table = {}
  /\ pcs_live = {}
  /\ pcs_content \in [Ids -> Contents]
  /\ pcs_refcount = [p \in Ids |-> 0]
  /\ malloc_data = [e \in Allocs |-> NoData]

(* Mutant: the duplicate record not freed (PR 533755 undone).            *)
AddMallocPreNewLeak(e, c, p) ==
  LET dup == TableWith(c)
      pcs == IF dup = {} THEN p ELSE CHOOSE q \in dup : TRUE
  IN
  /\ e \notin Entries
  /\ p \notin pcs_live
  /\ alloc_stack_table' = IF dup = {} THEN alloc_stack_table \cup {p}
                          ELSE alloc_stack_table
  /\ pcs_live' = pcs_live \cup {p}
  /\ pcs_content' = [pcs_content EXCEPT ![p] = c]
  /\ pcs_refcount' = [pcs_refcount EXCEPT ![p] = IF dup = {} THEN 2 ELSE 1,
                                          ![pcs] = IF dup = {} THEN 2 ELSE @ + 1]
  /\ malloc_data' = [malloc_data EXCEPT ![e] = pcs]

(* client_add_malloc_pre with existing_data NULL for a new entry e whose   *)
(* allocation site has callstack c: packed_callstack_record makes a new    *)
(* object p; hashtable_add keeps it if no object of that content is there, *)
(* else p is freed (PR 533755) and the one there is used; then the entry's *)
(* reference is added.                                                     *)
AddMallocPreNew(e, c, p) ==
  LET dup == TableWith(c)
      pcs == IF dup = {} THEN p ELSE CHOOSE q \in dup : TRUE
  IN
  /\ e \notin Entries
  /\ p \notin pcs_live
  /\ alloc_stack_table' = IF dup = {} THEN alloc_stack_table \cup {p}
                          ELSE alloc_stack_table
  /\ pcs_live' = IF dup = {} THEN pcs_live \cup {p} ELSE pcs_live
  /\ pcs_content' = [pcs_content EXCEPT ![p] = c]
  /\ pcs_refcount' = [pcs_refcount EXCEPT ![p] = IF dup = {} THEN 2 ELSE 0,
                                          ![pcs] = IF dup = {} THEN 2 ELSE @ + 1]
  /\ malloc_data' = [malloc_data EXCEPT ![e] = pcs]

(* Mutant: the existing_data path also dropping a reference, as if the     *)
(* PR 533755 test were missing: the free and the add_ref cancel out.       *)
AddMallocPreExistingFree(e, e0) ==
  LET pcs == malloc_data[e0] IN
  /\ e \notin Entries
  /\ e0 \in Entries
  /\ malloc_data' = [malloc_data EXCEPT ![e] = pcs]
  /\ UNCHANGED <<alloc_stack_table, pcs_live, pcs_content, pcs_refcount>>

(* client_add_malloc_pre with existing_data, the client data of entry e0   *)
(* still in the table (the malloc table re-adding an allocation with its  *)
(* data): hashtable_add finds the object itself there, and the new entry's *)
(* reference is added.                                                     *)
AddMallocPreExisting(e, e0) ==
  LET pcs == malloc_data[e0] IN
  /\ e \notin Entries
  /\ e0 \in Entries
  /\ pcs_refcount' = [pcs_refcount EXCEPT ![pcs] = @ + 1]
  /\ malloc_data' = [malloc_data EXCEPT ![e] = pcs]
  /\ UNCHANGED <<alloc_stack_table, pcs_live, pcs_content>>

(* Mutant: hashtable_remove called whatever the count left, the test of    *)
(* count == 1 missing.                                                     *)
MallocDataFreeAlwaysRemove(e) ==
  LET pcs == malloc_data[e] IN
  /\ e \in Entries
  /\ alloc_stack_table' = alloc_stack_table \ {pcs}
  /\ pcs_live' = pcs_live \ {pcs}
  /\ pcs_refcount' = [pcs_refcount EXCEPT ![pcs] = @ - 2]
  /\ malloc_data' = [malloc_data EXCEPT ![e] = NoData]
  /\ UNCHANGED pcs_content

(* client_malloc_data_free for entry e leaving the malloc table: drop its  *)
(* reference; if only the table's is left, hashtable_remove drops that one *)
(* too, through alloc_callstack_free, and the object is freed.             *)
MallocDataFree(e) ==
  LET pcs   == malloc_data[e]
      count == pcs_refcount[pcs] - 1
  IN
  /\ e \in Entries
  /\ IF count = 1
       THEN /\ alloc_stack_table' = alloc_stack_table \ {pcs}
            /\ pcs_live' = pcs_live \ {pcs}
            /\ pcs_refcount' = [pcs_refcount EXCEPT ![pcs] = 0]
       ELSE /\ pcs_refcount' = [pcs_refcount EXCEPT ![pcs] = count]
            /\ UNCHANGED <<alloc_stack_table, pcs_live>>
  /\ malloc_data' = [malloc_data EXCEPT ![e] = NoData]
  /\ UNCHANGED pcs_content

Next ==
  \/ \E e \in Allocs, c \in Contents, p \in Ids : AddMallocPreNew(e, c, p)
  \/ \E e, e0 \in Allocs : AddMallocPreExisting(e, e0)
  \/ \E e \in Allocs : MallocDataFree(e)

Spec == Init /\ [][Next]_vars

-----------------------------------------------------------------------------
TypeOK ==
  /\ alloc_stack_table \subseteq Ids
  /\ pcs_live \subseteq Ids
  /\ pcs_content \in [Ids -> Contents]
  /\ pcs_refcount \in [Ids -> Nat]
  /\ malloc_data \in [Allocs -> Ids \cup {NoData}]

(* Invariant 2 of the spec: the table holds at most one object per         *)
(* callstack, and an object's count is the table's reference plus one per  *)
(* malloc-table entry using it, so it is freed exactly when its last user  *)
(* leaves.                                                                 *)
RefcountsExact ==
  /\ \A p, q \in alloc_stack_table : p # q => pcs_content[p] # pcs_content[q]
  /\ \A p \in alloc_stack_table :
       pcs_refcount[p] = 1 + Cardinality({e \in Entries : malloc_data[e] = p})

(* No callstack object is leaked or used after free: the live objects are  *)
(* exactly those in the table, and every entry's data is one of them.      *)
CallstacksLive ==
  /\ pcs_live = alloc_stack_table
  /\ \A e \in Entries : malloc_data[e] \in alloc_stack_table
=============================================================================
