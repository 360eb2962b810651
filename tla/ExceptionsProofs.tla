------------------------- MODULE ExceptionsProofs --------------------------
(***************************************************************************)
(* Proofs about the exception recognizer of module Exceptions: for every   *)
(* input, not only the instructions the runs enumerate, what               *)
(* check_unaddressable_exceptions excuses is one of the accesses spec 4.9  *)
(* allows.                                                                 *)
(***************************************************************************)
EXTENDS Exceptions, TLAPS

(* The input facts the argument needs: the address is a natural and the    *)
(* faulting instruction reaches memory, a mov_ld through its source.       *)
InputOK ==
  /\ addr \in Nat
  /\ fault.opc = "mov_ld" => fault.src0.k = "mem"

LEMMA InitInputOK == Init => InputOK
<1> SUFFICES ASSUME Init PROVE InputOK
  OBVIOUS
<1>1. CASE PatternInputs
  BY <1>1, ExceptionsAssumption DEF PatternInputs, InputOK
<1>2. CASE EnvInputs
  BY <1>2, ExceptionsAssumption DEF EnvInputs, InputOK
<1> QED
  BY <1>1, <1>2 DEF Init

(* The recognizer changes no state.                                        *)
LEMMA InputOKStable == InputOK /\ [UNCHANGED vars]_vars => InputOK'
BY DEF InputOK, vars

-----------------------------------------------------------------------------
(* Each pattern excuses a probe or an unaligned word load.                 *)

(* is_alloca_pattern matches only a test or or on memory, or a load right *)
(* after the byte of xchg esp,eax.                                         *)
LEMMA AllocaIsProbe == IsAllocaPattern => ProbeLike
<1> SUFFICES ASSUME IsAllocaPattern PROVE ProbeLike
  OBVIOUS
<1>1. CASE fault.opc = "test"
  BY <1>1 DEF IsAllocaPattern, ProbeLike
<1>2. CASE fault.opc = "mov_ld"
  BY <1>2 DEF IsAllocaPattern, ProbeLike
<1>3. CASE fault.opc = "or"
  BY <1>3 DEF IsAllocaPattern, ProbeLike, IsBaseDisp
<1> QED
  BY <1>1, <1>2, <1>3 DEF IsAllocaPattern

(* is_strlen_pattern matches only an unaligned load from a base-disp      *)
(* operand into eax or edx.                                                *)
LEMMA StrlenIsWordLoad == IsStrlenPattern => ~Aligned4(addr) /\ WordLoadLike
BY DEF IsStrlenPattern, WordLoadLike, IsBaseDisp, IsReg

(* is_strcpy_pattern matches only an unaligned mov ecx,[ebx].             *)
LEMMA StrcpyIsWordLoad == IsStrcpyPattern => ~Aligned4(addr) /\ WordLoadLike
BY DEF IsStrcpyPattern, WordLoadLike, IsBaseDisp, IsReg

(* is_rawmemchr_pattern tests only the destination of the mov_ld; that it *)
(* loads from memory is what the fault tells.                              *)
LEMMA RawmemchrIsWordLoad ==
  InputOK /\ IsRawmemchrPattern => ~Aligned4(addr) /\ WordLoadLike
BY DEF InputOK, IsRawmemchrPattern, WordLoadLike

-----------------------------------------------------------------------------
(* An access check_unaddressable_exceptions excuses through the TLS        *)
(* branch lies in a TLS slot: the expansion range the code tests, of       *)
(* TLS_EXPANSION_BITMAP_SLOTS bytes, is inside the slots' full extent.     *)
LEMMA TlsBranchInSlot ==
  ASSUME InputOK, InTlsSlots(addr) \/ InTlsExpansionRange(addr)
  PROVE  InTlsSlot(addr)
<1>1. CASE InTlsSlots(addr)
  BY <1>1 DEF InTlsSlot
<1>2. CASE InTlsExpansionRange(addr)
  <2>1. ExpansionSlots * 1 <= ExpansionSlots * PtrSize
    BY ExceptionsAssumption
  <2> QED
    BY <1>2, <2>1, ExceptionsAssumption DEF InputOK, InTlsExpansionRange, InTlsSlot
<1> QED
  BY <1>1, <1>2

(* No real error is hidden, for every input: the branch of                 *)
(* check_unaddressable_exceptions that excuses an access is the heap       *)
(* header, an allocated TLS slot, the loader, or a pattern, and every      *)
(* pattern is a probe or an unaligned word load.                           *)
LEMMA InputOKAllowed == InputOK => SuppressionAllowed
<1> SUFFICES ASSUME InputOK, CheckUnaddressableExceptions
             PROVE  \/ addr \in HeapRegion /\ in_heap_routine
                    \/ windows /\ TlsSlotAllocated
                    \/ ~windows /\ addr \in ToolLib /\ pc_module \in {"ld-linux", "lib"}
                    \/ loc_pc /\ ProbeLike
                    \/ loc_pc /\ ~Aligned4(addr) /\ WordLoadLike
  BY DEF SuppressionAllowed
<1>1. CASE addr \in HeapRegion /\ in_heap_routine
  BY <1>1
<1>2. CASE ~(addr \in HeapRegion /\ in_heap_routine)
           /\ windows /\ (InTlsSlots(addr) \/ InTlsExpansionRange(addr))
  <2>1. TlsOk
    BY <1>2 DEF CheckUnaddressableExceptions
  <2>2. InTlsSlot(addr)
    BY <1>2, TlsBranchInSlot
  <2> QED
    BY <1>2, <2>1, <2>2 DEF TlsSlotAllocated
<1>3. CASE ~(addr \in HeapRegion /\ in_heap_routine)
           /\ ~(windows /\ (InTlsSlots(addr) \/ InTlsExpansionRange(addr)))
           /\ ~windows /\ IsLoaderException
  BY <1>3 DEF IsLoaderException
<1>4. CASE ~(addr \in HeapRegion /\ in_heap_routine)
           /\ ~(windows /\ (InTlsSlots(addr) \/ InTlsExpansionRange(addr)))
           /\ ~(~windows /\ IsLoaderException)
  <2>1. IsOkUnaddressablePattern
    BY <1>4 DEF CheckUnaddressableExceptions
  <2>2. loc_pc
    BY <2>1 DEF IsOkUnaddressablePattern
  <2>3. ProbeLike \/ (~Aligned4(addr) /\ WordLoadLike)
    BY <2>1, AllocaIsProbe, StrlenIsWordLoad, StrcpyIsWordLoad, RawmemchrIsWordLoad
       DEF IsOkUnaddressablePattern
  <2> QED
    BY <2>2, <2>3
<1> QED
  BY <1>1, <1>2, <1>3, <1>4

(* check_unaddressable_exceptions never excuses an access spec 4.9 does    *)
(* not allow, for every TLS layout, library set, heap region and           *)
(* instruction around pc: in particular no pattern excuses an aligned      *)
(* whole-word load.                                                        *)
THEOREM SuppressionAllowedHolds == Spec => []SuppressionAllowed
<1>1. Spec => []InputOK
  BY InitInputOK, InputOKStable, PTL DEF Spec
<1> QED
  BY <1>1, InputOKAllowed, PTL
=============================================================================
