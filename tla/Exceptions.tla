----------------------------- MODULE Exceptions -----------------------------
(***************************************************************************)
(* The exception recognizer (lines 1064-1624): check_unaddressable_        *)
(* exceptions decides, on the cold path of an access that checked          *)
(* unaddressable, whether the access is a known benign one.  It tries, in  *)
(* order, the allocator's own heap-header accesses, the Windows TLS slots  *)
(* (bitmap lookup) or the Linux loader reading the tool's libraries, and   *)
(* then is_ok_unaddressable_pattern, which decodes the faulting            *)
(* instruction and its neighbours and tries the alloca, strlen, strcpy and *)
(* rawmemchr patterns.                                                     *)
(*                                                                         *)
(* The recognizer is a pure decision, so each state of this module is one *)
(* input and the spec never leaves it.  An instruction is a record of its  *)
(* bytes and of what DR's decoder returns for it (opcode, validity, first  *)
(* destination, first two sources); an operand is a register with its     *)
(* size, a base-disp memory reference, an immediate or nothing.  The code  *)
(* around pc is the bytes before pc (pre), the faulting instruction, the   *)
(* next one and the one after, and readability is that of the page the    *)
(* code is on.  Immediates and displacements are the signed 32-bit values  *)
(* the decoder returns; the code compares them with C literals, which is   *)
(* modelled with C's conversions.                                          *)
(***************************************************************************)
EXTENDS Integers, Sequences

CONSTANTS
  PtrSize,          \* sizeof(void*)
  TlsSlotCount,     \* the 64 slots of teb->TlsSlots
  ExpansionSlots,   \* TLS_EXPANSION_BITMAP_SLOTS
  TlsBase,          \* &teb->TlsSlots[0]
  ExpBase,          \* teb->TlsExpansionSlots when it is set
  ToolLib,          \* the addresses of DR's and Dr. Memory's libraries
  HeapRegion,       \* the addresses is_in_heap_region accepts
  Unreadable,       \* data addresses dr_memory_is_readable refuses
  MaxInstrSize,     \* MAX_INSTR_SIZE
  Pres, Faults, Nexts, Afters,   \* the code around pc the inputs range over
  PatternAddrs, EnvAddrs,        \* the accessed addresses they range over
  EnvCodes,         \* the code around pc tried with every other input
  Documented        \* the sequences the code's comments list: [code, probe]

(* The word and slot sizes are positive and the addresses naturals.  The   *)
(* recognizer runs on an access that checked unaddressable, so the         *)
(* faulting instruction accesses memory: a mov_ld (mov reg, r/m) faults    *)
(* only through its source operand.                                        *)
ASSUME ExceptionsAssumption ==
  /\ PtrSize \in Nat \ {0}
  /\ ExpansionSlots \in Nat
  /\ ExpBase \in Nat
  /\ PatternAddrs \cup EnvAddrs \subseteq Nat
  /\ \A f \in Faults \cup {c[2] : c \in EnvCodes} :
       f.opc = "mov_ld" => f.src0.k = "mem"

OPSZ_PTR == PtrSize
BIG == 10000    \* a page end past every byte the recognizer may probe

(* A 32-bit value is held as the int with its bit pattern: four bytes,   *)
(* most significant first, the top bit the sign.                           *)
Bits32(b3, b2, b1, b0) ==
  (IF b3 >= 128 THEN b3 - 256 ELSE b3) * 16777216 + b2 * 65536 + b1 * 256 + b0

(* The C literals the patterns compare with.                               *)
C_0xfefefeff == Bits32(254, 254, 254, 255)
C_0x7efefeff == Bits32(126, 254, 254, 255)
C_0x3274c084 == Bits32(50, 116, 192, 132)    \* the bytes 84 c0 74 32: test al,al; jz +0x32
C_0xc233fff0 == Bits32(194, 51, 255, 240)    \* the bytes f0 ff 33 c2
Byte_xchg_esp_eax == 148      \* 0x94
Byte_nop == 144               \* 0x90

VARIABLES
  windows,          \* the build: TRUE for Windows, FALSE for Linux
  loc_pc,           \* loc->type == APP_LOC_PC (FALSE for a system call)
  pre, fault, next, after,   \* the code around pc
  page,             \* where the code page holding pc starts and ends
  addr,             \* the unaddressable address accessed
  in_heap_routine,  \* pt->in_heap_routine > 0
  tls_bm, exp_bm,   \* the first word of the TLS and expansion bitmaps
  exp_set,          \* teb->TlsExpansionSlots != NULL
  pc_module         \* dr_lookup_module(pc): none, ld-linux, the tool's lib, other

vars == <<windows, loc_pc, pre, fault, next, after, page, addr, in_heap_routine,
          tls_bm, exp_bm, exp_set, pc_module>>

-----------------------------------------------------------------------------
(* The bytes around pc, offsets from the first byte of pre; nops follow.   *)
Code == pre \o fault.bytes \o next.bytes \o after.bytes \o [i \in 1 .. 8 |-> Byte_nop]
Byte(o) == Code[o + 1]
PcOff == Len(pre)
NextOff == PcOff + Len(fault.bytes)
AfterOff == NextOff + Len(next.bytes)

(* dr_memory_is_readable on the code page.                                 *)
PageLo == IF page = "starts_at_pc" THEN PcOff ELSE 0
PageHi == IF page = "ends_at_next" THEN NextOff ELSE BIG
Readable(o, n) == PageLo <= o /\ o + n <= PageHi

(* *(int * )p: four bytes, little-endian, as a signed 32-bit int.          *)
RawInt(o) == Bits32(Byte(o + 3), Byte(o + 2), Byte(o + 1), Byte(o))
(* An int compared with an unsigned C literal is converted to unsigned:    *)
(* the two are equal exactly when their bit patterns are.                  *)
EqUnsigned(x, lit) == x = lit

Aligned4(a) == a % 4 = 0

IsReg(o, r) == o.k = "reg" /\ o.reg = r
(* A base-disp operand [base + disp] with no index.                        *)
IsBaseDisp(o, b, d) ==
  o.k = "mem" /\ o.base = b /\ o.index = "null" /\ o.scale = 0 /\ o.disp = d

-----------------------------------------------------------------------------
(* Mutant: the alignment test missing, so a whole-word overrun matches.   *)
IsRawmemchrPatternAnyAlign ==
  LET xorSkip == next.valid /\ next.opc = "xor" /\ next.src0.k = "reg"
                 /\ next.dst0.k = "reg" /\ next.dst0.size = OPSZ_PTR
      m == IF xorSkip THEN after ELSE next
  IN /\ Readable(NextOff, MaxInstrSize)
     /\ fault.opc = "mov_ld" /\ fault.dst0.k = "reg" /\ fault.dst0.size = OPSZ_PTR
     /\ xorSkip => Readable(AfterOff, MaxInstrSize)
     /\ m.valid /\ m.opc = "mov_imm"
     /\ \/ EqUnsigned(m.src0.val, C_0xfefefeff)
        \/ m.src0.val = C_0x7efefeff
     /\ m.dst0.k = "reg"

(* is_rawmemchr_pattern (1064-1138): an unaligned pointer-sized load into  *)
(* a register, an optional xor r,r (re-probed), then mov of the magic      *)
(* constant into a register.                                               *)
IsRawmemchrPattern ==
  LET xorSkip == next.valid /\ next.opc = "xor" /\ next.src0.k = "reg"
                 /\ next.dst0.k = "reg" /\ next.dst0.size = OPSZ_PTR
      m == IF xorSkip THEN after ELSE next
  IN /\ Readable(NextOff, MaxInstrSize)
     /\ ~Aligned4(addr)
     /\ fault.opc = "mov_ld" /\ fault.dst0.k = "reg" /\ fault.dst0.size = OPSZ_PTR
     /\ xorSkip => Readable(AfterOff, MaxInstrSize)
     /\ m.valid /\ m.opc = "mov_imm"
     /\ \/ EqUnsigned(m.src0.val, C_0xfefefeff)
        \/ m.src0.val = C_0x7efefeff
     /\ m.dst0.k = "reg"

(* is_alloca_pattern (1140-1301): test [ecx|eax],eax followed by cmp eax,  *)
(* mov esp,ecx, xchg esp or jmp; mov eax,[eax] right after the byte of     *)
(* xchg esp,eax; or [ecx],0.  The three branches are an if-else chain on   *)
(* the faulting opcode, which no two share.                                *)
IsAllocaPattern ==
  /\ Readable(PcOff - 1, (NextOff - (PcOff - 1)) + MaxInstrSize)
  /\ \/ /\ fault.opc = "test"
        /\ fault.src0.k = "mem" /\ fault.src0.base \in {"ecx", "eax"}
        /\ IsBaseDisp(fault.src0, fault.src0.base, 0)
        /\ IsReg(fault.src1, "eax")
        /\ next.valid
        /\ \/ next.opc = "cmp" /\ IsReg(next.src0, "eax") /\ next.src1.k = "imm"
           \/ next.opc \in {"mov_ld", "mov_st"} /\ IsReg(next.src0, "ecx")
              /\ IsReg(next.dst0, "esp")
           \/ next.opc = "xchg" /\ IsReg(next.src0, "esp")
           \/ next.opc \in {"jmp", "jmp_short"}
     \/ /\ fault.opc = "mov_ld"
        /\ IsBaseDisp(fault.src0, "eax", 0) /\ IsReg(fault.dst0, "eax")
        /\ Byte(PcOff - 1) = Byte_xchg_esp_eax
     \/ /\ fault.opc = "or"
        /\ IsBaseDisp(fault.dst0, "ecx", 0)
        /\ fault.src0.k = "imm" /\ fault.src0.val = 0

(* Mutant: only the disp 0 load accepted, the [ecx-4] of line 90 missed.  *)
IsStrlenPatternNoMinus4 ==
  /\ Readable(PcOff - 4, (NextOff - (PcOff - 4)) + MaxInstrSize)
  /\ ~Aligned4(addr)
  /\ fault.opc = "mov_ld"
  /\ \/ /\ fault.src0.k = "mem" /\ fault.src0.disp = 0
        /\ IsBaseDisp(fault.src0, "ecx", fault.src0.disp) /\ IsReg(fault.dst0, "eax")
        /\ next.valid
        /\ \/ RawInt(NextOff) = C_0x3274c084
           \/ /\ next.opc = "mov_imm" /\ next.src0.k = "imm"
              /\ next.src0.val = C_0x7efefeff /\ IsReg(next.dst0, "edx")
     \/ /\ IsBaseDisp(fault.src0, "esi", 0)
        /\ IsReg(fault.dst0, "eax") \/ IsReg(fault.dst0, "edx")
        /\ \/ RawInt(PcOff - 4) = C_0x7efefeff
           \/ EqUnsigned(RawInt(PcOff - 4), C_0xc233fff0)

(* is_strlen_pattern (1303-1402): unaligned mov eax,[ecx] or [ecx-4]       *)
(* followed by the raw bytes of test al,al; jz +0x32 or by mov edx,        *)
(* 0x7efefeff; else unaligned mov eax|edx,[esi] whose preceding four bytes *)
(* are 0x7efefeff or f0 ff 33 c2.                                           *)
IsStrlenPattern ==
  /\ Readable(PcOff - 4, (NextOff - (PcOff - 4)) + MaxInstrSize)
  /\ ~Aligned4(addr)
  /\ fault.opc = "mov_ld"
  /\ \/ /\ fault.src0.k = "mem" /\ fault.src0.disp \in {0, -4}
        /\ IsBaseDisp(fault.src0, "ecx", fault.src0.disp) /\ IsReg(fault.dst0, "eax")
        /\ next.valid
        /\ \/ RawInt(NextOff) = C_0x3274c084
           \/ /\ next.opc = "mov_imm" /\ next.src0.k = "imm"
              /\ next.src0.val = C_0x7efefeff /\ IsReg(next.dst0, "edx")
     \/ /\ IsBaseDisp(fault.src0, "esi", 0)
        /\ IsReg(fault.dst0, "eax") \/ IsReg(fault.dst0, "edx")
        /\ \/ RawInt(PcOff - 4) = C_0x7efefeff
           \/ EqUnsigned(RawInt(PcOff - 4), C_0xc233fff0)

(* is_strcpy_pattern (1404-1476): unaligned mov ecx,[ebx] and, two         *)
(* instructions on, lea eax,[ecx+0xfefefeff].  Only the first of the two   *)
(* decodes is probed.                                                      *)
IsStrcpyPattern ==
  /\ Readable(NextOff, MaxInstrSize)
  /\ ~Aligned4(addr)
  /\ fault.opc = "mov_ld"
  /\ IsBaseDisp(fault.src0, "ebx", 0) /\ IsReg(fault.dst0, "ecx")
  /\ next.valid
  /\ after.valid /\ after.opc = "lea"
  /\ after.src0.base = "ecx" /\ after.src0.index = "null" /\ after.src0.scale = 0
  /\ EqUnsigned(after.src0.disp, C_0xfefefeff)
  /\ IsReg(after.dst0, "eax")

(* is_ok_unaddressable_pattern (1479-1522): system-call locations and      *)
(* unreadable addresses or pcs are never matched; then the four patterns   *)
(* in order.  Every pattern leaves now_addressable false, so the shadow    *)
(* byte is never upgraded.                                                 *)
IsOkUnaddressablePattern ==
  /\ loc_pc
  /\ addr \notin Unreadable
  /\ Readable(PcOff, 1)
  /\ \/ IsAllocaPattern
     \/ IsStrlenPattern
     \/ IsStrcpyPattern
     \/ IsRawmemchrPattern

(* The Windows TLS slots (1589-1618): &TlsSlots[0] .. &TlsSlots[64], and   *)
(* the expansion slots when allocated, whose extent the code computes as   *)
(* TLS_EXPANSION_BITMAP_SLOTS * sizeof(byte).                              *)
InTlsSlots(a) == TlsBase <= a /\ a < TlsBase + TlsSlotCount * PtrSize
InTlsExpansionRange(a) == exp_set /\ ExpBase <= a /\ a < ExpBase + ExpansionSlots * 1

(* Buffer[slot/32] & (1 << (slot % 32)): bit slot % 32 of the unsigned    *)
(* bitmap word is set.                                                     *)
BitSet(bm, slot) == (bm[slot \div 32] \div 2^(slot % 32)) % 2 = 1

TlsOk ==
  IF InTlsSlots(addr) THEN BitSet(tls_bm, (addr - TlsBase) \div PtrSize)
  ELSE BitSet(exp_bm, (addr - ExpBase) \div PtrSize)

(* is_loader_exception (1528-1554): the target is in DR's or the tool's    *)
(* library and pc is in a module that is ld-linux.so.* or that library.   *)
IsLoaderException == addr \in ToolLib /\ pc_module \in {"ld-linux", "lib"}

(* check_unaddressable_exceptions (1557-1624): the heap-header exception   *)
(* first, then TLS on Windows (its answer is final) or the loader on      *)
(* Linux, then the instruction patterns.                                   *)
CheckUnaddressableExceptions ==
  IF addr \in HeapRegion /\ in_heap_routine THEN TRUE
  ELSE IF windows /\ (InTlsSlots(addr) \/ InTlsExpansionRange(addr)) THEN TlsOk
  ELSE IF ~windows /\ IsLoaderException THEN TRUE
  ELSE IsOkUnaddressablePattern

-----------------------------------------------------------------------------
TlsWords == 0 .. ((TlsSlotCount - 1) \div 32)
ExpWords == 0 .. ((ExpansionSlots - 1) \div 32)
Words(n) == 0 .. (2^(IF n < 32 THEN n ELSE 32) - 1)
NoBits(ws) == [w \in ws |-> 0]

(* Every combination of code around pc, page boundary and alignment, for   *)
(* an address no other exception covers.                                   *)
PatternInputs ==
  /\ windows \in BOOLEAN /\ loc_pc = TRUE
  /\ pre \in Pres /\ fault \in Faults /\ next \in Nexts /\ after \in Afters
  /\ page \in {"mid", "starts_at_pc", "ends_at_next"}
  /\ addr \in PatternAddrs /\ in_heap_routine = FALSE
  /\ tls_bm = NoBits(TlsWords) /\ exp_bm = NoBits(ExpWords) /\ exp_set = FALSE
  /\ pc_module = "none"

(* Every address, location kind, heap-routine state and TLS or loader      *)
(* state, with code around pc that does or does not match a pattern.       *)
EnvInputs ==
  /\ \E c \in EnvCodes : pre = c[1] /\ fault = c[2] /\ next = c[3] /\ after = c[4]
  /\ page = "mid" /\ loc_pc \in BOOLEAN
  /\ addr \in EnvAddrs /\ in_heap_routine \in BOOLEAN
  /\ \/ /\ windows = TRUE /\ pc_module = "none"
        /\ tls_bm \in [TlsWords -> Words(TlsSlotCount)]
        /\ exp_bm \in [ExpWords -> Words(ExpansionSlots)] /\ exp_set \in BOOLEAN
     \/ /\ windows = FALSE /\ pc_module \in {"none", "ld-linux", "lib", "other"}
        /\ tls_bm = NoBits(TlsWords) /\ exp_bm = NoBits(ExpWords) /\ exp_set = FALSE

Init == PatternInputs \/ EnvInputs

Spec == Init /\ [][UNCHANGED vars]_vars

-----------------------------------------------------------------------------
(* The TLS slot addr lies in, over the full extent of both arrays.         *)
InTlsSlot(a) ==
  InTlsSlots(a) \/ (exp_set /\ ExpBase <= a /\ a < ExpBase + ExpansionSlots * PtrSize)
TlsSlotAllocated == InTlsSlot(addr) /\ TlsOk

(* Spec 4.9, read coarsely: a probe is a test or or on memory, or a load   *)
(* right after xchg esp,eax; a word load is a load from memory into a      *)
(* register.                                                               *)
ProbeLike ==
  \/ fault.opc \in {"test", "or"} /\ (fault.src0.k = "mem" \/ fault.dst0.k = "mem")
  \/ fault.opc = "mov_ld" /\ Byte(PcOff - 1) = Byte_xchg_esp_eax
WordLoadLike == fault.opc = "mov_ld" /\ fault.src0.k = "mem" /\ fault.dst0.k = "reg"

(* No real error is hidden: check_unaddressable_exceptions excuses an      *)
(* access only if spec 4.9 does, that is an allocator's heap-header        *)
(* access, an allocated TLS slot, the loader reading the tool's library,  *)
(* a stack probe, or a word load that overruns at an unaligned address     *)
(* (never an aligned one, which is a whole-word overrun).                  *)
SuppressionAllowed ==
  CheckUnaddressableExceptions =>
    \/ addr \in HeapRegion /\ in_heap_routine
    \/ windows /\ TlsSlotAllocated
    \/ ~windows /\ addr \in ToolLib /\ pc_module \in {"ld-linux", "lib"}
    \/ loc_pc /\ ProbeLike
    \/ loc_pc /\ ~Aligned4(addr) /\ WordLoadLike

(* The sequences the comments of is_alloca_pattern, is_strlen_pattern,     *)
(* is_strcpy_pattern and is_rawmemchr_pattern show (chkstk, ntdll and      *)
(* cygwin alloca, gap.exe, intel strlen.asm, cygwin strcpy, glibc          *)
(* rawmemchr and strchr, Windows strchr) are all excused, probes at any    *)
(* address and word loads at an unaligned one, in mid-page code.           *)
DocumentedSuppressed ==
  (/\ loc_pc /\ page = "mid" /\ addr \in PatternAddrs
   /\ \E d \in Documented :
        /\ d.code = <<pre, fault, next, after>>
        /\ d.probe \/ ~Aligned4(addr))
  => CheckUnaddressableExceptions

(* Spec 4.9 rule 2: on Windows, an access to a TLS slot (not by the        *)
(* allocator in its heap) is excused exactly when the process TLS bitmap   *)
(* has the slot allocated, for the 64 slots and the expansion slots alike. *)
TlsSuppressedIffAllocated ==
  (windows /\ ~(addr \in HeapRegion /\ in_heap_routine) /\ InTlsSlot(addr))
  => (CheckUnaddressableExceptions <=> TlsOk)
=============================================================================
