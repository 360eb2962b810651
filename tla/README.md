# TLA+ models of Dr. Memory's allocation tracking (`alloc_drmem.c`)

This directory holds TLA+ models of `src/drmemory/alloc_drmem.c`. That file is
the part of Dr. Memory that reacts to the application's allocator calls,
memory-mapping system calls, signals and (on Windows) kernel callbacks, and
keeps the shadow memory in step with them. It also decides which
unaddressable accesses are benign. The models come with TLC configurations
that check them on small instances, and with TLAPS proofs of the invariants
of the quarantine, the callstack pool, the mapping tracker, the signal
frames and the callback stack.
`PROJECT.json` lists the components, the runs, the source lines each
definition models, the findings and the hazards.

Section numbers such as 4.6 refer to `spec.md` at the root of the repository;
component names C1-C9 are the spec's.

## 1. The system

| # | Component | State in the code | Operations (lines of `alloc_drmem.c`) | Module |
|---|-----------|-------------------|---------------------------------------|--------|
| C1 | Shadow-memory facade (`readwrite.h`) | one tag per byte: unaddressable, undefined, defined | `shadow_set_range`, `shadow_copy_range` (outside `src/`) | `Shadow` |
| C2 | Interval tree | red-black tree of disjoint ranges (`redblack.c`, outside `src/`) | `rb_insert`, `rb_delete`, `rb_overlaps_node`, `rb_in_node`, `rb_find` | by contract in `DelayFree`, `MmapTree` |
| C3 | Anonymous-map tracker | `mmap_tree`, `mmap_tree_lock` | `mmap_tree_add/remove`, `mmap_anon_lookup` (186-254) | `MmapTree` |
| C4 | Shared-callstack pool | `alloc_stack_table` of packed callstacks with refcounts | `client_add_malloc_pre`, `client_malloc_data_free`, `alloc_callstack_free` (256-322) | `Callstack` |
| C5 | Delayed-free quarantine | `delay_free_list`, `_head`, `_fill`, `delay_free_tree`, `delay_free_lock` (64-96) | quarantine part of `client_handle_free` (466-548), `client_handle_heap_destroy` (552-572), `overlaps_delayed_free` (586-617) | `DelayFree`, `DelayFreeFIFO` |
| C6 | Allocator event handler | none of its own: drives C1, C4, C5 | `client_handle_malloc` (350-370), `client_handle_realloc` (372-426), `client_handle_free` | `AllocShadow` |
| C7 | Memory-map event handler | none of its own: drives C1, C3 | `client_handle_mmap/munmap/munmap_fail/mremap` (619-730) | `MmapTree` |
| C8 | Signal / callback handler | per thread: `signal_xsp`, `sigframe_top`, `sigaltstack(size)` and their saved copies, `pre_callback_esp`, `shadow_regs`; `sighand_table` | sigaction, sigaltstack, rt_sigreturn in `client_pre/post_syscall`, `event_signal_alloc`, `at_signal_handler` (818-1057); `client_handle_Ki`, `_callback`, `_cbret`, NtContinue (733-856) | `Signals`, `Callbacks` |
| C9 | Exception recognizer | none: predicates on instructions and shadow | `check_unaddressable_exceptions` with the heap-header, TLS and loader exceptions and the alloca, strlen, strcpy and rawmemchr patterns (1064-1624) | `Exceptions`, `ExceptionsProofs` |

How they interact:
- **Allocator handlers.** The allocator routines are intercepted outside
  this file. The malloc and realloc handlers run after the real routine
  returns, so another thread may run in between; only the quarantine has a
  lock.
- **Free.** The free handler runs before the real free and marks the chunk
  unaddressable. It puts the chunk in the C5 FIFO, and its return value (an
  older quarantined chunk, or NULL) is what really gets freed. The C5 tree
  mirrors the FIFO, so that the unaddressable-access reporter can ask
  whether an address lies in a freed chunk.
- **Callstacks.** Every allocation record points at a C4 callstack, and C4
  shares equal callstacks between records.
- **Mappings.** The mapping handlers mark anonymous mappings defined (unless
  a heap routine made them) and unmapped memory unaddressable. They record
  the mappings in C3, which the stack and heap code query.
- **Signals and callbacks.** The signal handlers mark the frame the kernel
  pushed defined while the application's handler runs and unaddressable
  after sigreturn. The Windows handlers do the same for the data the kernel
  pushes before a Ki dispatcher.

## 2. Modules

| Module | Models | State and actions |
|--------|--------|-------------------|
| `Shadow` | C1, realloc arithmetic | `ShadowSetRange`, `ShadowCopyRange` on a map from address to tag; `ReallocShadow` (388-421) |
| `DelayFree` | C5 (+ C2 contract) | the globals; `Free` (locked part of `client_handle_free`), `HeapDestroy`, and the environment's `Malloc`, `HeapCreate`; `OverlapsDelayedFree` is the query |
| `DelayFreeFIFO` | C5, abstract | a sequence of at most `DelayFrees` entries: free appends, and evicts the oldest when full |
| `DelayFreeProofs` | | TLAPS proofs about `DelayFree` |
| `AllocShadow` | C6 + C5 + C1 | threads with an allocator call in progress: real `malloc`/`realloc` steps, then their handlers; `free` with its handler |
| `AllocShadowProofs` | | TLAPS proofs about `AllocShadow` |
| `ReallocShadowCheck` | C1 | `ReallocShadow` against the byte-wise definition of 4.6, for every input |
| `Callstack` | C4 | table, live objects, contents, refcounts, each malloc entry's data; `AddMallocPreNew`, `AddMallocPreExisting`, `MallocDataFree` |
| `CallstackProofs` | | TLAPS proofs about `Callstack` |
| `MmapTree` | C3 + C7 (+ C2 contract) | kernel's mapped pages, `mmap_tree`, shadow; `ClientHandleMmap`, `ClientHandleMunmap` (success or failure), `ClientHandleMremap` |
| `MmapTreeProofs` | | TLAPS proofs about `MmapTree` |
| `SignalsProofs` | | TLAPS proofs about `Signals` |
| `CallbacksProofs` | | TLAPS proofs about `Callbacks` |
| `Signals` | C8, Linux | the per-thread fields, `sighand_table`, and the kernel's handler, altstack and frames; `SysSigaction`, `SysSigaltstack`, `SignalEvent`, `AtSignalHandler`, `Sigreturn` |
| `Callbacks` | C8, Windows | stack pointer, shadow, callback depth, per-depth `cpt`, kernel transfers; `ClientHandleKi`, `ClientHandleCbret`, `NtContinue`, and the application's pushes and pops |
| `Exceptions` | C9 | no actions: each state is one input (build, location kind, code around pc, code page, address, heap-routine flag, TLS bitmaps, pc's module); `CheckUnaddressableExceptions` and one predicate per routine |
| `ExceptionsProofs` | | TLAPS proofs about `Exceptions` |
| `MCExceptions` | | the instruction alphabet: 16 faulting, 16 next and 5 following instructions, 5 preceding byte runs, and the 14 sequences the code's comments document |
| `MC*` | | the constants of the runs |

Notes on the correspondence:
- **DelayFree.** `delay_free_list` maps slot index to `[addr, heap]`. The
  tree is a set of nodes `[base, size, nored]`, where `nored` is the payload
  `base == real_base` of line 494. A chunk is a constant record with its app
  base, real base (`rb`), capacity and heap. `tree_assert` records that a
  "delay_free_tree inconsistent" assertion (542, 564) would fire; the model
  continues, as a release build does.
- **Callstack.** Both callbacks run under the malloc table's lock, so each
  call is one step. `packed_callstack_record/free` (callstack.c) are taken
  by their contract: a new object has count 1, and free decrements it and
  frees at 0. The table key is the content (`packed_callstack_cmp`).
- **MmapTree.** Addresses are pages. One system call with its pre- and
  post-handlers is one step. A failing munmap is the pre-handler followed
  by `client_handle_munmap_fail`. `MmapTreeAdd` is the set of outcomes, one
  for each overlapping node `rb_insert` may return.
- **Signals.** One thread: its events run on it one at a time, and other
  threads only add to `sighand_table`. The kernel's frame placement is
  modelled by what Linux does: at the altstack top unless it is disabled or
  already in use (`on_sig_stack`). A frame that would not lie on an enabled
  altstack is not delivered, because `get_sigframe` kills the thread. That
  kernel test (`sp > ss_sp`) accepts the same frames as the code's strict
  `sigaltstack - xsp < sigaltsize`. sigaltstack fails with EPERM while the
  thread runs on the altstack.
- **Callbacks.** The stack instrumentation outside this file is modelled by
  what it does: a push marks the new top byte, and a pop marks the old one
  unaddressable. A CONTEXT has one byte per register at the bottom of the
  kernel data.
- **Exceptions.** An instruction is a record of its bytes and of what DR's
  decoder returns for it: opcode, validity, first destination and first two
  sources, each a register with its size, a base-disp reference, an
  immediate or nothing. The code around pc is the bytes before pc, the
  faulting instruction, the next one and the one after. `Readable` is
  `dr_memory_is_readable` on the code page, which may start at pc or end
  at the next instruction. Raw reads (`*(int *)dpc`, `*(pc-1)`) read those
  bytes little-endian. 32-bit values are held as their signed bit pattern
  (`Bits32`), which is what comparing an `int` with an unsigned literal
  such as `0xc233fff0` compares. A TLS bitmap bit is read arithmetically
  (`BitSet`: the word `slot / 32`, divided by `2^(slot % 32)`, odd), and
  the exception branches form the code's if/else-if chain. Every pattern leaves `now_addressable`
  false, so the recognizer changes no state, and the model is a predicate
  checked on every input.

## 3. Runs

| Run | Checks | Result | Bounds |
|-----|--------|--------|--------|
| `delayfree` | `TypeOK`, `TreeMirrorsList`, `QuarantineExact`, `FIFOSpec` | pass, 45743 states | 3 slots; 4 chunks in 2 heaps, one allocated before Dr. Memory took over (no redzones) |
| `delayfree_overlap` | `OverlapReportsAppBody` | violation | as above |
| `alloc_threads` | `SettledDelayedUnaddressable`, `UnheldUnaddressable` | pass, 11562 states | 2 threads, 3 chunks, 1 slot |
| `callstack` | `TypeOK`, `RefcountsExact`, `CallstacksLive` | pass | 3 entries, 2 callstacks, 3 objects |
| `mmap` | `TypeOK`, `TreeTracksAnon`, `UnmappedUnaddressable` | pass | 4 pages, no MAP_FIXED, mremap in place |
| `mmap_fixed` | `TreeTracksAnon` | violation | MAP_FIXED allowed |
| `mmap_move` | `UnmappedUnaddressable` | violation | MREMAP_MAYMOVE allowed |
| `signals` | `TypeOK`, `LiveFramesDefined`, `FramesReleased`, `AltstackTracked` | pass | 10 addresses, 4 altstacks (two at the size boundary), 2 handlers, one signal at a time |
| `signal_nested_alt` | `LiveFramesDefined` | violation | two nested signals |
| `callbacks` | `TypeOK`, `BeyondTosUnaddressable` | pass, 66249 states | 8-byte stack, kernel data of 2 or 3 bytes, walk cap 4, one callback level |
| `exceptions` | `SuppressionAllowed`, `DocumentedSuppressed` | pass, 127476 inputs | the alphabet of `MCExceptions`, 3 page placements, an aligned and an unaligned address; every address of a 32-byte space with the TLS, loader and heap states |
| `tls_expansion` | `TlsSuppressedIffAllocated` | violation | 2 TLS slots, 4 expansion slots of 4 bytes |

Why these bounds are enough:
- **Quarantine.** More chunks than slots make the FIFO fill, wrap and evict.
  Two heaps make heap destroy meet its own chunks and another heap's.
  `HeapCreate` may reuse a destroyed heap's handle, as Windows does.
- **Composed allocator run.** One slot makes every free evict. Two threads
  are enough for a malloc to fall between another thread's realloc and its
  handler.
- **Callstack pool.** Two entries can share a callstack. A duplicate can be
  recorded while the first is in the table, and an object's memory can be
  reused for another callstack.
- **Mappings.** Four pages allow two mappings side by side, one spanning
  both, and a partial unmap with residuals on both sides.
- **Signals.** Two altstacks each hold two frames, so a signal can nest
  on either stack, and switching between altstacks is possible. A third
  altstack holds one frame with one byte to spare. That is the tightest
  frame the kernel delivers and the boundary of the code's strict test. A
  fourth altstack is filled exactly by a frame, which the kernel refuses.
- **Callbacks.** The stack is deep enough for a dispatch both near the base
  and away from it, and for an exception dispatch inside a callback.
- **Recognizer.** The alphabet holds every instruction the patterns test
  for, and for each test a near miss: another base register, disp, opcode,
  destination or immediate, and an invalid decode. The preceding bytes
  include `xchg esp,eax` and both raw words strlen compares. The page may
  start at pc (pc-1 and pc-4 unreadable) or end right after the faulting
  instruction (the next decode unreadable). The address space has the two
  TLS arrays, the tool's library, a heap region and an unreadable address;
  the expansion array holds 4 pointer-sized slots, more than its 4-byte
  extent as the code computes it.

Properties:
- **TreeMirrorsList.** The tree's node bases are exactly the non-NULL
  addresses in the filled slots: what lines 542 and 564 assert.
- **QuarantineExact.** The chunks in the FIFO are exactly the chunks held
  back from the allocator (4.5).
- **FIFOSpec.** `DelayFree` implements `DelayFreeFIFO` under the refinement
  mapping `Queue`: the array read from `head` for `fill` entries. It checks
  the wrap arithmetic and that the oldest entry is the one evicted.
- **UnheldUnaddressable.** Spec invariant 1 for heap chunks at quiescent
  points: a chunk the application does not hold is unaddressable.
- **SettledDelayedUnaddressable.** Spec 4.5 in every state, not only at
  quiescent points: a chunk in the quarantine is unaddressable over its
  whole real range, redzones included. The exception is a chunk that is
  still the old region of a realloc whose `client_handle_realloc` has not
  run. The unrestricted form, `DelayedUnaddressable`, fails
  (`MCAllocShadow_reuse.cfg`). Thread 1 reallocs chunk B and moves it, and
  B is freed at once. Thread 2 mallocs B with a smaller size and frees it
  into the quarantine: only the new app range and its redzones are marked.
  The bytes past that, in B's trailing redzone, keep their old tags until
  thread 1's late handler rewrites the old region. This is the
  quarantine-side form of the race of the FIXME at line 377.
- **RefcountsExact.** Spec invariant 2: one table object per callstack, and
  an object's count is 1 plus its users.
- **CallstacksLive.** The live objects are the table's, and every entry's
  data is one of them: no leak, no use after free.
- **TreeTracksAnon.** The tree's pages are exactly the mapped anonymous
  pages (4.3).
- **UnmappedUnaddressable.** Spec invariant 1 for mappings.
- **LiveFramesDefined.** Spec invariant 6: the frame of every running
  handler is defined.
- **FramesReleased.** Stack memory is addressable only inside live frames.
- **AltstackTracked.** The altstack the handlers use equals the kernel's,
  after failed calls too.
- **BeyondTosUnaddressable.** Spec invariant 1 for the stack under Ki
  dispatches, callbacks and NtContinue.
- **SuppressionAllowed.** The recognizer hides no real error: it excuses
  an access only if 4.9 does. That covers a heap routine's header access,
  an allocated TLS slot, the loader reading the tool's library, a stack
  probe, and a word load at an unaligned address. It never excuses an
  aligned one, which would be a whole-word overrun.
- **DocumentedSuppressed.** Every sequence the comments of the four
  pattern routines document is excused in mid-page code. Probes are
  excused at any address, and word loads at an unaligned one.
- **TlsSuppressedIffAllocated.** On Windows, an access to a TLS slot is
  excused exactly when the bitmap has the slot allocated. This holds for
  the 64 slots and the expansion slots alike.

Every property of a passing run has a mutant in `PROJECT.json`: a plausible
bug in the modelled code that TLC then finds. Examples:
- the head wrap off by one;
- the heap-destroy sweep one slot short;
- the duplicate callstack not freed;
- the table entry removed at every free;
- the unmap residual one page long;
- the mremap tail one page short;
- the sigaltstack rollback missing;
- the frame top one byte short;
- cbret reading the child's `pre_callback_esp`;
- the rawmemchr alignment test dropped;
- strlen accepting only `[ecx]` and missing `[ecx-4]`.

Further configurations, not among the runs, that reproduce defects the
hazards describe:
- `MCDelayFree_assert.cfg` (`NoTreeAssert`);
- `MCAllocShadow_seq.cfg` (one thread: `HeldAddressable` holds);
- `MCAllocShadow_race.cfg` (`HeldAddressable` fails: the realloc race of the
  FIXME at line 377);
- `MCAllocShadow_reuse.cfg` (`DelayedUnaddressable` fails: the same race
  leaves a reused, quarantined chunk partly addressable);
- `MCMmapTree_assert.cfg` (`NoMmapAssert`);
- `MCSignals_in_handler.cfg` (`LiveFramesDefined` with sigaltstack called
  from a handler);
- `MCCallbacks_base.cfg` (`KiKeepsAppStack`);
- `MCSignals_nest_main.cfg` (`FramesReleased` with a signal nested on the
  thread's stack: finding 4);
- `ReallocShadowCheck.cfg` (`ReallocMatchesReference`). It checks that the
  case analysis of lines 389-421 equals the byte-wise definition of 4.6
  for every old and new region in addresses 0..4. It passes with 54675
  inputs. `alloc_threads` checks the same arithmetic inside the composed
  model.

## 4. Findings

1. **Inverted redzone payload (line 494 vs 604), and an off-by-one
   (line 606).** The node payload is `base == real_base` ("no redzone"),
   but `overlaps_delayed_free` reads it as `has_redzone`. A quarantined
   chunk with redzones is therefore reported over its whole real range,
   redzones included. A pre-us chunk has its first and last
   `redzone_size` bytes left unreported. Lines 609/612 always set lo/hi
   to `real_base + rz` and `real_base + size - rz`. Those are the app
   bounds of a redzoned chunk, and are shifted inside a pre-us one.
   Separately, `end >= real_base + redzone_size` (606) is off by one: even
   with the payload corrected, a one-byte access to the last
   leading-redzone byte is reported. Spec 4.7 says redzone accesses of a
   delayed-free chunk are not use-after-free. Run: `delayfree_overlap`.
2. **mmap_tree_add merges with one node only (line 190).** A range
   overlapping two tracked mappings deletes the first. Its union still
   overlaps the second, so the insert fails silently and the pages leave
   the tree. Run: `mmap_fixed`.
3. **Moving mremap leaves the old region addressable (715-725).** Run:
   `mmap_move`.
4. **Nested signal on the thread stack (line 1045).** The one
   `sigframe_top` is overwritten by the inner handler. The outer sigreturn
   then marks an empty range, and the outer frame stays defined below the
   stack pointer. Configuration: `MCSignals_nest_main.cfg`.
5. **Nested signal on the altstack (line 1024).** The test
   `signal_xsp < xsp` is the wrong way round for a frame pushed below the
   interrupted pointer (4.8 says "above"). The inner handler takes the
   altstack top as its frame top, and its sigreturn makes the outer, still
   running, frame unaddressable. Run: `signal_nested_alt`.
6. **TLS expansion slots sized in bytes (line 1596).** The range test is
   `TlsExpansionSlots + TLS_EXPANSION_BITMAP_SLOTS*sizeof(byte)`, a count
   of bytes, but the array holds that many pointers. Only the first
   quarter of the array (on 32-bit) reaches the bitmap lookup. An access to
   a later, allocated expansion slot falls through to the patterns and is
   reported. Line 1604 itself divides the offset by `sizeof(void*)`.
   Run: `tls_expansion`.

The hazards in `PROJECT.json` describe more defects, each with the
configuration that reproduces it:
- the inverted `ASSERT(node != NULL)` at 203;
- the heap-destroy sweep with a reused handle (557-564);
- sigaltstack marking the stack before the kernel refuses it (935);
- the Ki walk near the base overwriting the application's stack (785);
- the realloc race (377-400).

## 5. Proofs

`DelayFreeProofs` proves, for every value of the constants that satisfies
the assumption `DelayFreesAssumption` (`DelayFrees` a positive natural),
and from the chunk assumptions of `DelayFree`:
- **TypeCorrect** (`Spec => []TypeOK`). `TypeOK` is inductive. The wrap of
  `NextHead` stays within the slots.
- **IInvHolds** (`Spec => []IInv`). `IInv` strengthens the type invariant
  with five facts:
  - every filled non-NULL slot names a quarantined chunk of the same real
    base and heap;
  - no two filled slots name the same chunk;
  - every quarantined chunk has a slot;
  - the tree is exactly the set of nodes of the quarantined chunks;
  - sizes are within capacity.

  `TreeMirrorsList` alone is not inductive: a free must know that the chunk
  it inserts is not in the tree already, and an eviction that the node it
  removes is the evicted chunk's. The slot facts give both. Disjointness of
  the real ranges (lemma `RbUnique`) makes a node's base identify its chunk.
  The proof has one step per action, split on the full and filling branches
  of `Free`, and one sub-step per conjunct.
- **TreeMirrorsListHolds**, **QuarantineExactHolds**. Both follow from
  `IInv`.
- **FIFOSpecHolds** (`Spec => FIFOSpec`): `DelayFree` implements
  `DelayFreeFIFO` under the mapping `Queue`, for every capacity. The
  invariant behind it is `RInv`, which is `TypeOK /\ HeadAtZeroUntilFull`:
  until the list first fills, `delay_free_head` is 0. A free that fills the
  list appends at slot `fill`, which is the slot after the queue's last
  only because the head has not moved. TLC checked `HeadAtZeroUntilFull`
  with `IInv` on the `delayfree` instance (45743 states). The proof has
  one lemma per action:
  - `MallocRefines`, `HeapCreateRefines`: the array is untouched, and the
    FIFO takes the same allocator step;
  - `HeapDestroyRefines`: the sweep over the slots below `fill` voids in
    place exactly the queue entries of the heap, wherever the head is;
  - `FreeRefines`: split into `FreeFillingQueue` (append) and
    `FreeFullQueue` (drop the head, append; the wrap of `NextHead` is
    proved by cases on `head + 1 = DelayFrees`).

  `StepRefines` combines them into `[FIFO!Next]_FIFO!vars`, `InitRefines`
  maps the empty list to the empty queue, and PTL concludes.

`CallstackProofs` proves, from `CallstackAssumption` (`NoData` is no
object, and `Allocs` is finite):
- **RefcountsExactHolds** (`Spec => []RefcountsExact`) and
  **CallstacksLiveHolds** (`Spec => []CallstacksLive`). Neither holds
  inductively alone. `IInv`, the conjunction of `TypeOK` and both
  invariants, is inductive:
  - `CallstacksLive` tells a new record that the object
    `packed_callstack_record` returns is outside the table and no entry's
    data, so its count starts exact;
  - `RefcountsExact` tells a free that the entry is among its object's
    users, so `count` is the number of users, and when it is 1 no other
    entry still names the object the table frees.

  Each action has a lemma, with `Users(p)` (the entries whose data is `p`)
  gaining or losing one element. `FS_AddElement` and `FS_RemoveElement`
  give the counts.
- **TypeCorrect** (`Spec => []TypeOK`), from the same `IInv`.

`MmapTreeProofs` proves, from `MmapConstantsAssumption` and for the
applications `InPlace` describes (no MAP_FIXED over a mapping, and no
moving mremap, as in the `mmap` run):
- **TreeTracksAnonHolds** (`Spec => []TreeTracksAnon`) and
  **UnmappedUnaddressableHolds** (`Spec => []UnmappedUnaddressable`), for
  every number of pages. The two are inductive together with `TypeOK`.
  Munmap marks its range only when `mmap_tree_remove` found a node, and
  the tree's exactness guarantees a node whenever a mapped page is in the
  range.
- Lemma `RemoveTree`: the residuals of `mmap_tree_remove` cover exactly
  what the deleted nodes covered outside the range.
- Lemma `AddFree`: `mmap_tree_add` of a range that meets no node inserts
  it unchanged, and the assertion does not run.
- Lemma `CopyInPlace`: the shadow copy of an in-place mremap changes
  nothing.

It also proves **TypeCorrect** (`Spec => []TypeOK`) with no assumption on
the application: MAP_FIXED over a mapping and moving mremap are included.
`TypeOK` is inductive alone. Lemma `AddTree` shows that the union
`rb_insert`'s overlap path inserts stays inside the address space. Lemma
`MremapShadowType` shows that mremap's shadow copy reads only the old
range.

`SignalsProofs` proves, from `SignalsAssumption`:
- **AltstackTrackedHolds** (`Spec => []AltstackTracked`) for every value
  of the constants. Nesting and sigaltstack calls inside handlers are
  included. `AltstackTracked` is inductive once `k_altstack` is known to be
  a region or SS_DISABLE. No region equals SS_DISABLE or the unreadable
  pointer (lemma `RegionsNotSpecial`), so the CASE of the pre-syscall
  handler picks the kernel's outcome.
- **LiveFramesDefinedHolds** and **FramesReleasedHolds**, under
  `OneAtATime` (`MaxNest <= 1` and no sigaltstack in a handler), which
  the `signals` run also assumes. They hold for every memory size, frame
  size and set of alternate stacks. The inductive invariant `IInv` gives
  the whole shadow in each phase of a signal:
  - with no frame, the shadow is all unaddressable and xsp is the stack
    base;
  - while the signal is pending, the frame `TheFrame` sits below
    `FrameBase` (the top of the kernel's altstack if one is enabled, else
    the stack base) and the shadow is still unaddressable;
  - once the handler runs, the shadow is defined exactly on the frame, and
    `sigframe_top` is `FrameBase`.

  The key step (`AtSignalHandlerIInv`) shows that at_signal_handler's
  `frame_top` equals `FrameBase`. On the altstack, the kernel placed the
  frame strictly above the altstack's base, so the code's strict test
  `sigaltstack - xsp < sigaltsize` holds. `signal_xsp` is the stack base,
  at or above every altstack, so the nested branch is not taken.
  `AltstackTracked` ties the handler's `sigaltstack` to the kernel's
  altstack. This is why it is part of `IInv`.
- **TypeCorrect** (`Spec => []TypeOK`) for every value of the constants,
  nested signals and sigaltstack in handlers included. `TypeOK` is not
  inductive alone: at_signal_handler may record `sigaltstack` as
  `sigframe_top`, and `TypeOK` says nothing of `sigaltstack`. `TypeInv`
  adds `AltInv`, which makes `sigaltstack` the top of a region. A signal
  frame is pushed only when it fits above address 1
  (`SignalEventType`), and rt_sigreturn pops the newest frame and resumes
  the stack pointer it saved (`SigreturnType`).

`CallbacksProofs` proves **BeyondTosUnaddressableHolds**
(`Spec => []BeyondTosUnaddressable`) under `CallbacksBounded`. That
assumption has two parts:
- every kernel data size is below `TypicalStackMin`, the Ki walk's cap
  (796), as the code's assertion expects;
- `StackSwapThreshold` exceeds the stack, so every NtContinue is a return
  (839).

The `callbacks` run has both. The proof holds for every stack size,
callback depth and register set. The invariant is not inductive by
itself: a callback return raises the stack pointer to the dispatch point
and relies on the parent's `pre_callback_esp` reaching it. The inductive
invariant `IInv` adds two parts:
- `FramesNest`: the kernel's transfers nest on the stack, each is a size
  the kernel pushes, and xsp lies inside the newest;
- a ghost map `dm` (`DepthMap`): each transfer is paired with the callback
  depth it was dispatched from, and a callback transfer's depth has its
  `pre_callback_esp` at or above the transfer's return point.

The lemmas behind it:
- **`WalkEnd`** (via `NatLeast`, the least element from
  `WellFoundedInduction`): the Ki walk, started below a fully
  unaddressable region of fewer than `TypicalStackMin` bytes, ends at or
  above the dispatch point.
- **`KiIInv`**: a Ki dispatch extends `dm` with the current depth.
- **`DepthMapPop`**: a callback return or an NtContinue drops the last
  entry of `dm`.
- **`NtContinueIInv`**: the CONTEXT's registers lie inside the transfer,
  because every register offset is smaller than every kernel data size.

**TypeCorrect** (`Spec => []TypeOK`) holds for every value of the
constants, with no bound. Kernel data past the walk's cap and stack swaps
are included. `TypeOK` is not inductive alone: `depth - 1` at a callback
return is a depth only because a callback transfer is on the stack
exactly when a depth was entered. The inductive invariant `TInv` is
`TypeOK /\ FramesNest` with a ghost map `dm` satisfying `DepthCount`.
`DepthCount` is the counting half of `DepthMap`, without the
`pre_callback_esp` clauses. Two lemmas carry the unbounded cases:
- `WalkEndRange`: the Ki walk ends between its start and the stack base,
  wherever it starts, so `pre_callback_esp` stays a stack address;
- `NtContinueTInv`: `FramesNest` puts the transfer's return point above
  the stack pointer, so whichever range client_pre_syscall marks (or none,
  past the swap threshold) keeps the shadow typed, and the CONTEXT lies
  inside the transfer.

The `IInv` lemmas take their type and nesting steps from the `TInv`
lemmas (`IInvTInv`).

`AllocShadowProofs` proves, from `AllocShadowAssumption` (it restates the
assumptions `DelayFree` makes of the constants the two modules share):
- **UnheldUnaddressableHolds** (`Spec => []UnheldUnaddressable`), for
  every number of threads and chunks, every redzone size and every
  quarantine size;
- **SettledDelayedUnaddressableHolds**
  (`Spec => []SettledDelayedUnaddressable`), under the same constants;
- **TypeCorrect** (`Spec => []TypeOK`).

`UnheldUnaddressable` speaks only of quiescent states, so it cannot be
inductive. Between `realloc`'s return and `client_handle_realloc`, the old
chunk is no longer held but its bytes are still addressable. The inductive
invariant `IInv` says where every addressable byte comes from, in every
state:
- `ShadowCovered`: an addressable byte lies in a held chunk's app range,
  or in the old region of a realloc still waiting for its handler
  (`PendingOld`);
- `HeldLive`: held chunks are live;
- `PendingLive` and `PendingDistinct`: the chunk a pending call returned
  is live and not held, and no two threads wait on the same chunk; a
  pending realloc records the new chunk's size and an old size within
  capacity;
- the quarantine's `IInv`, taken from `DelayFreeProofs`.

There is one lemma per action. The two that need the most:
- `FreeKeepsLive`: the chunk a full quarantine evicts is a quarantined
  one, by `SlotsNameDelayed` and distinct real bases (`RbDistinct`), so no
  held or pending chunk is freed under its holder;
- `ReallocShadowFacts`: after client_handle_realloc's shadow update, the
  only addressable bytes are in the new region, or outside the old region
  and addressable before. It is proved for every placement of the two
  regions, from the definition of `ReallocShadow`.

`DelayFree` is instantiated twice: as `DF` in `AllocShadow` and as `DFP`
in the proof module, to reach `DelayFreeProofs`' lemmas. The bridge
lemmas `SameIInv`, `SameFree` and `SameMalloc` equate the two copies.
`SettledDelayedUnaddressable` follows from `IInv` (`IInvSettled`). Take a
byte of a quarantined chunk that is addressable. `ShadowCovered` puts it
in a held chunk's app range or in a pending old region. Both lie within
their chunk's full real range (`RangesInCap`, from `SizesInCap` and
`PendingLive`). The chunks' real ranges are disjoint by assumption
(`SharedByte`). So the chunk is held, which `HeldLive` rules out, or it is
a pending old region, which the property excludes.
TLC checked `IInv` itself as an invariant before the proof: 11562 states
on the `alloc_threads` instance, and 46154 with three threads and two
slots.

`ExceptionsProofs` proves, from `ExceptionsAssumption`:
- **SuppressionAllowedHolds** (`Spec => []SuppressionAllowed`) for every
  TLS layout, library set, heap region, address and instruction around
  pc, not only the alphabet of `MCExceptions`. The assumption's
  substantive conjunct is that every faulting `mov_ld` the recognizer is
  given reads memory through its source. The fault is an unaddressable
  access, so the instruction that raised it accesses memory, and a load
  does so through its source. `is_rawmemchr_pattern` tests only the
  destination of the load and relies on this. The other conjuncts give
  the constants their types (positive pointer size, natural addresses).
  `InputOK` (a natural address and the memory-operand fact) holds in
  every state, because the recognizer changes no state. One lemma per
  pattern shows that it matches only a probe (`AllocaIsProbe`) or an
  unaligned word load (`StrlenIsWordLoad`, `StrcpyIsWordLoad`,
  `RawmemchrIsWordLoad`). `TlsBranchInSlot` shows that the expansion range
  the TLS branch tests, `TLS_EXPANSION_BITMAP_SLOTS` bytes, lies inside the
  slots' full extent. `InputOKAllowed` follows the if/else-if chain of
  `check_unaddressable_exceptions`, one case per branch.

The proofs stop where the findings begin. With MAP_FIXED (`mmap_fixed`) or
a moving mremap (`mmap_move`), TLC finds the invariants broken.

What stays with TLC:
- `HeldAddressable`, which a malloc of another thread inside a pending
  realloc's old region breaks (`MCAllocShadow_race.cfg`), so there is
  nothing to prove;
- `DelayedUnaddressable`, which the same race breaks for a reused chunk
  freed into the quarantine (`MCAllocShadow_reuse.cfg`);
- the mapping properties with MAP_FIXED or a moving mremap; the signal
  frame properties with nested signals or sigaltstack in a handler (which
  the findings break); the callback property with kernel data past the
  walk's cap or a real stack swap;
- `ReallocMatchesReference` over its bounded inputs;
- `DocumentedSuppressed`: it speaks of the concrete byte sequences
  `MCExceptions` lists from the code's comments, which TLC decides
  exhaustively and a proof would only restate;
- `TlsSuppressedIffAllocated`, which the `tls_expansion` run finds violated.

No liveness is claimed (section 6).

## 6. Fairness

The runs check safety only. Every handler in `alloc_drmem.c` runs when the
application calls or the kernel delivers; nothing in the file makes a step
happen, so no fairness is justified.

## 7. Not modelled

- **DR's decoder, and the recognizer's data outside the code page.** An
  instruction is taken as what the decoder returns for it. Readability is
  modelled for the code page only, and the accessed address is unreadable
  or not. Two consequences:
  - the unprobed second decode of `is_strcpy_pattern` (1457) is not
    modelled;
  - nor is the FIXME of PR 406718 (1343). The model has the one faulting
    address and not the shadow of the other bytes of the word.
- **`readwrite.h`.** It holds only the declarations of the shadow
  interface (enums and prototypes). `Shadow` models the behaviour behind
  them.
- **Shadow bitmap, red-black tree, hashtable, callstack and `mmap_walk`
  code.** It lives outside `src/` and is modelled by its contract (marked
  `spec_modelled` in the map). Adjacent ranges are taken as not overlapping
  in `rb_insert`.
- **Windows branches of the mapping handlers, file mappings and image
  mremap.**
- **Initialisation and exit.** The models start from the state
  `alloc_drmem_init` creates.
- **The leak-scan queries (1654-1704).** They are read-only.
- **Logging, statistics and `report_malloc`.**
- **The `options.leaks_only` / `!options.shadowing` early returns.** Every
  model has shadowing on.

## 8. Further work

- Model the bytes each decode touches, so that a property can state that
  the recognizer reads only what it probed (1457).
- Add the Windows heap-region and image paths of the mapping handlers.
