---------------------------- MODULE AllocShadow ----------------------------
(***************************************************************************)
(* The allocator event handlers of alloc_drmem.c composed with the shadow  *)
(* memory and the delayed-free quarantine (module DelayFree), on Linux:    *)
(* one heap, no heap destroy, shadowing on (!leaks_only && shadowing).     *)
(*                                                                         *)
(* Application threads call malloc, realloc and free.  The real routine    *)
(* and the client handler are separate steps, as in the code: malloc and  *)
(* realloc run first and client_handle_malloc / client_handle_realloc run  *)
(* after they return, while client_handle_free runs before the real free   *)
(* of the pointer it returns.  Other threads may run in between.           *)
(***************************************************************************)
EXTENDS Shadow

CONSTANTS DelayFrees, RedzoneSize, Heaps, NullHeap, Blocks, Threads

VARIABLES
  delay_free_list, delay_free_head, delay_free_fill, delay_free_tree,
  tree_assert, alloc_state, alloc_size, heap_live,
  shadow,   \* the shadow memory: Addr -> tag
  held,     \* the chunks the application holds (their handler has run)
  op        \* each thread's call in progress: Threads -> Op

DF == INSTANCE DelayFree

(* The quarantine's assumptions on the constants it shares with this       *)
(* module: a positive delay_frees, a redzone size, a heap field never      *)
(* written, and chunks that are ours or pre-us and do not overlap.         *)
ASSUME AllocShadowAssumption ==
  /\ DelayFrees \in Nat \ {0}
  /\ RedzoneSize \in Nat
  /\ NullHeap \notin Heaps
  /\ Blocks \subseteq DF!BlockType
  /\ \A b \in Blocks : b.base = b.rb \/ b.base = b.rb + RedzoneSize
  /\ \A b, c \in Blocks : b # c => DF!RealRange(b, b.cap) \cap DF!RealRange(c, c.cap) = {}

dfvars == <<delay_free_list, delay_free_head, delay_free_fill, delay_free_tree,
            tree_assert, alloc_state, alloc_size, heap_live>>

vars == <<dfvars, shadow, held, op>>

Addr == UNION {DF!RealRange(b, b.cap) : b \in Blocks}

Idle == [kind |-> "idle"]

Op == {Idle}
      \cup [kind : {"malloc"}, blk : Blocks, zeroed : BOOLEAN]
      \cup [kind : {"realloc"}, old : Blocks, osz : Nat, new : Blocks, nsz : Nat]

-----------------------------------------------------------------------------
Init ==
  /\ DF!Init
  /\ shadow = [a \in Addr |-> SHADOW_UNADDRESSABLE]
  /\ held = {}
  /\ op = [t \in Threads |-> Idle]

(* Thread t's malloc (or calloc, zeroed) returns chunk b with sz bytes.    *)
RealMalloc(t, b, sz, zeroed) ==
  /\ op[t] = Idle
  /\ DF!Malloc(b, sz)
  /\ op' = [op EXCEPT ![t] = [kind |-> "malloc", blk |-> b, zeroed |-> zeroed]]
  /\ UNCHANGED <<shadow, held>>

(* Mutant: client_handle_malloc marking one byte short of base + size.     *)
ClientHandleMallocShort(t) ==
  LET b == op[t].blk IN
  /\ op[t].kind = "malloc"
  /\ shadow' = ShadowSetRange(shadow, b.base, b.base + alloc_size[b] - 1,
                              IF op[t].zeroed THEN SHADOW_DEFINED ELSE SHADOW_UNDEFINED)
  /\ held' = held \cup {b}
  /\ op' = [op EXCEPT ![t] = Idle]
  /\ UNCHANGED dfvars

(* client_handle_malloc: the new block becomes defined if zeroed, else     *)
(* undefined; report_malloc and leak_handle_alloc change no state here.    *)
ClientHandleMalloc(t) ==
  LET b == op[t].blk IN
  /\ op[t].kind = "malloc"
  /\ shadow' = ShadowSetRange(shadow, b.base, b.base + alloc_size[b],
                              IF op[t].zeroed THEN SHADOW_DEFINED ELSE SHADOW_UNDEFINED)
  /\ held' = held \cup {b}
  /\ op' = [op EXCEPT ![t] = Idle]
  /\ UNCHANGED dfvars

(* Mutant: client_handle_free marking one byte short of base + size.       *)
ClientHandleFreeShort(t, b) ==
  /\ op[t] = Idle
  /\ b \in held
  /\ shadow' = ShadowSetRange(shadow, b.base, b.base + alloc_size[b] - 1,
                              SHADOW_UNADDRESSABLE)
  /\ DF!Free(b)
  /\ held' = held \ {b}
  /\ UNCHANGED op

(* client_handle_free on a held chunk: the block becomes unaddressable and *)
(* goes through the quarantine, whose evicted chunk is really freed.       *)
ClientHandleFree(t, b) ==
  /\ op[t] = Idle
  /\ b \in held
  /\ shadow' = ShadowSetRange(shadow, b.base, b.base + alloc_size[b],
                              SHADOW_UNADDRESSABLE)
  /\ DF!Free(b)
  /\ held' = held \ {b}
  /\ UNCHANGED op

(* Thread t's realloc of held chunk b to sz bytes returns chunk c: b       *)
(* itself resized in place, or a free chunk, b then being really freed at  *)
(* once, not through the quarantine (FIXME PR 493888).                     *)
RealRealloc(t, b, c, sz) ==
  /\ op[t] = Idle
  /\ b \in held
  /\ sz \in 1 .. c.cap
  /\ \/ /\ c = b
        /\ UNCHANGED alloc_state
     \/ /\ c # b
        /\ alloc_state[c] = "free"
        /\ heap_live[c.heap]
        /\ alloc_state' = [alloc_state EXCEPT ![b] = "free", ![c] = "live"]
  /\ alloc_size' = [alloc_size EXCEPT ![c] = sz]
  /\ held' = held \ {b}
  /\ op' = [op EXCEPT ![t] = [kind |-> "realloc", old |-> b, osz |-> alloc_size[b],
                              new |-> c, nsz |-> sz]]
  /\ UNCHANGED <<delay_free_list, delay_free_head, delay_free_fill,
                 delay_free_tree, tree_assert, heap_live, shadow>>

(* Mutant: client_handle_realloc given the new size as the old one.        *)
ClientHandleReallocSizes(t) ==
  LET r == op[t] IN
  /\ r.kind = "realloc"
  /\ shadow' = ReallocShadow(shadow, r.old.base, r.nsz, r.new.base, r.nsz)
  /\ held' = held \cup {r.new}
  /\ op' = [op EXCEPT ![t] = Idle]
  /\ UNCHANGED dfvars

(* Mutant: the grown tail marked undefined from the old region's end       *)
(* (old_base + old_size) instead of the new region's (line 401).           *)
ClientHandleReallocTail(t) ==
  LET r == op[t]
      s0 == ReallocShadow(shadow, r.old.base, r.osz, r.new.base, r.nsz)
  IN
  /\ r.kind = "realloc"
  /\ shadow' = IF r.nsz > r.osz
                 THEN ShadowSetRange(s0, r.old.base + r.osz, r.new.base + r.nsz,
                                     SHADOW_UNDEFINED)
                 ELSE s0
  /\ held' = held \cup {r.new}
  /\ op' = [op EXCEPT ![t] = Idle]
  /\ UNCHANGED dfvars

(* client_handle_realloc, run after realloc returned.                      *)
ClientHandleRealloc(t) ==
  LET r == op[t] IN
  /\ r.kind = "realloc"
  /\ shadow' = ReallocShadow(shadow, r.old.base, r.osz, r.new.base, r.nsz)
  /\ held' = held \cup {r.new}
  /\ op' = [op EXCEPT ![t] = Idle]
  /\ UNCHANGED dfvars

Next ==
  \E t \in Threads :
    \/ \E b \in Blocks : \E sz \in 1 .. b.cap, z \in BOOLEAN : RealMalloc(t, b, sz, z)
    \/ ClientHandleMalloc(t)
    \/ \E b \in Blocks : ClientHandleFree(t, b)
    \/ \E b, c \in Blocks : \E sz \in 1 .. c.cap : RealRealloc(t, b, c, sz)
    \/ ClientHandleRealloc(t)

Spec == Init /\ [][Next]_vars

-----------------------------------------------------------------------------
TypeOK ==
  /\ DF!TypeOK
  /\ shadow \in [Addr -> Tags]
  /\ held \subseteq Blocks
  /\ op \in [Threads -> Op]

(* No thread is between a real allocator call and its handler.             *)
Quiescent == \A t \in Threads : op[t] = Idle

(* The app bytes of the chunks the application holds.                      *)
HeldBytes == UNION {DF!AppRange(b, alloc_size[b]) : b \in held}

(* Invariant 1 of the spec, first half: at a quiescent point every byte of *)
(* a block the application holds is addressable.                           *)
HeldAddressable ==
  Quiescent => \A a \in HeldBytes : shadow[a] # SHADOW_UNADDRESSABLE

(* Invariant 1 of the spec, second half: at a quiescent point every byte   *)
(* outside the blocks the application holds (redzones, quarantined and     *)
(* freed chunks, a shrunk block's old tail) is unaddressable, so any       *)
(* access to it is reported.                                               *)
UnheldUnaddressable ==
  Quiescent => \A a \in Addr \ HeldBytes : shadow[a] = SHADOW_UNADDRESSABLE

(* Spec 4.5: a chunk in the quarantine stays unaddressable, redzones       *)
(* included, in every state and not only at quiescent points, so every     *)
(* access to it is reported.  The race of line 378 breaks it: the old      *)
(* region of a realloc whose handler has not run yet can be reused by      *)
(* another thread and freed into the quarantine while it still has the     *)
(* tags of the first allocation (MCAllocShadow_reuse.cfg).                 *)
DelayedUnaddressable ==
  \A b \in Blocks : alloc_state[b] = "delayed" =>
    \A a \in DF!RealRange(b, alloc_size[b]) : shadow[a] = SHADOW_UNADDRESSABLE

(* The chunks whose app range is the old region of a realloc that has      *)
(* returned but whose client_handle_realloc has not run yet.               *)
PendingOldChunks == {op[t].old : t \in {u \in Threads : op[u].kind = "realloc"}}

(* What the handlers do guarantee in every state, whatever the other       *)
(* threads have in progress: a quarantined chunk that is not a pending     *)
(* realloc's old region is unaddressable, redzones included.  No handler   *)
(* (a realloc's copy and grown tail, a malloc's marking) writes outside    *)
(* the chunk it was given.                                                 *)
SettledDelayedUnaddressable ==
  \A b \in Blocks \ PendingOldChunks : alloc_state[b] = "delayed" =>
    \A a \in DF!RealRange(b, alloc_size[b]) : shadow[a] = SHADOW_UNADDRESSABLE
=============================================================================
