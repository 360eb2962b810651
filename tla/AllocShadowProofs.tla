------------------------- MODULE AllocShadowProofs -------------------------
(***************************************************************************)
(* Proofs about AllocShadow for every number of threads, chunks, redzone   *)
(* size and quarantine capacity.                                           *)
(*                                                                         *)
(* UnheldUnaddressable speaks of quiescent points only, and is not         *)
(* inductive: between realloc and client_handle_realloc the old block is   *)
(* no longer held but its bytes are still addressable, and another thread  *)
(* may malloc it meanwhile.  The strengthening holds in every state: an    *)
(* addressable byte lies in a held block or in the old region of a         *)
(* realloc whose handler has not run yet, and the chunk a pending handler  *)
(* will mark is live, not held, owned by that thread alone, and (for a    *)
(* realloc) still of the size the handler is given.                        *)
(***************************************************************************)
EXTENDS AllocShadow, TLAPS

DFP == INSTANCE DelayFreeProofs

(* The chunk a thread's pending handler will hand to the application.      *)
PendingNew(t) == IF op[t].kind = "malloc" THEN op[t].blk ELSE op[t].new

(* The threads between a real allocator call and its handler.              *)
Busy == {t \in Threads : op[t] # Idle}

(* The old regions of the reallocs whose handler has not run yet.          *)
PendingOld == UNION {DF!AppRange(op[t].old, op[t].osz) :
                       t \in {u \in Threads : op[u].kind = "realloc"}}

HeldLive == \A b \in held : alloc_state[b] = "live"

PendingLive ==
  \A t \in Busy : /\ alloc_state[PendingNew(t)] = "live"
                  /\ PendingNew(t) \notin held
                  /\ op[t].kind = "realloc" =>
                       /\ alloc_size[op[t].new] = op[t].nsz
                       /\ op[t].osz \in 1 .. op[t].old.cap

PendingDistinct == \A t, u \in Busy : t # u => PendingNew(t) # PendingNew(u)

ShadowCovered ==
  \A a \in Addr : shadow[a] # SHADOW_UNADDRESSABLE => a \in HeldBytes \cup PendingOld

IInv ==
  /\ TypeOK
  /\ DF!IInv
  /\ HeldLive
  /\ PendingLive
  /\ PendingDistinct
  /\ ShadowCovered
-----------------------------------------------------------------------------
(* DF and DFP are two instances of the same quarantine module, with the    *)
(* same constants and variables: their invariant and steps coincide.       *)
LEMMA SameIInv == DF!IInv <=> DFP!IInv
BY DEF DF!IInv, DFP!IInv, DF!TypeOK, DFP!TypeOK, DF!Slots, DFP!Slots,
       DF!Entry, DFP!Entry, DF!Node, DFP!Node, DF!SlotsNameDelayed,
       DFP!SlotsNameDelayed, DF!InUse, DFP!InUse, DF!Delayed, DFP!Delayed,
       DF!SlotsDistinct, DFP!SlotsDistinct, DF!DelayedHaveSlot,
       DFP!DelayedHaveSlot, DF!TreeIsDelayed, DFP!TreeIsDelayed,
       DF!FreeNode, DFP!FreeNode, DF!RealSize, DFP!RealSize, DF!SizesInCap,
       DFP!SizesInCap, DF!NULL, DFP!NULL

LEMMA SameIInvNext == DF!IInv' <=> DFP!IInv'
BY DEF DF!IInv, DFP!IInv, DF!TypeOK, DFP!TypeOK, DF!Slots, DFP!Slots,
       DF!Entry, DFP!Entry, DF!Node, DFP!Node, DF!SlotsNameDelayed,
       DFP!SlotsNameDelayed, DF!InUse, DFP!InUse, DF!Delayed, DFP!Delayed,
       DF!SlotsDistinct, DFP!SlotsDistinct, DF!DelayedHaveSlot,
       DFP!DelayedHaveSlot, DF!TreeIsDelayed, DFP!TreeIsDelayed,
       DF!FreeNode, DFP!FreeNode, DF!RealSize, DFP!RealSize, DF!SizesInCap,
       DFP!SizesInCap, DF!NULL, DFP!NULL

LEMMA SameFree ==
  ASSUME NEW b
  PROVE  DF!Free(b) <=> DFP!Free(b)
BY DEF DF!Free, DFP!Free, DF!RbInsert, DFP!RbInsert, DF!NodeRange,
       DFP!NodeRange, DF!FreeNode, DFP!FreeNode, DF!RealSize, DFP!RealSize,
       DF!DELAY_FREE_FULL, DFP!DELAY_FREE_FULL, DF!NextHead, DFP!NextHead,
       DF!TreeRemove, DFP!TreeRemove, DF!RbFind, DFP!RbFind, DF!NULL, DFP!NULL

LEMMA SameMalloc ==
  ASSUME NEW b, NEW sz
  PROVE  DF!Malloc(b, sz) <=> DFP!Malloc(b, sz)
BY DEF DF!Malloc, DFP!Malloc

(* The quarantine steps inside AllocShadow keep the quarantine's invariant. *)
LEMMA DFMallocIInv ==
  ASSUME DF!IInv, NEW b \in Blocks, NEW sz \in 1 .. b.cap, DF!Malloc(b, sz)
  PROVE  DF!IInv'
<1>1. DFP!IInv /\ DFP!Malloc(b, sz)
  BY SameIInv, SameMalloc
<1>2. DFP!IInv'
  BY <1>1, DFP!IInvInductive, AllocShadowAssumption
  DEF DFP!Next, DFP!RealRange, DF!RealRange, DFP!RealSize, DF!RealSize,
      DFP!BlockType, DF!BlockType
<1> QED
  BY <1>2, SameIInvNext

LEMMA DFFreeIInv ==
  ASSUME DF!IInv, NEW b \in Blocks, DF!Free(b)
  PROVE  DF!IInv'
<1>1. DFP!IInv /\ DFP!Free(b)
  BY SameIInv, SameFree
<1>2. DFP!IInv'
  BY <1>1, DFP!IInvInductive, AllocShadowAssumption
  DEF DFP!Next, DFP!RealRange, DF!RealRange, DFP!RealSize, DF!RealSize,
      DFP!BlockType, DF!BlockType
<1> QED
  BY <1>2, SameIInvNext

(* Distinct chunks have distinct real bases.                               *)
LEMMA RbDistinct ==
  ASSUME NEW b \in Blocks, NEW c \in Blocks, b.rb = c.rb
  PROVE  b = c
BY DFP!RbUnique, AllocShadowAssumption DEF DFP!RealRange, DF!RealRange,
   DFP!RealSize, DF!RealSize, DFP!BlockType, DF!BlockType
-----------------------------------------------------------------------------
(* The app bytes of a chunk allocated within its capacity are addresses.   *)
LEMMA AppInAddr ==
  ASSUME NEW b \in Blocks, NEW sz \in 1 .. b.cap
  PROVE  DF!AppRange(b, sz) \subseteq Addr
<1>1. b \in DF!BlockType /\ (b.base = b.rb \/ b.base = b.rb + RedzoneSize)
      /\ RedzoneSize \in Nat
  BY AllocShadowAssumption
<1>2. DF!AppRange(b, sz) \subseteq DF!RealRange(b, b.cap)
  BY <1>1 DEF DF!AppRange, DF!RealRange, DF!RealSize, DF!BlockType
<1> QED
  BY <1>2 DEF Addr

(* shadow_set_range keeps the shadow's type and changes only [lo, hi).     *)
LEMMA SetRangeFacts ==
  ASSUME NEW D, NEW s \in [D -> Tags], NEW lo, NEW hi, NEW v \in Tags
  PROVE  /\ ShadowSetRange(s, lo, hi, v) \in [D -> Tags]
         /\ \A a \in D : ShadowSetRange(s, lo, hi, v)[a] =
                           IF lo <= a /\ a < hi THEN v ELSE s[a]
BY DEF ShadowSetRange

(* client_handle_realloc's shadow update keeps the shadow's type when the  *)
(* old region lies in the shadow, and leaves addressable only bytes of the *)
(* new region and bytes outside the old one that were addressable before.  *)
LEMMA ReallocShadowFacts ==
  ASSUME NEW D \in SUBSET Nat, NEW s \in [D -> Tags],
         NEW ob \in Nat, NEW osz \in Nat, NEW nb \in Nat, NEW nsz \in Nat,
         \A i \in 0 .. osz - 1 : ob + i \in D
  PROVE  /\ ReallocShadow(s, ob, osz, nb, nsz) \in [D -> Tags]
         /\ \A a \in D : ReallocShadow(s, ob, osz, nb, nsz)[a] # SHADOW_UNADDRESSABLE =>
               \/ nb <= a /\ a < nb + nsz
               \/ s[a] # SHADOW_UNADDRESSABLE /\ ~(ob <= a /\ a < ob + osz)
<1> DEFINE m  == IF nsz > osz THEN osz ELSE nsz
           c0 == ShadowCopyRange(s, ob, nb, m)
           s1 == IF nsz > osz
                   THEN ShadowSetRange(ShadowCopyRange(s, ob, nb, osz),
                                       nb + osz, nb + nsz, SHADOW_UNDEFINED)
                   ELSE ShadowCopyRange(s, ob, nb, nsz)
           s2 == IF nb > ob
                   THEN ShadowSetRange(s1, ob, IF nb < ob + osz THEN nb ELSE ob + osz,
                                       SHADOW_UNADDRESSABLE)
                   ELSE s1
           start == IF nb + nsz < ob THEN ob ELSE nb + nsz
           fin == IF nb + nsz < ob + osz
                    THEN ShadowSetRange(s2, start, ob + osz, SHADOW_UNADDRESSABLE)
                    ELSE s2
<1>1. fin = ReallocShadow(s, ob, osz, nb, nsz)
  BY DEF ReallocShadow
<1>2. /\ c0 \in [D -> Tags]
      /\ \A a \in D : c0[a] = IF nb <= a /\ a < nb + m THEN s[ob + (a - nb)] ELSE s[a]
  <2>1. \A a \in D : nb <= a /\ a < nb + m => ob + (a - nb) \in D
    BY DEF m
  <2> QED
    BY <2>1 DEF ShadowCopyRange, Tags
<1>3. /\ s1 \in [D -> Tags]
      /\ \A a \in D : ~(nb <= a /\ a < nb + nsz) => s1[a] = s[a]
  <2>1. CASE nsz > osz
    <3>1. c0 = ShadowCopyRange(s, ob, nb, osz) /\ s1 = ShadowSetRange(c0, nb + osz, nb + nsz, SHADOW_UNDEFINED)
      BY <2>1
    <3>2. SHADOW_UNDEFINED \in Tags
      BY DEF Tags
    <3> HIDE DEF c0
    <3>3. /\ ShadowSetRange(c0, nb + osz, nb + nsz, SHADOW_UNDEFINED) \in [D -> Tags]
          /\ \A a \in D : ShadowSetRange(c0, nb + osz, nb + nsz, SHADOW_UNDEFINED)[a] =
                IF nb + osz <= a /\ a < nb + nsz THEN SHADOW_UNDEFINED ELSE c0[a]
      BY <1>2, <3>2 DEF ShadowSetRange
    <3>4. m = osz
      BY <2>1
    <3> QED
      BY <1>2, <2>1, <3>1, <3>3, <3>4
  <2>2. CASE ~(nsz > osz)
    <3>1. c0 = ShadowCopyRange(s, ob, nb, nsz) /\ s1 = c0
      BY <2>2
    <3> QED
      BY <1>2, <2>2, <3>1
  <2> QED
    BY <2>1, <2>2
<1>4. /\ s2 \in [D -> Tags]
      /\ \A a \in D : s2[a] = IF nb > ob /\ ob <= a /\ a < nb /\ a < ob + osz
                              THEN SHADOW_UNADDRESSABLE ELSE s1[a]
  <2>1. SHADOW_UNADDRESSABLE \in Tags
    BY DEF Tags
  <2>2. CASE nb > ob
    <3> DEFINE hi == IF nb < ob + osz THEN nb ELSE ob + osz
    <3>1. s2 = ShadowSetRange(s1, ob, hi, SHADOW_UNADDRESSABLE)
      BY <2>2
    <3> HIDE DEF s1
    <3>2. /\ ShadowSetRange(s1, ob, hi, SHADOW_UNADDRESSABLE) \in [D -> Tags]
          /\ \A a \in D : ShadowSetRange(s1, ob, hi, SHADOW_UNADDRESSABLE)[a] =
                IF ob <= a /\ a < hi THEN SHADOW_UNADDRESSABLE ELSE s1[a]
      BY <1>3, <2>1 DEF ShadowSetRange
    <3> HIDE DEF s1
    <3> QED
      BY <2>2, <3>1, <3>2
  <2>3. CASE ~(nb > ob)
    BY <1>3, <2>3
  <2> QED
    BY <2>2, <2>3
<1>5. /\ fin \in [D -> Tags]
      /\ \A a \in D : fin[a] = IF nb + nsz < ob + osz /\ start <= a /\ a < ob + osz
                               THEN SHADOW_UNADDRESSABLE ELSE s2[a]
  <2>1. SHADOW_UNADDRESSABLE \in Tags
    BY DEF Tags
  <2>2. CASE nb + nsz < ob + osz
    <3>1. fin = ShadowSetRange(s2, start, ob + osz, SHADOW_UNADDRESSABLE)
      BY <2>2
    <3> HIDE DEF s2
    <3>2. /\ ShadowSetRange(s2, start, ob + osz, SHADOW_UNADDRESSABLE) \in [D -> Tags]
          /\ \A a \in D : ShadowSetRange(s2, start, ob + osz, SHADOW_UNADDRESSABLE)[a] =
                IF start <= a /\ a < ob + osz THEN SHADOW_UNADDRESSABLE ELSE s2[a]
      BY <1>4, <2>1 DEF ShadowSetRange
    <3> HIDE DEF s2
    <3> QED
      BY <2>2, <3>1, <3>2
  <2>3. CASE ~(nb + nsz < ob + osz)
    BY <1>4, <2>3
  <2> QED
    BY <2>2, <2>3
<1>6. ASSUME NEW a \in D, fin[a] # SHADOW_UNADDRESSABLE, ~(nb <= a /\ a < nb + nsz)
      PROVE  s[a] # SHADOW_UNADDRESSABLE /\ ~(ob <= a /\ a < ob + osz)
  BY <1>3, <1>4, <1>5, <1>6
<1> QED
  BY <1>1, <1>5, <1>6
-----------------------------------------------------------------------------
(* A thread's call in progress is idle, a malloc or a realloc.             *)
LEMMA OpKinds ==
  ASSUME TypeOK, NEW t \in Threads
  PROVE  /\ op[t] = Idle <=> op[t].kind = "idle"
         /\ op[t].kind = "malloc" =>
              op[t] \in [kind : {"malloc"}, blk : Blocks, zeroed : BOOLEAN]
         /\ op[t].kind = "realloc" =>
              op[t] \in [kind : {"realloc"}, old : Blocks, osz : Nat,
                         new : Blocks, nsz : Nat]
         /\ op[t] # Idle => op[t].kind \in {"malloc", "realloc"}
BY DEF TypeOK, Op, Idle

(* A busy thread waits on a chunk of the heap.                            *)
LEMMA PendingNewType ==
  ASSUME TypeOK, NEW u \in Busy
  PROVE  PendingNew(u) \in Blocks
BY DEF TypeOK, Busy, PendingNew, Op, Idle

(* The held bytes stay the same when held does and no held chunk resizes. *)
LEMMA HeldBytesSame ==
  ASSUME held' = held, \A d \in held : alloc_size'[d] = alloc_size[d]
  PROVE  HeldBytes' = HeldBytes
BY DEF HeldBytes

(* The pending old regions stay the same when no realloc starts or ends.   *)
LEMMA PendingOldSame ==
  ASSUME \A u \in Threads : /\ op'[u].kind = "realloc" <=> op[u].kind = "realloc"
                            /\ op[u].kind = "realloc" => op'[u] = op[u]
  PROVE  PendingOld' = PendingOld
BY DEF PendingOld

(* A malloc returns a free chunk, which no one holds or waits on.          *)
LEMMA RealMallocIInv ==
  ASSUME IInv, NEW t \in Threads, NEW b \in Blocks, NEW sz \in 1 .. b.cap,
         NEW z \in BOOLEAN, RealMalloc(t, b, sz, z)
  PROVE  IInv'
<1> DEFINE rec == [kind |-> "malloc", blk |-> b, zeroed |-> z]
<1>0. TypeOK /\ DF!IInv /\ HeldLive /\ PendingLive /\ PendingDistinct /\ ShadowCovered
  BY DEF IInv
<1>1. /\ op[t] = Idle /\ DF!Malloc(b, sz)
      /\ op' = [op EXCEPT ![t] = rec]
      /\ UNCHANGED <<shadow, held>>
  BY DEF RealMalloc
<1>2. /\ alloc_state[b] = "free"
      /\ alloc_state' = [alloc_state EXCEPT ![b] = "live"]
      /\ alloc_size' = [alloc_size EXCEPT ![b] = sz]
  BY <1>1 DEF DF!Malloc
<1>3. /\ alloc_state \in [Blocks -> {"live", "delayed", "free"}]
      /\ alloc_size \in [Blocks -> Nat]
      /\ op \in [Threads -> Op]
  BY <1>0 DEF TypeOK, DF!TypeOK
<1>4. b \notin held /\ \A u \in Busy : PendingNew(u) # b
  BY <1>0, <1>2 DEF HeldLive, PendingLive
<1>5. /\ rec \in Op /\ rec # Idle /\ t \notin Busy
      /\ op'[t] = rec /\ \A u \in Threads \ {t} : op'[u] = op[u]
      /\ Busy' = Busy \cup {t}
  BY <1>1, <1>3 DEF Op, Idle, Busy
<1>6. /\ PendingNew(t)' = b
      /\ \A u \in Busy : PendingNew(u)' = PendingNew(u)
  BY <1>5 DEF PendingNew, Busy
<1>7. DF!IInv'
  BY <1>0, <1>1, DFMallocIInv
<1>12. TypeOK'
  BY <1>0, <1>1, <1>3, <1>5, <1>7 DEF TypeOK, DF!IInv
<1>8. HeldLive'
  BY <1>0, <1>1, <1>2, <1>3, <1>4 DEF HeldLive
<1>9. PendingLive'
  <2> SUFFICES ASSUME NEW u \in Busy'
               PROVE  /\ alloc_state'[PendingNew(u)'] = "live"
                      /\ PendingNew(u)' \notin held'
                      /\ op'[u].kind = "realloc" =>
                           /\ alloc_size'[op'[u].new] = op'[u].nsz
                           /\ op'[u].osz \in 1 .. op'[u].old.cap
    BY DEF PendingLive
  <2>1. CASE u = t
    BY <1>1, <1>2, <1>3, <1>4, <1>5, <1>6, <2>1
  <2>2. CASE u # t
    <3>1. u \in Busy /\ op'[u] = op[u] /\ PendingNew(u) # b
      BY <1>4, <1>5, <2>2 DEF Busy
    <3>2. op[u].kind = "realloc" => op[u].new = PendingNew(u)
      BY DEF PendingNew
    <3>3. PendingNew(u) \in Blocks
      BY <1>0, <3>1, PendingNewType
    <3> QED
      BY <1>0, <1>1, <1>2, <1>3, <1>6, <3>1, <3>2, <3>3 DEF PendingLive
  <2> QED
    BY <2>1, <2>2
<1>10. PendingDistinct'
  BY <1>0, <1>4, <1>5, <1>6 DEF PendingDistinct
<1>11. ShadowCovered'
  <2>1. HeldBytes' = HeldBytes
    BY <1>1, <1>2, <1>3, <1>4, HeldBytesSame
  <2>2. PendingOld' = PendingOld
    <3>1. op[t].kind = "idle" /\ op'[t].kind = "malloc"
      BY <1>1, <1>5 DEF Idle
    <3> QED
      BY <1>5, <3>1, PendingOldSame
  <2> QED
    BY <1>0, <1>1, <2>1, <2>2 DEF ShadowCovered
<1> QED
  BY <1>7, <1>8, <1>9, <1>10, <1>11, <1>12 DEF IInv
-----------------------------------------------------------------------------
(* Every address of the heap's chunks is a natural number.                 *)
LEMMA AddrNat == Addr \subseteq Nat
BY AllocShadowAssumption DEF Addr, DF!RealRange, DF!BlockType

(* A step that leaves the quarantine's variables alone keeps its invariant. *)
LEMMA DFUnchanged ==
  ASSUME DF!IInv, UNCHANGED dfvars
  PROVE  DF!IInv'
BY DEF dfvars, DF!IInv, DF!TypeOK, DF!Slots, DF!Entry, DF!Node,
       DF!SlotsNameDelayed, DF!InUse, DF!Delayed, DF!SlotsDistinct,
       DF!DelayedHaveSlot, DF!TreeIsDelayed, DF!FreeNode, DF!RealSize,
       DF!SizesInCap, DF!NULL

(* client_handle_malloc marks the returned chunk's bytes addressable and   *)
(* the chunk held: the bytes it marks are the held chunk's own.            *)
LEMMA ClientHandleMallocIInv ==
  ASSUME IInv, NEW t \in Threads, ClientHandleMalloc(t)
  PROVE  IInv'
<1> DEFINE b == op[t].blk
           v == IF op[t].zeroed THEN SHADOW_DEFINED ELSE SHADOW_UNDEFINED
<1>0. TypeOK /\ DF!IInv /\ HeldLive /\ PendingLive /\ PendingDistinct /\ ShadowCovered
  BY DEF IInv
<1>1. /\ op[t].kind = "malloc"
      /\ shadow' = ShadowSetRange(shadow, b.base, b.base + alloc_size[b], v)
      /\ held' = held \cup {b}
      /\ op' = [op EXCEPT ![t] = Idle]
      /\ UNCHANGED dfvars
  BY DEF ClientHandleMalloc
<1>2. /\ alloc_state' = alloc_state /\ alloc_size' = alloc_size
  BY <1>1 DEF dfvars
<1>3. /\ op[t] \in [kind : {"malloc"}, blk : Blocks, zeroed : BOOLEAN]
      /\ t \in Busy /\ PendingNew(t) = b /\ v \in Tags
      /\ op \in [Threads -> Op]
  BY <1>0, <1>1, OpKinds DEF Busy, PendingNew, Idle, Tags, TypeOK
<1>4. /\ alloc_state[b] = "live" /\ b \notin held
      /\ \A u \in Busy \ {t} : PendingNew(u) # b
  BY <1>0, <1>3 DEF PendingLive, PendingDistinct
<1>5. /\ Busy' = Busy \ {t}
      /\ \A u \in Threads \ {t} : op'[u] = op[u]
      /\ \A u \in Busy' : PendingNew(u)' = PendingNew(u)
  BY <1>1, <1>3 DEF Busy, PendingNew, Idle
<1>6. DF!IInv'
  BY <1>0, <1>1, DFUnchanged
<1>7. TypeOK'
  <2>1. shadow' \in [Addr -> Tags]
    BY <1>0, <1>1, <1>3, SetRangeFacts DEF TypeOK
  <2>2. op' \in [Threads -> Op]
    BY <1>1, <1>3 DEF Op
  <2> QED
    BY <1>0, <1>1, <1>3, <1>6, <2>1, <2>2 DEF TypeOK, DF!IInv
<1>8. HeldLive'
  BY <1>0, <1>1, <1>2, <1>4 DEF HeldLive
<1>9. PendingLive'
  <2> SUFFICES ASSUME NEW u \in Busy'
               PROVE  /\ alloc_state'[PendingNew(u)'] = "live"
                      /\ PendingNew(u)' \notin held'
                      /\ op'[u].kind = "realloc" =>
                           /\ alloc_size'[op'[u].new] = op'[u].nsz
                           /\ op'[u].osz \in 1 .. op'[u].old.cap
    BY DEF PendingLive
  <2>1. u \in Busy \ {t} /\ op'[u] = op[u] /\ PendingNew(u)' = PendingNew(u)
    BY <1>5 DEF Busy
  <2> QED
    BY <1>0, <1>1, <1>2, <1>4, <2>1 DEF PendingLive
<1>10. PendingDistinct'
  BY <1>0, <1>5 DEF PendingDistinct
<1>11. ShadowCovered'
  <2>1. PendingOld' = PendingOld
    <3>1. op[t].kind # "realloc" /\ op'[t].kind # "realloc"
      BY <1>1, <1>3 DEF Idle
    <3> QED
      BY <1>5, <3>1, PendingOldSame
  <2>2. HeldBytes' = HeldBytes \cup DF!AppRange(b, alloc_size[b])
    BY <1>1, <1>2 DEF HeldBytes
  <2>3. \A a \in Addr : shadow'[a] = IF b.base <= a /\ a < b.base + alloc_size[b]
                                     THEN v ELSE shadow[a]
    BY <1>0, <1>1, <1>3, SetRangeFacts DEF TypeOK
  <2> SUFFICES ASSUME NEW a \in Addr, shadow'[a] # SHADOW_UNADDRESSABLE
               PROVE  a \in HeldBytes' \cup PendingOld'
    BY DEF ShadowCovered
  <2>4. CASE b.base <= a /\ a < b.base + alloc_size[b]
    <3>1. a \in Nat /\ b.base \in Nat /\ alloc_size[b] \in Nat
      BY <1>0, <1>3, AddrNat, AllocShadowAssumption DEF TypeOK, DF!TypeOK, DF!BlockType
    <3>2. a \in DF!AppRange(b, alloc_size[b])
      BY <2>4, <3>1 DEF DF!AppRange
    <3> QED
      BY <2>2, <3>2
  <2>5. CASE ~(b.base <= a /\ a < b.base + alloc_size[b])
    BY <1>0, <2>1, <2>2, <2>3, <2>5 DEF ShadowCovered
  <2> QED
    BY <2>4, <2>5
<1> QED
  BY <1>6, <1>7, <1>8, <1>9, <1>10, <1>11 DEF IInv
-----------------------------------------------------------------------------
(* A free through the quarantine really frees only the chunk its full      *)
(* array evicts, which is a quarantined one: no live chunk but the one     *)
(* freed changes state.                                                    *)
LEMMA FreeKeepsLive ==
  ASSUME DF!IInv, NEW b \in Blocks, DF!Free(b),
         NEW d \in Blocks, d # b, alloc_state[d] = "live"
  PROVE  alloc_state'[d] = "live"
<1> DEFINE pass == IF DF!DELAY_FREE_FULL
                     THEN delay_free_list[delay_free_head].addr ELSE DF!NULL
<1>1. alloc_state'[d] = IF pass # DF!NULL /\ d.rb = pass THEN "free" ELSE alloc_state[d]
  BY DEF DF!Free
<1>2. CASE pass # DF!NULL /\ d.rb = pass
  <2>1. DF!DELAY_FREE_FULL /\ delay_free_list[delay_free_head].addr # DF!NULL
        /\ d.rb = delay_free_list[delay_free_head].addr
    BY <1>2
  <2>2. delay_free_head \in DF!InUse
    BY <2>1, AllocShadowAssumption
    DEF DF!DELAY_FREE_FULL, DF!InUse, DF!IInv, DF!TypeOK, DF!Slots
  <2>3. PICK e \in DF!Delayed : e.rb = delay_free_list[delay_free_head].addr
    BY <2>1, <2>2 DEF DF!IInv, DF!SlotsNameDelayed
  <2>4. e = d
    BY <2>1, <2>3, RbDistinct DEF DF!Delayed
  <2> QED
    BY <2>3, <2>4 DEF DF!Delayed
<1> QED
  BY <1>1, <1>2

(* client_handle_free marks the freed chunk's bytes unaddressable before   *)
(* the quarantine takes it: no byte stays addressable for a chunk let go.  *)
LEMMA ClientHandleFreeIInv ==
  ASSUME IInv, NEW t \in Threads, NEW b \in Blocks, ClientHandleFree(t, b)
  PROVE  IInv'
<1>0. TypeOK /\ DF!IInv /\ HeldLive /\ PendingLive /\ PendingDistinct /\ ShadowCovered
  BY DEF IInv
<1>1. /\ op[t] = Idle /\ b \in held
      /\ shadow' = ShadowSetRange(shadow, b.base, b.base + alloc_size[b],
                                  SHADOW_UNADDRESSABLE)
      /\ DF!Free(b)
      /\ held' = held \ {b}
      /\ op' = op
  BY DEF ClientHandleFree
<1>2. alloc_size' = alloc_size
  BY <1>1 DEF DF!Free
<1>3. \A d \in Blocks : d # b /\ alloc_state[d] = "live" => alloc_state'[d] = "live"
  BY <1>0, <1>1, FreeKeepsLive
<1>4. /\ Busy' = Busy
      /\ \A u \in Busy : PendingNew(u)' = PendingNew(u)
                         /\ PendingNew(u) \in Blocks /\ PendingNew(u) # b
  BY <1>0, <1>1, PendingNewType DEF Busy, PendingNew, PendingLive
<1>5. DF!IInv'
  BY <1>0, <1>1, DFFreeIInv
<1>6. TypeOK'
  <2>1. shadow' \in [Addr -> Tags]
    BY <1>0, <1>1, SetRangeFacts DEF TypeOK, Tags
  <2> QED
    BY <1>0, <1>1, <1>5, <2>1 DEF TypeOK, DF!IInv
<1>7. HeldLive'
  BY <1>0, <1>1, <1>3 DEF HeldLive, TypeOK
<1>8. PendingLive'
  <2> SUFFICES ASSUME NEW u \in Busy
               PROVE  /\ alloc_state'[PendingNew(u)'] = "live"
                      /\ PendingNew(u)' \notin held'
                      /\ op'[u].kind = "realloc" =>
                           /\ alloc_size'[op'[u].new] = op'[u].nsz
                           /\ op'[u].osz \in 1 .. op'[u].old.cap
    BY <1>4 DEF PendingLive
  <2> QED
    BY <1>0, <1>1, <1>2, <1>3, <1>4 DEF PendingLive, PendingNew
<1>9. PendingDistinct'
  BY <1>0, <1>4 DEF PendingDistinct
<1>10. ShadowCovered'
  <2>1. PendingOld' = PendingOld
    BY <1>1 DEF PendingOld
  <2>2. \A a \in Addr : shadow'[a] = IF b.base <= a /\ a < b.base + alloc_size[b]
                                     THEN SHADOW_UNADDRESSABLE ELSE shadow[a]
    BY <1>0, <1>1, SetRangeFacts DEF TypeOK, Tags
  <2> SUFFICES ASSUME NEW a \in Addr, shadow'[a] # SHADOW_UNADDRESSABLE
               PROVE  a \in HeldBytes' \cup PendingOld'
    BY DEF ShadowCovered
  <2>3. ~(b.base <= a /\ a < b.base + alloc_size[b]) /\ shadow[a] # SHADOW_UNADDRESSABLE
    BY <2>2
  <2>4. CASE a \in PendingOld
    BY <2>1, <2>4
  <2>5. CASE a \in HeldBytes
    <3>1. PICK d \in held : a \in DF!AppRange(d, alloc_size[d])
      BY <2>5 DEF HeldBytes
    <3>2. d # b
      <4>1. a \in Nat /\ b.base \in Nat /\ alloc_size[b] \in Nat
        BY <1>0, <1>1, AddrNat, AllocShadowAssumption
        DEF TypeOK, DF!TypeOK, DF!BlockType
      <4> QED
        BY <2>3, <3>1, <4>1 DEF DF!AppRange
    <3> QED
      BY <1>1, <1>2, <3>1, <3>2 DEF HeldBytes
  <2> QED
    BY <1>0, <2>3, <2>4, <2>5 DEF ShadowCovered
<1> QED
  BY <1>5, <1>6, <1>7, <1>8, <1>9, <1>10 DEF IInv
-----------------------------------------------------------------------------
(* realloc resizes a live chunk in place or moves it to a free one and     *)
(* frees it: no quarantined chunk changes state or size, so the quarantine *)
(* invariant holds on, and the chunk returned fits its capacity.           *)
LEMMA DFReallocIInv ==
  ASSUME DF!IInv, NEW b \in Blocks, NEW c \in Blocks, NEW sz \in 1 .. c.cap,
         alloc_state[b] = "live",
         \/ c = b /\ alloc_state' = alloc_state
         \/ /\ c # b /\ alloc_state[c] = "free"
            /\ alloc_state' = [alloc_state EXCEPT ![b] = "free", ![c] = "live"],
         alloc_size' = [alloc_size EXCEPT ![c] = sz],
         UNCHANGED <<delay_free_list, delay_free_head, delay_free_fill,
                     delay_free_tree, tree_assert, heap_live>>
  PROVE  DF!IInv'
<1>0. /\ alloc_state \in [Blocks -> {"live", "delayed", "free"}]
      /\ alloc_size \in [Blocks -> Nat]
  BY DEF DF!IInv, DF!TypeOK
<1>1. /\ alloc_state' \in [Blocks -> {"live", "delayed", "free"}]
      /\ alloc_size' \in [Blocks -> Nat]
      /\ \A d \in Blocks : alloc_state'[d] = "delayed" <=> alloc_state[d] = "delayed"
      /\ \A d \in Blocks : alloc_state'[d] # "free" =>
                             d = c \/ alloc_state[d] # "free"
      /\ alloc_state'[c] # "delayed"
  BY <1>0
<1>2. DF!Delayed' = DF!Delayed
  BY <1>1 DEF DF!Delayed
<1>3. \A d \in DF!Delayed : alloc_size'[d] = alloc_size[d]
  BY <1>0, <1>1 DEF DF!Delayed
<1>4. DF!TypeOK'
  BY <1>1 DEF DF!IInv, DF!TypeOK
<1>5. DF!SlotsNameDelayed' /\ DF!SlotsDistinct' /\ DF!DelayedHaveSlot'
  BY <1>2 DEF DF!IInv, DF!SlotsNameDelayed, DF!SlotsDistinct,
              DF!DelayedHaveSlot, DF!InUse
<1>6. DF!TreeIsDelayed'
  <2>1. {DF!FreeNode(d, alloc_size'[d]) : d \in DF!Delayed'}
          = {DF!FreeNode(d, alloc_size[d]) : d \in DF!Delayed}
    BY <1>2, <1>3
  <2> QED
    BY <2>1 DEF DF!IInv, DF!TreeIsDelayed
<1>7. DF!SizesInCap'
  BY <1>0, <1>1 DEF DF!IInv, DF!SizesInCap
<1> QED
  BY <1>4, <1>5, <1>6, <1>7 DEF DF!IInv

(* realloc takes the chunk out of held before client_handle_realloc runs:  *)
(* its old bytes stay addressable, but as the pending old region.          *)
LEMMA RealReallocIInv ==
  ASSUME IInv, NEW t \in Threads, NEW b \in Blocks, NEW c \in Blocks,
         NEW sz \in 1 .. c.cap, RealRealloc(t, b, c, sz)
  PROVE  IInv'
<1> DEFINE r == [kind |-> "realloc", old |-> b, osz |-> alloc_size[b],
                 new |-> c, nsz |-> sz]
<1>0. TypeOK /\ DF!IInv /\ HeldLive /\ PendingLive /\ PendingDistinct /\ ShadowCovered
  BY DEF IInv
<1>1. /\ op[t] = Idle /\ b \in held
      /\ \/ c = b /\ alloc_state' = alloc_state
         \/ /\ c # b /\ alloc_state[c] = "free"
            /\ alloc_state' = [alloc_state EXCEPT ![b] = "free", ![c] = "live"]
      /\ alloc_size' = [alloc_size EXCEPT ![c] = sz]
      /\ held' = held \ {b}
      /\ op' = [op EXCEPT ![t] = r]
      /\ UNCHANGED <<delay_free_list, delay_free_head, delay_free_fill,
                     delay_free_tree, tree_assert, heap_live, shadow>>
  BY DEF RealRealloc
<1>2. /\ alloc_state \in [Blocks -> {"live", "delayed", "free"}]
      /\ alloc_size \in [Blocks -> Nat]
      /\ op \in [Threads -> Op]
      /\ held \subseteq Blocks
  BY <1>0 DEF TypeOK, DF!TypeOK
<1>3. /\ alloc_state[b] = "live"
      /\ alloc_size[b] \in 1 .. b.cap
      /\ \A u \in Busy : PendingNew(u) \in Blocks /\ PendingNew(u) # b
                         /\ alloc_state[PendingNew(u)] = "live"
  BY <1>0, <1>1, PendingNewType DEF HeldLive, PendingLive, DF!IInv, DF!SizesInCap
<1>4. /\ \A d \in held \ {b} : d # c
      /\ \A u \in Busy : PendingNew(u) # c
      /\ \A d \in held \ {b} : alloc_state'[d] = alloc_state[d]
      /\ \A u \in Busy : alloc_state'[PendingNew(u)] = alloc_state[PendingNew(u)]
  BY <1>0, <1>1, <1>2, <1>3 DEF HeldLive
<1>5. /\ r \in Op /\ r # Idle /\ t \notin Busy
      /\ op'[t] = r /\ \A u \in Threads \ {t} : op'[u] = op[u]
      /\ Busy' = Busy \cup {t}
      /\ PendingNew(t)' = c
      /\ \A u \in Busy : PendingNew(u)' = PendingNew(u)
  <2>1. r \in Op /\ r # Idle
    BY <1>2, <1>3 DEF Op, Idle
  <2>2. t \notin Busy
    BY <1>1 DEF Busy
  <2>3. op'[t] = r /\ \A u \in Threads \ {t} : op'[u] = op[u]
    BY <1>1, <1>2
  <2>4. Busy' = Busy \cup {t}
    BY <2>1, <2>3 DEF Busy
  <2>5. PendingNew(t)' = c
    BY <2>3 DEF PendingNew
  <2>6. \A u \in Busy : PendingNew(u)' = PendingNew(u)
    BY <2>2, <2>3 DEF PendingNew, Busy
  <2> QED
    BY <2>1, <2>2, <2>3, <2>4, <2>5, <2>6
<1>6. DF!IInv'
  BY <1>0, <1>1, <1>3, DFReallocIInv
<1>7. TypeOK'
  BY <1>0, <1>1, <1>2, <1>5, <1>6 DEF TypeOK, DF!IInv
<1>8. HeldLive'
  BY <1>0, <1>1, <1>4 DEF HeldLive
<1>9. PendingLive'
  <2> SUFFICES ASSUME NEW u \in Busy'
               PROVE  /\ alloc_state'[PendingNew(u)'] = "live"
                      /\ PendingNew(u)' \notin held'
                      /\ op'[u].kind = "realloc" =>
                           /\ alloc_size'[op'[u].new] = op'[u].nsz
                           /\ op'[u].osz \in 1 .. op'[u].old.cap
    BY DEF PendingLive
  <2>1. CASE u = t
    <3>1. alloc_state'[c] = "live"
      BY <1>1, <1>2, <1>3
    <3>2. c \notin held'
      BY <1>1, <1>4
    <3> QED
      BY <1>1, <1>2, <1>3, <1>5, <2>1, <3>1, <3>2
  <2>2. CASE u # t
    <3>1. u \in Busy /\ op'[u] = op[u]
      BY <1>5, <2>2 DEF Busy
    <3>2. op[u].kind = "realloc" => op[u].new = PendingNew(u)
      BY DEF PendingNew
    <3> QED
      BY <1>0, <1>1, <1>3, <1>4, <1>5, <3>1, <3>2 DEF PendingLive
  <2> QED
    BY <2>1, <2>2
<1>10. PendingDistinct'
  <2> SUFFICES ASSUME NEW u \in Busy', NEW w \in Busy', u # w
               PROVE  PendingNew(u)' # PendingNew(w)'
    BY DEF PendingDistinct
  <2>1. CASE u = t
    BY <1>4, <1>5, <2>1
  <2>2. CASE w = t
    BY <1>4, <1>5, <2>2
  <2>3. CASE u # t /\ w # t
    BY <1>0, <1>5, <2>3 DEF PendingDistinct
  <2> QED
    BY <2>1, <2>2, <2>3
<1>11. ShadowCovered'
  <2>1. PendingOld \subseteq PendingOld'
    BY <1>5 DEF PendingOld, Busy, Idle
  <2>2. DF!AppRange(b, alloc_size[b]) \subseteq PendingOld'
    BY <1>5 DEF PendingOld
  <2>3. \A d \in held \ {b} : alloc_size'[d] = alloc_size[d]
    BY <1>1, <1>2, <1>4
  <2>4. HeldBytes \subseteq HeldBytes' \cup PendingOld'
    BY <1>1, <2>2, <2>3 DEF HeldBytes
  <2> QED
    BY <1>0, <1>1, <2>1, <2>4 DEF ShadowCovered
<1> QED
  BY <1>6, <1>7, <1>8, <1>9, <1>10, <1>11 DEF IInv

(* ReallocShadowFacts on the heap's addresses.                             *)
LEMMA ReallocShadowAddr ==
  ASSUME NEW s \in [Addr -> Tags],
         NEW ob \in Nat, NEW osz \in Nat, NEW nb \in Nat, NEW nsz \in Nat,
         \A i \in 0 .. osz - 1 : ob + i \in Addr
  PROVE  /\ ReallocShadow(s, ob, osz, nb, nsz) \in [Addr -> Tags]
         /\ \A a \in Addr :
              ReallocShadow(s, ob, osz, nb, nsz)[a] # SHADOW_UNADDRESSABLE =>
                \/ nb <= a /\ a < nb + nsz
                \/ s[a] # SHADOW_UNADDRESSABLE /\ ~(ob <= a /\ a < ob + osz)
BY AddrNat, ReallocShadowFacts

(* client_handle_realloc moves the old region's tags to the new chunk and  *)
(* marks the rest of the old region unaddressable: what stays addressable  *)
(* is the new chunk's, now held, or another pending call's or chunk's.     *)
LEMMA ClientHandleReallocIInv ==
  ASSUME IInv, NEW t \in Threads, ClientHandleRealloc(t)
  PROVE  IInv'
<1> DEFINE r == op[t]
<1>0. TypeOK /\ DF!IInv /\ HeldLive /\ PendingLive /\ PendingDistinct /\ ShadowCovered
  BY DEF IInv
<1>1. /\ r.kind = "realloc"
      /\ shadow' = ReallocShadow(shadow, r.old.base, r.osz, r.new.base, r.nsz)
      /\ held' = held \cup {r.new}
      /\ op' = [op EXCEPT ![t] = Idle]
      /\ UNCHANGED dfvars
  BY DEF ClientHandleRealloc
<1>2. /\ alloc_state' = alloc_state /\ alloc_size' = alloc_size
      /\ op \in [Threads -> Op] /\ held \subseteq Blocks
  BY <1>0, <1>1 DEF dfvars, TypeOK
<1>3. /\ r \in [kind : {"realloc"}, old : Blocks, osz : Nat, new : Blocks, nsz : Nat]
      /\ t \in Busy /\ PendingNew(t) = r.new
  BY <1>0, <1>1, OpKinds DEF Busy, PendingNew, Idle
<1>4. /\ alloc_state[r.new] = "live" /\ r.new \notin held
      /\ alloc_size[r.new] = r.nsz /\ r.osz \in 1 .. r.old.cap
      /\ \A u \in Busy \ {t} : PendingNew(u) # r.new
  BY <1>0, <1>3 DEF PendingLive, PendingDistinct
<1>5. /\ Busy' = Busy \ {t}
      /\ \A u \in Threads \ {t} : op'[u] = op[u]
      /\ \A u \in Busy' : PendingNew(u)' = PendingNew(u)
  BY <1>1, <1>2 DEF Busy, PendingNew, Idle
<1>6. /\ shadow' \in [Addr -> Tags]
      /\ \A a \in Addr : shadow'[a] # SHADOW_UNADDRESSABLE =>
           \/ r.new.base <= a /\ a < r.new.base + r.nsz
           \/ shadow[a] # SHADOW_UNADDRESSABLE
              /\ ~(r.old.base <= a /\ a < r.old.base + r.osz)
  <2>1. r.old.base \in Nat /\ r.new.base \in Nat
    BY <1>3, AllocShadowAssumption DEF DF!BlockType
  <2>2. \A i \in 0 .. r.osz - 1 : r.old.base + i \in Addr
    <3>1. DF!AppRange(r.old, r.osz) \subseteq Addr
      BY <1>3, <1>4, AppInAddr
    <3> QED
      BY <1>3, <2>1, <3>1 DEF DF!AppRange
  <2>3. /\ ReallocShadow(shadow, r.old.base, r.osz, r.new.base, r.nsz) \in [Addr -> Tags]
        /\ \A a \in Addr :
             ReallocShadow(shadow, r.old.base, r.osz, r.new.base, r.nsz)[a]
               # SHADOW_UNADDRESSABLE =>
               \/ r.new.base <= a /\ a < r.new.base + r.nsz
               \/ shadow[a] # SHADOW_UNADDRESSABLE
                  /\ ~(r.old.base <= a /\ a < r.old.base + r.osz)
    <3>1. shadow \in [Addr -> Tags]
          /\ r.osz \in Nat /\ r.nsz \in Nat
      BY <1>0, <1>3, AddrNat DEF TypeOK
    <3>2. ASSUME NEW ob, ob = r.old.base, NEW osz, osz = r.osz,
                 NEW nb, nb = r.new.base, NEW nsz, nsz = r.nsz
          PROVE  /\ ReallocShadow(shadow, ob, osz, nb, nsz) \in [Addr -> Tags]
                 /\ \A a \in Addr :
                      ReallocShadow(shadow, ob, osz, nb, nsz)[a] # SHADOW_UNADDRESSABLE =>
                        \/ nb <= a /\ a < nb + nsz
                        \/ shadow[a] # SHADOW_UNADDRESSABLE /\ ~(ob <= a /\ a < ob + osz)
      <4>1. ob \in Nat /\ osz \in Nat /\ nb \in Nat /\ nsz \in Nat
            /\ \A i \in 0 .. osz - 1 : ob + i \in Addr
        BY <2>1, <2>2, <3>1, <3>2
      <4> QED
        BY <3>1, <4>1, ReallocShadowAddr
    <3> QED
      BY <3>2
  <2> QED
    BY <1>1, <2>3
<1>7. DF!IInv'
  BY <1>0, <1>1, DFUnchanged
<1>8. TypeOK'
  <2>1. op' \in [Threads -> Op]
    BY <1>1, <1>2 DEF Op
  <2> QED
    BY <1>0, <1>1, <1>2, <1>3, <1>6, <1>7, <2>1 DEF TypeOK, DF!IInv
<1>9. HeldLive'
  BY <1>0, <1>1, <1>2, <1>4 DEF HeldLive
<1>10. PendingLive'
  <2> SUFFICES ASSUME NEW u \in Busy'
               PROVE  /\ alloc_state'[PendingNew(u)'] = "live"
                      /\ PendingNew(u)' \notin held'
                      /\ op'[u].kind = "realloc" =>
                           /\ alloc_size'[op'[u].new] = op'[u].nsz
                           /\ op'[u].osz \in 1 .. op'[u].old.cap
    BY DEF PendingLive
  <2>1. u \in Busy \ {t} /\ op'[u] = op[u] /\ PendingNew(u)' = PendingNew(u)
    BY <1>5 DEF Busy
  <2> QED
    BY <1>0, <1>1, <1>2, <1>4, <2>1 DEF PendingLive
<1>11. PendingDistinct'
  BY <1>0, <1>5 DEF PendingDistinct
<1>12. ShadowCovered'
  <2> SUFFICES ASSUME NEW a \in Addr, shadow'[a] # SHADOW_UNADDRESSABLE
               PROVE  a \in HeldBytes' \cup PendingOld'
    BY DEF ShadowCovered
  <2>0. a \in Nat /\ r.new.base \in Nat /\ r.old.base \in Nat
    BY <1>3, AddrNat, AllocShadowAssumption DEF DF!BlockType
  <2>1. HeldBytes \cup DF!AppRange(r.new, r.nsz) \subseteq HeldBytes'
    BY <1>1, <1>2, <1>4 DEF HeldBytes
  <2>2. CASE r.new.base <= a /\ a < r.new.base + r.nsz
    BY <1>3, <2>0, <2>1, <2>2 DEF DF!AppRange
  <2>3. CASE shadow[a] # SHADOW_UNADDRESSABLE
             /\ ~(r.old.base <= a /\ a < r.old.base + r.osz)
    <3>1. CASE a \in HeldBytes
      BY <2>1, <3>1
    <3>2. CASE a \in PendingOld
      <4>1. PICK u \in {w \in Threads : op[w].kind = "realloc"} :
                   a \in DF!AppRange(op[u].old, op[u].osz)
        BY <3>2 DEF PendingOld
      <4>2. u # t
        BY <1>3, <2>0, <2>3, <4>1 DEF DF!AppRange
      <4> QED
        BY <1>5, <4>1, <4>2 DEF PendingOld
    <3> QED
      BY <1>0, <2>3, <3>1, <3>2 DEF ShadowCovered
  <2> QED
    BY <1>6, <2>2, <2>3
<1> QED
  BY <1>7, <1>8, <1>9, <1>10, <1>11, <1>12 DEF IInv
-----------------------------------------------------------------------------
(* At startup nothing is held, no call is in progress and every byte is    *)
(* unaddressable.                                                          *)
LEMMA InitIInv == Init => IInv
<1> SUFFICES ASSUME Init PROVE IInv
  OBVIOUS
<1>1. DF!IInv
  <2>1. DFP!Init
    BY DEF Init, DF!Init, DFP!Init, DF!Slots, DFP!Slots, DF!NULL, DFP!NULL
  <2> QED
    BY <2>1, DFP!InitIInv, AllocShadowAssumption, SameIInv
    DEF DFP!RealRange, DF!RealRange, DFP!RealSize, DF!RealSize,
        DFP!BlockType, DF!BlockType
<1>2. Busy = {} /\ PendingOld = {}
  BY DEF Init, Busy, PendingOld, Idle
<1>3. TypeOK
  BY <1>1 DEF Init, TypeOK, DF!IInv, Op, Tags
<1> QED
  BY <1>1, <1>2, <1>3 DEF Init, IInv, HeldLive, PendingLive, PendingDistinct,
                          ShadowCovered

(* A stuttering step changes nothing the invariant reads.                  *)
LEMMA StutterIInv ==
  ASSUME IInv, UNCHANGED vars
  PROVE  IInv'
<1>1. UNCHANGED dfvars /\ UNCHANGED <<shadow, held, op>>
  BY DEF vars
<1>2. DF!IInv'
  BY <1>1, DFUnchanged DEF IInv
<1> QED
  BY <1>1, <1>2 DEF IInv, dfvars, TypeOK, DF!IInv, HeldLive, PendingLive,
                    PendingDistinct, ShadowCovered, Busy, PendingNew,
                    HeldBytes, PendingOld

(* Every step of the allocator and of the client handlers keeps the        *)
(* strengthening.                                                          *)
LEMMA NextIInv == IInv /\ [Next]_vars => IInv'
<1> SUFFICES ASSUME IInv, [Next]_vars PROVE IInv'
  OBVIOUS
<1>1. CASE \E t \in Threads :
             \/ \E b \in Blocks : \E sz \in 1 .. b.cap, z \in BOOLEAN : RealMalloc(t, b, sz, z)
             \/ ClientHandleMalloc(t)
             \/ \E b \in Blocks : ClientHandleFree(t, b)
             \/ \E b, c \in Blocks : \E sz \in 1 .. c.cap : RealRealloc(t, b, c, sz)
             \/ ClientHandleRealloc(t)
  BY <1>1, RealMallocIInv, ClientHandleMallocIInv, ClientHandleFreeIInv,
     RealReallocIInv, ClientHandleReallocIInv
<1>2. CASE UNCHANGED vars
  BY <1>2, StutterIInv
<1> QED
  BY <1>1, <1>2 DEF Next

(* At a quiescent point no realloc is pending, so every addressable byte   *)
(* is a held chunk's.                                                      *)
LEMMA IInvUnheld == IInv => UnheldUnaddressable
<1> SUFFICES ASSUME IInv, Quiescent, NEW a \in Addr \ HeldBytes
             PROVE  shadow[a] = SHADOW_UNADDRESSABLE
  BY DEF UnheldUnaddressable
<1>1. PendingOld = {}
  BY DEF Quiescent, PendingOld, Idle
<1> QED
  BY <1>1 DEF IInv, ShadowCovered

(* The shadow memory and the heap keep their types through every          *)
(* interleaving of the allocator and the client handlers.                  *)
THEOREM TypeCorrect == Spec => []TypeOK
BY InitIInv, NextIInv, PTL DEF Spec, IInv

(* Invariant 1 of the spec, second half, for every number of threads and   *)
(* chunks and every quarantine size: whenever no malloc, free or realloc   *)
(* is between the allocator's return and the client handler's update,     *)
(* every byte outside the held chunks is unaddressable: freed chunks'      *)
(* bytes, what a realloc shrank or moved away from, chunks never handed    *)
(* out.                                                                    *)
THEOREM UnheldUnaddressableHolds == Spec => []UnheldUnaddressable
BY InitIInv, NextIInv, IInvUnheld, PTL DEF Spec
-----------------------------------------------------------------------------
(* The app bytes and the real bytes of a chunk allocated within its        *)
(* capacity lie in the chunk's real range at full capacity.                *)
LEMMA RangesInCap ==
  ASSUME NEW b \in Blocks, NEW sz \in 1 .. b.cap
  PROVE  /\ DF!AppRange(b, sz) \subseteq DF!RealRange(b, b.cap)
         /\ DF!RealRange(b, sz) \subseteq DF!RealRange(b, b.cap)
<1>1. b \in DF!BlockType /\ (b.base = b.rb \/ b.base = b.rb + RedzoneSize)
      /\ RedzoneSize \in Nat
  BY AllocShadowAssumption
<1> QED
  BY <1>1 DEF DF!AppRange, DF!RealRange, DF!RealSize, DF!BlockType

(* A byte in the full real ranges of two chunks belongs to one chunk.      *)
LEMMA SharedByte ==
  ASSUME NEW b \in Blocks, NEW c \in Blocks, NEW a,
         a \in DF!RealRange(b, b.cap), a \in DF!RealRange(c, c.cap)
  PROVE  b = c
BY AllocShadowAssumption

(* A quarantined chunk that is not the old region of a pending realloc     *)
(* shares no byte with a held chunk or a pending old region, so the        *)
(* strengthening leaves all its bytes unaddressable.                       *)
LEMMA IInvSettled == IInv => SettledDelayedUnaddressable
<1> SUFFICES ASSUME IInv, NEW b \in Blocks \ PendingOldChunks,
                    alloc_state[b] = "delayed",
                    NEW a \in DF!RealRange(b, alloc_size[b]),
                    shadow[a] # SHADOW_UNADDRESSABLE
             PROVE  FALSE
  BY DEF SettledDelayedUnaddressable
<1>1. alloc_size[b] \in 1 .. b.cap
  BY DEF IInv, DF!IInv, DF!SizesInCap
<1>2. a \in DF!RealRange(b, b.cap)
  BY <1>1, RangesInCap
<1>3. a \in HeldBytes \cup PendingOld
  BY <1>2 DEF IInv, ShadowCovered, Addr
<1>4. CASE a \in HeldBytes
  <2>1. PICK c \in held : a \in DF!AppRange(c, alloc_size[c])
    BY <1>4 DEF HeldBytes
  <2>2. c \in Blocks /\ alloc_state[c] = "live"
    BY <2>1 DEF IInv, TypeOK, HeldLive
  <2>3. alloc_size[c] \in 1 .. c.cap
    BY <2>2 DEF IInv, DF!IInv, DF!SizesInCap
  <2>4. a \in DF!RealRange(c, c.cap)
    BY <2>1, <2>2, <2>3, RangesInCap
  <2>5. b = c
    BY <1>2, <2>2, <2>4, SharedByte
  <2> QED
    BY <2>2, <2>5
<1>5. CASE a \in PendingOld
  <2>1. PICK t \in Threads : op[t].kind = "realloc"
                             /\ a \in DF!AppRange(op[t].old, op[t].osz)
    BY <1>5 DEF PendingOld
  <2>2. t \in Busy
    BY <2>1 DEF Busy, Idle
  <2>3. op[t].old \in Blocks /\ op[t].osz \in 1 .. op[t].old.cap
    BY <2>1, <2>2 DEF IInv, PendingLive, TypeOK, Op, Idle
  <2>4. a \in DF!RealRange(op[t].old, op[t].old.cap)
    BY <2>1, <2>3, RangesInCap
  <2>5. op[t].old = b
    BY <1>2, <2>3, <2>4, SharedByte
  <2> QED
    BY <2>1, <2>5 DEF PendingOldChunks
<1> QED
  BY <1>3, <1>4, <1>5

(* The quarantine's promise (spec 4.5) for every number of threads and     *)
(* chunks and every quarantine size, in every state: a chunk free put in   *)
(* the quarantine stays unaddressable over its whole real range, redzones  *)
(* included, unless another thread's realloc still has that chunk as the   *)
(* old region its pending client_handle_realloc will rewrite.              *)
THEOREM SettledDelayedUnaddressableHolds == Spec => []SettledDelayedUnaddressable
BY InitIInv, NextIInv, IInvSettled, PTL DEF Spec

=============================================================================
