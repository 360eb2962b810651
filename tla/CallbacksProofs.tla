-------------------------- MODULE CallbacksProofs --------------------------
(***************************************************************************)
(* Proofs about Callbacks for every stack size, callback depth and set of  *)
(* registers.  Type correctness holds for every value of the constants     *)
(* (TInv).  The stack invariant holds under CallbacksBounded: the kernel   *)
(* data of a dispatch is smaller than TYPICAL_STACK_MIN_SIZE (the Ki       *)
(* walk's cap, line 796), and stack_swap_threshold exceeds the stack, so   *)
(* that every NtContinue on it is a return (line 839).  Both are the       *)
(* bounds of the callbacks run.                                            *)
(*                                                                         *)
(* BeyondTosUnaddressable is not inductive on its own: a callback return   *)
(* moves the stack pointer up to the dispatch point and relies on the      *)
(* parent depth's pre_callback_esp reaching it.  The strengthening says    *)
(* that the kernel's transfers nest on the stack, and relates each         *)
(* callback transfer to the depth it was dispatched from (a ghost map dm,  *)
(* determined by the kinds of the transfers below it) whose                *)
(* pre_callback_esp lies at or above the transfer's return point.          *)
(***************************************************************************)
EXTENDS Callbacks, SequenceTheorems, WellFoundedInduction, TLAPS

CallbacksBounded ==
  /\ \A k \in KData : k < TypicalStackMin
  /\ StackSwapThreshold > MemTop

(* 1 for a callback transfer, 0 for one that ends in NtContinue.           *)
Cb(i) == IF k_frames[i].kind = "callback" THEN 1 ELSE 0

(* The transfers nest: each lies below the one before it, its size is a    *)
(* size the kernel pushes, and the stack pointer is inside the newest.     *)
FramesNest ==
  /\ \A i \in 1 .. Len(k_frames) : k_frames[i].ret - k_frames[i].lo \in KData
  /\ \A i \in 2 .. Len(k_frames) : k_frames[i].ret <= k_frames[i - 1].lo
  /\ xsp <= FrameBase

(* dm[i] is the callback depth transfer i was dispatched from.             *)
DepthMap(dm) ==
  /\ dm \in [1 .. Len(k_frames) -> 0 .. MaxDepth]
  /\ depth = IF Len(k_frames) = 0 THEN 0
             ELSE dm[Len(k_frames)] + Cb(Len(k_frames))
  /\ \A i \in 1 .. Len(k_frames) :
       dm[i] = IF i = 1 THEN 0 ELSE dm[i - 1] + Cb(i - 1)
  /\ \A i, j \in 1 .. Len(k_frames) : i < j => dm[i] + Cb(i) <= dm[j]
  /\ \A i \in 1 .. Len(k_frames) :
       k_frames[i].kind = "callback" => cpt[dm[i]].pre_callback_esp >= k_frames[i].ret

IInv ==
  /\ TypeOK
  /\ BeyondTosUnaddressable
  /\ FramesNest
  /\ \E dm \in [1 .. Len(k_frames) -> 0 .. MaxDepth] : DepthMap(dm)
-----------------------------------------------------------------------------
(* A nonempty set of naturals has a least element.                         *)
LEMMA NatLeast ==
  ASSUME NEW T, T \subseteq Nat, T # {}
  PROVE  \E x \in T : \A y \in T : x <= y
<1>1. \E x \in T : \A y \in T : ~(<<y, x>> \in OpToRel(<, Nat))
  BY NatLessThanWellFounded, WFMin
<1>2. \A x, y \in T : <<y, x>> \in OpToRel(<, Nat) <=> y < x
  BY DEF OpToRel
<1>3. PICK x \in T : \A y \in T : ~(<<y, x>> \in OpToRel(<, Nat))
  BY <1>1
<1>4. \A y \in T : ~(y < x)
  BY <1>2, <1>3, Zenon
<1>5. \A y \in T : x <= y
  BY <1>4
<1> QED
  BY <1>5

(* The Ki walk from sp stops at or above any point x less than             *)
(* TYPICAL_STACK_MIN_SIZE above sp below which everything is               *)
(* unaddressable, and never beyond the stack base.                         *)
LEMMA WalkEnd ==
  ASSUME NEW s \in [Addr -> Tags], NEW sp \in Addr, NEW x \in sp .. StackBase,
         x - sp < TypicalStackMin,
         \A a \in Addr : a < x => s[a] = SHADOW_UNADDRESSABLE
  PROVE  KiWalkEnd(s, sp) \in x .. StackBase
<1>0. MemTop \in Nat \ {0} /\ TypicalStackMin \in Nat \ {0}
  BY CallbacksAssumption
<1>1. CASE sp < StackBase /\ StackBase - sp < TypicalStackMin
  BY <1>0, <1>1 DEF KiWalkEnd, StackBase, Addr
<1>2. CASE ~(sp < StackBase /\ StackBase - sp < TypicalStackMin)
  <2> DEFINE P(e) == /\ \/ e = sp + TypicalStackMin
                        \/ e > MemTop
                        \/ s[e] # SHADOW_UNADDRESSABLE
                     /\ \A a \in sp .. (e - 1) :
                          a <= MemTop /\ s[a] = SHADOW_UNADDRESSABLE
             Bad == {a \in sp .. (sp + TypicalStackMin - 1) :
                       a > MemTop \/ s[a] # SHADOW_UNADDRESSABLE}
  <2>1. \E e \in sp .. sp + TypicalStackMin : P(e)
    <3>1. CASE Bad = {}
      <4>1. sp + TypicalStackMin \in sp .. sp + TypicalStackMin
        BY <1>0 DEF Addr
      <4>2. \A a \in sp .. (sp + TypicalStackMin - 1) :
              a <= MemTop /\ s[a] = SHADOW_UNADDRESSABLE
        <5>1. \A a \in sp .. (sp + TypicalStackMin - 1) :
                ~(a > MemTop \/ s[a] # SHADOW_UNADDRESSABLE)
          BY <3>1, Zenon DEF Bad
        <5> QED
          BY <1>0, <5>1 DEF Addr
      <4>3. P(sp + TypicalStackMin)
        BY <1>0, <4>2 DEF P, Addr
      <4> QED
        BY <4>1, <4>3
    <3>2. CASE Bad # {}
      <4>1. Bad \subseteq Nat
        BY <1>0 DEF Addr
      <4>2. PICK m \in Bad : \A y \in Bad : m <= y
        BY <3>2, <4>1, NatLeast
      <4>3. m \in sp .. sp + TypicalStackMin
        BY <1>0, <4>2 DEF Addr
      <4>4. P(m)
        BY <1>0, <4>2 DEF Addr
      <4> QED
        BY <4>3, <4>4
    <3> QED
      BY <3>1, <3>2
  <2>2. KiWalkEnd(s, sp) = CHOOSE e \in sp .. sp + TypicalStackMin : P(e)
    BY <1>2 DEF KiWalkEnd
  <2> DEFINE e0 == KiWalkEnd(s, sp)
  <2>3. e0 \in sp .. sp + TypicalStackMin /\ P(e0)
    BY <2>1, <2>2
  <2> HIDE DEF e0
  <2>4. e0 >= x
    <3> SUFFICES ASSUME e0 < x PROVE FALSE
      BY <1>0, <2>3 DEF Addr
    <3>1. e0 \in Addr
      BY <1>0, <2>3 DEF Addr, StackBase
    <3>2. s[e0] = SHADOW_UNADDRESSABLE
      BY <3>1
    <3> QED
      BY <1>0, <2>3, <3>1, <3>2 DEF Addr
  <2>5. e0 <= StackBase
    <3>1. CASE e0 = sp
      BY <1>0, <3>1 DEF Addr, StackBase
    <3>2. CASE e0 # sp
      <4>1. e0 - 1 \in sp .. (e0 - 1)
        BY <1>0, <2>3, <3>2 DEF Addr
      <4> QED
        BY <1>0, <2>3, <4>1 DEF StackBase, Addr
    <3> QED
      BY <3>1, <3>2
  <2> QED
    BY <1>0, <2>4, <2>5, <2>3 DEF Addr, StackBase, e0
<1> QED
  BY <1>1, <1>2
-----------------------------------------------------------------------------
(* The facts about the constants the steps use.                            *)
LEMMA Consts ==
  /\ MemTop \in Nat \ {0} /\ StackBase = MemTop + 1
  /\ TypicalStackMin \in Nat \ {0} /\ StackSwapThreshold \in Nat \ {0}
  /\ KData \subseteq Nat \ {0} /\ MaxDepth \in Nat /\ Regs \subseteq Nat
  /\ \A k \in KData : \A r \in Regs : r < k
BY CallbacksAssumption DEF StackBase

FrameRec == [kind : {"callback", "continue"}, lo : Addr, ret : 1 .. StackBase]

CptRec == [pre_callback_esp : {NULL} \cup 1 .. StackBase, shadow_regs : [Regs -> Tags]]

(* The two updates of the cpt array keep its type: a pre_callback_esp set  *)
(* to a stack address, and a fresh entry that inherits shadow_regs.        *)
LEMMA CptUpdates ==
  ASSUME NEW c \in [0 .. MaxDepth -> CptRec], NEW d \in 0 .. MaxDepth,
         NEW e \in 1 .. StackBase
  PROVE  /\ [c EXCEPT ![d].pre_callback_esp = e] \in [0 .. MaxDepth -> CptRec]
         /\ d + 1 \in 0 .. MaxDepth =>
              [c EXCEPT ![d + 1] = [NoCpt EXCEPT !.shadow_regs = c[d].shadow_regs]]
                \in [0 .. MaxDepth -> CptRec]
<1>1. [c[d] EXCEPT !.pre_callback_esp = e] \in CptRec
  BY DEF CptRec
<1>2. [c EXCEPT ![d].pre_callback_esp = e] = [c EXCEPT ![d] = [c[d] EXCEPT !.pre_callback_esp = e]]
  OBVIOUS
<1>3. [NoCpt EXCEPT !.shadow_regs = c[d].shadow_regs] \in CptRec
  BY DEF NoCpt, CptRec
<1> QED
  BY <1>1, <1>2, <1>3

(* The transfers as a sequence, and the top of the stack the application   *)
(* may pop to.                                                             *)
LEMMA FramesType ==
  ASSUME TypeOK
  PROVE  /\ k_frames \in Seq(FrameRec)
         /\ Len(k_frames) \in Nat
         /\ k_frames = << >> <=> Len(k_frames) = 0
         /\ \A i \in 1 .. Len(k_frames) : k_frames[i] \in FrameRec
         /\ FrameBase \in 1 .. StackBase
<1>1. k_frames \in Seq(FrameRec)
  BY DEF TypeOK, FrameRec
<1>2. Len(k_frames) \in Nat /\ (k_frames = << >> <=> Len(k_frames) = 0)
  BY <1>1, LenProperties, EmptySeq
<1>3. \A i \in 1 .. Len(k_frames) : k_frames[i] \in FrameRec
  BY <1>1, ElementOfSeq
<1>4. FrameBase \in 1 .. StackBase
  BY <1>2, <1>3, Consts DEF FrameBase, FrameRec, Addr
<1> QED
  BY <1>1, <1>2, <1>3, <1>4

(* A step that leaves the transfers, the depth and the cpts alone keeps    *)
(* the depth map.                                                          *)
LEMMA DepthMapUnchanged ==
  ASSUME NEW dm, DepthMap(dm), UNCHANGED <<depth, cpt, k_frames>>
  PROVE  DepthMap(dm)'
BY DEF DepthMap, Cb

(* One less than a positive natural below 2 is zero.                       *)
LEMMA PredZero ==
  ASSUME NEW n \in Nat, n # 0, n - 1 < 1
  PROVE  n - 1 = 0 /\ ~(1 <= n - 1)
OBVIOUS

(* Dropping the newest transfer keeps the older ones and exposes the       *)
(* previous transfer's bottom (or the stack base) as the frame base.       *)
LEMMA PopFacts ==
  ASSUME TypeOK, k_frames # << >>,
         k_frames' = SubSeq(k_frames, 1, Len(k_frames) - 1)
  PROVE  /\ Len(k_frames) \in Nat \ {0}
         /\ k_frames[Len(k_frames)] \in FrameRec
         /\ k_frames' \in Seq(FrameRec)
         /\ Len(k_frames') = Len(k_frames) - 1
         /\ \A i \in 1 .. Len(k_frames) - 1 : k_frames'[i] = k_frames[i]
         /\ FrameBase' = IF Len(k_frames) = 1 THEN StackBase
                         ELSE k_frames[Len(k_frames) - 1].lo
<1>1. /\ k_frames \in Seq(FrameRec) /\ Len(k_frames) \in Nat \ {0}
      /\ \A i \in 1 .. Len(k_frames) : k_frames[i] \in FrameRec
  BY FramesType
<1>2. /\ k_frames' \in Seq(FrameRec)
      /\ Len(k_frames') = Len(k_frames) - 1
      /\ \A i \in 1 .. Len(k_frames) - 1 : k_frames'[i] = k_frames[i]
  <2> DEFINE t == SubSeq(k_frames, 1, Len(k_frames) - 1)
  <2>1. /\ t \in Seq(FrameRec)
        /\ Len(t) = IF 1 <= Len(k_frames) - 1 THEN Len(k_frames) - 1 ELSE 0
        /\ \A i \in 1 .. Len(k_frames) - 1 : t[i] = k_frames[i]
    <3>1. \A i \in 1 .. Len(k_frames) - 1 : k_frames[i] \in FrameRec
      BY <1>1
    <3> QED
      BY <1>1, <3>1, SubSeqProperties
  <2>2. k_frames' = t
    OBVIOUS
  <2> HIDE DEF t
  <2>3. Len(t) = Len(k_frames) - 1
    <3>1. Len(k_frames) \in Nat /\ Len(k_frames) # 0
      BY <1>1
    <3>2. CASE 1 <= Len(k_frames) - 1
      BY <2>1, <3>2
    <3>3. CASE Len(k_frames) - 1 < 1
      <4>1. Len(k_frames) - 1 = 0 /\ ~(1 <= Len(k_frames) - 1)
        BY <3>1, <3>3, PredZero
      <4> QED
        BY <2>1, <4>1
    <3> QED
      BY <3>2, <3>3
  <2> QED
    BY <2>1, <2>2, <2>3
<1>3. k_frames' = << >> <=> Len(k_frames') = 0
  BY <1>2, EmptySeq
<1> QED
  BY <1>1, <1>2, <1>3 DEF FrameBase

(* Returning past the newest transfer, to its return point, keeps the    *)
(* transfers nested with the stack pointer inside the newest that is left. *)
LEMMA PopNest ==
  ASSUME TypeOK, FramesNest, k_frames # << >>,
         k_frames' = SubSeq(k_frames, 1, Len(k_frames) - 1),
         xsp' = k_frames[Len(k_frames)].ret
  PROVE  FramesNest'
<1> DEFINE L == Len(k_frames)
<1>1. /\ L \in Nat \ {0} /\ k_frames[L] \in FrameRec
      /\ k_frames' \in Seq(FrameRec) /\ Len(k_frames') = L - 1
      /\ \A i \in 1 .. L - 1 : k_frames'[i] = k_frames[i]
      /\ FrameBase' = IF L = 1 THEN StackBase ELSE k_frames[L - 1].lo
  BY PopFacts
<1>2. xsp' <= FrameBase'
  <2>1. k_frames[L].ret \in 1 .. StackBase
    BY <1>1 DEF FrameRec
  <2>2. CASE L = 1
    BY <1>1, <2>1, <2>2
  <2>3. CASE L # 1
    <3>1. L \in 2 .. L
      BY <1>1, <2>3
    <3> QED
      BY <1>1, <2>3, <3>1 DEF FramesNest
  <2> QED
    BY <2>2, <2>3
<1>3. \A i \in 1 .. L - 1 : k_frames'[i].ret - k_frames'[i].lo \in KData
  BY <1>1 DEF FramesNest
<1>4. \A i \in 2 .. L - 1 : k_frames'[i].ret <= k_frames'[i - 1].lo
  <2> SUFFICES ASSUME NEW i \in 2 .. L - 1
               PROVE  k_frames'[i].ret <= k_frames'[i - 1].lo
    OBVIOUS
  <2>1. i \in 2 .. L /\ i \in 1 .. L - 1 /\ i - 1 \in 1 .. L - 1
    BY <1>1
  <2>2. k_frames'[i] = k_frames[i] /\ k_frames'[i - 1] = k_frames[i - 1]
    BY <1>1, <2>1
  <2> QED
    BY <2>1, <2>2 DEF FramesNest
<1> QED
  BY <1>1, <1>2, <1>3, <1>4 DEF FramesNest

-----------------------------------------------------------------------------
(* Type correctness needs neither bound: only that the kernel's transfers  *)
(* nest and that the depth counts the callback transfers on the stack, so  *)
(* that client_handle_cbret's depth - 1 is a depth.                        *)

(* dm counts the callback transfers below each transfer.                   *)
DepthCount(dm) ==
  /\ dm \in [1 .. Len(k_frames) -> 0 .. MaxDepth]
  /\ depth = IF Len(k_frames) = 0 THEN 0
             ELSE dm[Len(k_frames)] + Cb(Len(k_frames))
  /\ \A i \in 1 .. Len(k_frames) :
       dm[i] = IF i = 1 THEN 0 ELSE dm[i - 1] + Cb(i - 1)

TInv ==
  /\ TypeOK
  /\ FramesNest
  /\ \E dm \in [1 .. Len(k_frames) -> 0 .. MaxDepth] : DepthCount(dm)

(* Wherever it starts, the Ki walk ends between its start and the base.    *)
LEMMA WalkEndRange ==
  ASSUME NEW s \in [Addr -> Tags], NEW sp \in Addr
  PROVE  KiWalkEnd(s, sp) \in sp .. StackBase
<1>0. MemTop \in Nat \ {0} /\ TypicalStackMin \in Nat \ {0}
  BY CallbacksAssumption
<1>1. CASE sp < StackBase /\ StackBase - sp < TypicalStackMin
  BY <1>0, <1>1 DEF KiWalkEnd, StackBase, Addr
<1>2. CASE ~(sp < StackBase /\ StackBase - sp < TypicalStackMin)
  <2> DEFINE P(e) == /\ \/ e = sp + TypicalStackMin
                        \/ e > MemTop
                        \/ s[e] # SHADOW_UNADDRESSABLE
                     /\ \A a \in sp .. (e - 1) :
                          a <= MemTop /\ s[a] = SHADOW_UNADDRESSABLE
             Bad == {a \in sp .. (sp + TypicalStackMin - 1) :
                       a > MemTop \/ s[a] # SHADOW_UNADDRESSABLE}
  <2>1. \E e \in sp .. sp + TypicalStackMin : P(e)
    <3>1. CASE Bad = {}
      <4>1. sp + TypicalStackMin \in sp .. sp + TypicalStackMin
        BY <1>0 DEF Addr
      <4>2. \A a \in sp .. (sp + TypicalStackMin - 1) :
              a <= MemTop /\ s[a] = SHADOW_UNADDRESSABLE
        <5>1. \A a \in sp .. (sp + TypicalStackMin - 1) :
                ~(a > MemTop \/ s[a] # SHADOW_UNADDRESSABLE)
          BY <3>1, Zenon DEF Bad
        <5> QED
          BY <1>0, <5>1 DEF Addr
      <4>3. P(sp + TypicalStackMin)
        BY <1>0, <4>2 DEF P, Addr
      <4> QED
        BY <4>1, <4>3
    <3>2. CASE Bad # {}
      <4>1. Bad \subseteq Nat
        BY <1>0 DEF Addr
      <4>2. PICK m \in Bad : \A y \in Bad : m <= y
        BY <3>2, <4>1, NatLeast
      <4>3. m \in sp .. sp + TypicalStackMin
        BY <1>0, <4>2 DEF Addr
      <4>4. P(m)
        BY <1>0, <4>2 DEF Addr
      <4> QED
        BY <4>3, <4>4
    <3> QED
      BY <3>1, <3>2
  <2> DEFINE e0 == KiWalkEnd(s, sp)
  <2>2. e0 \in sp .. sp + TypicalStackMin /\ P(e0)
    BY <1>2, <2>1 DEF KiWalkEnd
  <2> HIDE DEF e0
  <2>3. e0 <= StackBase
    <3>1. CASE e0 = sp
      BY <1>0, <3>1 DEF Addr, StackBase
    <3>2. CASE e0 # sp
      <4>1. e0 - 1 \in sp .. (e0 - 1)
        BY <1>0, <2>2, <3>2 DEF Addr
      <4> QED
        BY <1>0, <2>2, <4>1 DEF StackBase, Addr
    <3> QED
      BY <3>1, <3>2
  <2> QED
    BY <2>2, <2>3 DEF e0
<1> QED
  BY <1>1, <1>2

(* The application pushes below the stack pointer.                         *)
LEMMA AppPushTInv ==
  ASSUME TInv, NEW v \in {SHADOW_DEFINED, SHADOW_UNDEFINED}, AppPush(v)
  PROVE  TInv'
<1>1. UNCHANGED <<depth, cpt, k_frames>> /\ xsp > 1 /\ xsp' = xsp - 1
  BY DEF AppPush
<1>2. FrameBase' = FrameBase
  BY <1>1 DEF FrameBase
<1>3. xsp \in 1 .. StackBase /\ shadow \in [Addr -> Tags]
  BY DEF TInv, TypeOK
<1>4. xsp - 1 \in Addr /\ shadow' = [shadow EXCEPT ![xsp - 1] = v]
  BY <1>1, <1>3, Consts DEF AppPush, Addr
<1>5. TypeOK'
  <2>1. shadow' \in [Addr -> Tags]
    BY <1>3, <1>4 DEF Tags
  <2> QED
    BY <1>1, <1>3, <2>1, Consts DEF TInv, TypeOK
<1>6. FramesNest'
  BY <1>1, <1>2, <1>3, FramesType, Consts DEF TInv, FramesNest
<1>7. (\E dm \in [1 .. Len(k_frames) -> 0 .. MaxDepth] : DepthCount(dm))'
  BY <1>1 DEF TInv, DepthCount, Cb
<1> QED
  BY <1>5, <1>6, <1>7 DEF TInv

(* The application pops, never above the newest transfer.                  *)
LEMMA AppPopTInv ==
  ASSUME TInv, AppPop
  PROVE  TInv'
<1>1. UNCHANGED <<depth, cpt, k_frames>> /\ xsp < FrameBase /\ xsp' = xsp + 1
  BY DEF AppPop
<1>2. FrameBase' = FrameBase
  BY <1>1 DEF FrameBase
<1>3. xsp \in 1 .. StackBase /\ shadow \in [Addr -> Tags]
  BY DEF TInv, TypeOK
<1>4. FrameBase \in 1 .. StackBase
  BY FramesType DEF TInv
<1>5. xsp \in Addr /\ shadow' = [shadow EXCEPT ![xsp] = SHADOW_UNADDRESSABLE]
  BY <1>1, <1>3, <1>4, Consts DEF AppPop, Addr
<1>6. TypeOK'
  <2>1. shadow' \in [Addr -> Tags]
    BY <1>3, <1>5 DEF Tags
  <2> QED
    BY <1>1, <1>3, <1>4, <2>1, Consts DEF TInv, TypeOK
<1>7. FramesNest'
  BY <1>1, <1>2, <1>3, FramesType, Consts DEF TInv, FramesNest
<1>8. (\E dm \in [1 .. Len(k_frames) -> 0 .. MaxDepth] : DepthCount(dm))'
  BY <1>1 DEF TInv, DepthCount, Cb
<1> QED
  BY <1>6, <1>7, <1>8 DEF TInv

(* A Ki dispatch with the kernel's k bytes: the walk stays on the stack,   *)
(* the new transfer lies below the others, and a callback's new depth is   *)
(* one more callback transfer on the stack.                                *)
LEMMA KiTInv ==
  ASSUME TInv, NEW k \in KData, NEW callback \in BOOLEAN,
         ClientHandleKi(k, callback)
  PROVE  TInv'
<1> DEFINE lo  == xsp - k
           end == KiWalkEnd(shadow, lo)
           c1  == [cpt EXCEPT ![depth].pre_callback_esp = end]
           F   == [kind |-> IF callback THEN "callback" ELSE "continue",
                   lo |-> lo, ret |-> xsp]
           L   == Len(k_frames)
<1>0. TypeOK /\ FramesNest /\ k \in Nat \ {0}
  BY Consts DEF TInv
<1>1. /\ lo >= 1 /\ xsp' = lo
      /\ shadow' = ShadowSetRange(shadow, lo, end, SHADOW_DEFINED)
      /\ k_frames' = Append(k_frames, F)
      /\ depth' = IF callback THEN depth + 1 ELSE depth
      /\ cpt' = IF callback
                  THEN [c1 EXCEPT ![depth + 1] =
                          [NoCpt EXCEPT !.shadow_regs = c1[depth].shadow_regs]]
                  ELSE c1
      /\ callback => depth < MaxDepth
  BY DEF ClientHandleKi
<1>2. lo \in Addr /\ xsp \in lo .. StackBase
  BY <1>0, <1>1, Consts DEF TypeOK, Addr
<1>3. end \in 1 .. StackBase
  <2>1. end \in lo .. StackBase
    BY <1>0, <1>2, WalkEndRange DEF TypeOK
  <2> QED
    BY <1>2, <2>1, Consts DEF Addr
<1>4. /\ F \in FrameRec
      /\ L \in Nat
      /\ k_frames \in Seq(FrameRec)
      /\ FrameBase \in 1 .. StackBase
  BY <1>0, <1>2, FramesType DEF FrameRec, TypeOK, Addr
<1>5. /\ k_frames' \in Seq(FrameRec) /\ Len(k_frames') = L + 1
      /\ \A i \in 1 .. L : k_frames'[i] = k_frames[i]
      /\ k_frames'[L + 1] = F
  BY <1>1, <1>4, AppendProperties
<1>6. TypeOK'
  <2>1. shadow' \in [Addr -> Tags]
    BY <1>0, <1>1 DEF TypeOK, ShadowSetRange, Tags
  <2>2. depth' \in 0 .. MaxDepth
    BY <1>0, <1>1, Consts DEF TypeOK
  <2>3. cpt \in [0 .. MaxDepth -> CptRec] /\ depth \in 0 .. MaxDepth
    BY <1>0 DEF TypeOK, CptRec
  <2>4. cpt' \in [0 .. MaxDepth -> CptRec]
    <3>2. c1 \in [0 .. MaxDepth -> CptRec]
      BY <1>3, <2>3, CptUpdates
    <3>3. callback => depth + 1 \in 0 .. MaxDepth
      BY <1>1, <2>3, Consts
    <3>5. CASE callback
      <4>1. [c1 EXCEPT ![depth + 1] = [NoCpt EXCEPT !.shadow_regs = c1[depth].shadow_regs]]
              \in [0 .. MaxDepth -> CptRec]
        BY <1>3, <2>3, <3>2, <3>3, <3>5, CptUpdates
      <4> QED
        BY <1>1, <3>5, <4>1
    <3>6. CASE ~callback
      BY <1>1, <3>2, <3>6
    <3> QED
      BY <3>5, <3>6
  <2>5. xsp' \in 1 .. StackBase
    BY <1>1, <1>2, Consts DEF Addr
  <2> QED
    BY <1>5, <2>1, <2>2, <2>4, <2>5 DEF TypeOK, FrameRec, CptRec
<1>7. FramesNest'
  <2>1. \A i \in 1 .. L + 1 : k_frames'[i].ret - k_frames'[i].lo \in KData
    <3> SUFFICES ASSUME NEW i \in 1 .. L + 1
                 PROVE  k_frames'[i].ret - k_frames'[i].lo \in KData
      OBVIOUS
    <3>1. CASE i <= L
      BY <1>0, <1>4, <1>5, <3>1 DEF FramesNest
    <3>2. CASE i = L + 1
      <4>1. k_frames'[i] = F
        BY <1>5, <3>2
      <4>2. xsp \in Int
        BY <1>0 DEF TypeOK
      <4> QED
        BY <1>0, <4>1, <4>2
    <3> QED
      BY <1>4, <3>1, <3>2
  <2>2. \A i \in 2 .. L + 1 : k_frames'[i].ret <= k_frames'[i - 1].lo
    <3> SUFFICES ASSUME NEW i \in 2 .. L + 1
                 PROVE  k_frames'[i].ret <= k_frames'[i - 1].lo
      OBVIOUS
    <3>1. CASE i <= L
      BY <1>0, <1>4, <1>5, <3>1 DEF FramesNest
    <3>2. CASE i = L + 1
      <4>1. k_frames # << >> /\ FrameBase = k_frames[L].lo
        BY <1>4, <3>2, FramesType DEF FrameBase
      <4> QED
        BY <1>0, <1>4, <1>5, <3>2, <4>1 DEF FramesNest
    <3> QED
      BY <1>4, <3>1, <3>2
  <2>3. xsp' <= FrameBase'
    <3>1. k_frames' # << >>
      BY <1>4, <1>5, EmptySeq
    <3>2. FrameBase' = F.lo
      BY <1>4, <1>5, <3>1 DEF FrameBase
    <3> QED
      BY <1>1, <1>2, <3>2 DEF Addr
  <2> QED
    BY <1>5, <2>1, <2>2, <2>3 DEF FramesNest
<1>8. (\E dm \in [1 .. Len(k_frames) -> 0 .. MaxDepth] : DepthCount(dm))'
  <2>1. PICK dm \in [1 .. L -> 0 .. MaxDepth] : DepthCount(dm)
    BY DEF TInv
  <2> DEFINE dm2 == [i \in 1 .. L + 1 |-> IF i <= L THEN dm[i] ELSE depth]
             CbP(i) == IF k_frames'[i].kind = "callback" THEN 1 ELSE 0
  <2>2. \A i \in 1 .. L : CbP(i) = Cb(i)
    BY <1>5 DEF Cb
  <2>3. CbP(L + 1) = IF callback THEN 1 ELSE 0
    BY <1>5
  <2>4. depth \in 0 .. MaxDepth /\ MaxDepth \in Nat /\ L \in Nat
    BY <1>0, <1>4, Consts DEF TypeOK
  <2>5. /\ depth = IF L = 0 THEN 0 ELSE dm[L] + Cb(L)
        /\ \A i \in 1 .. L : dm[i] = IF i = 1 THEN 0 ELSE dm[i - 1] + Cb(i - 1)
    BY <2>1 DEF DepthCount
  <2>6. dm2 \in [1 .. Len(k_frames') -> 0 .. MaxDepth]
    BY <1>5, <2>1, <2>4
  <2>7. depth' = dm2[L + 1] + CbP(L + 1)
    BY <1>1, <2>3, <2>4
  <2>8. \A i \in 1 .. L + 1 : dm2[i] = IF i = 1 THEN 0 ELSE dm2[i - 1] + CbP(i - 1)
    BY <2>1, <2>2, <2>4, <2>5
  <2>9. ASSUME NEW d, d = dm2 PROVE DepthCount(d)'
    BY <1>5, <2>6, <2>7, <2>8, <2>9 DEF DepthCount, Cb
  <2> QED
    BY <2>6, <2>9
<1> QED
  BY <1>6, <1>7, <1>8 DEF TInv

(* Dropping the newest transfer keeps a depth count, when the depth falls  *)
(* back to the one that transfer was dispatched from.                      *)
LEMMA DepthCountPop ==
  ASSUME TypeOK, NEW dm, DepthCount(dm), k_frames # << >>,
         k_frames' = SubSeq(k_frames, 1, Len(k_frames) - 1),
         depth' = dm[Len(k_frames)]
  PROVE  \E d \in [1 .. Len(k_frames') -> 0 .. MaxDepth] : DepthCount(d)'
<1> DEFINE L == Len(k_frames)
<1>1. /\ L \in Nat \ {0}
      /\ Len(k_frames') = L - 1
      /\ \A i \in 1 .. L - 1 : k_frames'[i] = k_frames[i]
  BY PopFacts
<1>2. /\ dm \in [1 .. L -> 0 .. MaxDepth]
      /\ \A i \in 1 .. L : dm[i] = IF i = 1 THEN 0 ELSE dm[i - 1] + Cb(i - 1)
  BY DEF DepthCount
<1> DEFINE d0 == [i \in 1 .. L - 1 |-> dm[i]]
<1>3. d0 \in [1 .. Len(k_frames') -> 0 .. MaxDepth]
  BY <1>1, <1>2
<1>4. ASSUME NEW d, d = d0 PROVE DepthCount(d)'
  <2> DEFINE M == Len(k_frames')
             CbP(i) == IF k_frames'[i].kind = "callback" THEN 1 ELSE 0
  <2>1. M = L - 1 /\ M \in Nat
    BY <1>1
  <2>2. \A i \in 1 .. M : CbP(i) = Cb(i)
    BY <1>1, <2>1 DEF Cb
  <2>3. d \in [1 .. M -> 0 .. MaxDepth]
    BY <1>3, <1>4
  <2>4. depth' = IF M = 0 THEN 0 ELSE d[M] + CbP(M)
    <3>1. CASE M = 0
      BY <1>1, <1>2, <2>1, <3>1
    <3>2. CASE M # 0
      <4>1. M \in 1 .. M /\ L \in 2 .. L /\ L - 1 = M
        BY <1>1, <2>1, <3>2
      <4>2. depth' = dm[M] + Cb(M)
        BY <1>2, <4>1
      <4> QED
        BY <1>4, <2>2, <3>2, <4>1, <4>2
    <3> QED
      BY <3>1, <3>2
  <2>5. \A i \in 1 .. M : d[i] = IF i = 1 THEN 0 ELSE d[i - 1] + CbP(i - 1)
    BY <1>1, <1>2, <1>4, <2>1, <2>2
  <2> HIDE DEF M, CbP
  <2> QED
    BY <2>3, <2>4, <2>5, Zenon DEF DepthCount, Cb, M, CbP
<1> QED
  BY <1>3, <1>4

(* A callback return: the newest transfer is a callback one, so the depth  *)
(* is positive and depth - 1 is the depth it was dispatched from.          *)
LEMMA CbretTInv ==
  ASSUME TInv, ClientHandleCbret
  PROVE  TInv'
<1> DEFINE L   == Len(k_frames)
           top == k_frames[L]
<1>0. TypeOK /\ FramesNest
  BY DEF TInv
<1>1. /\ k_frames # << >> /\ top.kind = "callback"
      /\ shadow' = ShadowSetRange(shadow, xsp, cpt[depth - 1].pre_callback_esp,
                                  SHADOW_UNADDRESSABLE)
      /\ xsp' = top.ret /\ depth' = depth - 1
      /\ k_frames' = SubSeq(k_frames, 1, L - 1)
      /\ UNCHANGED cpt
  BY DEF ClientHandleCbret
<1>2. /\ L \in Nat \ {0} /\ top \in FrameRec
      /\ k_frames' \in Seq(FrameRec)
  BY <1>0, <1>1, PopFacts
<1>3. PICK dm \in [1 .. L -> 0 .. MaxDepth] : DepthCount(dm)
  BY DEF TInv
<1>4. dm[L] \in 0 .. MaxDepth /\ depth - 1 = dm[L]
  <2>1. Cb(L) = 1
    BY <1>1 DEF Cb
  <2>2. depth = dm[L] + Cb(L)
    BY <1>2, <1>3 DEF DepthCount
  <2> QED
    BY <1>2, <1>3, <2>1, <2>2
<1>5. TypeOK'
  <2>1. shadow' \in [Addr -> Tags]
    BY <1>0, <1>1 DEF TypeOK, ShadowSetRange, Tags
  <2> QED
    BY <1>0, <1>1, <1>2, <1>4, <2>1 DEF TypeOK, FrameRec
<1>6. FramesNest'
  BY <1>0, <1>1, PopNest
<1>7. (\E d \in [1 .. Len(k_frames) -> 0 .. MaxDepth] : DepthCount(d))'
  BY <1>0, <1>1, <1>3, <1>4, DepthCountPop
<1> QED
  BY <1>5, <1>6, <1>7 DEF TInv

(* An NtContinue: the transfer's return point lies above the stack         *)
(* pointer, so whichever range client_pre_syscall marks is on the stack,   *)
(* and the CONTEXT it reads lies inside the transfer.                      *)
LEMMA NtContinueTInv ==
  ASSUME TInv, NtContinue
  PROVE  TInv'
<1> DEFINE L   == Len(k_frames)
           top == k_frames[L]
<1>0. TypeOK /\ FramesNest
  BY DEF TInv
<1>1. /\ k_frames # << >> /\ top.kind = "continue"
      /\ cpt' = [cpt EXCEPT ![depth].shadow_regs =
                   [r \in Regs |-> shadow[top.lo + r]]]
      /\ shadow' = CASE top.ret < xsp /\ xsp - top.ret < StackSwapThreshold ->
                          ShadowSetRange(shadow, top.ret, xsp, SHADOW_UNDEFINED)
                     [] top.ret >= xsp /\ top.ret - xsp < StackSwapThreshold ->
                          ShadowSetRange(shadow, xsp, top.ret, SHADOW_UNADDRESSABLE)
                     [] OTHER -> shadow
      /\ xsp' = top.ret
      /\ k_frames' = SubSeq(k_frames, 1, L - 1)
      /\ UNCHANGED depth
  BY DEF NtContinue
<1>2. /\ L \in Nat \ {0} /\ top \in FrameRec
      /\ k_frames' \in Seq(FrameRec)
      /\ FrameBase = top.lo
  <2>1. FrameBase = top.lo
    BY <1>1 DEF FrameBase
  <2> QED
    BY <1>0, <1>1, <2>1, PopFacts
<1>3. /\ top.ret - top.lo \in KData
      /\ xsp \in 1 .. StackBase /\ xsp <= top.lo
  BY <1>0, <1>2 DEF FramesNest, TypeOK
<1>4. /\ top.lo \in Addr /\ top.ret \in 1 .. StackBase
      /\ top.ret >= xsp
  BY <1>2, <1>3, Consts DEF FrameRec, Addr
<1>5. shadow' \in [Addr -> Tags]
  <2>1. CASE top.ret - xsp < StackSwapThreshold
    <3>1. shadow' = ShadowSetRange(shadow, xsp, top.ret, SHADOW_UNADDRESSABLE)
      BY <1>1, <1>4, <2>1
    <3> QED
      BY <1>0, <3>1 DEF TypeOK, ShadowSetRange, Tags
  <2>2. CASE ~(top.ret - xsp < StackSwapThreshold)
    <3>0. /\ ~(top.ret < xsp /\ xsp - top.ret < StackSwapThreshold)
          /\ ~(top.ret >= xsp /\ top.ret - xsp < StackSwapThreshold)
      BY <1>3, <1>4, <2>2, Consts DEF Addr
    <3>1. shadow' = shadow
      BY <1>1, <3>0
    <3> QED
      BY <1>0, <3>1 DEF TypeOK
  <2> QED
    BY <2>1, <2>2
<1>6. \A r \in Regs : top.lo + r \in Addr
  BY <1>3, <1>4, Consts DEF Addr
<1>7. TypeOK'
  <2>2. [r \in Regs |-> shadow[top.lo + r]] \in [Regs -> Tags]
    BY <1>0, <1>6 DEF TypeOK
  <2>3. cpt' \in [0 .. MaxDepth -> CptRec]
    BY <1>0, <1>1, <2>2 DEF TypeOK, CptRec
  <2> QED
    BY <1>0, <1>1, <1>2, <1>4, <1>5, <2>3 DEF TypeOK, FrameRec, CptRec
<1>8. FramesNest'
  BY <1>0, <1>1, PopNest
<1>9. (\E d \in [1 .. Len(k_frames) -> 0 .. MaxDepth] : DepthCount(d))'
  <2>1. PICK dm \in [1 .. L -> 0 .. MaxDepth] : DepthCount(dm)
    BY DEF TInv
  <2>2. depth' = dm[L]
    <3>1. Cb(L) = 0 /\ dm[L] \in Nat
      BY <1>1, <1>2, <2>1 DEF Cb
    <3> QED
      BY <1>1, <1>2, <2>1, <3>1 DEF DepthCount
  <2> QED
    BY <1>0, <1>1, <2>1, <2>2, DepthCountPop
<1> QED
  BY <1>7, <1>8, <1>9 DEF TInv

(* The initial stack has no transfer and no callback.                      *)
LEMMA InitTInv ==
  ASSUME Init
  PROVE  TInv
<1>1. k_frames = << >> /\ Len(k_frames) = 0
  BY EmptySeq DEF Init
<1>2. TypeOK
  <2>1. << >> \in Seq(FrameRec)
    BY EmptySeq
  <2>2. [d \in 0 .. MaxDepth |-> NoCpt] \in [0 .. MaxDepth -> CptRec]
    <3>1. [r \in Regs |-> SHADOW_DEFINED] \in [Regs -> Tags]
      BY DEF Tags
    <3>2. NoCpt \in CptRec
      BY <3>1 DEF NoCpt, CptRec, NULL
    <3> QED
      BY <3>2
  <2> QED
    BY <2>1, <2>2, Consts DEF Init, TypeOK, FrameRec, CptRec, Tags
<1>3. FramesNest
  BY <1>1, Consts DEF Init, FramesNest, FrameBase
<1>4. [i \in 1 .. 0 |-> 0] \in [1 .. Len(k_frames) -> 0 .. MaxDepth]
      /\ DepthCount([i \in 1 .. 0 |-> 0])
  BY <1>1 DEF Init, DepthCount
<1> QED
  BY <1>2, <1>3, <1>4 DEF TInv

(* Every step of the application, the kernel and the handlers keeps the    *)
(* typing invariant, for every value of the constants.                     *)
LEMMA NextTInv ==
  ASSUME TInv, [Next]_vars
  PROVE  TInv'
<1>1. CASE \E v \in {SHADOW_DEFINED, SHADOW_UNDEFINED} : AppPush(v)
  BY <1>1, AppPushTInv
<1>2. CASE AppPop
  BY <1>2, AppPopTInv
<1>3. CASE \E k \in KData, callback \in BOOLEAN : ClientHandleKi(k, callback)
  BY <1>3, KiTInv
<1>4. CASE ClientHandleCbret
  BY <1>4, CbretTInv
<1>5. CASE NtContinue
  BY <1>5, NtContinueTInv
<1>6. CASE UNCHANGED vars
  BY <1>6 DEF vars, TInv, TypeOK, FramesNest, FrameBase, DepthCount, Cb
<1> QED
  BY <1>1, <1>2, <1>3, <1>4, <1>5, <1>6 DEF Next

(* For every stack size, callback depth, register set, kernel data size    *)
(* and swap threshold, the stack pointer, the callback depth, the          *)
(* per-depth pre_callback_esp and shadow_regs and the kernel's transfers   *)
(* keep their types: client_handle_cbret's depth - 1 is always a depth,    *)
(* because a callback transfer is on the stack exactly when a depth was    *)
(* entered, and NtContinue reads the CONTEXT inside its transfer.          *)
THEOREM TypeCorrect == Spec => []TypeOK
<1>1. Init => TInv
  BY InitTInv
<1>2. TInv /\ [Next]_vars => TInv'
  BY NextTInv
<1>3. TInv => TypeOK
  BY DEF TInv
<1> QED
  BY <1>1, <1>2, <1>3, PTL DEF Spec

-----------------------------------------------------------------------------
(* Under the bounds the stack invariant holds as well.                     *)

(* The stack invariant includes the typing invariant.                     *)
LEMMA IInvTInv == IInv => TInv
<1>1. ASSUME NEW dm, DepthMap(dm) PROVE DepthCount(dm)
  BY <1>1 DEF DepthMap, DepthCount
<1> QED
  BY <1>1 DEF IInv, TInv

(* The application pushes below the stack pointer.                         *)
LEMMA AppPushIInv ==
  ASSUME IInv, NEW v \in {SHADOW_DEFINED, SHADOW_UNDEFINED}, AppPush(v)
  PROVE  IInv'
<1>1. UNCHANGED <<depth, cpt, k_frames>> /\ xsp > 1 /\ xsp' = xsp - 1
  BY DEF AppPush
<1>3. xsp \in 1 .. StackBase /\ shadow \in [Addr -> Tags]
  BY DEF IInv, TypeOK
<1>4. xsp - 1 \in Addr /\ shadow' = [shadow EXCEPT ![xsp - 1] = v]
  BY <1>1, <1>3, Consts DEF AppPush, Addr
<1>5. TypeOK'
  BY AppPushTInv, IInvTInv DEF TInv
<1>6. BeyondTosUnaddressable'
  BY <1>1, <1>3, <1>4, Consts DEF IInv, BeyondTosUnaddressable, Addr
<1>7. FramesNest'
  BY AppPushTInv, IInvTInv DEF TInv
<1>8. (\E dm \in [1 .. Len(k_frames) -> 0 .. MaxDepth] : DepthMap(dm))'
  BY <1>1, DepthMapUnchanged DEF IInv
<1> QED
  BY <1>5, <1>6, <1>7, <1>8 DEF IInv

(* The application pops, never above the newest transfer.                  *)
LEMMA AppPopIInv ==
  ASSUME IInv, AppPop
  PROVE  IInv'
<1>1. UNCHANGED <<depth, cpt, k_frames>> /\ xsp < FrameBase /\ xsp' = xsp + 1
  BY DEF AppPop
<1>3. xsp \in 1 .. StackBase /\ shadow \in [Addr -> Tags]
  BY DEF IInv, TypeOK
<1>4. FrameBase \in 1 .. StackBase
  BY FramesType DEF IInv
<1>5. xsp \in Addr /\ shadow' = [shadow EXCEPT ![xsp] = SHADOW_UNADDRESSABLE]
  BY <1>1, <1>3, <1>4, Consts DEF AppPop, Addr
<1>6. TypeOK'
  BY AppPopTInv, IInvTInv DEF TInv
<1>7. BeyondTosUnaddressable'
  BY <1>1, <1>3, <1>5, Consts DEF IInv, BeyondTosUnaddressable, Addr
<1>8. FramesNest'
  BY AppPopTInv, IInvTInv DEF TInv
<1>9. (\E dm \in [1 .. Len(k_frames) -> 0 .. MaxDepth] : DepthMap(dm))'
  BY <1>1, DepthMapUnchanged DEF IInv
<1> QED
  BY <1>6, <1>7, <1>8, <1>9 DEF IInv

(* A Ki dispatch with the kernel's k bytes: the walk reaches the dispatch  *)
(* point, the new transfer lies below the others, and a callback records   *)
(* the current depth's pre_callback_esp at or above its return point.      *)
LEMMA KiIInv ==
  ASSUME IInv, CallbacksBounded, NEW k \in KData, NEW callback \in BOOLEAN,
         ClientHandleKi(k, callback)
  PROVE  IInv'
<1> DEFINE lo  == xsp - k
           end == KiWalkEnd(shadow, lo)
           c1  == [cpt EXCEPT ![depth].pre_callback_esp = end]
           F   == [kind |-> IF callback THEN "callback" ELSE "continue",
                   lo |-> lo, ret |-> xsp]
           L   == Len(k_frames)
<1>0. /\ TypeOK /\ BeyondTosUnaddressable /\ FramesNest
      /\ k \in Nat \ {0} /\ k < TypicalStackMin
  BY Consts DEF IInv, CallbacksBounded
<1>1. /\ lo >= 1 /\ xsp' = lo
      /\ shadow' = ShadowSetRange(shadow, lo, end, SHADOW_DEFINED)
      /\ k_frames' = Append(k_frames, F)
      /\ depth' = IF callback THEN depth + 1 ELSE depth
      /\ cpt' = IF callback
                  THEN [c1 EXCEPT ![depth + 1] =
                          [NoCpt EXCEPT !.shadow_regs = c1[depth].shadow_regs]]
                  ELSE c1
      /\ callback => depth < MaxDepth
  BY DEF ClientHandleKi
<1>2. lo \in Addr /\ xsp \in lo .. StackBase /\ xsp - lo < TypicalStackMin
  BY <1>0, <1>1, Consts DEF TypeOK, Addr
<1>3. end \in xsp .. StackBase
  BY <1>0, <1>2, WalkEnd DEF TypeOK, BeyondTosUnaddressable
<1>4. /\ F \in FrameRec
      /\ L \in Nat
      /\ k_frames \in Seq(FrameRec)
      /\ FrameBase \in 1 .. StackBase
  BY <1>0, <1>2, FramesType DEF FrameRec, TypeOK, Addr
<1>5. /\ k_frames' \in Seq(FrameRec) /\ Len(k_frames') = L + 1
      /\ \A i \in 1 .. L : k_frames'[i] = k_frames[i]
      /\ k_frames'[L + 1] = F
  BY <1>1, <1>4, AppendProperties
<1>6. TypeOK'
  BY KiTInv, IInvTInv DEF TInv
<1>7. BeyondTosUnaddressable'
  BY <1>0, <1>1, <1>2, Consts DEF BeyondTosUnaddressable, ShadowSetRange, TypeOK,
                                  Addr
<1>8. FramesNest'
  BY KiTInv, IInvTInv DEF TInv
<1>9. (\E dm \in [1 .. Len(k_frames) -> 0 .. MaxDepth] : DepthMap(dm))'
  <2>1. PICK dm \in [1 .. L -> 0 .. MaxDepth] : DepthMap(dm)
    BY DEF IInv
  <2> DEFINE dm2 == [i \in 1 .. L + 1 |-> IF i <= L THEN dm[i] ELSE depth]
             CbP(i) == IF k_frames'[i].kind = "callback" THEN 1 ELSE 0
  <2>2. \A i \in 1 .. L : CbP(i) = Cb(i)
    BY <1>5 DEF Cb
  <2>3. CbP(L + 1) = IF callback THEN 1 ELSE 0
    BY <1>5
  <2>4. depth \in 0 .. MaxDepth /\ MaxDepth \in Nat /\ L \in Nat
    BY <1>0, <1>4, Consts DEF TypeOK
  <2>5. /\ depth = IF L = 0 THEN 0 ELSE dm[L] + Cb(L)
        /\ \A i \in 1 .. L : dm[i] = IF i = 1 THEN 0 ELSE dm[i - 1] + Cb(i - 1)
        /\ \A i, j \in 1 .. L : i < j => dm[i] + Cb(i) <= dm[j]
        /\ \A i \in 1 .. L : k_frames[i].kind = "callback" =>
                               cpt[dm[i]].pre_callback_esp >= k_frames[i].ret
    BY <2>1 DEF DepthMap
  <2>6. \A i \in 1 .. L : dm[i] + Cb(i) <= depth
    <3> SUFFICES ASSUME NEW i \in 1 .. L PROVE dm[i] + Cb(i) <= depth
      OBVIOUS
    <3>1. \A j \in 1 .. L : Cb(j) \in {0, 1} /\ dm[j] \in 0 .. MaxDepth
      BY <2>1 DEF Cb
    <3>2. depth = dm[L] + Cb(L)
      BY <2>4, <2>5
    <3>3. CASE i = L
      BY <3>2, <3>3
    <3>4. CASE i # L
      <4>1. i < L
        BY <2>4, <3>4
      <4>2. dm[i] + Cb(i) <= dm[L]
        BY <2>5, <4>1, <2>4
      <4> QED
        BY <2>4, <3>1, <3>2, <4>2
    <3> QED
      BY <3>3, <3>4
  <2>7. /\ \A x \in 0 .. MaxDepth : x < depth => cpt'[x] = cpt[x]
        /\ callback => cpt'[depth].pre_callback_esp = end
    <3>1. cpt \in [0 .. MaxDepth -> CptRec]
      BY <1>0 DEF TypeOK, CptRec
    <3>2. CASE callback
      <4>1. cpt' = [c1 EXCEPT ![depth + 1] =
                      [NoCpt EXCEPT !.shadow_regs = c1[depth].shadow_regs]]
        BY <1>1, <3>2
      <4>2. \A x \in 0 .. MaxDepth : x # depth => c1[x] = cpt[x]
        BY <3>1
      <4>3. c1[depth].pre_callback_esp = end
        BY <2>4, <3>1 DEF CptRec
      <4>4. \A x \in 0 .. MaxDepth : x <= depth => cpt'[x] = c1[x]
        BY <2>4, <3>1, <4>1
      <4>5. \A x \in 0 .. MaxDepth : x < depth => cpt'[x] = cpt[x]
        BY <2>4, <4>2, <4>4
      <4>6. cpt'[depth].pre_callback_esp = end
        <5>1. cpt'[depth] = c1[depth]
          BY <2>4, <4>4
        <5> QED
          BY <4>3, <5>1, Zenon
      <4> QED
        BY <4>5, <4>6
    <3>3. CASE ~callback
      BY <1>1, <2>4, <3>1, <3>3
    <3> QED
      BY <3>2, <3>3
  <2>8. dm2 \in [1 .. Len(k_frames') -> 0 .. MaxDepth]
    BY <1>5, <2>1, <2>4
  <2>9. depth' = dm2[L + 1] + CbP(L + 1)
    BY <1>1, <2>3, <2>4
  <2>10. \A i \in 1 .. L + 1 : dm2[i] = IF i = 1 THEN 0 ELSE dm2[i - 1] + CbP(i - 1)
    BY <2>1, <2>2, <2>4, <2>5
  <2>11. \A i, j \in 1 .. L + 1 : i < j => dm2[i] + CbP(i) <= dm2[j]
    BY <2>1, <2>2, <2>4, <2>5, <2>6
  <2>12. \A i \in 1 .. L + 1 : k_frames'[i].kind = "callback" =>
                                 cpt'[dm2[i]].pre_callback_esp >= k_frames'[i].ret
    <3> SUFFICES ASSUME NEW i \in 1 .. L + 1, k_frames'[i].kind = "callback"
                 PROVE  cpt'[dm2[i]].pre_callback_esp >= k_frames'[i].ret
      OBVIOUS
    <3>1. CASE i <= L
      <4>1. Cb(i) = 1 /\ dm2[i] = dm[i] /\ k_frames'[i] = k_frames[i]
        BY <1>5, <2>2, <3>1 DEF Cb
      <4>2. dm[i] \in 0 .. MaxDepth /\ dm[i] < depth
        BY <2>1, <2>4, <2>6, <3>1, <4>1
      <4> QED
        BY <2>5, <2>7, <3>1, <4>1, <4>2
    <3>2. CASE i = L + 1
      <4>1. callback /\ dm2[i] = depth /\ k_frames'[i] = F
        BY <1>5, <2>4, <3>2
      <4> QED
        BY <1>3, <2>7, <4>1
    <3> QED
      BY <2>4, <3>1, <3>2
  <2>13. ASSUME NEW d, d = dm2 PROVE DepthMap(d)'
    BY <1>5, <2>8, <2>9, <2>10, <2>11, <2>12, <2>13 DEF DepthMap, Cb
  <2> QED
    BY <2>8, <2>13
<1> QED
  BY <1>6, <1>7, <1>8, <1>9 DEF IInv

(* Dropping the newest transfer keeps a depth map, when the depth falls    *)
(* back to the one that transfer was dispatched from and no                *)
(* pre_callback_esp changes.                                               *)
LEMMA DepthMapPop ==
  ASSUME TypeOK, NEW dm, DepthMap(dm), k_frames # << >>,
         k_frames' = SubSeq(k_frames, 1, Len(k_frames) - 1),
         depth' = dm[Len(k_frames)],
         \A x \in 0 .. MaxDepth : cpt'[x].pre_callback_esp = cpt[x].pre_callback_esp
  PROVE  \E d \in [1 .. Len(k_frames') -> 0 .. MaxDepth] : DepthMap(d)'
<1> DEFINE L == Len(k_frames)
<1>1. /\ L \in Nat \ {0}
      /\ Len(k_frames') = L - 1
      /\ \A i \in 1 .. L - 1 : k_frames'[i] = k_frames[i]
  BY PopFacts
<1>2. /\ dm \in [1 .. L -> 0 .. MaxDepth]
      /\ \A i \in 1 .. L : dm[i] = IF i = 1 THEN 0 ELSE dm[i - 1] + Cb(i - 1)
      /\ \A i, j \in 1 .. L : i < j => dm[i] + Cb(i) <= dm[j]
      /\ \A i \in 1 .. L : k_frames[i].kind = "callback" =>
                             cpt[dm[i]].pre_callback_esp >= k_frames[i].ret
  BY DEF DepthMap
<1> DEFINE d0 == [i \in 1 .. L - 1 |-> dm[i]]
<1>3. d0 \in [1 .. Len(k_frames') -> 0 .. MaxDepth]
  BY <1>1, <1>2
<1>4. ASSUME NEW d, d = d0 PROVE DepthMap(d)'
  <2> DEFINE M == Len(k_frames')
             CbP(i) == IF k_frames'[i].kind = "callback" THEN 1 ELSE 0
  <2>1. M = L - 1 /\ M \in Nat
    BY <1>1
  <2>2. \A i \in 1 .. M : CbP(i) = Cb(i)
    BY <1>1, <2>1 DEF Cb
  <2>3. d \in [1 .. M -> 0 .. MaxDepth]
    BY <1>3, <1>4
  <2>4. depth' = IF M = 0 THEN 0 ELSE d[M] + CbP(M)
    <3>1. CASE M = 0
      BY <1>1, <1>2, <2>1, <3>1
    <3>2. CASE M # 0
      <4>1. M \in 1 .. M /\ L \in 2 .. L /\ L - 1 = M
        BY <1>1, <2>1, <3>2
      <4>2. depth' = dm[M] + Cb(M)
        BY <1>2, <4>1
      <4> QED
        BY <1>4, <2>2, <3>2, <4>1, <4>2
    <3> QED
      BY <3>1, <3>2
  <2>5. \A i \in 1 .. M : d[i] = IF i = 1 THEN 0 ELSE d[i - 1] + CbP(i - 1)
    BY <1>1, <1>2, <1>4, <2>1, <2>2
  <2>6. \A i, j \in 1 .. M : i < j => d[i] + CbP(i) <= d[j]
    BY <1>1, <1>2, <1>4, <2>1, <2>2
  <2>7. \A i \in 1 .. M : k_frames'[i].kind = "callback" =>
                            cpt'[d[i]].pre_callback_esp >= k_frames'[i].ret
    <3> SUFFICES ASSUME NEW i \in 1 .. M, k_frames'[i].kind = "callback"
                 PROVE  cpt'[d[i]].pre_callback_esp >= k_frames'[i].ret
      OBVIOUS
    <3>1. i \in 1 .. L /\ k_frames'[i] = k_frames[i] /\ d[i] = dm[i]
      BY <1>1, <1>4, <2>1
    <3>2. dm[i] \in 0 .. MaxDepth
      BY <1>2, <3>1
    <3>3. cpt'[dm[i]].pre_callback_esp = cpt[dm[i]].pre_callback_esp
      BY <3>2
    <3>4. cpt[dm[i]].pre_callback_esp >= k_frames[i].ret
      BY <1>2, <3>1
    <3> QED
      BY <3>1, <3>3, <3>4
  <2> HIDE DEF M, CbP
  <2> QED
    BY <2>3, <2>4, <2>5, <2>6, <2>7, Zenon DEF DepthMap, Cb, M, CbP
<1> QED
  BY <1>3, <1>4

(* A callback return: the parent's pre_callback_esp lies at or above the   *)
(* return point, so the range client_handle_cbret marks unaddressable      *)
(* covers everything below the stack pointer the kernel restores.          *)
LEMMA CbretIInv ==
  ASSUME IInv, ClientHandleCbret
  PROVE  IInv'
<1> DEFINE L   == Len(k_frames)
           top == k_frames[L]
           pce == cpt[depth - 1].pre_callback_esp
<1>0. TypeOK /\ BeyondTosUnaddressable /\ FramesNest
  BY DEF IInv
<1>1. /\ k_frames # << >> /\ top.kind = "callback"
      /\ shadow' = ShadowSetRange(shadow, xsp, pce, SHADOW_UNADDRESSABLE)
      /\ xsp' = top.ret /\ depth' = depth - 1
      /\ k_frames' = SubSeq(k_frames, 1, L - 1)
      /\ UNCHANGED cpt
  BY DEF ClientHandleCbret
<1>2. /\ L \in Nat \ {0} /\ top \in FrameRec
      /\ k_frames' \in Seq(FrameRec) /\ Len(k_frames') = L - 1
      /\ \A i \in 1 .. L - 1 : k_frames'[i] = k_frames[i]
      /\ FrameBase' = IF L = 1 THEN StackBase ELSE k_frames[L - 1].lo
  BY <1>0, <1>1, PopFacts
<1>3. PICK dm \in [1 .. L -> 0 .. MaxDepth] : DepthMap(dm)
  BY DEF IInv
<1>4. /\ dm[L] \in 0 .. MaxDepth /\ depth - 1 = dm[L]
      /\ cpt[dm[L]].pre_callback_esp >= top.ret
  <2>1. Cb(L) = 1
    BY <1>1 DEF Cb
  <2>2. depth = dm[L] + Cb(L)
    BY <1>2, <1>3 DEF DepthMap
  <2> QED
    BY <1>1, <1>2, <1>3, <2>1, <2>2 DEF DepthMap
<1>5. /\ top.ret \in 1 .. StackBase
      /\ pce \in Int /\ pce >= top.ret
  <2>1. top.ret \in 1 .. StackBase
    BY <1>2 DEF FrameRec
  <2>2. pce = cpt[dm[L]].pre_callback_esp
    BY <1>4
  <2>3. cpt[dm[L]].pre_callback_esp \in {NULL} \cup 1 .. StackBase
    BY <1>0, <1>4 DEF TypeOK
  <2> QED
    BY <2>1, <2>2, <2>3, <1>4, Consts DEF NULL
<1>6. TypeOK'
  BY CbretTInv, IInvTInv DEF TInv
<1>7. BeyondTosUnaddressable'
  <2> SUFFICES ASSUME NEW a \in Addr, a < top.ret
               PROVE  shadow'[a] = SHADOW_UNADDRESSABLE
    BY <1>1 DEF BeyondTosUnaddressable
  <2>1. xsp \in Int /\ shadow \in [Addr -> Tags] /\ a \in Int
    BY <1>0, Consts DEF TypeOK, Addr
  <2>2. shadow'[a] = IF xsp <= a /\ a < pce THEN SHADOW_UNADDRESSABLE ELSE shadow[a]
    BY <1>1, <2>1 DEF ShadowSetRange
  <2>3. CASE a < xsp
    BY <1>0, <2>1, <2>2, <2>3 DEF BeyondTosUnaddressable
  <2>4. CASE xsp <= a
    BY <1>5, <2>1, <2>2, <2>4
  <2> QED
    BY <2>1, <2>3, <2>4
<1>8. FramesNest'
  BY <1>0, <1>1, PopNest
<1>9. (\E d \in [1 .. Len(k_frames) -> 0 .. MaxDepth] : DepthMap(d))'
  BY <1>0, <1>1, <1>3, <1>4, DepthMapPop
<1> QED
  BY <1>6, <1>7, <1>8, <1>9 DEF IInv

(* An NtContinue on the stack: the transfer's return point lies above the  *)
(* stack pointer by less than the stack, so client_pre_syscall marks the  *)
(* range between them unaddressable, and the CONTEXT it reads lies inside  *)
(* the transfer.                                                           *)
LEMMA NtContinueIInv ==
  ASSUME IInv, CallbacksBounded, NtContinue
  PROVE  IInv'
<1> DEFINE L   == Len(k_frames)
           top == k_frames[L]
<1>0. TypeOK /\ BeyondTosUnaddressable /\ FramesNest
  BY DEF IInv
<1>1. /\ k_frames # << >> /\ top.kind = "continue"
      /\ cpt' = [cpt EXCEPT ![depth].shadow_regs =
                   [r \in Regs |-> shadow[top.lo + r]]]
      /\ shadow' = CASE top.ret < xsp /\ xsp - top.ret < StackSwapThreshold ->
                          ShadowSetRange(shadow, top.ret, xsp, SHADOW_UNDEFINED)
                     [] top.ret >= xsp /\ top.ret - xsp < StackSwapThreshold ->
                          ShadowSetRange(shadow, xsp, top.ret, SHADOW_UNADDRESSABLE)
                     [] OTHER -> shadow
      /\ xsp' = top.ret
      /\ k_frames' = SubSeq(k_frames, 1, L - 1)
      /\ UNCHANGED depth
  BY DEF NtContinue
<1>2. /\ L \in Nat \ {0} /\ top \in FrameRec
      /\ k_frames' \in Seq(FrameRec) /\ Len(k_frames') = L - 1
      /\ FrameBase = top.lo
  <2>1. FrameBase = top.lo
    BY <1>1 DEF FrameBase
  <2> QED
    BY <1>0, <1>1, <2>1, PopFacts
<1>3. /\ top.ret - top.lo \in KData
      /\ xsp \in 1 .. StackBase /\ xsp <= top.lo
  BY <1>0, <1>2 DEF FramesNest, TypeOK
<1>4. /\ top.lo \in Addr /\ top.ret \in 1 .. StackBase
      /\ top.ret >= xsp /\ top.ret - xsp < StackSwapThreshold
  BY <1>2, <1>3, Consts DEF FrameRec, CallbacksBounded, Addr
<1>5. shadow' = ShadowSetRange(shadow, xsp, top.ret, SHADOW_UNADDRESSABLE)
  BY <1>1, <1>4
<1>7. TypeOK'
  BY NtContinueTInv, IInvTInv DEF TInv
<1>8. BeyondTosUnaddressable'
  BY <1>0, <1>1, <1>4, <1>5, Consts DEF BeyondTosUnaddressable, ShadowSetRange,
                                        TypeOK, Addr
<1>9. FramesNest'
  BY <1>0, <1>1, PopNest
<1>10. (\E d \in [1 .. Len(k_frames) -> 0 .. MaxDepth] : DepthMap(d))'
  <2>1. PICK dm \in [1 .. L -> 0 .. MaxDepth] : DepthMap(dm)
    BY DEF IInv
  <2>2. depth' = dm[L]
    <3>1. Cb(L) = 0 /\ dm[L] \in Nat
      BY <1>1, <1>2, <2>1 DEF Cb
    <3> QED
      BY <1>1, <1>2, <2>1, <3>1 DEF DepthMap
  <2>3. \A x \in 0 .. MaxDepth : cpt'[x].pre_callback_esp = cpt[x].pre_callback_esp
    BY <1>0, <1>1 DEF TypeOK
  <2> QED
    BY <1>0, <1>1, <2>1, <2>2, <2>3, DepthMapPop
<1> QED
  BY <1>7, <1>8, <1>9, <1>10 DEF IInv

(* The initial stack has no transfer, no callback, and everything below    *)
(* the base unaddressable.                                                 *)
LEMMA InitIInv ==
  ASSUME Init
  PROVE  IInv
<1>1. k_frames = << >> /\ Len(k_frames) = 0
  BY EmptySeq DEF Init
<1>2. TypeOK
  BY InitTInv DEF TInv
<1>3. BeyondTosUnaddressable /\ FramesNest
  BY <1>1, Consts DEF Init, BeyondTosUnaddressable, FramesNest, FrameBase
<1>4. [i \in 1 .. 0 |-> 0] \in [1 .. Len(k_frames) -> 0 .. MaxDepth]
      /\ DepthMap([i \in 1 .. 0 |-> 0])
  BY <1>1 DEF Init, DepthMap
<1> QED
  BY <1>2, <1>3, <1>4 DEF IInv

(* A step that changes none of the variables keeps the invariant.          *)
LEMMA StutterIInv ==
  ASSUME IInv, UNCHANGED vars
  PROVE  IInv'
BY DEF vars, IInv, TypeOK, BeyondTosUnaddressable, FramesNest, FrameBase,
       DepthMap, Cb

(* Every step of the application, the kernel and Dr. Memory's handlers     *)
(* keeps the invariant, when the kernel data fits the walk's cap and the   *)
(* stack is below the swap threshold.                                      *)
LEMMA NextIInv ==
  ASSUME IInv, CallbacksBounded, [Next]_vars
  PROVE  IInv'
<1>1. CASE \E v \in {SHADOW_DEFINED, SHADOW_UNDEFINED} : AppPush(v)
  BY <1>1, AppPushIInv
<1>2. CASE AppPop
  BY <1>2, AppPopIInv
<1>3. CASE \E k \in KData, callback \in BOOLEAN : ClientHandleKi(k, callback)
  BY <1>3, KiIInv
<1>4. CASE ClientHandleCbret
  BY <1>4, CbretIInv
<1>5. CASE NtContinue
  BY <1>5, NtContinueIInv
<1>6. CASE UNCHANGED vars
  BY <1>6, StutterIInv
<1> QED
  BY <1>1, <1>2, <1>3, <1>4, <1>5, <1>6 DEF Next

(* Invariant 1 for the stack holds in every reachable state, for every     *)
(* stack size, callback depth and register set: after every Ki dispatch,   *)
(* callback return and NtContinue, no byte beyond the top of the stack is *)
(* addressable (client_handle_Ki, client_handle_cbret, client_pre_syscall).*)
THEOREM BeyondTosUnaddressableHolds ==
  ASSUME CallbacksBounded
  PROVE  Spec => []BeyondTosUnaddressable
<1>1. Init => IInv
  BY InitIInv
<1>2. IInv /\ [Next]_vars => IInv'
  BY NextIInv
<1>3. IInv => BeyondTosUnaddressable
  BY DEF IInv
<1> QED
  BY <1>1, <1>2, <1>3, PTL DEF Spec

=============================================================================
