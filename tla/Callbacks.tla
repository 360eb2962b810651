----------------------------- MODULE Callbacks -----------------------------
(***************************************************************************)
(* Windows kernel-to-user transfers on one thread and the handlers that    *)
(* keep its stack shadow (lines 733-856): client_handle_Ki for the data    *)
(* the kernel places on the stack before a Ki dispatcher runs,             *)
(* client_handle_callback for a new callback depth, client_handle_cbret    *)
(* for NtCallbackReturn, and the NtContinue branch of client_pre_syscall.  *)
(* Each transfer with its handlers is one step of the thread.  The         *)
(* application's own pushes and pops are marked by the stack               *)
(* instrumentation outside this file and are modelled by what it does:     *)
(* a push makes the new top byte defined or undefined, a pop makes the old *)
(* one unaddressable.                                                      *)
(*                                                                         *)
(* Addresses are 1..MemTop, NULL is 0, the stack grows down from           *)
(* StackBase = MemTop + 1 (TEB StackBase).  A CONTEXT record holds one     *)
(* byte per register, at the bottom of the data the kernel pushes.         *)
(***************************************************************************)
EXTENDS Shadow, Sequences

CONSTANTS
  MemTop,             \* the highest stack address
  TypicalStackMin,    \* TYPICAL_STACK_MIN_SIZE
  StackSwapThreshold, \* options.stack_swap_threshold
  KData,              \* the sizes of the data the kernel may push
  MaxDepth,           \* the deepest callback nesting
  Regs                \* the general registers, as offsets in a CONTEXT

NULL == 0
Addr == 1 .. MemTop
StackBase == MemTop + 1

ASSUME CallbacksAssumption ==
  /\ MemTop \in Nat \ {0}
  /\ TypicalStackMin \in Nat \ {0} /\ StackSwapThreshold \in Nat \ {0}
  /\ KData \subseteq Nat \ {0} /\ MaxDepth \in Nat
  /\ Regs \subseteq Nat /\ \A k \in KData : \A r \in Regs : r < k

VARIABLES
  xsp,        \* the thread's stack pointer
  shadow,     \* the shadow of each stack address
  depth,      \* the current callback depth
  cpt,        \* client_per_thread_t of each depth: [pre_callback_esp, shadow_regs]
  k_frames    \* the kernel's transfers in progress: [kind, lo, ret], newest last

vars == <<xsp, shadow, depth, cpt, k_frames>>

(* The cpt of a depth never used, or zeroed for reuse.                     *)
NoCpt == [pre_callback_esp |-> NULL, shadow_regs |-> [r \in Regs |-> SHADOW_DEFINED]]

(* The top of the stack the application may pop to.                       *)
FrameBase == IF k_frames = <<>> THEN StackBase ELSE k_frames[Len(k_frames)].lo

-----------------------------------------------------------------------------
Init ==
  /\ xsp = StackBase
  /\ shadow = [a \in Addr |-> SHADOW_UNADDRESSABLE]
  /\ depth = 0
  /\ cpt = [d \in 0 .. MaxDepth |-> NoCpt]
  /\ k_frames = <<>>

(* The application pushes a defined or an uninitialized value.             *)
AppPush(v) ==
  /\ xsp > 1
  /\ xsp' = xsp - 1
  /\ shadow' = [shadow EXCEPT ![xsp - 1] = v]
  /\ UNCHANGED <<depth, cpt, k_frames>>

(* The application pops a value.                                           *)
AppPop ==
  /\ xsp < FrameBase
  /\ xsp' = xsp + 1
  /\ shadow' = [shadow EXCEPT ![xsp] = SHADOW_UNADDRESSABLE]
  /\ UNCHANGED <<depth, cpt, k_frames>>

(* Mutant: the walk near the base going one byte past it (sp <= stop_esp). *)
KiWalkEndPastBase(s, sp) ==
  IF sp < StackBase /\ StackBase - sp < TypicalStackMin
    THEN StackBase + 1
    ELSE CHOOSE e \in sp .. sp + TypicalStackMin :
           /\ \/ e = sp + TypicalStackMin
              \/ e > MemTop
              \/ s[e] # SHADOW_UNADDRESSABLE
           /\ \A a \in sp .. (e - 1) : a <= MemTop /\ s[a] = SHADOW_UNADDRESSABLE

(* Where the walk of client_handle_Ki from sp stops (lines 785-801): at    *)
(* the stack base when sp is within TypicalStackMin of it, else at the     *)
(* first byte that is not unaddressable, and never more than               *)
(* TypicalStackMin bytes up.                                               *)
KiWalkEnd(s, sp) ==
  IF sp < StackBase /\ StackBase - sp < TypicalStackMin
    THEN StackBase
    ELSE CHOOSE e \in sp .. sp + TypicalStackMin :
           /\ \/ e = sp + TypicalStackMin
              \/ e > MemTop
              \/ s[e] # SHADOW_UNADDRESSABLE
           /\ \A a \in sp .. (e - 1) : a <= MemTop /\ s[a] = SHADOW_UNADDRESSABLE

(* The kernel pushes k bytes and enters a Ki dispatcher: client_handle_Ki  *)
(* marks the walked bytes defined and records the end in the current      *)
(* depth's pre_callback_esp.  For KiUserCallbackDispatcher,                *)
(* client_handle_callback then gives the new depth a zeroed cpt that       *)
(* inherits the register shadow; the other dispatchers (APC, exception)    *)
(* end in NtContinue.                                                      *)
ClientHandleKi(k, callback) ==
  LET lo  == xsp - k
      end == KiWalkEnd(shadow, lo)
      c1  == [cpt EXCEPT ![depth].pre_callback_esp = end]
  IN
  /\ lo >= 1
  /\ callback => depth < MaxDepth
  /\ xsp' = lo
  /\ shadow' = ShadowSetRange(shadow, lo, end, SHADOW_DEFINED)
  /\ cpt' = IF callback
              THEN [c1 EXCEPT ![depth + 1] = [NoCpt EXCEPT !.shadow_regs = c1[depth].shadow_regs]]
              ELSE c1
  /\ depth' = IF callback THEN depth + 1 ELSE depth
  /\ k_frames' = Append(k_frames, [kind |-> IF callback THEN "callback" ELSE "continue",
                                   lo |-> lo, ret |-> xsp])

(* Mutant: cbret reading pre_callback_esp from the child's cpt.            *)
ClientHandleCbretChild ==
  /\ k_frames # <<>>
  /\ k_frames[Len(k_frames)].kind = "callback"
  /\ shadow' = ShadowSetRange(shadow, xsp, cpt[depth].pre_callback_esp,
                              SHADOW_UNADDRESSABLE)
  /\ xsp' = k_frames[Len(k_frames)].ret
  /\ depth' = depth - 1
  /\ k_frames' = SubSeq(k_frames, 1, Len(k_frames) - 1)
  /\ UNCHANGED cpt

(* The callback returns with NtCallbackReturn: client_handle_cbret marks   *)
(* [xsp, pre_callback_esp of the parent) unaddressable, and the kernel     *)
(* resumes the parent where the callback was dispatched.                   *)
ClientHandleCbret ==
  /\ k_frames # <<>>
  /\ k_frames[Len(k_frames)].kind = "callback"
  /\ shadow' = ShadowSetRange(shadow, xsp, cpt[depth - 1].pre_callback_esp,
                              SHADOW_UNADDRESSABLE)
  /\ xsp' = k_frames[Len(k_frames)].ret
  /\ depth' = depth - 1
  /\ k_frames' = SubSeq(k_frames, 1, Len(k_frames) - 1)
  /\ UNCHANGED cpt

(* The dispatcher calls NtContinue with the CONTEXT the kernel pushed:     *)
(* client_pre_syscall sets each register's shadow from its field, and      *)
(* marks the stack between the current and the new stack pointer          *)
(* undefined if the new one is lower, unaddressable if it is higher,       *)
(* unless they are a stack swap apart; the kernel then resumes there.      *)
NtContinue ==
  LET f   == k_frames[Len(k_frames)]
      cxt == f.lo
  IN
  /\ k_frames # <<>>
  /\ f.kind = "continue"
  /\ cpt' = [cpt EXCEPT ![depth].shadow_regs = [r \in Regs |-> shadow[cxt + r]]]
  /\ shadow' = CASE f.ret < xsp /\ xsp - f.ret < StackSwapThreshold ->
                      ShadowSetRange(shadow, f.ret, xsp, SHADOW_UNDEFINED)
                 [] f.ret >= xsp /\ f.ret - xsp < StackSwapThreshold ->
                      ShadowSetRange(shadow, xsp, f.ret, SHADOW_UNADDRESSABLE)
                 [] OTHER -> shadow
  /\ xsp' = f.ret
  /\ k_frames' = SubSeq(k_frames, 1, Len(k_frames) - 1)
  /\ UNCHANGED depth

Next ==
  \/ \E v \in {SHADOW_DEFINED, SHADOW_UNDEFINED} : AppPush(v)
  \/ AppPop
  \/ \E k \in KData, callback \in BOOLEAN : ClientHandleKi(k, callback)
  \/ ClientHandleCbret
  \/ NtContinue

Spec == Init /\ [][Next]_vars

-----------------------------------------------------------------------------
TypeOK ==
  /\ xsp \in 1 .. StackBase
  /\ shadow \in [Addr -> Tags]
  /\ depth \in 0 .. MaxDepth
  /\ cpt \in [0 .. MaxDepth -> [pre_callback_esp : {NULL} \cup 1 .. StackBase,
                                 shadow_regs : [Regs -> Tags]]]
  /\ k_frames \in Seq([kind : {"callback", "continue"}, lo : Addr, ret : 1 .. StackBase])

(* Invariant 1 of the spec for the stack: every byte beyond the top of the *)
(* stack is unaddressable, after a Ki dispatch, a callback return or an    *)
(* NtContinue, at any callback depth.                                      *)
BeyondTosUnaddressable == \A a \in Addr : a < xsp => shadow[a] = SHADOW_UNADDRESSABLE

(* Spec 4.8: the Ki walk marks the data the kernel placed and stops at the *)
(* first addressable byte or the stack base, whichever comes first: it     *)
(* never changes the tag of a byte the application pushed.                 *)
KiKeepsAppStack ==
  [][\A k \in KData, cb \in BOOLEAN :
       ClientHandleKi(k, cb) =>
         \A a \in xsp .. MemTop : shadow'[a] = shadow[a]]_vars
=============================================================================
