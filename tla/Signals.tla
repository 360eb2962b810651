------------------------------ MODULE Signals ------------------------------
(***************************************************************************)
(* Linux signal delivery on one application thread and the handlers that  *)
(* keep the shadow of its signal frames (lines 887-1048): the pre- and     *)
(* post-syscall handlers of sigaction, sigaltstack and rt_sigreturn,       *)
(* event_signal_alloc and at_signal_handler.  The per-thread fields of     *)
(* client_per_thread_t are variables; the kernel's side (its registered    *)
(* handler, its alternate stack and the frames it pushed) is modelled by   *)
(* what it does.  The thread's events run on the thread itself, one at a   *)
(* time, so each event with its handlers is one step; other threads touch  *)
(* only the shared sighand_table, which only grows.                        *)
(*                                                                         *)
(* Addresses are 1..MemTop and NULL is 0.  The thread's stack grows down   *)
(* from StackBase; an alternate stack is a region [sp, sp + size).         *)
(* Shadowing is on (the options.leaks_only and !options.shadowing early    *)
(* returns are not taken).                                                 *)
(***************************************************************************)
EXTENDS Shadow, Sequences

CONSTANTS
  MemTop,         \* the highest address
  StackBase,      \* the top of the thread's stack (exclusive)
  SigFrame,       \* the size of the frame the kernel pushes for a signal
  AltRegions,     \* the regions the application may pass to sigaltstack
  Handlers,       \* the handler functions the application may register
  SIG_IGN, SIG_DFL,
  MaxNest,        \* the most signal frames live at once
  AltInHandler    \* whether a handler may itself call sigaltstack

NULL == 0
Addr == 1 .. MemTop

ASSUME SignalsAssumption ==
  /\ MemTop \in Nat \ {0} /\ StackBase \in 1 .. MemTop + 1
  /\ SigFrame \in Nat \ {0} /\ MaxNest \in Nat
  /\ AltRegions \subseteq [sp : Addr, size : Nat \ {0}]
  /\ \A r \in AltRegions : r.sp + r.size <= StackBase
  /\ SIG_IGN \notin Handlers /\ SIG_DFL \notin Handlers /\ SIG_IGN # SIG_DFL
  /\ AltInHandler \in BOOLEAN

(* sigaltstack's argument: a region, SS_DISABLE, or an unreadable pointer, *)
(* the last two as records no region equals.                               *)
SS_DISABLE == [sp |-> NULL, size |-> 0]
BAD_PTR == [sp |-> NULL, size |-> 1]

VARIABLES
  xsp,               \* the thread's stack pointer
  shadow,            \* the shadow of each address
  sighand_table,     \* the handlers instrumented at entry
  signal_xsp, sigframe_top,
  sigaltstack, sigaltsize, prev_sigaltstack, prev_sigaltsize,
  k_handler,         \* the handler the kernel has registered
  k_altstack,        \* the kernel's alternate stack: a region or SS_DISABLE
  k_frames,          \* the frames the kernel pushed: [lo, hi, ret], newest last
  pending            \* a signal is delivered and its handler not yet entered

vars == <<xsp, shadow, sighand_table, signal_xsp, sigframe_top, sigaltstack,
          sigaltsize, prev_sigaltstack, prev_sigaltsize, k_handler, k_altstack,
          k_frames, pending>>

AltTop(r) == r.sp + r.size

(* The kernel's on_sig_stack: the pointer lies on the alternate stack.     *)
OnKernelAlt(sp) == k_altstack # SS_DISABLE /\ k_altstack.sp < sp /\ sp <= AltTop(k_altstack)

-----------------------------------------------------------------------------
Init ==
  /\ xsp = StackBase
  /\ shadow = [a \in Addr |-> SHADOW_UNADDRESSABLE]
  /\ sighand_table = {}
  /\ signal_xsp = NULL /\ sigframe_top = NULL
  /\ sigaltstack = NULL /\ sigaltsize = 0
  /\ prev_sigaltstack = NULL /\ prev_sigaltsize = 0
  /\ k_handler = SIG_DFL
  /\ k_altstack = SS_DISABLE
  /\ k_frames = <<>>
  /\ pending = FALSE

(* Mutant: the test of a real handler written with || for &&, so          *)
(* SIG_IGN and SIG_DFL enter the table.                                    *)
SysSigactionAnyHandler(h, ok) ==
  /\ ~pending
  /\ sighand_table' = sighand_table \cup {h}
  /\ k_handler' = IF ok THEN h ELSE k_handler
  /\ UNCHANGED <<xsp, shadow, signal_xsp, sigframe_top, sigaltstack, sigaltsize,
                 prev_sigaltstack, prev_sigaltsize, k_altstack, k_frames, pending>>

(* sigaction(sig, h): client_pre_syscall adds a real handler to            *)
(* sighand_table, the kernel registers it if the call succeeds, and        *)
(* client_post_syscall leaves the table alone on failure.                  *)
SysSigaction(h, ok) ==
  /\ ~pending
  /\ sighand_table' = IF h \in {SIG_IGN, SIG_DFL} THEN sighand_table
                      ELSE sighand_table \cup {h}
  /\ k_handler' = IF ok THEN h ELSE k_handler
  /\ UNCHANGED <<xsp, shadow, signal_xsp, sigframe_top, sigaltstack, sigaltsize,
                 prev_sigaltstack, prev_sigaltsize, k_altstack, k_frames, pending>>

(* Mutant: client_post_syscall not restoring the saved values.            *)
SysSigaltstackNoRollback(arg, ok) ==
  /\ ~pending
  /\ AltInHandler \/ k_frames = <<>>
  /\ ok => arg # BAD_PTR /\ ~OnKernelAlt(xsp)
  /\ prev_sigaltstack' = sigaltstack
  /\ prev_sigaltsize' = sigaltsize
  /\ shadow' = IF arg \in AltRegions
                 THEN ShadowSetRange(shadow, arg.sp, AltTop(arg), SHADOW_UNADDRESSABLE)
                 ELSE shadow
  /\ sigaltstack' = CASE arg = BAD_PTR -> sigaltstack
                     [] arg = SS_DISABLE -> NULL
                     [] OTHER -> AltTop(arg)
  /\ sigaltsize' = CASE arg = BAD_PTR -> sigaltsize
                    [] arg = SS_DISABLE -> 0
                    [] OTHER -> arg.size
  /\ k_altstack' = IF ok THEN arg ELSE k_altstack
  /\ UNCHANGED <<xsp, sighand_table, signal_xsp, sigframe_top, k_handler,
                 k_frames, pending>>

(* sigaltstack(arg): client_pre_syscall saves the current values and, if   *)
(* the argument is readable, records the new stack (its top and size) and *)
(* marks it unaddressable; the kernel refuses a change while the thread    *)
(* runs on the alternate stack (EPERM) or an unreadable argument (EFAULT); *)
(* client_post_syscall restores the saved values on failure.               *)
SysSigaltstack(arg, ok) ==
  LET pre_stack == CASE arg = BAD_PTR -> sigaltstack
                     [] arg = SS_DISABLE -> NULL
                     [] OTHER -> AltTop(arg)
      pre_size == CASE arg = BAD_PTR -> sigaltsize
                    [] arg = SS_DISABLE -> 0
                    [] OTHER -> arg.size
  IN
  /\ ~pending
  /\ AltInHandler \/ k_frames = <<>>
  /\ ok => arg # BAD_PTR /\ ~OnKernelAlt(xsp)
  /\ prev_sigaltstack' = sigaltstack
  /\ prev_sigaltsize' = sigaltsize
  /\ shadow' = IF arg \in AltRegions
                 THEN ShadowSetRange(shadow, arg.sp, AltTop(arg), SHADOW_UNADDRESSABLE)
                 ELSE shadow
  /\ sigaltstack' = IF ok THEN pre_stack ELSE sigaltstack
  /\ sigaltsize' = IF ok THEN pre_size ELSE sigaltsize
  /\ k_altstack' = IF ok THEN arg ELSE k_altstack
  /\ UNCHANGED <<xsp, sighand_table, signal_xsp, sigframe_top, k_handler,
                 k_frames, pending>>

(* A signal arrives: event_signal_alloc records the interrupted stack      *)
(* pointer, and the kernel pushes the frame, at the top of the alternate   *)
(* stack unless it is disabled or already in use, else below the current  *)
(* stack pointer.  A frame that would not lie on an enabled alternate      *)
(* stack is not delivered (the kernel's get_sigframe kills the thread).    *)
SignalEvent ==
  LET base == IF k_altstack # SS_DISABLE /\ ~OnKernelAlt(xsp)
                THEN AltTop(k_altstack) ELSE xsp
  IN
  /\ ~pending
  /\ Len(k_frames) < MaxNest
  /\ k_handler \notin {SIG_IGN, SIG_DFL}
  /\ base - SigFrame >= 1
  /\ k_altstack # SS_DISABLE => OnKernelAlt(base - SigFrame)
  /\ signal_xsp' = xsp
  /\ xsp' = base - SigFrame
  /\ k_frames' = Append(k_frames, [lo |-> base - SigFrame, hi |-> base, ret |-> xsp])
  /\ pending' = TRUE
  /\ UNCHANGED <<shadow, sighand_table, sigframe_top, sigaltstack, sigaltsize,
                 prev_sigaltstack, prev_sigaltsize, k_handler, k_altstack>>

(* Mutant: the frame on the thread's stack taken to end one byte below     *)
(* the interrupted stack pointer.                                          *)
FrameTopShort ==
  IF /\ sigaltstack # NULL
     /\ sigaltstack > xsp
     /\ sigaltstack - xsp < sigaltsize
    THEN IF sigaltstack > signal_xsp /\ signal_xsp < xsp
           THEN signal_xsp ELSE sigaltstack
    ELSE signal_xsp - 1

(* Mutant: the alternate stack ignored, the frame always taken to end at   *)
(* the interrupted stack pointer.                                          *)
FrameTopNoAlt == signal_xsp

(* The frame_top at_signal_handler computes (lines 1018-1031).             *)
FrameTop ==
  IF /\ sigaltstack # NULL
     /\ sigaltstack > xsp
     /\ sigaltstack - xsp < sigaltsize
    THEN IF sigaltstack > signal_xsp /\ signal_xsp < xsp
           THEN signal_xsp ELSE sigaltstack
    ELSE signal_xsp

(* The handler starts.  If it is in sighand_table it was instrumented and  *)
(* at_signal_handler marks [xsp, frame_top) defined, records frame_top     *)
(* for sigreturn and resets signal_xsp.                                    *)
AtSignalHandler ==
  /\ pending
  /\ pending' = FALSE
  /\ IF k_handler \in sighand_table /\ signal_xsp # NULL
       THEN /\ shadow' = ShadowSetRange(shadow, xsp, FrameTop, SHADOW_DEFINED)
            /\ sigframe_top' = FrameTop
            /\ signal_xsp' = NULL
       ELSE UNCHANGED <<shadow, sigframe_top, signal_xsp>>
  /\ UNCHANGED <<xsp, sighand_table, sigaltstack, sigaltsize, prev_sigaltstack,
                 prev_sigaltsize, k_handler, k_altstack, k_frames>>

(* The handler returns into rt_sigreturn at the bottom of its frame:      *)
(* client_pre_syscall marks [xsp, sigframe_top) unaddressable, and the     *)
(* kernel pops the frame and resumes the interrupted stack pointer.        *)
Sigreturn ==
  /\ ~pending
  /\ k_frames # <<>>
  /\ shadow' = ShadowSetRange(shadow, xsp, sigframe_top, SHADOW_UNADDRESSABLE)
  /\ xsp' = k_frames[Len(k_frames)].ret
  /\ k_frames' = SubSeq(k_frames, 1, Len(k_frames) - 1)
  /\ UNCHANGED <<sighand_table, signal_xsp, sigframe_top, sigaltstack, sigaltsize,
                 prev_sigaltstack, prev_sigaltsize, k_handler, k_altstack, pending>>

Next ==
  \/ \E h \in Handlers \cup {SIG_IGN, SIG_DFL}, ok \in BOOLEAN : SysSigaction(h, ok)
  \/ \E arg \in AltRegions \cup {SS_DISABLE, BAD_PTR}, ok \in BOOLEAN :
       SysSigaltstack(arg, ok)
  \/ SignalEvent
  \/ AtSignalHandler
  \/ Sigreturn

Spec == Init /\ [][Next]_vars

-----------------------------------------------------------------------------
Frame == [lo : Addr, hi : 1 .. MemTop + 1, ret : 1 .. MemTop + 1]

TypeOK ==
  /\ xsp \in 1 .. MemTop + 1
  /\ shadow \in [Addr -> Tags]
  /\ sighand_table \subseteq Handlers
  /\ signal_xsp \in {NULL} \cup 1 .. MemTop + 1
  /\ sigframe_top \in {NULL} \cup 1 .. MemTop + 1
  /\ k_handler \in Handlers \cup {SIG_IGN, SIG_DFL}
  /\ k_altstack \in AltRegions \cup {SS_DISABLE}
  /\ k_frames \in Seq(Frame) /\ Len(k_frames) <= MaxNest
  /\ pending \in BOOLEAN

(* The frames of the handlers that have started.                           *)
EnteredFrames ==
  {k_frames[i] : i \in {j \in 1 .. Len(k_frames) : j < Len(k_frames) \/ ~pending}}

(* Spec invariant 6: while a handler runs, its whole signal frame is       *)
(* defined, however signals nest and whatever sigaltstack calls the        *)
(* handlers make; at_signal_handler's frame_top and the sigreturn marking  *)
(* of the inner frames must leave the outer ones alone.                    *)
LiveFramesDefined ==
  \A f \in EnteredFrames : \A a \in f.lo .. (f.hi - 1) : shadow[a] = SHADOW_DEFINED

(* Stack memory is addressable only inside a live signal frame: after the  *)
(* matching sigreturn every frame at_signal_handler marked defined is      *)
(* unaddressable again.                                                    *)
FramesReleased ==
  \A a \in Addr :
    shadow[a] # SHADOW_UNADDRESSABLE => \E f \in EnteredFrames : a \in f.lo .. (f.hi - 1)

(* The alternate stack the handlers use for frame_top is the kernel's:     *)
(* after any sigaltstack call, failed, refused or unreadable included.     *)
AltstackTracked ==
  IF k_altstack = SS_DISABLE
    THEN sigaltstack = NULL /\ sigaltsize = 0
    ELSE sigaltstack = AltTop(k_altstack) /\ sigaltsize = k_altstack.size
=============================================================================
