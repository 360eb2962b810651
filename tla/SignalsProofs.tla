--------------------------- MODULE SignalsProofs ---------------------------
(***************************************************************************)
(* Proofs about Signals for every value of the constants.                  *)
(*                                                                         *)
(* AltstackTracked holds in every behaviour: only sigaltstack changes the  *)
(* tracked values, and client_post_syscall restores them whenever the      *)
(* kernel refuses the call.                                                *)
(*                                                                         *)
(* LiveFramesDefined and FramesReleased are proved for one signal at a     *)
(* time, with sigaltstack called outside handlers (OneAtATime); the        *)
(* nested cases violate them (signal_nested_alt, MCSignals_nest_main.cfg, *)
(* MCSignals_in_handler.cfg).  Under OneAtATime the whole shadow of the    *)
(* thread is known in every state: unaddressable everywhere while no       *)
(* handler runs, and defined exactly on the frame once at_signal_handler   *)
(* has run.  The frame lies below FrameBase, the top of the kernel's       *)
(* alternate stack if one is enabled and the stack base otherwise, which   *)
(* no sigaltstack call can change while the frame is live.                 *)
(*                                                                         *)
(* TypeOK holds in every behaviour too, with TypeInv as its strengthening. *)
(***************************************************************************)
EXTENDS Signals, SequenceTheorems, TLAPS

OneAtATime == MaxNest <= 1 /\ ~AltInHandler

FrameBase == IF k_altstack = SS_DISABLE THEN StackBase ELSE AltTop(k_altstack)

AllUnaddressable == [a \in Addr |-> SHADOW_UNADDRESSABLE]

FrameDefined(lo, hi) ==
  [a \in Addr |-> IF lo <= a /\ a < hi THEN SHADOW_DEFINED ELSE SHADOW_UNADDRESSABLE]

TheFrame == [lo |-> FrameBase - SigFrame, hi |-> FrameBase, ret |-> StackBase]

IInv ==
  /\ TypeOK
  /\ AltstackTracked
  /\ k_handler \in Handlers => k_handler \in sighand_table
  /\ Len(k_frames) = 0 => xsp = StackBase /\ ~pending /\ shadow = AllUnaddressable
  /\ Len(k_frames) = 1 =>
       /\ k_frames[1] = TheFrame
       /\ xsp = FrameBase - SigFrame
       /\ k_altstack # SS_DISABLE => k_altstack.sp < xsp
       /\ pending => /\ signal_xsp = StackBase /\ k_handler \in Handlers
                     /\ shadow = AllUnaddressable
       /\ ~pending => /\ shadow = FrameDefined(xsp, FrameBase)
                      /\ sigframe_top = FrameBase
-----------------------------------------------------------------------------
(* AltstackTracked with the type of k_altstack is inductive on its own.    *)
AltInv == k_altstack \in AltRegions \cup {SS_DISABLE} /\ AltstackTracked

(* Neither special argument of sigaltstack is a region.                    *)
LEMMA RegionsNotSpecial ==
  ASSUME NEW r \in AltRegions
  PROVE  r # SS_DISABLE /\ r # BAD_PTR /\ SS_DISABLE # BAD_PTR
          /\ r.sp < AltTop(r) /\ AltTop(r) <= StackBase
BY SignalsAssumption DEF SS_DISABLE, BAD_PTR, NULL, Addr, AltTop

LEMMA AltInvStep == AltInv /\ [Next]_vars => AltInv'
<1> SUFFICES ASSUME AltInv, [Next]_vars PROVE AltInv'
  OBVIOUS
<1>1. CASE \E arg \in AltRegions \cup {SS_DISABLE, BAD_PTR}, ok \in BOOLEAN :
             SysSigaltstack(arg, ok)
  <2> PICK arg \in AltRegions \cup {SS_DISABLE, BAD_PTR}, ok \in BOOLEAN :
             SysSigaltstack(arg, ok)
    BY <1>1
  <2>1. CASE ok
    <3>1. arg # BAD_PTR
      BY <2>1 DEF SysSigaltstack
    <3>2. CASE arg = SS_DISABLE
      BY <2>1, <3>1, <3>2 DEF SysSigaltstack, AltInv, AltstackTracked
    <3>3. CASE arg \in AltRegions
      BY <2>1, <3>3, RegionsNotSpecial DEF SysSigaltstack, AltInv, AltstackTracked
    <3> QED
      BY <3>1, <3>2, <3>3
  <2>2. CASE ~ok
    BY <2>2 DEF SysSigaltstack, AltInv, AltstackTracked
  <2> QED
    BY <2>1, <2>2
<1>2. CASE ~\E arg \in AltRegions \cup {SS_DISABLE, BAD_PTR}, ok \in BOOLEAN :
             SysSigaltstack(arg, ok)
  BY <1>2 DEF Next, vars, SysSigaction, SignalEvent, AtSignalHandler, Sigreturn,
              AltInv, AltstackTracked
<1> QED
  BY <1>1, <1>2

(* Whatever sigaltstack calls the application makes, refused, failed and   *)
(* unreadable ones included, the alternate stack client_pre_syscall and    *)
(* client_post_syscall track is the one the kernel uses.                   *)
THEOREM AltstackTrackedHolds == Spec => []AltstackTracked
<1>1. Init => AltInv
  BY DEF Init, AltInv, AltstackTracked, SS_DISABLE, NULL
<1>2. AltInv => AltstackTracked
  BY DEF AltInv
<1> QED
  BY <1>1, <1>2, AltInvStep, PTL DEF Spec
-----------------------------------------------------------------------------
(* The facts about the frame stack and FrameBase every step uses.          *)
LEMMA Basics ==
  ASSUME TypeOK, OneAtATime
  PROVE  /\ Len(k_frames) \in {0, 1}
         /\ k_frames = << >> <=> Len(k_frames) = 0
         /\ StackBase \in 1 .. MemTop + 1
         /\ FrameBase \in 1 .. StackBase
         /\ k_altstack # SS_DISABLE =>
              /\ k_altstack \in AltRegions
              /\ FrameBase = AltTop(k_altstack)
              /\ k_altstack.sp < FrameBase
              /\ k_altstack.sp \in Nat \ {0} /\ k_altstack.size \in Nat
              /\ AltTop(k_altstack) <= StackBase
<1>0. k_frames \in Seq(Frame) /\ Len(k_frames) <= MaxNest
  BY DEF TypeOK
<1>1. Len(k_frames) \in Nat /\ Len(k_frames) <= MaxNest
  BY <1>0, LenProperties
<1>2. Len(k_frames) \in {0, 1}
  <2>1. MaxNest \in Nat /\ MaxNest <= 1
    BY SignalsAssumption DEF OneAtATime
  <2> QED
    BY <1>1, <2>1
<1>3. k_frames = << >> <=> Len(k_frames) = 0
  BY <1>0, <1>1, EmptySeq
<1>4. MemTop \in Nat /\ StackBase \in 1 .. MemTop + 1
  BY SignalsAssumption
<1>5. FrameBase \in 1 .. StackBase /\
      (k_altstack # SS_DISABLE =>
         /\ k_altstack \in AltRegions
         /\ FrameBase = AltTop(k_altstack)
         /\ k_altstack.sp < FrameBase
         /\ k_altstack.sp \in Nat \ {0} /\ k_altstack.size \in Nat
         /\ AltTop(k_altstack) <= StackBase)
  <2>1. CASE k_altstack = SS_DISABLE
    BY <1>4, <2>1 DEF FrameBase
  <2>2. CASE k_altstack # SS_DISABLE
    <3>1. k_altstack \in AltRegions
      BY <2>2 DEF TypeOK
    <3>3. k_altstack.sp < AltTop(k_altstack) /\ AltTop(k_altstack) <= StackBase
      BY <3>1, RegionsNotSpecial
    <3>4. FrameBase = AltTop(k_altstack)
      BY <2>2 DEF FrameBase
    <3>5. k_altstack.sp \in Nat \ {0} /\ k_altstack.size \in Nat
      BY <3>1, SignalsAssumption DEF Addr
    <3>6. FrameBase \in 1 .. StackBase
      BY <1>4, <3>3, <3>4, <3>5 DEF AltTop
    <3> QED
      BY <2>2, <3>1, <3>3, <3>4, <3>5, <3>6
  <2> QED
    BY <2>1, <2>2
<1> QED
  BY <1>2, <1>3, <1>4, <1>5

LEMMA InitIInv == Init => IInv
<1> SUFFICES ASSUME Init PROVE IInv
  OBVIOUS
<1>1. TypeOK
  <2>1. << >> \in Seq(Frame) /\ Len(<< >>) = 0
    BY EmptySeq
  <2>2. MemTop \in Nat /\ StackBase \in 1 .. MemTop + 1 /\ MaxNest \in Nat
    BY SignalsAssumption
  <2>3. shadow \in [Addr -> Tags]
    BY DEF Init, Tags
  <2>4. xsp \in 1 .. MemTop + 1 /\ signal_xsp = NULL /\ sigframe_top = NULL
    BY <2>2 DEF Init
  <2>5. k_frames \in Seq(Frame) /\ Len(k_frames) <= MaxNest
    BY <2>1, <2>2 DEF Init
  <2> QED
    BY <2>3, <2>4, <2>5 DEF Init, TypeOK
<1>2. AltstackTracked
  BY DEF Init, AltstackTracked
<1>3. Len(k_frames) = 0
  BY EmptySeq DEF Init
<1> QED
  BY <1>1, <1>2, <1>3, SignalsAssumption DEF Init, IInv, AllUnaddressable

(* sigaction touches neither the shadow nor the frames.                    *)
LEMMA SysSigactionIInv ==
  ASSUME IInv, OneAtATime, NEW h \in Handlers \cup {SIG_IGN, SIG_DFL},
         NEW ok \in BOOLEAN, SysSigaction(h, ok)
  PROVE  IInv'
<1>1. ~pending /\ ~pending'
  BY DEF SysSigaction
<1>2. UNCHANGED <<xsp, shadow, signal_xsp, sigframe_top, sigaltstack, sigaltsize,
                  k_altstack, k_frames>>
  BY DEF SysSigaction
<1>3. TypeOK'
  BY <1>1, <1>2 DEF SysSigaction, IInv, TypeOK
<1>4. (k_handler \in Handlers => k_handler \in sighand_table)'
  BY SignalsAssumption DEF SysSigaction, IInv
<1> QED
  BY <1>1, <1>2, <1>3, <1>4 DEF IInv, AltstackTracked, FrameBase, TheFrame

(* Outside handlers the shadow is unaddressable everywhere, and marking an *)
(* alternate stack unaddressable keeps it so.                              *)
LEMMA SysSigaltstackIInv ==
  ASSUME IInv, OneAtATime, NEW arg \in AltRegions \cup {SS_DISABLE, BAD_PTR},
         NEW ok \in BOOLEAN, SysSigaltstack(arg, ok)
  PROVE  IInv'
<1>1. k_frames = << >> /\ Len(k_frames) = 0
  BY Basics DEF SysSigaltstack, OneAtATime, IInv
<1>2. xsp = StackBase /\ ~pending /\ shadow = AllUnaddressable
  BY <1>1 DEF IInv
<1>3. shadow' = AllUnaddressable
  BY <1>2 DEF SysSigaltstack, ShadowSetRange, AllUnaddressable
<1>4. AltInv'
  BY AltInvStep DEF IInv, TypeOK, AltInv, Next
<1>5. UNCHANGED <<xsp, sighand_table, signal_xsp, sigframe_top, k_handler,
                  k_frames, pending>>
  BY DEF SysSigaltstack
<1>6. TypeOK'
  BY <1>3, <1>4, <1>5, SignalsAssumption DEF IInv, TypeOK, AltInv, AllUnaddressable, Tags
<1> QED
  BY <1>1, <1>2, <1>3, <1>4, <1>5, <1>6 DEF IInv, AltInv

(* A signal with no frame live: the kernel pushes the frame below          *)
(* FrameBase, the shadow stays unaddressable until the handler starts.     *)
LEMMA SignalEventIInv ==
  ASSUME IInv, OneAtATime, SignalEvent
  PROVE  IInv'
<1> DEFINE base == IF k_altstack # SS_DISABLE /\ ~OnKernelAlt(xsp)
                     THEN AltTop(k_altstack) ELSE xsp
<1>0. /\ TypeOK
      /\ MemTop \in Nat /\ StackBase \in 1 .. MemTop + 1
      /\ SigFrame \in Nat \ {0} /\ MaxNest \in Nat
  BY SignalsAssumption DEF IInv
<1>1. Len(k_frames) = 0
  <2>1. Len(k_frames) \in {0, 1}
    BY <1>0, Basics
  <2>2. Len(k_frames) < MaxNest /\ MaxNest <= 1
    BY DEF SignalEvent, OneAtATime
  <2> QED
    BY <1>0, <2>1, <2>2
<1>2. xsp = StackBase /\ ~pending /\ shadow = AllUnaddressable /\ k_frames = << >>
  BY <1>0, <1>1, Basics DEF IInv
<1>3. UNCHANGED <<shadow, sighand_table, sigframe_top, sigaltstack, sigaltsize,
                  k_handler, k_altstack>>
  BY DEF SignalEvent
<1>4. FrameBase' = FrameBase /\ TheFrame' = TheFrame
  BY <1>3 DEF FrameBase, TheFrame
<1>5. base = FrameBase
  <2>1. CASE k_altstack = SS_DISABLE
    BY <1>2, <2>1 DEF FrameBase
  <2>2. CASE k_altstack # SS_DISABLE
    <3>1. k_altstack.sp \in Nat /\ k_altstack.size \in Nat
          /\ AltTop(k_altstack) <= StackBase /\ FrameBase = AltTop(k_altstack)
      BY <1>0, <2>2, Basics
    <3>2. OnKernelAlt(xsp) => AltTop(k_altstack) = StackBase
      BY <1>0, <1>2, <3>1 DEF OnKernelAlt, AltTop
    <3> QED
      BY <1>2, <2>2, <3>1, <3>2
  <2> QED
    BY <2>1, <2>2
<1>6. /\ FrameBase - SigFrame >= 1
      /\ k_altstack # SS_DISABLE => k_altstack.sp < FrameBase - SigFrame
      /\ xsp' = FrameBase - SigFrame
      /\ signal_xsp' = StackBase /\ pending'
      /\ k_handler \in Handlers
      /\ k_frames' = Append(k_frames, TheFrame)
  BY <1>2, <1>5 DEF SignalEvent, OnKernelAlt, TheFrame, IInv, TypeOK
<1>7. TheFrame \in Frame
  BY <1>0, <1>6, Basics DEF TheFrame, Frame, Addr
<1>8. k_frames' \in Seq(Frame) /\ Len(k_frames') = 1 /\ k_frames'[1] = TheFrame
  <2>1. << >> \in Seq(Frame) /\ Len(<< >>) = 0
    BY EmptySeq
  <2> QED
    BY <1>2, <1>6, <1>7, <2>1, AppendProperties
<1>9. TypeOK'
  <2>1. xsp' \in 1 .. MemTop + 1 /\ Len(k_frames') <= MaxNest
    BY <1>0, <1>6, <1>8, Basics DEF SignalEvent
  <2> QED
    BY <1>0, <1>3, <1>6, <1>8, <2>1 DEF TypeOK, NULL
<1> QED
  BY <1>2, <1>3, <1>4, <1>6, <1>8, <1>9 DEF IInv, AltstackTracked

(* The handler starts: at_signal_handler's frame_top is FrameBase, so the  *)
(* frame, and nothing else, becomes defined.                               *)
LEMMA AtSignalHandlerIInv ==
  ASSUME IInv, OneAtATime, AtSignalHandler
  PROVE  IInv'
<1>0. /\ TypeOK
      /\ MemTop \in Nat /\ StackBase \in 1 .. MemTop + 1
      /\ SigFrame \in Nat \ {0}
  BY SignalsAssumption DEF IInv
<1>1. Len(k_frames) = 1
  <2>1. Len(k_frames) \in {0, 1}
    BY <1>0, Basics
  <2> QED
    BY <2>1 DEF AtSignalHandler, IInv
<1>2. /\ k_frames[1] = TheFrame
      /\ xsp = FrameBase - SigFrame
      /\ k_altstack # SS_DISABLE => k_altstack.sp < xsp
      /\ signal_xsp = StackBase /\ k_handler \in Handlers
      /\ shadow = AllUnaddressable
  BY <1>1 DEF AtSignalHandler, IInv
<1>3. k_handler \in sighand_table /\ signal_xsp # NULL
  BY <1>0, <1>2 DEF IInv, NULL
<1>4. FrameTop = FrameBase
  <2>1. CASE k_altstack = SS_DISABLE
    <3>1. sigaltstack = NULL
      BY <2>1 DEF IInv, AltstackTracked
    <3> QED
      BY <1>2, <2>1, <3>1 DEF FrameTop, FrameBase
  <2>2. CASE k_altstack # SS_DISABLE
    <3>1. /\ k_altstack.sp \in Nat \ {0} /\ k_altstack.size \in Nat
          /\ AltTop(k_altstack) <= StackBase /\ FrameBase = AltTop(k_altstack)
      BY <1>0, <2>2, Basics
    <3>2. sigaltstack = AltTop(k_altstack) /\ sigaltsize = k_altstack.size
      BY <2>2 DEF IInv, AltstackTracked
    <3> QED
      BY <1>0, <1>2, <2>2, <3>1, <3>2 DEF FrameTop, AltTop, NULL
  <2> QED
    BY <2>1, <2>2
<1>5. /\ shadow' = FrameDefined(xsp, FrameBase)
      /\ sigframe_top' = FrameBase /\ signal_xsp' = NULL /\ pending' = FALSE
  BY <1>2, <1>3, <1>4 DEF AtSignalHandler, ShadowSetRange, AllUnaddressable,
                         FrameDefined
<1>6. UNCHANGED <<xsp, sighand_table, sigaltstack, sigaltsize, k_handler,
                  k_altstack, k_frames>>
  BY DEF AtSignalHandler
<1>7. FrameBase \in 1 .. StackBase
  BY <1>0, Basics
<1>8. TypeOK'
  <2>1. shadow' \in [Addr -> Tags]
    BY <1>5 DEF FrameDefined, Tags
  <2>2. sigframe_top' \in 1 .. MemTop + 1
    BY <1>0, <1>5, <1>7
  <2>3. /\ k_frames' \in Seq(Frame) /\ Len(k_frames') <= MaxNest
        /\ xsp' \in 1 .. MemTop + 1 /\ sighand_table' \subseteq Handlers
        /\ k_handler' \in Handlers \cup {SIG_IGN, SIG_DFL}
        /\ k_altstack' \in AltRegions \cup {SS_DISABLE}
    BY <1>0, <1>6 DEF TypeOK
  <2> QED
    BY <1>5, <2>1, <2>2, <2>3 DEF TypeOK, NULL
<1> QED
  BY <1>1, <1>2, <1>5, <1>6, <1>8 DEF IInv, AltstackTracked, FrameBase, TheFrame

(* The handler returns: rt_sigreturn marks [xsp, sigframe_top), the whole  *)
(* frame, unaddressable, and the kernel resumes the stack base.            *)
LEMMA SigreturnIInv ==
  ASSUME IInv, OneAtATime, Sigreturn
  PROVE  IInv'
<1>0. /\ TypeOK
      /\ MemTop \in Nat /\ StackBase \in 1 .. MemTop + 1 /\ MaxNest \in Nat
  BY SignalsAssumption DEF IInv
<1>1. Len(k_frames) = 1
  <2>1. Len(k_frames) \in {0, 1} /\ (k_frames = << >> <=> Len(k_frames) = 0)
    BY <1>0, Basics
  <2> QED
    BY <2>1 DEF Sigreturn
<1>2. /\ k_frames[1] = TheFrame
      /\ shadow = FrameDefined(xsp, FrameBase) /\ sigframe_top = FrameBase
      /\ ~pending
  BY <1>1 DEF Sigreturn, IInv
<1>3. shadow' = AllUnaddressable
  BY <1>2 DEF Sigreturn, ShadowSetRange, FrameDefined, AllUnaddressable
<1>4. xsp' = StackBase
  BY <1>1, <1>2 DEF Sigreturn, TheFrame
<1>5. k_frames' = << >>
  <2>1. SubSeq(k_frames, 1, 0) = << >>
    BY SubSeqEmpty
  <2> QED
    BY <1>1, <2>1 DEF Sigreturn
<1>6. TypeOK'
  <2>1. << >> \in Seq(Frame) /\ Len(<< >>) = 0
    BY EmptySeq
  <2>2. shadow' \in [Addr -> Tags] /\ Len(k_frames') = 0
    BY <1>3, <1>5, <2>1 DEF AllUnaddressable, Tags
  <2> QED
    BY <1>0, <1>4, <1>5, <2>1, <2>2 DEF Sigreturn, TypeOK
<1>7. Len(k_frames') = 0 /\ ~pending'
  BY <1>2, <1>5, EmptySeq DEF Sigreturn
<1> QED
  BY <1>3, <1>4, <1>6, <1>7 DEF Sigreturn, IInv, AltstackTracked

LEMMA NextIInv ==
  ASSUME OneAtATime
  PROVE  IInv /\ [Next]_vars => IInv'
<1> SUFFICES ASSUME IInv, [Next]_vars PROVE IInv'
  OBVIOUS
<1>1. CASE \E h \in Handlers \cup {SIG_IGN, SIG_DFL}, ok \in BOOLEAN : SysSigaction(h, ok)
  BY <1>1, SysSigactionIInv
<1>2. CASE \E arg \in AltRegions \cup {SS_DISABLE, BAD_PTR}, ok \in BOOLEAN :
             SysSigaltstack(arg, ok)
  BY <1>2, SysSigaltstackIInv
<1>3. CASE SignalEvent
  BY <1>3, SignalEventIInv
<1>4. CASE AtSignalHandler
  BY <1>4, AtSignalHandlerIInv
<1>5. CASE Sigreturn
  BY <1>5, SigreturnIInv
<1>6. CASE UNCHANGED vars
  BY <1>6 DEF vars, IInv, TypeOK, AltstackTracked, FrameBase, TheFrame,
              AllUnaddressable, FrameDefined
<1> QED
  BY <1>1, <1>2, <1>3, <1>4, <1>5, <1>6 DEF Next

(* The frames the handlers run on, and the shadow, in each of the three    *)
(* phases of a signal.                                                     *)
LEMMA IInvFrames ==
  ASSUME IInv, OneAtATime
  PROVE  LiveFramesDefined /\ FramesReleased
<1>0. /\ TypeOK /\ MemTop \in Nat /\ StackBase \in 1 .. MemTop + 1
      /\ Len(k_frames) \in {0, 1}
  BY SignalsAssumption, Basics DEF IInv
<1>1. CASE Len(k_frames) = 0 \/ pending
  <2>1. EnteredFrames = {}
    <3>1. {j \in 1 .. Len(k_frames) : j < Len(k_frames) \/ ~pending} = {}
      BY <1>0, <1>1
    <3> QED
      BY <3>1 DEF EnteredFrames
  <2>2. shadow = AllUnaddressable
    BY <1>0, <1>1 DEF IInv
  <2> QED
    BY <2>1, <2>2 DEF LiveFramesDefined, FramesReleased, AllUnaddressable
<1>2. CASE Len(k_frames) = 1 /\ ~pending
  <2>1. EnteredFrames = {TheFrame}
    BY <1>2 DEF EnteredFrames, IInv
  <2>2. shadow = FrameDefined(xsp, FrameBase) /\ xsp = FrameBase - SigFrame
    BY <1>2 DEF IInv
  <2>3. xsp \in 1 .. MemTop + 1 /\ FrameBase \in 1 .. StackBase
    BY <1>0, Basics DEF TypeOK
  <2>4. TheFrame.lo = xsp /\ TheFrame.hi = FrameBase
    BY <2>2 DEF TheFrame
  <2>5. LiveFramesDefined
    <3> SUFFICES ASSUME NEW a \in xsp .. (FrameBase - 1)
                 PROVE  shadow[a] = SHADOW_DEFINED
      BY <2>1, <2>4 DEF LiveFramesDefined
    <3>1. a \in Addr
      BY <1>0, <2>3 DEF Addr
    <3> QED
      BY <2>2, <2>3, <3>1 DEF FrameDefined
  <2>6. FramesReleased
    <3> SUFFICES ASSUME NEW a \in Addr, shadow[a] # SHADOW_UNADDRESSABLE
                 PROVE  a \in xsp .. (FrameBase - 1)
      BY <2>1, <2>4 DEF FramesReleased
    <3> QED
      BY <1>0, <2>2, <2>3 DEF FrameDefined, Addr
  <2> QED
    BY <2>5, <2>6
<1> QED
  BY <1>0, <1>1, <1>2

LEMMA IInvHolds ==
  ASSUME OneAtATime
  PROVE  Spec => []IInv
BY InitIInv, NextIInv, PTL DEF Spec

(* With one signal at a time and sigaltstack called outside handlers,      *)
(* while a handler runs its whole frame is defined: at_signal_handler's    *)
(* frame_top is the top of the frame the kernel pushed, on the alternate   *)
(* stack or on the thread's stack, whatever sigaltstack calls came before.  *)
THEOREM LiveFramesDefinedHolds ==
  ASSUME OneAtATime
  PROVE  Spec => []LiveFramesDefined
BY IInvHolds, IInvFrames, PTL

(* With one signal at a time and sigaltstack called outside handlers, the  *)
(* thread's stack memory is addressable only inside a live signal frame:   *)
(* rt_sigreturn's [xsp, sigframe_top) is exactly what at_signal_handler    *)
(* marked defined, and sigaltstack's marking never leaves a stale byte.    *)
THEOREM FramesReleasedHolds ==
  ASSUME OneAtATime
  PROVE  Spec => []FramesReleased
BY IInvHolds, IInvFrames, PTL
-----------------------------------------------------------------------------
(* Type correctness needs no assumption on the nesting or on sigaltstack   *)
(* in handlers.  It is not inductive alone: at_signal_handler may take     *)
(* sigaltstack as frame_top, and the tracked sigaltstack is a top of stack *)
(* only because it mirrors the kernel's alternate stack (AltInv).          *)
TypeInv == TypeOK /\ AltInv

(* The thread's stack pointer and every frame the kernel pushes stay in    *)
(* memory: a frame is pushed only when it fits above address 1.           *)
LEMMA SignalEventType ==
  ASSUME TypeInv, SignalEvent
  PROVE  TypeOK'
<1> DEFINE base == IF k_altstack # SS_DISABLE /\ ~OnKernelAlt(xsp)
                     THEN AltTop(k_altstack) ELSE xsp
           fr == [lo |-> base - SigFrame, hi |-> base, ret |-> xsp]
<1>1. base \in 1 .. MemTop + 1 /\ base - SigFrame >= 1 /\ SigFrame \in Nat \ {0}
  <2>1. base - SigFrame >= 1
    BY DEF SignalEvent
  <2>2. k_altstack # SS_DISABLE => AltTop(k_altstack) \in Nat /\ AltTop(k_altstack) <= MemTop + 1
    BY RegionsNotSpecial, SignalsAssumption DEF TypeInv, TypeOK, Addr, AltTop
  <2> QED
    BY <2>1, <2>2, SignalsAssumption DEF TypeInv, TypeOK
<1>2. fr \in Frame
  BY <1>1, SignalsAssumption DEF Frame, Addr, TypeInv, TypeOK
<1>3. /\ k_frames' = Append(k_frames, fr)
      /\ xsp' = base - SigFrame /\ signal_xsp' = xsp
      /\ Len(k_frames) < MaxNest
  BY DEF SignalEvent
<1>4. k_frames \in Seq(Frame) /\ Len(k_frames) \in Nat
  BY LenProperties DEF TypeInv, TypeOK
<1>5. k_frames' \in Seq(Frame) /\ Len(k_frames') = Len(k_frames) + 1
  BY <1>2, <1>3, <1>4, AppendProperties
<1>6. Len(k_frames') <= MaxNest
  BY <1>3, <1>4, <1>5, SignalsAssumption
<1> QED
  BY <1>1, <1>3, <1>5, <1>6, SignalsAssumption
  DEF SignalEvent, TypeInv, TypeOK, NULL

(* rt_sigreturn resumes the stack pointer the newest frame saved and pops  *)
(* exactly that frame.                                                     *)
LEMMA SigreturnType ==
  ASSUME TypeInv, Sigreturn
  PROVE  TypeOK'
<1>1. k_frames \in Seq(Frame) /\ k_frames # << >> /\ Len(k_frames) <= MaxNest
  BY DEF Sigreturn, TypeInv, TypeOK
<1>2. ASSUME NEW n, n = Len(k_frames)
      PROVE  /\ xsp' \in 1 .. MemTop + 1
             /\ k_frames' \in Seq(Frame) /\ Len(k_frames') <= MaxNest
  <2>1. n \in Nat \ {0} /\ k_frames \in [1 .. n -> Frame]
    BY <1>1, <1>2, EmptySeq, LenProperties
  <2>2. xsp' = k_frames[n].ret /\ k_frames' = SubSeq(k_frames, 1, n - 1)
    BY <1>2 DEF Sigreturn
  <2>3. k_frames[n] \in Frame
    BY <2>1
  <2>4. \A i \in 1 .. n - 1 : k_frames[i] \in Frame
    BY <2>1
  <2>5. SubSeq(k_frames, 1, n - 1) \in Seq(Frame)
        /\ Len(SubSeq(k_frames, 1, n - 1)) = n - 1
    BY <2>1, <2>4, SubSeqProperties
  <2> QED
    BY <1>1, <1>2, <2>2, <2>3, <2>5, SignalsAssumption DEF Frame
<1>3. shadow' \in [Addr -> Tags]
  BY DEF Sigreturn, TypeInv, TypeOK, ShadowSetRange, Tags
<1> QED
  BY <1>2, <1>3 DEF Sigreturn, TypeInv, TypeOK

(* frame_top is NULL, the interrupted stack pointer or the tracked top of  *)
(* the alternate stack, all in memory.                                     *)
LEMMA FrameTopType ==
  ASSUME TypeInv
  PROVE  FrameTop \in {NULL} \cup 1 .. MemTop + 1
<1>1. sigaltstack # NULL => sigaltstack \in 1 .. MemTop + 1
  <2>1. CASE k_altstack = SS_DISABLE
    BY <2>1 DEF TypeInv, AltInv, AltstackTracked
  <2>2. CASE k_altstack # SS_DISABLE
    <3>1. k_altstack \in AltRegions
      BY <2>2 DEF TypeInv, AltInv
    <3> QED
      BY <2>2, <3>1, RegionsNotSpecial, SignalsAssumption
      DEF TypeInv, AltInv, AltstackTracked, AltTop, Addr
  <2> QED
    BY <2>1, <2>2
<1> QED
  BY <1>1 DEF FrameTop, TypeInv, TypeOK

(* Every handler keeps the types, with any nesting of signals and any      *)
(* sigaltstack call in a handler.                                          *)
LEMMA TypeInvStep == TypeInv /\ [Next]_vars => TypeInv'
<1> SUFFICES ASSUME TypeInv, [Next]_vars PROVE TypeInv'
  OBVIOUS
<1>0. AltInv'
  BY AltInvStep DEF TypeInv
<1> SUFFICES TypeOK'
  BY <1>0 DEF TypeInv
<1>1. ASSUME NEW h \in Handlers \cup {SIG_IGN, SIG_DFL}, NEW ok \in BOOLEAN,
             SysSigaction(h, ok)
      PROVE  TypeOK'
  BY <1>1 DEF SysSigaction, TypeInv, TypeOK
<1>2. ASSUME NEW arg \in AltRegions \cup {SS_DISABLE, BAD_PTR}, NEW ok \in BOOLEAN,
             SysSigaltstack(arg, ok)
      PROVE  TypeOK'
  <2>1. shadow' \in [Addr -> Tags]
    BY <1>2 DEF SysSigaltstack, TypeInv, TypeOK, ShadowSetRange, Tags
  <2>2. k_altstack' \in AltRegions \cup {SS_DISABLE}
    BY <1>2 DEF SysSigaltstack, TypeInv, TypeOK
  <2> QED
    BY <1>2, <2>1, <2>2 DEF SysSigaltstack, TypeInv, TypeOK
<1>3. CASE SignalEvent
  BY <1>3, SignalEventType
<1>4. CASE AtSignalHandler
  <2>1. FrameTop \in {NULL} \cup 1 .. MemTop + 1
    BY FrameTopType
  <2>2. shadow' \in [Addr -> Tags]
    BY <1>4 DEF AtSignalHandler, TypeInv, TypeOK, ShadowSetRange, Tags
  <2> QED
    BY <1>4, <2>1, <2>2 DEF AtSignalHandler, TypeInv, TypeOK
<1>5. CASE Sigreturn
  BY <1>5, SigreturnType
<1>6. CASE UNCHANGED vars
  BY <1>6 DEF vars, TypeInv, TypeOK
<1> QED
  BY <1>1, <1>2, <1>3, <1>4, <1>5, <1>6 DEF Next

(* For every value of the constants, nested signals and sigaltstack in     *)
(* handlers included, the stack pointer, the frames the kernel pushed, the *)
(* recorded signal_xsp and sigframe_top and the tracked handlers keep      *)
(* their types: no frame or frame_top leaves memory.                       *)
THEOREM TypeCorrect == Spec => []TypeOK
<1>1. Init => TypeInv
  <2>1. Init => AltInv
    BY DEF Init, AltInv, AltstackTracked, SS_DISABLE, NULL
  <2> QED
    BY <2>1, InitIInv DEF IInv, TypeInv
<1> QED
  BY <1>1, TypeInvStep, PTL DEF Spec, TypeInv
=============================================================================
