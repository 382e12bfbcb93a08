------------------------------- MODULE SchedProof -------------------------------
(* Proofs about Sched for any set of threads, slice length, stack depth and       *)
(* workload: its type invariant, that ready_lock is always free when it is        *)
(* acquired, that the ring stays one cycle, and that Sched implements RoundRobin. *)
(* Then, for workloads that do not mix the two ways of switching: that every      *)
(* thread resumes where it was left, `current` is the running thread, a thread's  *)
(* own code can be interrupted, and interrupts do not nest.                       *)
EXTENDS Sched, TLAPS

(* The initial state satisfies the inductive invariant. *)
LEMMA InitIInv == Init => IInv
  <1> SUFFICES ASSUME Init PROVE IInv
    OBVIOUS
  <1> USE SchedAssumption
  <1>1. TypeOK
    <2>1. FrameAt("boot") \in Frame /\ FrameAt("new") \in Frame
      BY DEF FrameAt, Frame, PC, CodePC
    <2>2. frame \in [All -> [Level -> Frame]]
      BY <2>1 DEF Init
    <2>3. current \in All /\ rsp \in All /\ next \in [All -> All \cup {None}]
      BY DEF Init, All
    <2>4. depth \in [All -> 0..MaxFrames] /\ stack_pointer \in [All -> Context \cup {None}]
      BY DEF Init
    <2>5. /\ locked \in BOOLEAN /\ ief \in BOOLEAN /\ irr \in BOOLEAN
          /\ isr \in BOOLEAN /\ wild \in BOOLEAN
      BY Zenon DEF Init
    <2>6. /\ id \in [All -> Nat] /\ next_thread_id \in Nat
          /\ ticks_since_switch \in 0..SCHED_TIME_SLICE_TICKS
      BY DEF Init
    <2>7. load \in Loads
      BY DEF Init
    <2> QED
      BY <2>2, <2>3, <2>4, <2>5, <2>6, <2>7 DEF TypeOK
  <1>2. InRing = {Boot}
    BY DEF Init, InRing, All
  <1>3. RingIntact
    BY <1>2 DEF Init, RingIntact, All
  <1>4. Top = FrameAt("boot") /\ depth[rsp] = 1
    BY DEF Init, Top, All, Level
  <1>5. FramesOK /\ LockOK /\ SliceOK
    BY <1>4 DEF Init, FramesOK, LockOK, SliceOK, All, Level, FrameAt, IsrPC, SwitchPC,
                Masked, Holding, Picked
  <1>6. FreshOK
    BY <1>2 DEF Init, FreshOK, Adding, All, Level, FrameAt, BeforeSplice, BeforeLink
  <1> QED
    BY <1>1, <1>3, <1>5, <1>6 DEF IInv

(* What SetTop does to the stacks. *)
LEMMA TopStep ==
  ASSUME IInv, NEW f \in Frame, SetTop(f)
  PROVE  /\ depth[rsp] \in Level
         /\ Top \in Frame
         /\ frame' \in [All -> [Level -> Frame]]
         /\ frame'[rsp][depth[rsp]] = f
         /\ \A t \in All, l \in Level:
              t # rsp \/ l # depth[rsp] => frame'[t][l] = frame[t][l]
  <1>1. depth[rsp] \in Level
    BY SchedAssumption DEF IInv, TypeOK, LockOK, Level
  <1>2. Top \in Frame
    BY <1>1 DEF IInv, TypeOK, Top
  <1> QED
    BY <1>1, <1>2 DEF IInv, TypeOK, SetTop

(* A step of the innermost frame that leaves the ring, the depths and the stack   *)
(* in use alone keeps the invariant if the new frame f respects the discipline of *)
(* ready_lock and IF.                                                             *)
LEMMA ControlStep ==
  ASSUME IInv, NEW f \in Frame, SetTop(f),
         UNCHANGED <<ring, depth, rsp, load>>,
         locked' \in BOOLEAN, ief' \in BOOLEAN, wild' \in BOOLEAN,
         irr' \in BOOLEAN, isr' \in BOOLEAN,
         ticks_since_switch' \in 0..SCHED_TIME_SLICE_TICKS,
         stack_pointer' \in [All -> Context \cup {None}],
         depth[rsp] = 1 => f.pc \notin IsrPC,
         depth[rsp] # 1 => f.pc \in SwitchPC \cup IsrPC,
         f.pc \in Picked => f.prev \in All /\ f.nxt \in All,
         f.pc \in Masked => ~ief',
         locked' <=> f.pc \in Holding,
         ticks_since_switch' = SCHED_TIME_SLICE_TICKS =>
           /\ depth[rsp] # 1 /\ f.pc \in BeforeReset /\ ~ief'
           /\ f.pc # "sw_cli" => ~f.flags,
         f.pc \in BeforeSplice => Top.pc \in BeforeSplice /\ f.arg = Top.arg,
         f.pc \in BeforeLink => Top.pc \in BeforeLink,
         f.pc = "add_splice" => Top.pc = "add_splice"
  PROVE  IInv'
  <1>1. /\ depth[rsp] \in Level
        /\ Top \in Frame
        /\ frame' \in [All -> [Level -> Frame]]
        /\ frame'[rsp][depth[rsp]] = f
        /\ \A t \in All, l \in Level:
             t # rsp \/ l # depth[rsp] => frame'[t][l] = frame[t][l]
    BY TopStep
  <1>2. TypeOK'
    BY <1>1 DEF IInv, TypeOK, ring
  <1>3. Top' = f
    BY <1>1 DEF Top
  <1>4. FramesOK'
    BY <1>1 DEF IInv, TypeOK, FramesOK
  <1>5. LockOK' /\ SliceOK'
    BY <1>1, <1>3 DEF IInv, LockOK, SliceOK
  <1>6. InRing' = InRing /\ RingIntact'
    BY DEF IInv, RingIntact, InRing, ring
  <1>7. FreshOK'
    <2>1. 1 \in Level
      BY SchedAssumption DEF Level
    <2>2. \A t \in All: Adding(t)' =>
            /\ Adding(t)
            /\ frame'[t][1].arg = frame[t][1].arg
            /\ frame'[t][1].pc \in BeforeLink => frame[t][1].pc \in BeforeLink
            /\ frame'[t][1].pc = "add_splice" => frame[t][1].pc = "add_splice"
      <3> SUFFICES ASSUME NEW t \in All, Adding(t)'
                   PROVE  /\ Adding(t)
                          /\ frame'[t][1].arg = frame[t][1].arg
                          /\ frame'[t][1].pc \in BeforeLink => frame[t][1].pc \in BeforeLink
                          /\ frame'[t][1].pc = "add_splice" => frame[t][1].pc = "add_splice"
        OBVIOUS
      <3>1. CASE t = rsp /\ depth[rsp] = 1
        BY <1>1, <3>1 DEF Adding, Top
      <3>2. CASE ~(t = rsp /\ depth[rsp] = 1)
        BY <1>1, <2>1, <3>2 DEF Adding
      <3> QED
        BY <3>1, <3>2
    <2> QED
      BY <1>6, <2>2 DEF IInv, FreshOK, ring
  <1> QED
    BY <1>2, <1>4, <1>5, <1>6, <1>7 DEF IInv

(* The innermost frame, and what its pc says of it. *)
LEMMA TopFacts ==
  ASSUME IInv
  PROVE  /\ depth[rsp] \in Level
         /\ Top \in Frame
         /\ Top.pc \in PC /\ Top.flags \in BOOLEAN
         /\ Top.pc \in Picked => Top.prev \in All /\ Top.nxt \in All
         /\ depth[rsp] = 1 => Top.pc \notin IsrPC
         /\ depth[rsp] # 1 => Top.pc \in SwitchPC \cup IsrPC
         /\ locked <=> Top.pc \in Holding
         /\ Top.pc \in Masked => ~ief
         /\ Top.pc \notin BeforeReset => ticks_since_switch # SCHED_TIME_SLICE_TICKS
  <1>1. depth[rsp] \in Level
    BY SchedAssumption DEF IInv, TypeOK, LockOK, Level
  <1>2. Top \in Frame
    BY <1>1 DEF IInv, TypeOK, Top
  <1>3. Top.pc \in PC /\ Top.flags \in BOOLEAN
    BY <1>2 DEF Frame
  <1>4. /\ Top.pc \in Picked => Top.prev \in All /\ Top.nxt \in All
        /\ depth[rsp] = 1 => Top.pc \notin IsrPC
        /\ depth[rsp] # 1 => Top.pc \in SwitchPC \cup IsrPC
    BY <1>1 DEF IInv, TypeOK, FramesOK, Top, Level
  <1> QED
    BY <1>1, <1>2, <1>3, <1>4 DEF IInv, LockOK, SliceOK

(* Frames built from others. *)
LEMMA FrameTypes ==
  ASSUME NEW g \in Frame, NEW p \in PC, NEW b \in BOOLEAN
  PROVE  /\ [g EXCEPT !.pc = p] \in Frame
         /\ [g EXCEPT !.pc = p, !.flags = b] \in Frame
         /\ [g EXCEPT !.pc = p, !.flags = b, !.arg = None] \in Frame
         /\ FrameAt(p) \in Frame
  BY DEF Frame, FrameAt

(* Every step of sched_add_thread and switch_to_next that only takes or drops     *)
(* ready_lock or IF keeps the invariant.                                          *)
LEMMA IrqSaveIInv ==
  ASSUME IInv, NEW p \in {"add_cli", "sw_cli"}, NEW q \in {"add_acquire", "sw_acquire"},
         p = "add_cli" <=> q = "add_acquire",
         IrqSave(p, q)
  PROVE  IInv'
  <1> DEFINE f == [Top EXCEPT !.pc = q, !.flags = ief]
  <1>1. TypeOK /\ SliceOK
    BY DEF IInv
  <1>2. Top.pc = p /\ SetTop(f) /\ ~ief'
    BY DEF IrqSave, At
  <1>3. f \in Frame /\ f.pc = q /\ f.arg = Top.arg
    <2>1. Top \in Frame
      BY Zenon, TopFacts
    <2>2. ief \in BOOLEAN
      BY <1>1 DEF TypeOK
    <2>3. q \in PC
      BY DEF PC, AddPC, SwitchPC
    <2>4. f \in Frame
      BY Zenon, <2>1, <2>2, <2>3, FrameTypes
    <2>5. f.pc = q /\ f.arg = Top.arg
      BY <2>1 DEF Frame
    <2> QED
      BY <2>4, <2>5
  <1>4. ticks_since_switch = SCHED_TIME_SLICE_TICKS => ~f.flags /\ depth[rsp] # 1
    BY <1>1, TopFacts DEF SliceOK, Frame
  <1>5. ief' \in BOOLEAN
    BY Zenon DEF IrqSave
  <1> HIDE DEF f
  <1> QED
    BY <1>1, <1>2, <1>3, <1>4, <1>5, TopFacts, ControlStep
       DEF IrqSave, TypeOK, SliceOK, lapic, PC, IsrPC, SwitchPC, AddPC, Picked, Masked, Holding,
           BeforeReset, BeforeSplice, BeforeLink

(* spinlock_acquire of a lock that is free keeps the invariant. *)
LEMMA AcquireIInv ==
  ASSUME IInv, NEW p \in {"add_acquire", "sw_acquire"}, NEW q \in {"add_link", "sw_pick"},
         p = "add_acquire" <=> q = "add_link",
         Acquire(p, q)
  PROVE  IInv'
  <1> DEFINE f == [Top EXCEPT !.pc = q]
  <1>1. TypeOK /\ SliceOK
    BY DEF IInv
  <1>2. Top.pc = p /\ SetTop(f) /\ locked'
    BY DEF Acquire, At, Goto
  <1>3. f \in Frame /\ f.pc = q /\ f.arg = Top.arg /\ f.flags = Top.flags
    BY TopFacts, FrameTypes DEF Frame, PC, AddPC, SwitchPC
  <1>4. locked' \in BOOLEAN
    BY Zenon DEF Acquire
  <1> HIDE DEF f
  <1> QED
    BY <1>1, <1>2, <1>3, <1>4, TopFacts, ControlStep
       DEF Acquire, TypeOK, SliceOK, cpu, lapic, IsrPC, SwitchPC, Picked, Masked, Holding,
           BeforeReset, BeforeSplice, BeforeLink

(* spinlock_release keeps it. *)
LEMMA ReleaseIInv ==
  ASSUME IInv, NEW p \in {"add_release", "sw_release"},
         NEW q \in {"add_restore", "sw_restore"},
         p = "add_release" <=> q = "add_restore",
         Release(p, q)
  PROVE  IInv'
  <1> DEFINE f == [Top EXCEPT !.pc = q]
  <1>1. TypeOK /\ SliceOK
    BY DEF IInv
  <1>2. Top.pc = p /\ SetTop(f) /\ ~locked'
    BY DEF Release, At, Goto
  <1>3. /\ f \in Frame /\ f.pc = q /\ f.arg = Top.arg /\ f.flags = Top.flags
        /\ f.prev = Top.prev /\ f.nxt = Top.nxt
    BY TopFacts, FrameTypes DEF Frame, PC, AddPC, SwitchPC
  <1>4. locked' \in BOOLEAN
    BY Zenon DEF Release
  <1> HIDE DEF f
  <1> QED
    BY <1>1, <1>2, <1>3, <1>4, TopFacts, ControlStep
       DEF Release, TypeOK, SliceOK, cpu, lapic, IsrPC, SwitchPC, Picked, Masked, Holding,
           BeforeReset, BeforeSplice, BeforeLink

(* restore_interrupt_state, once the lock is dropped, keeps it. *)
LEMMA IrqRestoreIInv ==
  ASSUME IInv, NEW p \in {"add_restore", "sw_restore"}, NEW q \in {"code", "sw_reset"},
         p = "add_restore" <=> q = "code",
         IrqRestore(p, q)
  PROVE  IInv'
  <1> DEFINE f == [Top EXCEPT !.pc = q, !.flags = FALSE, !.arg = None]
  <1>1. TypeOK /\ SliceOK
    BY DEF IInv
  <1>2. Top.pc = p /\ SetTop(f) /\ ief' = Top.flags
    BY DEF IrqRestore, At
  <1>3. f \in Frame /\ f.pc = q /\ ~f.flags /\ f.prev = Top.prev /\ f.nxt = Top.nxt
    <2>1. Top \in Frame /\ q \in PC
      BY TopFacts DEF PC, CodePC, SwitchPC
    <2>2. f \in Frame
      BY <2>1, FrameTypes
    <2> QED
      BY <2>1, <2>2 DEF Frame
  <1>4. ief' \in BOOLEAN
    BY <1>2, TopFacts
  <1> HIDE DEF f
  <1> QED
    BY <1>1, <1>2, <1>3, <1>4, TopFacts, ControlStep
       DEF IrqRestore, TypeOK, SliceOK, lapic, IsrPC, SwitchPC, Picked, Masked, Holding,
           BeforeReset, BeforeSplice, BeforeLink

(* The handler's steps that stay on the stack. *)
LEMMA EoiIInv == IInv /\ Eoi => IInv'
  <1> SUFFICES ASSUME IInv, Eoi PROVE IInv'
    OBVIOUS
  <1> DEFINE f == [Top EXCEPT !.pc = "handler"]
  <1>1. TypeOK
    BY DEF IInv
  <1>2. Top.pc = "eoi" /\ SetTop(f)
    BY DEF Eoi, At, Goto, Dispatch
  <1>3. f \in Frame /\ f.pc = "handler"
    BY TopFacts, FrameTypes DEF Frame, PC, IsrPC
  <1>4. isr' \in BOOLEAN
    BY Zenon DEF Eoi
  <1> HIDE DEF f
  <1> QED
    BY <1>1, <1>2, <1>3, <1>4, TopFacts, ControlStep
       DEF Eoi, TypeOK, cpu, IsrPC, Picked, Masked, Holding, BeforeReset, BeforeSplice,
           BeforeLink

(* timer_tick_handler keeps it: the tick that ends the slice starts a switch. *)
LEMMA TickHandlerIInv == IInv /\ TickHandler => IInv'
  <1> SUFFICES ASSUME IInv, TickHandler PROVE IInv'
    OBVIOUS
  <1> DEFINE q == IF ticks_since_switch' >= SCHED_TIME_SLICE_TICKS THEN "sw_cli" ELSE "iret"
             f == [Top EXCEPT !.pc = q]
  <1>1. TypeOK
    BY DEF IInv
  <1>2. Top.pc = "handler" /\ SetTop(f)
    BY DEF TickHandler, At, Goto, Dispatch
  <1>3. ticks_since_switch # SCHED_TIME_SLICE_TICKS
    BY <1>2, TopFacts DEF BeforeReset
  <1>4. ticks_since_switch' = ticks_since_switch + 1
    BY DEF TickHandler
  <1>5. ticks_since_switch' \in 0..SCHED_TIME_SLICE_TICKS
    BY <1>1, <1>3, <1>4, SchedAssumption DEF TypeOK
  <1>6. ticks_since_switch' = SCHED_TIME_SLICE_TICKS => q = "sw_cli"
    BY <1>5, SchedAssumption
  <1>7. q = "sw_cli" \/ q = "iret"
    OBVIOUS
  <1> HIDE DEF q
  <1>8. q \in PC
    BY <1>7 DEF PC, IsrPC, SwitchPC
  <1>9. f \in Frame /\ f.pc = q
    BY <1>8, TopFacts, FrameTypes DEF Frame
  <1> HIDE DEF f
  <1> QED
    BY <1>1, <1>2, <1>5, <1>6, <1>7, <1>9, TopFacts, ControlStep
       DEF TickHandler, TypeOK, cpu, lapic, IsrPC, SwitchPC, Picked, Masked, Holding,
           BeforeReset, BeforeSplice, BeforeLink

(* The steps of thread code that leave the ring alone. *)
LEMMA EnableInterruptsIInv == IInv /\ EnableInterrupts => IInv'
  <1> SUFFICES ASSUME IInv, EnableInterrupts PROVE IInv'
    OBVIOUS
  <1> DEFINE f == [Top EXCEPT !.pc = "code"]
  <1>1. TypeOK
    BY DEF IInv
  <1>2. Top.pc = "boot" /\ SetTop(f)
    BY DEF EnableInterrupts, At, Goto
  <1>3. f \in Frame /\ f.pc = "code"
    BY TopFacts, FrameTypes DEF Frame, PC, CodePC
  <1>4. ief' \in BOOLEAN
    BY Zenon DEF EnableInterrupts
  <1> HIDE DEF f
  <1> QED
    BY <1>1, <1>2, <1>3, <1>4, TopFacts, ControlStep
       DEF EnableInterrupts, TypeOK, lapic, IsrPC, SwitchPC, Picked, Masked, Holding,
           BeforeReset, BeforeSplice, BeforeLink

(* thread_trampoline keeps it. *)
LEMMA TrampolineIInv == IInv /\ Trampoline => IInv'
  <1> SUFFICES ASSUME IInv, Trampoline PROVE IInv'
    OBVIOUS
  <1> DEFINE f == [Top EXCEPT !.pc = "code"]
  <1>1. TypeOK
    BY DEF IInv
  <1>2. Top.pc = "new" /\ SetTop(f)
    BY DEF Trampoline, At, Goto
  <1>3. f \in Frame /\ f.pc = "code"
    BY TopFacts, FrameTypes DEF Frame, PC, CodePC
  <1>4. ief' \in BOOLEAN
    BY Zenon DEF Trampoline
  <1> HIDE DEF f
  <1> QED
    BY <1>1, <1>2, <1>3, <1>4, TopFacts, ControlStep
       DEF Trampoline, TypeOK, lapic, IsrPC, SwitchPC, Picked, Masked, Holding,
           BeforeReset, BeforeSplice, BeforeLink

(* sched_yield keeps it. *)
LEMMA YieldIInv == IInv /\ Yield => IInv'
  <1> SUFFICES ASSUME IInv, Yield PROVE IInv'
    OBVIOUS
  <1> DEFINE f == [Top EXCEPT !.pc = "sw_cli"]
  <1>1. TypeOK
    BY DEF IInv
  <1>2. Top.pc = "code" /\ SetTop(f)
    BY DEF Yield, At, Goto
  <1>3. f \in Frame /\ f.pc = "sw_cli"
    BY TopFacts, FrameTypes DEF Frame, PC, SwitchPC
  <1> HIDE DEF f
  <1> QED
    BY <1>1, <1>2, <1>3, TopFacts, ControlStep
       DEF Yield, TypeOK, cpu, lapic, IsrPC, SwitchPC, Picked, Masked, Holding,
           BeforeReset, BeforeSplice, BeforeLink

(* kernel_halt keeps it. *)
LEMMA KernelHaltIInv == IInv /\ KernelHalt => IInv'
  <1> SUFFICES ASSUME IInv, KernelHalt PROVE IInv'
    OBVIOUS
  <1> DEFINE f == [Top EXCEPT !.pc = "halted"]
  <1>1. TypeOK
    BY DEF IInv
  <1>2. Top.pc = "code" /\ SetTop(f)
    BY DEF KernelHalt, At, Goto
  <1>3. f \in Frame /\ f.pc = "halted"
    BY TopFacts, FrameTypes DEF Frame, PC, CodePC
  <1>4. ief' \in BOOLEAN
    BY Zenon DEF KernelHalt
  <1> HIDE DEF f
  <1> QED
    BY <1>1, <1>2, <1>3, <1>4, TopFacts, ControlStep
       DEF KernelHalt, TypeOK, lapic, IsrPC, SwitchPC, Picked, Masked, Holding,
           BeforeReset, BeforeSplice, BeforeLink

(* The steps of switch_to_next after the lock is dropped. *)
LEMMA ReturnFacts ==
  ASSUME IInv, Top.pc \in SwitchPC
  PROVE  /\ FrameAt(Return) \in Frame
         /\ FrameAt(Return).pc = Return
         /\ depth[rsp] = 1 => Return = "code"
         /\ depth[rsp] # 1 => Return = "iret"
  <1>1. /\ depth[rsp] = 1 => Return = "code"
        /\ depth[rsp] # 1 => Return = "iret"
    BY DEF Return, Dispatch
  <1>2. Return \in PC
    BY <1>1 DEF PC, CodePC, IsrPC
  <1> QED
    BY <1>1, <1>2 DEF Frame, FrameAt

(* Resetting ticks_since_switch keeps it. *)
LEMMA ResetTicksIInv == IInv /\ ResetTicks => IInv'
  <1> SUFFICES ASSUME IInv, ResetTicks PROVE IInv'
    OBVIOUS
  <1> DEFINE f == IF Top.nxt # Top.prev THEN [Top EXCEPT !.pc = "sw_load"]
                                        ELSE FrameAt(Return)
  <1>1. TypeOK
    BY DEF IInv
  <1>2. Top.pc = "sw_reset" /\ SetTop(f) /\ ticks_since_switch' = 0
    BY DEF ResetTicks, At
  <1>3. /\ f \in Frame
        /\ f.pc = "sw_load" => f.prev = Top.prev /\ f.nxt = Top.nxt
        /\ f.pc \in {"sw_load", "code", "iret"}
        /\ f.pc = "code" => depth[rsp] = 1
        /\ f.pc = "iret" => depth[rsp] # 1
    <2>1. CASE Top.nxt # Top.prev
      BY <2>1, TopFacts, FrameTypes DEF Frame, PC, SwitchPC
    <2>2. CASE Top.nxt = Top.prev
      <3>1. f = FrameAt(Return)
        BY <2>2
      <3> HIDE DEF f
      <3> QED
        BY <1>2, <3>1, ReturnFacts DEF SwitchPC
    <2> QED
      BY <2>1, <2>2
  <1> HIDE DEF f
  <1> QED
    BY <1>1, <1>2, <1>3, TopFacts, ControlStep, SchedAssumption
       DEF ResetTicks, TypeOK, cpu, lapic, IsrPC, SwitchPC, Picked, Masked, Holding,
           BeforeReset, BeforeSplice, BeforeLink

(* Loading context_switch's arguments keeps it. *)
LEMMA LoadArgumentIInv == IInv /\ LoadArgument => IInv'
  <1> SUFFICES ASSUME IInv, LoadArgument PROVE IInv'
    OBVIOUS
  <1> DEFINE f == [Top EXCEPT !.pc = "sw_save", !.sp = stack_pointer[Top.nxt]]
  <1>1. TypeOK
    BY DEF IInv
  <1>2. Top.pc = "sw_load" /\ SetTop(f)
    BY DEF LoadArgument, At
  <1>3. Top.prev \in All /\ Top.nxt \in All
    BY <1>2, TopFacts DEF Picked
  <1>4. stack_pointer[Top.nxt] \in Context \cup {None}
    BY <1>1, <1>3 DEF TypeOK
  <1>5. f \in Frame /\ f.pc = "sw_save" /\ f.prev = Top.prev /\ f.nxt = Top.nxt
    BY <1>4, TopFacts DEF Frame, PC, SwitchPC
  <1> HIDE DEF f
  <1> QED
    BY <1>1, <1>2, <1>3, <1>5, TopFacts, ControlStep
       DEF LoadArgument, TypeOK, cpu, lapic, IsrPC, SwitchPC, Picked, Masked, Holding,
           BeforeReset, BeforeSplice, BeforeLink

(* Saving the outgoing stack pointer keeps it, in whichever struct it lands. *)
LEMMA SaveContextIInv == IInv /\ SaveContext => IInv'
  <1> SUFFICES ASSUME IInv, SaveContext PROVE IInv'
    OBVIOUS
  <1> DEFINE f == [Top EXCEPT !.pc = "sw_jump"]
  <1>1. TypeOK
    BY DEF IInv
  <1>2. Top.pc = "sw_save" /\ SetTop(f)
    BY DEF SaveContext, At, Goto
  <1>3. f \in Frame /\ f.pc = "sw_jump" /\ f.prev = Top.prev /\ f.nxt = Top.nxt
    BY TopFacts, FrameTypes DEF Frame, PC, SwitchPC
  <1>4. [owner |-> rsp, level |-> depth[rsp]] \in Context
    BY <1>1, TopFacts DEF TypeOK, Context
  <1>5. stack_pointer' \in [All -> Context \cup {None}]
    BY <1>1, <1>4 DEF SaveContext, TypeOK
  <1> HIDE DEF f
  <1> QED
    BY <1>1, <1>2, <1>3, <1>5, TopFacts, ControlStep
       DEF SaveContext, TypeOK, cpu, lapic, IsrPC, SwitchPC, Picked, Masked, Holding,
           BeforeReset, BeforeSplice, BeforeLink

(* A tick of the timer keeps it. *)
LEMMA TickIInv == IInv /\ Tick => IInv'
  <1> SUFFICES ASSUME IInv, Tick PROVE IInv'
    OBVIOUS
  <1>1. irr' \in BOOLEAN
    BY Zenon DEF Tick
  <1>2. TypeOK'
    BY <1>1 DEF Tick, IInv, TypeOK, ring, cpu
  <1>3. FramesOK' /\ LockOK' /\ SliceOK'
    BY DEF Tick, IInv, FramesOK, LockOK, SliceOK, Top, cpu
  <1>4. RingIntact' /\ FreshOK'
    BY DEF Tick, IInv, RingIntact, FreshOK, InRing, Adding, ring
  <1> QED
    BY <1>2, <1>3, <1>4 DEF IInv

(* A step that writes no link and leaves every frame 1 where it was. *)
LEMMA RingUntouched ==
  ASSUME IInv, UNCHANGED <<current, next>>,
         \A t \in All: (depth'[t] = 0 <=> depth[t] = 0),
         \A t \in All: depth[t] # 0 /\ frame'[t][1].pc \in BeforeSplice
                        => frame'[t][1] = frame[t][1]
  PROVE  RingIntact' /\ FreshOK'
  <1>1. InRing' = InRing /\ RingIntact'
    BY DEF IInv, RingIntact, InRing
  <1>2. \A t \in All: Adding(t)' => Adding(t) /\ frame'[t][1] = frame[t][1]
    BY DEF Adding
  <1>3. InRing \subseteq All /\ Thread \subseteq All
    BY DEF InRing, All
  <1> QED
    BY <1>1, <1>2, <1>3 DEF IInv, FreshOK

(* An interrupt keeps it: IF was set, so the frame below is in no masked section. *)
LEMMA InterruptIInv == IInv /\ Interrupt => IInv'
  <1> SUFFICES ASSUME IInv, Interrupt PROVE IInv'
    OBVIOUS
  <1> DEFINE d == depth[rsp]
             f == FrameAt("eoi")
  <1>1. TypeOK /\ FramesOK /\ LockOK /\ SliceOK
    BY DEF IInv
  <1>2. /\ d \in Level /\ d + 1 \in Level /\ rsp \in All
        /\ rsp' = rsp
        /\ depth' = [depth EXCEPT ![rsp] = d + 1]
        /\ frame' = [frame EXCEPT ![rsp][d + 1] = f]
    BY <1>1, TopFacts, SchedAssumption DEF Interrupt, TypeOK, Level, Dispatch
  <1>3. f \in Frame /\ f.pc = "eoi" /\ ~f.flags
    BY FrameTypes DEF FrameAt, Frame, PC, IsrPC
  <1>4. Top.pc \notin Masked /\ ~locked
    BY <1>1 DEF Interrupt, LockOK, Masked
  <1> HIDE DEF f
  <1>5. /\ frame' \in [All -> [Level -> Frame]]
        /\ depth' \in [All -> 0..MaxFrames]
        /\ frame'[rsp][d + 1] = f
        /\ \A t \in All, l \in Level: t # rsp \/ l # d + 1 => frame'[t][l] = frame[t][l]
        /\ depth'[rsp] = d + 1
        /\ \A t \in All: t # rsp => depth'[t] = depth[t]
    <2>1. /\ frame \in [All -> [Level -> Frame]] /\ depth \in [All -> 0..MaxFrames]
          /\ d + 1 \in 0..MaxFrames
      BY <1>1, <1>2 DEF TypeOK, Level
    <2>2. /\ depth' \in [All -> 0..MaxFrames] /\ depth'[rsp] = d + 1
          /\ \A t \in All: t # rsp => depth'[t] = depth[t]
      BY <1>2, <2>1
    <2> HIDE DEF d
    <2>3. /\ frame' \in [All -> [Level -> Frame]]
          /\ frame'[rsp][d + 1] = f
          /\ \A t \in All, l \in Level: t # rsp \/ l # d + 1 => frame'[t][l] = frame[t][l]
      <3> DEFINE m == d + 1
      <3>1. m \in Level /\ frame' = [frame EXCEPT ![rsp][m] = f]
        BY <1>2
      <3> HIDE DEF m
      <3>2. /\ frame' \in [All -> [Level -> Frame]]
            /\ frame'[rsp][m] = f
            /\ \A t \in All, l \in Level: t # rsp \/ l # m => frame'[t][l] = frame[t][l]
        BY <1>2, <1>3, <2>1, <3>1
      <3> QED
        BY <3>2 DEF m
    <2> QED
      BY <2>2, <2>3
  <1>6. irr' \in BOOLEAN /\ isr' \in BOOLEAN /\ ief' \in BOOLEAN
    BY Zenon DEF Interrupt
  <1>7. TypeOK'
    BY <1>1, <1>5, <1>6 DEF Interrupt, TypeOK, ring
  <1>8. Top' = f
    BY <1>2, <1>5 DEF Top
  <1>9. FramesOK'
    <2> SUFFICES ASSUME NEW t \in All, NEW l \in Level, l <= depth'[t]
                 PROVE  /\ l = 1 => frame'[t][l].pc \notin IsrPC
                        /\ l # 1 => frame'[t][l].pc \in SwitchPC \cup IsrPC
                        /\ frame'[t][l].pc \in Masked => t = rsp /\ l = depth'[t]
                        /\ frame'[t][l].pc \in Picked =>
                             frame'[t][l].prev \in All /\ frame'[t][l].nxt \in All
      BY <1>2 DEF FramesOK
    <2>1. CASE t = rsp /\ l = d + 1
      BY <1>2, <1>3, <1>5, <2>1 DEF IsrPC, Picked, Level
    <2>2. CASE t # rsp
      BY <1>1, <1>5, <2>2 DEF FramesOK
    <2>3. CASE t = rsp /\ l # d + 1
      <3>1. l <= depth[t] /\ frame'[t][l] = frame[t][l]
        BY <1>2, <1>5, <2>3 DEF Level
      <3>2. frame[t][l].pc \notin Masked
        BY <1>1, <1>4, <2>3, <3>1 DEF FramesOK, Top
      <3> QED
        BY <1>1, <3>1, <3>2 DEF FramesOK
    <2> QED
      BY <2>1, <2>2, <2>3
  <1>10. LockOK' /\ SliceOK'
    <2>1. depth'[rsp'] # 0 /\ ~ief' /\ ~locked'
      BY <1>2, <1>4, <1>5 DEF Interrupt, Level
    <2>2. ticks_since_switch' # SCHED_TIME_SLICE_TICKS
      BY <1>1 DEF Interrupt, SliceOK
    <2> QED
      BY <1>3, <1>8, <2>1, <2>2 DEF LockOK, SliceOK, Holding
  <1>11. RingIntact' /\ FreshOK'
    <2>1. \A t \in All: frame'[t][1] = frame[t][1]
      BY <1>2, <1>5, SchedAssumption DEF Level
    <2>2. \A t \in All: (depth'[t] = 0 <=> depth[t] = 0)
      BY <1>2, <1>5 DEF Level
    <2> QED
      BY <2>1, <2>2, RingUntouched DEF Interrupt, ring
  <1> QED
    BY <1>7, <1>9, <1>10, <1>11 DEF IInv

(* iretq keeps it. *)
LEMMA IretIInv == IInv /\ Iret => IInv'
  <1> SUFFICES ASSUME IInv, Iret PROVE IInv'
    OBVIOUS
  <1> DEFINE d == depth[rsp]
             f == FrameAt("new")
  <1>1. TypeOK /\ FramesOK /\ LockOK /\ SliceOK
    BY DEF IInv
  <1>2. Top.pc = "iret" /\ SetTop(f) /\ rsp' = rsp /\ rsp \in All
    BY <1>1 DEF Iret, At, TypeOK
  <1>3. f \in Frame
    BY FrameTypes DEF PC, CodePC, FrameAt, Frame
  <1>4. d \in Level /\ d - 1 \in Level /\ d # 1
    BY <1>2, TopFacts, SchedAssumption DEF IsrPC, Level
  <1> HIDE DEF f
  <1>5. /\ frame' \in [All -> [Level -> Frame]]
        /\ \A t \in All, l \in Level: t # rsp \/ l # d => frame'[t][l] = frame[t][l]
    BY <1>2, <1>3, TopStep
  <1>6. /\ depth' \in [All -> 0..MaxFrames]
        /\ depth'[rsp] = d - 1
        /\ \A t \in All: t # rsp => depth'[t] = depth[t]
    BY <1>1, <1>4 DEF Iret, TypeOK, Level
  <1>7. ief' \in BOOLEAN
    BY Zenon DEF Iret
  <1>8. TypeOK'
    BY <1>1, <1>5, <1>6, <1>7 DEF Iret, TypeOK, ring, lapic
  <1>9. \A t \in All, l \in Level: l <= depth'[t] =>
          /\ l <= depth[t] /\ frame'[t][l] = frame[t][l]
          /\ frame[t][l].pc \notin Masked
    <2> SUFFICES ASSUME NEW t \in All, NEW l \in Level, l <= depth'[t]
                 PROVE  /\ l <= depth[t] /\ frame'[t][l] = frame[t][l]
                        /\ frame[t][l].pc \notin Masked
      OBVIOUS
    <2>1. CASE t = rsp
      <3>1. l <= d /\ l # d
        BY <1>4, <1>6, <2>1 DEF Level
      <3> QED
        BY <1>1, <1>5, <2>1, <3>1 DEF FramesOK
    <2>2. CASE t # rsp
      BY <1>1, <1>5, <1>6, <2>2 DEF FramesOK
    <2> QED
      BY <2>1, <2>2
  <1>10. FramesOK'
    BY <1>1, <1>9 DEF FramesOK
  <1>11. LockOK' /\ SliceOK'
    <2>1. Top'.pc \notin Masked
      BY <1>2, <1>4, <1>6, <1>9 DEF Top, Level
    <2>2. depth'[rsp'] # 0 /\ ~locked'
      BY <1>1, <1>2, <1>4, <1>6 DEF Iret, LockOK, Holding, Level
    <2>3. ticks_since_switch' # SCHED_TIME_SLICE_TICKS
      BY <1>2, TopFacts DEF Iret, BeforeReset
    <2> QED
      BY <2>1, <2>2, <2>3 DEF LockOK, SliceOK, Masked
  <1>12. RingIntact' /\ FreshOK'
    <2>1. \A t \in All: frame'[t][1] = frame[t][1]
      BY <1>4, <1>5, SchedAssumption DEF Level
    <2>2. \A t \in All: (depth'[t] = 0 <=> depth[t] = 0)
      BY <1>4, <1>6 DEF Level
    <2> QED
      BY <2>1, <2>2, RingUntouched DEF Iret, ring
  <1> QED
    BY <1>8, <1>10, <1>11, <1>12 DEF IInv

(* Switching stacks keeps it, also when the stack pointer loaded is stale. *)
LEMMA JumpIInv == IInv /\ Jump => IInv'
  <1> SUFFICES ASSUME IInv, Jump PROVE IInv'
    OBVIOUS
  <1>1. TypeOK /\ FramesOK /\ LockOK
    BY DEF IInv
  <1>2. Top.pc = "sw_jump" /\ Top \in Frame /\ rsp \in All /\ depth[rsp] \in Level
    BY <1>1, TopFacts DEF Jump, At, TypeOK
  <1>3. ~locked /\ ticks_since_switch # SCHED_TIME_SLICE_TICKS
    BY <1>2, TopFacts DEF Holding, BeforeReset
  <1>4. CASE Resumable(Top.sp)
    <2> DEFINE f == FrameAt(Return)
               u == Top.sp.owner
    <2>1. SetTop(f) /\ rsp' = u /\ UNCHANGED wild
      BY <1>4 DEF Jump
    <2>2. f \in Frame /\ f.pc \notin Masked \cup Picked \cup BeforeSplice
      BY <1>2, ReturnFacts DEF SwitchPC, Masked, Holding, Picked, BeforeSplice, BeforeLink
    <2>3. u \in All /\ u # rsp /\ depth[u] \in Level
      BY <1>2, <1>4 DEF Resumable, Frame, Context
    <2>4. /\ depth[rsp] = 1 => f.pc \notin IsrPC
          /\ depth[rsp] # 1 => f.pc \in SwitchPC \cup IsrPC
      BY <1>2, ReturnFacts DEF SwitchPC, IsrPC
    <2> HIDE DEF f, u
    <2>5. /\ frame' \in [All -> [Level -> Frame]]
          /\ frame'[rsp][depth[rsp]] = f
          /\ \A t \in All, l \in Level:
               t # rsp \/ l # depth[rsp] => frame'[t][l] = frame[t][l]
      BY <2>1, <2>2, TopStep
    <2>6. TypeOK'
      BY <1>1, <2>1, <2>3, <2>5 DEF Jump, TypeOK, ring, lapic
    <2>7. depth' = depth
      BY DEF Jump
    <2>8. \A t \in All, l \in Level: l <= depth[t] => frame'[t][l].pc \notin Masked
      BY <1>1, <1>2, <2>2, <2>5 DEF FramesOK
    <2>9. FramesOK'
      BY <1>1, <1>2, <2>2, <2>4, <2>5, <2>7, <2>8 DEF FramesOK
    <2>10. LockOK' /\ SliceOK'
      <3>1. depth[u] <= depth[u] /\ depth[u] # 0
        BY <2>3, SchedAssumption DEF Level
      <3>2. Top'.pc \notin Masked
        BY <2>1, <2>3, <2>7, <2>8, <3>1 DEF Top
      <3> QED
        BY <1>3, <2>1, <2>7, <3>1, <3>2 DEF Jump, LockOK, SliceOK, Masked
    <2>11. RingIntact' /\ FreshOK'
      <3>1. 1 \in Level
        BY SchedAssumption DEF Level
      <3>2. \A t \in All: frame'[t][1].pc \in BeforeSplice => frame'[t][1] = frame[t][1]
        BY <1>2, <2>2, <2>5, <3>1
      <3> QED
        BY <2>7, <3>2, RingUntouched DEF Jump, ring
    <2> QED
      BY <2>6, <2>9, <2>10, <2>11 DEF IInv
  <1>5. CASE ~Resumable(Top.sp)
    <2>1. wild' \in BOOLEAN
      BY <1>5, Zenon DEF Jump
    <2>2. TypeOK'
      BY <1>1, <1>5, <2>1 DEF Jump, TypeOK, ring, lapic
    <2>3. FramesOK' /\ LockOK' /\ SliceOK'
      BY <1>5 DEF Jump, IInv, FramesOK, LockOK, SliceOK, Top
    <2>4. RingIntact' /\ FreshOK'
      BY <1>5, RingUntouched DEF Jump, ring
    <2> QED
      BY <2>2, <2>3, <2>4 DEF IInv
  <1> QED
    BY <1>4, <1>5

(* A step of the innermost frame while the lock is held: its frame changes, the   *)
(* parts of the invariant that are not about the ring follow.                     *)
LEMMA HoldingStep ==
  ASSUME IInv, NEW f \in Frame, SetTop(f), Top.pc \in Holding,
         UNCHANGED <<depth, rsp, locked, ief, ticks_since_switch>>,
         f.pc \in Holding,
         f.pc \in SwitchPC <=> Top.pc \in SwitchPC,
         f.pc \in BeforeReset <=> Top.pc \in BeforeReset,
         f.pc \in Picked => f.prev \in All /\ f.nxt \in All,
         f.flags = Top.flags
  PROVE  FramesOK' /\ LockOK' /\ SliceOK'
  <1>1. /\ depth[rsp] \in Level
        /\ Top \in Frame
        /\ frame'[rsp][depth[rsp]] = f
        /\ \A t \in All, l \in Level:
             t # rsp \/ l # depth[rsp] => frame'[t][l] = frame[t][l]
    BY TopStep
  <1>2. Top' = f
    BY <1>1 DEF Top
  <1>3. f.pc \notin IsrPC /\ f.pc \in Masked /\ Top.pc \in Masked
        /\ f.pc # "sw_cli" /\ Top.pc # "sw_cli" /\ Top.pc \notin IsrPC
    BY DEF Holding, Masked, IsrPC
  <1>4. FramesOK'
    BY <1>1, <1>3, TopFacts DEF IInv, TypeOK, FramesOK
  <1>5. LockOK' /\ SliceOK'
    BY <1>2, <1>3 DEF IInv, LockOK, SliceOK
  <1> QED
    BY <1>4, <1>5

(* Advancing `current` under the lock keeps it. *)
LEMMA PickNextIInv == IInv /\ PickNext => IInv'
  <1> SUFFICES ASSUME IInv, PickNext PROVE IInv'
    OBVIOUS
  <1> DEFINE f == [Top EXCEPT !.pc = "sw_release", !.prev = current, !.nxt = next[current]]
  <1>1. TypeOK /\ FramesOK /\ LockOK /\ RingIntact /\ FreshOK
    BY DEF IInv
  <1>2. Top.pc = "sw_pick" /\ SetTop(f) /\ current' = next[current]
    BY DEF PickNext, At
  <1>3. current \in All /\ next[current] \in InRing /\ next[current] \in All
    BY <1>1 DEF TypeOK, RingIntact, InRing
  <1>4. /\ f \in Frame /\ f.pc = "sw_release" /\ f.flags = Top.flags
        /\ f.prev \in All /\ f.nxt \in All
    BY <1>3, TopFacts DEF Frame, PC, SwitchPC
  <1> HIDE DEF f
  <1>5. /\ frame' \in [All -> [Level -> Frame]]
        /\ frame'[rsp][depth[rsp]] = f
        /\ \A t \in All, l \in Level:
             t # rsp \/ l # depth[rsp] => frame'[t][l] = frame[t][l]
    BY <1>2, <1>4, TopStep
  <1>6. TypeOK'
    BY <1>1, <1>2, <1>3, <1>5 DEF PickNext, TypeOK, cpu, lapic
  <1>7. FramesOK' /\ LockOK' /\ SliceOK'
    BY <1>2, <1>4, HoldingStep DEF PickNext, cpu, Holding, SwitchPC, BeforeReset
  <1>8. InRing' = InRing /\ RingIntact'
    BY <1>1, <1>2, <1>3 DEF PickNext, RingIntact, InRing
  <1>9. FreshOK'
    <2>1. 1 \in Level
      BY SchedAssumption DEF Level
    <2>2. \A t \in All: Adding(t)' =>
            Adding(t) /\ frame'[t][1] = frame[t][1] /\ frame[t][1].pc # "add_splice"
      <3> SUFFICES ASSUME NEW t \in All, Adding(t)'
                   PROVE  /\ Adding(t) /\ frame'[t][1] = frame[t][1]
                          /\ frame[t][1].pc # "add_splice"
        OBVIOUS
      <3>1. ~(t = rsp /\ depth[rsp] = 1)
        BY <1>4, <1>5 DEF Adding, PickNext, BeforeSplice, BeforeLink
      <3>2. frame'[t][1] = frame[t][1] /\ depth[t] # 0 /\ 1 <= depth[t]
        BY <1>1, <1>5, <2>1, <3>1 DEF Adding, PickNext, TypeOK
      <3>3. frame[t][1].pc \notin Masked
        BY <1>1, <2>1, <3>1, <3>2 DEF FramesOK
      <3> QED
        BY <3>2, <3>3 DEF Adding, PickNext, Masked, Holding
    <2> QED
      BY <1>1, <1>8, <2>2 DEF FreshOK, PickNext
  <1> QED
    BY <1>6, <1>7, <1>8, <1>9 DEF IInv

(* The caller of sched_add_thread while it holds the lock, and all other callers. *)
LEMMA AddingFacts ==
  ASSUME IInv, Top.pc \in {"add_link", "add_splice"}
  PROVE  /\ depth[rsp] = 1
         /\ Adding(rsp)
         /\ Top = frame[rsp][1]
         /\ Top.arg \in Thread /\ Top.arg \in All /\ Top.arg \notin InRing
         /\ Top.arg # current /\ current \in All
         /\ depth[Top.arg] # 0
         /\ next[current] \in InRing /\ next[current] \in All
         /\ \A t \in All: t # rsp /\ Adding(t) =>
              /\ frame[t][1].pc = "add_cli"
              /\ frame[t][1].arg # Top.arg
              /\ frame[t][1].arg \in All /\ frame[t][1].arg \notin InRing
              /\ frame[t][1].arg # current
              /\ next[frame[t][1].arg] = None
  <1>1. TypeOK /\ FramesOK /\ RingIntact /\ FreshOK
    BY DEF IInv
  <1>2. depth[rsp] = 1 /\ rsp \in All
    BY <1>1, TopFacts DEF TypeOK, SwitchPC, IsrPC
  <1>3. Adding(rsp) /\ Top = frame[rsp][1]
    BY <1>2 DEF Adding, Top, BeforeSplice, BeforeLink
  <1>4. current \in InRing /\ next[current] \in InRing /\ InRing \subseteq All
    BY <1>1 DEF RingIntact, InRing
  <1>5. /\ Top.arg \in Thread /\ Top.arg \in All /\ Top.arg \notin InRing
        /\ depth[Top.arg] # 0
    BY <1>1, <1>2, <1>3 DEF FreshOK, All
  <1>6. ASSUME NEW t \in All, t # rsp, Adding(t)
        PROVE  /\ frame[t][1].pc = "add_cli"
               /\ frame[t][1].arg # Top.arg
               /\ frame[t][1].arg \in All /\ frame[t][1].arg \notin InRing
               /\ next[frame[t][1].arg] = None
    <2>1. 1 \in Level /\ 1 <= depth[t]
      BY <1>1, <1>6, SchedAssumption DEF Adding, TypeOK, Level
    <2>2. frame[t][1].pc \notin Masked /\ frame[t][1].pc \in BeforeSplice
      BY <1>1, <1>6, <2>1 DEF FramesOK, Adding
    <2>3. frame[t][1].pc = "add_cli"
      BY <2>2 DEF Masked, Holding, BeforeSplice, BeforeLink
    <2>4. frame[t][1].arg # Top.arg
      BY <1>1, <1>2, <1>3, <1>6 DEF FreshOK
    <2> QED
      BY <1>1, <1>6, <2>3, <2>4 DEF FreshOK, BeforeLink, All
  <1> QED
    BY <1>2, <1>3, <1>4, <1>5, <1>6

(* Writing thread->next keeps it: the new thread is not in the ring yet. *)
LEMMA LinkIInv == IInv /\ Link => IInv'
  <1> SUFFICES ASSUME IInv, Link PROVE IInv'
    OBVIOUS
  <1> DEFINE f == [Top EXCEPT !.pc = "add_splice"]
             a == Top.arg
  <1>1. TypeOK /\ FramesOK /\ RingIntact /\ FreshOK
    BY DEF IInv
  <1>2. Top.pc = "add_link" /\ SetTop(f)
    BY DEF Link, At, Goto
  <1>3. f \in Frame /\ f.pc = "add_splice" /\ f.flags = Top.flags /\ f.arg = a
    BY TopFacts, FrameTypes DEF Frame, PC, AddPC
  <1> HIDE DEF f
  <1>4. /\ frame' \in [All -> [Level -> Frame]]
        /\ frame'[rsp][depth[rsp]] = f
        /\ \A t \in All, l \in Level:
             t # rsp \/ l # depth[rsp] => frame'[t][l] = frame[t][l]
    BY <1>2, <1>3, TopStep
  <1>5. next[a] = None
    BY <1>1, <1>2, AddingFacts DEF FreshOK, BeforeLink, TypeOK
  <1>6. /\ next' \in [All -> All \cup {None}]
        /\ next'[a] = next[current]
        /\ \A t \in All: t # a => next'[t] = next[t]
    BY <1>1, <1>2, AddingFacts DEF Link, TypeOK
  <1>7. TypeOK'
    <2>1. id' \in [All -> Nat] /\ next_thread_id' \in Nat
      BY <1>1, <1>2, AddingFacts DEF Link, TypeOK
    <2> QED
      BY <1>1, <1>4, <1>6, <2>1 DEF Link, TypeOK, cpu, lapic
  <1>8. FramesOK' /\ LockOK' /\ SliceOK'
    BY <1>2, <1>3, HoldingStep DEF Link, cpu, Holding, SwitchPC, BeforeReset, Picked
  <1>9. InRing' = InRing
    <2>1. ASSUME NEW t \in InRing PROVE t \in InRing'
      <3>1. PICK u \in All: next[u] = t
        BY DEF InRing
      <3>2. u # a
        BY <1>5, <3>1, SchedAssumption DEF InRing
      <3> QED
        BY <1>6, <3>1, <3>2 DEF InRing
    <2>2. ASSUME NEW t \in InRing' PROVE t \in InRing
      <3>1. PICK u \in All: next'[u] = t
        BY <2>2 DEF InRing
      <3>2. CASE u = a
        BY <1>2, <1>6, <3>1, <3>2, AddingFacts
      <3>3. CASE u # a
        BY <1>6, <2>2, <3>1, <3>3 DEF InRing
      <3> QED
        BY <3>2, <3>3
    <2> QED
      BY <2>1, <2>2
  <1>10. \A t \in InRing: next'[t] = next[t]
    BY <1>2, <1>6, AddingFacts DEF InRing
  <1>11. RingIntact'
    BY <1>1, <1>9, <1>10 DEF Link, RingIntact
  <1>12. FreshOK'
    <2>1. \A t \in All: t # rsp => frame'[t][1] = frame[t][1]
      BY <1>4, SchedAssumption DEF Level
    <2>2. frame'[rsp][1] = f
      BY <1>2, <1>4, AddingFacts
    <2>3. depth' = depth /\ current' = current
      BY DEF Link
    <2>4. \A t \in All: t # rsp => (Adding(t)' <=> Adding(t))
      BY <2>1, <2>3 DEF Adding
    <2>5. \A t \in InRing': depth'[t] # 0
      BY <1>1, <1>9, <2>3 DEF FreshOK
    <2>6. \A t \in All: depth'[t] = 0 => next'[t] = None
      BY <1>1, <1>2, <1>6, <2>3, AddingFacts DEF FreshOK
    <2>7. \A t \in All: Adding(t)' =>
            /\ frame'[t][1].arg \in Thread \ InRing'
            /\ depth'[frame'[t][1].arg] # 0
            /\ frame'[t][1].pc \in BeforeLink => next'[frame'[t][1].arg] = None
            /\ frame'[t][1].pc = "add_splice" => next'[frame'[t][1].arg] = next'[current']
      <3> SUFFICES ASSUME NEW t \in All, Adding(t)'
                   PROVE  /\ frame'[t][1].arg \in Thread \ InRing'
                          /\ depth'[frame'[t][1].arg] # 0
                          /\ frame'[t][1].pc \in BeforeLink =>
                               next'[frame'[t][1].arg] = None
                          /\ frame'[t][1].pc = "add_splice" =>
                               next'[frame'[t][1].arg] = next'[current']
        OBVIOUS
      <3>1. CASE t = rsp
        BY <1>2, <1>3, <1>6, <1>9, <2>2, <2>3, <3>1, AddingFacts DEF BeforeLink
      <3>2. CASE t # rsp
        BY <1>1, <1>2, <1>6, <1>9, <2>1, <2>3, <2>4, <3>2, AddingFacts DEF FreshOK
      <3> QED
        BY <3>1, <3>2
    <2>8. \A t, u \in All:
            Adding(t)' /\ Adding(u)' /\ frame'[t][1].arg = frame'[u][1].arg => t = u
      BY <1>1, <1>2, <1>3, <2>1, <2>2, <2>4, AddingFacts DEF FreshOK
    <2> QED
      BY <2>5, <2>6, <2>7, <2>8 DEF FreshOK
  <1> QED
    BY <1>7, <1>8, <1>11, <1>12 DEF IInv

(* Writing current->next: the new thread joins the cycle and no thread leaves it. *)
LEMMA SpliceRing ==
  ASSUME IInv, Splice
  PROVE  /\ next' \in [All -> All \cup {None}]
         /\ next'[current] = Top.arg
         /\ next'[Top.arg] = next[current]
         /\ \A t \in All: t # current => next'[t] = next[t]
         /\ InRing' = InRing \cup {Top.arg}
         /\ RingIntact'
  <1> DEFINE a == Top.arg
  <1>1. TypeOK /\ RingIntact /\ FreshOK /\ Top.pc = "add_splice"
    BY DEF IInv, Splice, At
  <1>2. /\ a \in All /\ a \notin InRing /\ a # current /\ current \in All
        /\ next[current] \in InRing /\ InRing \subseteq All
        /\ next[a] = next[current]
    <2>1. next[a] = next[current]
      BY <1>1, AddingFacts DEF FreshOK, TypeOK
    <2> QED
      BY <1>1, <2>1, AddingFacts DEF InRing
  <1> HIDE DEF a
  <1>3. /\ next' \in [All -> All \cup {None}]
        /\ next'[current] = a
        /\ next'[a] = next[current]
        /\ \A t \in All: t # current => next'[t] = next[t]
    BY <1>1, <1>2 DEF Splice, TypeOK, a
  <1>4. InRing' = InRing \cup {a}
    <2>1. ASSUME NEW t \in InRing PROVE t \in InRing'
      <3>1. PICK u \in All: next[u] = t
        BY DEF InRing
      <3>2. CASE u = current
        BY <1>2, <1>3, <3>1, <3>2 DEF InRing
      <3>3. CASE u # current
        BY <1>2, <1>3, <3>1, <3>3 DEF InRing
      <3> QED
        BY <3>2, <3>3
    <2>2. a \in InRing'
      BY <1>2, <1>3 DEF InRing
    <2>3. ASSUME NEW t \in InRing', t # a PROVE t \in InRing
      <3>1. PICK u \in All: next'[u] = t
        BY <2>3 DEF InRing
      <3> QED
        BY <1>3, <2>3, <3>1 DEF InRing
    <2> QED
      BY <2>1, <2>2, <2>3
  <1>5. RingIntact'
    <2>1. current' = current /\ current \in InRing
      BY <1>1 DEF Splice, RingIntact
    <2>2. \A t \in InRing': next'[t] \in InRing'
      BY <1>1, <1>2, <1>3, <1>4 DEF RingIntact
    <2>3. ASSUME NEW S \in SUBSET InRing', S # {}, \A t \in S: next'[t] \in S
          PROVE  S = InRing'
      <3> DEFINE R == S \ {a}
      <3>1. R \in SUBSET InRing
        BY <1>4
      <3>2. R # {}
        BY <1>2, <1>3, <2>3
      <3>3. ASSUME NEW t \in R PROVE next[t] \in R
        <4>1. t \in InRing /\ next[t] \in InRing /\ next[t] # a
          BY <1>1, <1>2, <3>1 DEF RingIntact
        <4>2. CASE t = current
          BY <1>2, <1>3, <2>3, <4>1, <4>2
        <4>3. CASE t # current
          BY <1>2, <1>3, <2>3, <4>1, <4>3
        <4> QED
          BY <4>2, <4>3
      <3> HIDE DEF R
      <3>4. R = InRing
        BY <1>1, <3>1, <3>2, <3>3 DEF RingIntact
      <3>5. a \in S
        BY <1>3, <2>1, <2>3, <3>4 DEF R
      <3> QED
        BY <1>4, <3>4, <3>5 DEF R
    <2> QED
      BY <1>4, <2>1, <2>2, <2>3 DEF RingIntact
  <1> QED
    BY <1>3, <1>4, <1>5 DEF a

(* Writing current->next keeps it. *)
LEMMA SpliceIInv == IInv /\ Splice => IInv'
  <1> SUFFICES ASSUME IInv, Splice PROVE IInv'
    OBVIOUS
  <1> DEFINE f == [Top EXCEPT !.pc = "add_release"]
  <1>1. TypeOK /\ FreshOK /\ RingIntact
    BY DEF IInv
  <1>2. Top.pc = "add_splice" /\ SetTop(f)
    BY DEF Splice, At, Goto
  <1>3. f \in Frame /\ f.pc = "add_release" /\ f.flags = Top.flags
    BY TopFacts, FrameTypes DEF Frame, PC, AddPC
  <1> HIDE DEF f
  <1>4. /\ frame' \in [All -> [Level -> Frame]]
        /\ frame'[rsp][depth[rsp]] = f
        /\ \A t \in All, l \in Level:
             t # rsp \/ l # depth[rsp] => frame'[t][l] = frame[t][l]
    BY <1>2, <1>3, TopStep
  <1>5. TypeOK'
    BY <1>1, <1>4, SpliceRing DEF Splice, TypeOK, cpu, lapic
  <1>6. FramesOK' /\ LockOK' /\ SliceOK'
    BY <1>2, <1>3, HoldingStep DEF Splice, cpu, Holding, SwitchPC, BeforeReset, Picked
  <1>7. FreshOK'
    <2>1. depth' = depth /\ current' = current
      BY DEF Splice
    <2>2. \A t \in All: Adding(t)' => t # rsp /\ Adding(t) /\ frame'[t][1] = frame[t][1]
      <3>1. frame'[rsp][1] = f
        BY <1>2, <1>4, AddingFacts
      <3>2. \A t \in All: t # rsp => frame'[t][1] = frame[t][1]
        BY <1>4, SchedAssumption DEF Level
      <3> QED
        BY <1>3, <2>1, <3>1, <3>2 DEF Adding, BeforeSplice, BeforeLink
    <2>3. \A t \in InRing': depth'[t] # 0
      BY <1>1, <1>2, <2>1, SpliceRing, AddingFacts DEF FreshOK
    <2>4. \A t \in All: depth'[t] = 0 => next'[t] = None
      BY <1>1, <2>1, SpliceRing DEF FreshOK, RingIntact
    <2>5. ASSUME NEW t \in All, Adding(t)'
          PROVE  /\ frame'[t][1].arg \in Thread \ InRing'
                 /\ depth'[frame'[t][1].arg] # 0
                 /\ frame'[t][1].pc \in BeforeLink => next'[frame'[t][1].arg] = None
                 /\ frame'[t][1].pc = "add_splice" =>
                      next'[frame'[t][1].arg] = next'[current']
      <3>1. t # rsp /\ Adding(t) /\ frame'[t][1] = frame[t][1]
        BY <2>2, <2>5
      <3>2. /\ frame[t][1].pc = "add_cli"
            /\ frame[t][1].arg # Top.arg /\ frame[t][1].arg \notin InRing
            /\ frame[t][1].arg # current /\ frame[t][1].arg \in All
            /\ next[frame[t][1].arg] = None
        BY <1>2, <3>1, AddingFacts
      <3>3. frame[t][1].arg \in Thread /\ depth[frame[t][1].arg] # 0
        BY <1>1, <3>1 DEF FreshOK
      <3> QED
        BY <2>1, <3>1, <3>2, <3>3, SpliceRing
    <2>6. \A t, u \in All:
            Adding(t)' /\ Adding(u)' /\ frame'[t][1].arg = frame'[u][1].arg => t = u
      BY <1>1, <2>2 DEF FreshOK
    <2> QED
      BY <2>3, <2>4, <2>5, <2>6 DEF FreshOK
  <1> QED
    BY <1>5, <1>6, <1>7, SpliceRing DEF IInv

(* thread_create keeps it: the new thread belongs to its creator alone. *)
LEMMA ThreadCreateIInv ==
  ASSUME IInv, NEW n \in Thread, ThreadCreate(n)
  PROVE  IInv'
  <1> DEFINE f == [Top EXCEPT !.pc = "add_cli", !.arg = n]
             g == FrameAt("new")
  <1>1. TypeOK /\ FramesOK /\ LockOK /\ FreshOK
    BY DEF IInv
  <1>2. Top.pc = "code" /\ depth[n] = 0 /\ n \in All /\ n # rsp /\ rsp \in All
    BY <1>1 DEF ThreadCreate, At, All, LockOK, TypeOK
  <1>3. depth[rsp] = 1 /\ 1 \in Level
    BY <1>2, TopFacts, SchedAssumption DEF SwitchPC, IsrPC, Level
  <1>4. f \in Frame /\ f.pc = "add_cli" /\ f.arg = n /\ g \in Frame /\ g.pc = "new"
    BY <1>2, TopFacts, FrameTypes DEF Frame, PC, AddPC, CodePC, FrameAt
  <1>5. frame' = [frame EXCEPT ![rsp][1] = f, ![n][1] = g]
    BY <1>3 DEF ThreadCreate, Top
  <1> HIDE DEF f, g
  <1>6. /\ frame' \in [All -> [Level -> Frame]]
        /\ frame'[rsp][1] = f
        /\ frame'[n][1] = g
        /\ \A t \in All, l \in Level:
             (t # rsp /\ t # n) \/ l # 1 => frame'[t][l] = frame[t][l]
    BY <1>1, <1>2, <1>3, <1>4, <1>5 DEF TypeOK
  <1>7. /\ depth' \in [All -> 0..MaxFrames]
        /\ depth'[n] = 1
        /\ \A t \in All: t # n => depth'[t] = depth[t]
    BY <1>1, <1>2, SchedAssumption DEF ThreadCreate, TypeOK
  <1>8. stack_pointer' \in [All -> Context \cup {None}]
    BY <1>1, <1>2, <1>3 DEF ThreadCreate, TypeOK, Context
  <1>9. TypeOK'
    BY <1>1, <1>6, <1>7, <1>8 DEF ThreadCreate, TypeOK, ring, cpu, lapic
  <1>10. Top' = f /\ rsp' = rsp
    BY <1>2, <1>3, <1>6, <1>7 DEF ThreadCreate, Top, cpu
  <1>11. FramesOK'
    <2> SUFFICES ASSUME NEW t \in All, NEW l \in Level, l <= depth'[t]
                 PROVE  /\ l = 1 => frame'[t][l].pc \notin IsrPC
                        /\ l # 1 => frame'[t][l].pc \in SwitchPC \cup IsrPC
                        /\ frame'[t][l].pc \in Masked => t = rsp /\ l = depth'[t]
                        /\ frame'[t][l].pc \in Picked =>
                             frame'[t][l].prev \in All /\ frame'[t][l].nxt \in All
      BY <1>10 DEF FramesOK
    <2>1. CASE t = n
      <3>1. l = 1
        BY <1>7, <2>1 DEF Level
      <3> QED
        BY <1>4, <1>6, <2>1, <3>1 DEF IsrPC, Masked, Holding, Picked
    <2>2. CASE t = rsp
      <3>1. l = 1
        BY <1>2, <1>3, <1>7, <2>2 DEF Level
      <3> QED
        BY <1>4, <1>6, <2>2, <3>1 DEF IsrPC, Masked, Holding, Picked
    <2>3. CASE t # n /\ t # rsp
      BY <1>1, <1>6, <1>7, <2>3 DEF FramesOK
    <2> QED
      BY <2>1, <2>2, <2>3
  <1>12. LockOK' /\ SliceOK'
    <2>1. ticks_since_switch' # SCHED_TIME_SLICE_TICKS /\ ~locked'
      BY <1>2, TopFacts DEF ThreadCreate, BeforeReset, Holding
    <2>2. depth'[rsp'] # 0
      BY <1>2, <1>3, <1>7, <1>10
    <2> QED
      BY <1>4, <1>10, <2>1, <2>2 DEF LockOK, SliceOK, Masked, Holding
  <1>13. InRing' = InRing /\ RingIntact'
    BY DEF IInv, ThreadCreate, RingIntact, InRing, ring
  <1>14. FreshOK'
    <2>1. next' = next /\ current' = current
      BY DEF ThreadCreate, ring
    <2>2. n \notin InRing /\ next[n] = None
      BY <1>1, <1>2 DEF FreshOK
    <2>3. \A t \in All: Adding(t)' /\ t # rsp =>
            /\ Adding(t) /\ frame'[t][1] = frame[t][1]
            /\ frame[t][1].arg # n /\ frame[t][1].arg \in All
      <3>1. ~Adding(n)'
        BY <1>4, <1>6 DEF Adding, BeforeSplice, BeforeLink
      <3> QED
        BY <1>1, <1>2, <1>3, <1>6, <1>7, <3>1 DEF Adding, FreshOK, All
    <2>4. \A t \in InRing': depth'[t] # 0
      BY <1>1, <1>7, <1>13 DEF FreshOK, InRing
    <2>5. \A t \in All: depth'[t] = 0 => next'[t] = None
      BY <1>1, <1>7, <2>1 DEF FreshOK
    <2>6. ASSUME NEW t \in All, Adding(t)'
          PROVE  /\ frame'[t][1].arg \in Thread \ InRing'
                 /\ depth'[frame'[t][1].arg] # 0
                 /\ frame'[t][1].pc \in BeforeLink => next'[frame'[t][1].arg] = None
                 /\ frame'[t][1].pc = "add_splice" =>
                      next'[frame'[t][1].arg] = next'[current']
      <3>1. CASE t = rsp
        BY <1>4, <1>6, <1>7, <1>13, <2>1, <2>2, <3>1
      <3>2. CASE t # rsp
        BY <1>1, <1>7, <1>13, <2>1, <2>3, <2>6, <3>2 DEF FreshOK
      <3> QED
        BY <3>1, <3>2
    <2>7. \A t, u \in All:
            Adding(t)' /\ Adding(u)' /\ frame'[t][1].arg = frame'[u][1].arg => t = u
      BY <1>1, <1>4, <1>6, <2>3 DEF FreshOK
    <2> QED
      BY <2>4, <2>5, <2>6, <2>7 DEF FreshOK
  <1> QED
    BY <1>9, <1>11, <1>12, <1>13, <1>14 DEF IInv

(* Every step of the scheduler keeps the inductive invariant. *)
LEMMA NextIInv == IInv /\ [Next]_vars => IInv'
  <1> SUFFICES ASSUME IInv, [Next]_vars PROVE IInv'
    OBVIOUS
  <1>1. CASE AddThread
    <2>1. CASE IrqSave("add_cli", "add_acquire")
      BY <2>1, IrqSaveIInv
    <2>2. CASE Acquire("add_acquire", "add_link")
      BY <2>2, AcquireIInv
    <2>3. CASE Release("add_release", "add_restore")
      BY <2>3, ReleaseIInv
    <2>4. CASE IrqRestore("add_restore", "code")
      BY <2>4, IrqRestoreIInv
    <2> QED
      BY <1>1, <2>1, <2>2, <2>3, <2>4, LinkIInv, SpliceIInv DEF AddThread
  <1>2. CASE SwitchToNext
    <2>1. CASE IrqSave("sw_cli", "sw_acquire")
      BY <2>1, IrqSaveIInv
    <2>2. CASE Acquire("sw_acquire", "sw_pick")
      BY <2>2, AcquireIInv
    <2>3. CASE Release("sw_release", "sw_restore")
      BY <2>3, ReleaseIInv
    <2>4. CASE IrqRestore("sw_restore", "sw_reset")
      BY <2>4, IrqRestoreIInv
    <2> QED
      BY <1>2, <2>1, <2>2, <2>3, <2>4, PickNextIInv, ResetTicksIInv, LoadArgumentIInv,
         SaveContextIInv, JumpIInv DEF SwitchToNext
  <1>3. CASE CpuStep
    BY <1>1, <1>2, <1>3, EoiIInv, TickHandlerIInv, IretIInv, EnableInterruptsIInv,
       TrampolineIInv DEF CpuStep
  <1>4. CASE \E t \in Thread: ThreadCreate(t)
    BY <1>4, ThreadCreateIInv
  <1>5. CASE UNCHANGED vars
    <2>1. TypeOK'
      BY <1>5 DEF vars, ring, cpu, lapic, IInv, TypeOK
    <2>2. FramesOK' /\ LockOK' /\ SliceOK'
      BY <1>5 DEF vars, cpu, IInv, FramesOK, LockOK, SliceOK, Top
    <2>3. RingIntact' /\ FreshOK'
      BY <1>5, RingUntouched DEF vars, ring
    <2> QED
      BY <2>1, <2>2, <2>3 DEF IInv
  <1> QED
    BY <1>3, <1>4, <1>5, TickIInv, InterruptIInv, YieldIInv, KernelHaltIInv DEF Next

(* For any threads, slice and workload the inductive invariant always holds: the *)
(* ring, ready_lock and the masked sections of sched.c stay consistent.          *)
THEOREM Invariance == Spec => []IInv
  BY InitIInv, NextIInv, PTL DEF Spec

(* Whatever the interleaving of ticks, yields and creations, the variables of     *)
(* sched.c, the LAPIC and the stacks keep their types: current is never NULL and  *)
(* ticks_since_switch never passes the slice.                                     *)
THEOREM TypeCorrect == Spec => []TypeOK
  <1>1. IInv => TypeOK
    BY DEF IInv
  <1> QED
    BY <1>1, Invariance, PTL

(* spinlock_acquire_irqsave on ready_lock never has to wait, for any number of    *)
(* threads: cli before the acquisition keeps every other activation out.          *)
THEOREM LockNeverSpins == Spec => []NeverSpins
  <1>1. IInv => NeverSpins
    BY DEF IInv, NeverSpins, LockOK, Holding
  <1> QED
    BY <1>1, Invariance, PTL

(* The ready ring is one cycle through current in every reachable state, for any  *)
(* number of threads created by any thread at any time.                           *)
THEOREM RingStaysIntact == Spec => []RingIntact
  <1>1. IInv => RingIntact
    BY DEF IInv
  <1> QED
    BY <1>1, Invariance, PTL

(* Under the refinement mapping every step of the scheduler is an Add, a Switch   *)
(* or a stutter of RoundRobin.                                                    *)
LEMMA StepRefines ==
  IInv /\ [Next]_vars => [RoundRobinRing!Next]_(RoundRobinRing!vars)
  <1> SUFFICES ASSUME IInv, [Next]_vars
               PROVE  RoundRobinRing!Next \/ UNCHANGED RoundRobinRing!vars
    BY DEF RoundRobinRing!vars
  <1> DEFINE succ == [t \in InRing |-> next[t]]
  <1>1. TypeOK /\ RingIntact /\ FreshOK
    BY DEF IInv
  <1>2. CASE Splice
    <2>1. Top.pc = "add_splice"
      BY <1>2 DEF Splice, At
    <2>2. /\ Top.arg \in Thread /\ Top.arg \notin InRing
          /\ current \in InRing /\ InRing \subseteq All
      BY <1>1, <2>1, AddingFacts DEF RingIntact, InRing
    <2>3. succ' = [u \in InRing \cup {Top.arg} |->
                    CASE u = Top.arg -> succ[current]
                      [] u = current -> Top.arg
                      [] OTHER       -> succ[u]]
      <3>1. succ' = [u \in InRing \cup {Top.arg} |-> next'[u]]
        BY <1>2, SpliceRing
      <3>2. \A u \in InRing \cup {Top.arg}:
              next'[u] = CASE u = Top.arg -> succ[current]
                           [] u = current -> Top.arg
                           [] OTHER       -> succ[u]
        BY <1>2, <2>2, SpliceRing
      <3> QED
        BY <3>1, <3>2
    <2>4. current' = current
      BY <1>2 DEF Splice
    <2> QED
      BY <2>2, <2>3, <2>4 DEF RoundRobinRing!Next, RoundRobinRing!Add
  <1>3. CASE PickNext
    <2>1. current' = succ[current] /\ next' = next
      BY <1>1, <1>3 DEF PickNext, RingIntact
    <2>2. succ' = succ
      BY <2>1 DEF InRing
    <2> QED
      BY <2>1, <2>2 DEF RoundRobinRing!Next, RoundRobinRing!Switch
  <1>4. CASE Link
    <2>1. Top.pc = "add_link" /\ current' = current
      BY <1>4 DEF Link, At
    <2>2. Top.arg \in All /\ Top.arg \notin InRing /\ next[Top.arg] = None
      BY <1>1, <2>1, AddingFacts DEF FreshOK, BeforeLink, TypeOK
    <2>3. /\ next'[Top.arg] = next[current]
          /\ \A t \in All: t # Top.arg => next'[t] = next[t]
      BY <1>1, <1>4, <2>2 DEF Link, TypeOK
    <2>4. next[current] \in InRing /\ None \notin All /\ current \in All
          /\ current # Top.arg
      BY <2>1, AddingFacts, SchedAssumption
    <2>5. InRing' = InRing
      <3>1. ASSUME NEW t \in All PROVE t \in InRing' <=> t \in InRing
        <4>1. ASSUME t \in InRing PROVE t \in InRing'
          <5>1. PICK u \in All: next[u] = t
            BY <4>1 DEF InRing
          <5> QED
            BY <2>2, <2>3, <2>4, <5>1 DEF InRing
        <4>2. ASSUME t \in InRing' PROVE t \in InRing
          <5>1. PICK u \in All: next'[u] = t
            BY <4>2 DEF InRing
          <5> QED
            BY <2>3, <2>4, <5>1 DEF InRing
        <4> QED
          BY <4>1, <4>2
      <3> QED
        BY <3>1 DEF InRing
    <2>6. succ' = succ
      BY <2>2, <2>3, <2>5 DEF InRing
    <2> QED
      BY <2>1, <2>6 DEF RoundRobinRing!vars
  <1>5. CASE UNCHANGED <<current, next>>
    BY <1>5 DEF RoundRobinRing!vars, InRing
  <1>6. UNCHANGED <<current, next>> \/ Splice \/ PickNext \/ Link
    BY DEF Next, CpuStep, AddThread, SwitchToNext, Tick, Interrupt, Eoi, TickHandler, Iret,
           IrqSave, Acquire, Release, IrqRestore, ResetTicks, LoadArgument, SaveContext,
           Jump, EnableInterrupts, Trampoline, Yield, ThreadCreate, KernelHalt, vars, ring
  <1> QED
    BY <1>2, <1>3, <1>4, <1>5, <1>6

(* Sched implements RoundRobin: with all its locking, interrupts and stack        *)
(* switching, the ring only ever passes the turn to the next thread or takes in   *)
(* one new thread behind the current one.                                         *)
THEOREM Refinement == Spec => ImplementsRoundRobin
  <1>1. Init => RoundRobinRing!Init
    <2> SUFFICES ASSUME Init PROVE RoundRobinRing!Init
      OBVIOUS
    <2>1. InRing = {Boot}
      BY SchedAssumption DEF Init, InRing, All
    <2> QED
      BY <2>1 DEF Init, RoundRobinRing!Init, All
  <1> QED
    BY <1>1, Invariance, StepRefines, PTL
       DEF Spec, ImplementsRoundRobin, RoundRobinRing!Spec

---------------------------------------------------------------------------------
(* Contexts *)

(* The level of the frames that switch: the handler's, or the thread's own. *)
SwitchLevel == IF load.outlasts THEN 2 ELSE 1

Resumed == IF load.outlasts THEN "iret" ELSE "code"

Saved == {"sw_acquire", "sw_pick", "sw_release", "sw_restore",
          "add_acquire", "add_link", "add_splice", "add_release", "add_restore"}
Open == {"code", "add_cli", "sw_cli", "sw_reset", "sw_load", "sw_save", "sw_jump"}
Unpicked == {"sw_cli", "sw_acquire", "sw_pick"}
Leaving == {"sw_load", "sw_save", "sw_jump"}

(* A stack the CPU is not on: it was switched away from at its innermost frame,   *)
(* or has not started, and its thread's stack_pointer says so.                    *)
Suspended(t) ==
  /\ stack_pointer[t] = [owner |-> t, level |-> depth[t]]
  /\ \/ depth[t] = 1 /\ frame[t][1].pc = "new"
     \/ depth[t] = SwitchLevel /\ frame[t][SwitchLevel].pc = Resumed
  /\ \A l \in Level: l <= depth[t] => frame[t][l].pc \notin SwitchPC

SuspendedOK == \A t \in All \ {rsp}: depth[t] # 0 => Suspended(t)

(* IF is on in a thread's own code outside the spinlock, and off in a handler. *)
FlagOK ==
  /\ depth[rsp] <= 2
  /\ depth[rsp] = 1 => /\ Top.pc \in Open => ief
                       /\ Top.pc \in Saved => Top.flags
  /\ depth[rsp] = 2 => /\ ~ief
                       /\ Top.pc \in Saved => ~Top.flags

(* Only the running stack is in switch_to_next, and at one level; what it has     *)
(* read of the ring and of the next thread is still so.                           *)
SwitchOK ==
  /\ \A l \in Level: l <= depth[rsp] /\ frame[rsp][l].pc \in SwitchPC => l = SwitchLevel
  /\ LET f == frame[rsp][SwitchLevel]
         switching == SwitchLevel <= depth[rsp] /\ f.pc \in SwitchPC
     IN  /\ ~switching \/ f.pc \in Unpicked => current = rsp
         /\ switching /\ f.pc \in Picked => f.prev = rsp /\ f.nxt = current
         /\ switching /\ f.pc \in Leaving => current # rsp /\ depth[current] # 0
         /\ switching /\ f.pc \in {"sw_save", "sw_jump"} => f.sp = stack_pointer[current]
         /\ switching /\ f.pc = "sw_jump" =>
              stack_pointer[rsp] = [owner |-> rsp, level |-> SwitchLevel]

(* Where threads switch by sched_yield, a tick finds time left in the slice. *)
TickOK ==
  ~load.outlasts =>
    /\ depth[rsp] = 2 => ~irr
    /\ irr \/ Top.pc \in {"eoi", "handler"} =>
         ticks_since_switch < SCHED_TIME_SLICE_TICKS - 1

CtxInv == ~wild /\ SuspendedOK /\ FlagOK /\ SwitchOK /\ TickOK

----------------------------------------------------------------------------------

(* What the invariants say of the innermost frame. *)
LEMMA RunningFacts ==
  ASSUME IInv, CtxInv
  PROVE  /\ 1 \in Level /\ 2 \in Level /\ SwitchLevel \in {1, 2}
         /\ rsp \in All /\ current \in All /\ depth[current] # 0
         /\ depth \in [All -> 0..MaxFrames] /\ depth[rsp] \in {1, 2}
         /\ frame \in [All -> [Level -> Frame]]
         /\ Top \in Frame /\ Top = frame[rsp][depth[rsp]]
         /\ depth[rsp] = 2 => Top.pc \in SwitchPC \cup IsrPC
         /\ depth[rsp] = 1 => Top.pc \notin IsrPC
         /\ Top.pc \in SwitchPC => depth[rsp] = SwitchLevel
         /\ Top.pc \in SwitchPC /\ Top.pc \in Unpicked => current = rsp
         /\ depth[rsp] = SwitchLevel /\ Top.pc \notin SwitchPC => current = rsp
         /\ SwitchLevel > depth[rsp] => current = rsp
         /\ Top.pc \in Picked => Top.prev = rsp /\ Top.nxt = current
         /\ Top.pc \in Leaving => current # rsp
         /\ Top.pc \in {"sw_save", "sw_jump"} => Top.sp = stack_pointer[current]
         /\ Top.pc = "sw_jump" => stack_pointer[rsp] = [owner |-> rsp, level |-> SwitchLevel]
  <1> USE SchedAssumption
  <1>1. 1 \in Level /\ 2 \in Level /\ SwitchLevel \in {1, 2}
    BY DEF Level, SwitchLevel
  <1>2. /\ rsp \in All /\ current \in All /\ depth \in [All -> 0..MaxFrames]
        /\ frame \in [All -> [Level -> Frame]]
    BY DEF IInv, TypeOK
  <1>3. depth[current] # 0
    BY DEF IInv, RingIntact, FreshOK
  <1>4. depth[rsp] \in Level /\ Top \in Frame
        /\ (depth[rsp] = 1 => Top.pc \notin IsrPC)
        /\ (depth[rsp] # 1 => Top.pc \in SwitchPC \cup IsrPC)
    BY TopFacts
  <1>5. depth[rsp] \in {1, 2}
    BY <1>2, <1>4 DEF CtxInv, FlagOK, Level
  <1>6. Top = frame[rsp][depth[rsp]]
    BY DEF Top
  <1>7. Top.pc \in SwitchPC => depth[rsp] = SwitchLevel
    BY <1>2, <1>4, <1>6 DEF CtxInv, SwitchOK
  <1>8. Unpicked \subseteq SwitchPC /\ Picked \subseteq SwitchPC /\ Leaving \subseteq SwitchPC
        /\ "sw_save" \in SwitchPC /\ "sw_jump" \in SwitchPC
    BY DEF Unpicked, Picked, Leaving, SwitchPC
  <1>9. SwitchLevel <= SwitchLevel
    BY <1>1
  <1>10. /\ Top.pc \in SwitchPC /\ Top.pc \in Unpicked => current = rsp
         /\ depth[rsp] = SwitchLevel /\ Top.pc \notin SwitchPC => current = rsp
         /\ Top.pc \in Picked => Top.prev = rsp /\ Top.nxt = current
         /\ Top.pc \in Leaving => current # rsp
         /\ Top.pc \in {"sw_save", "sw_jump"} => Top.sp = stack_pointer[current]
         /\ Top.pc = "sw_jump" => stack_pointer[rsp] = [owner |-> rsp, level |-> SwitchLevel]
    BY <1>6, <1>7, <1>8, <1>9 DEF CtxInv, SwitchOK
  <1>11. SwitchLevel > depth[rsp] => current = rsp
    BY <1>1, <1>5 DEF CtxInv, SwitchOK
  <1> QED
    BY <1>1, <1>2, <1>3, <1>4, <1>5, <1>6, <1>7, <1>10, <1>11

(* A step of the innermost frame to f on the same stack. *)
LEMMA FrameStep ==
  ASSUME IInv, CtxInv, NEW f \in Frame, SetTop(f),
         UNCHANGED <<depth, rsp, load, wild>>,
         current' \in All,
         \A t \in All \ {rsp}: stack_pointer'[t] = stack_pointer[t],
         depth[rsp] = 1 => /\ f.pc \in Open => ief'
                           /\ f.pc \in Saved => f.flags,
         depth[rsp] = 2 => ~ief' /\ (f.pc \in Saved => ~f.flags),
         depth[rsp] # SwitchLevel => /\ f.pc \notin SwitchPC
                                     /\ UNCHANGED <<current, stack_pointer>>,
         depth[rsp] = SwitchLevel =>
           /\ f.pc \notin SwitchPC \/ f.pc \in Unpicked => current' = rsp
           /\ f.pc \in Picked => f.prev = rsp /\ f.nxt = current'
           /\ f.pc \in Leaving => current' # rsp /\ depth[current'] # 0
           /\ f.pc \in {"sw_save", "sw_jump"} => f.sp = stack_pointer'[current']
           /\ f.pc = "sw_jump" =>
                stack_pointer'[rsp] = [owner |-> rsp, level |-> SwitchLevel],
         ~load.outlasts => /\ depth[rsp] = 2 => ~irr'
                           /\ irr' \/ f.pc \in {"eoi", "handler"} =>
                                ticks_since_switch' < SCHED_TIME_SLICE_TICKS - 1
  PROVE  CtxInv'
  <1>1. /\ 1 \in Level /\ 2 \in Level /\ SwitchLevel \in {1, 2}
        /\ rsp \in All /\ depth[rsp] \in {1, 2} /\ depth \in [All -> 0..MaxFrames]
        /\ SwitchLevel > depth[rsp] => current = rsp
    BY RunningFacts
  <1>2. /\ frame'[rsp][depth[rsp]] = f
        /\ \A t \in All, l \in Level:
             t # rsp \/ l # depth[rsp] => frame'[t][l] = frame[t][l]
    BY TopStep
  <1>3. Top' = f /\ SwitchLevel' = SwitchLevel /\ Resumed' = Resumed
    BY <1>2 DEF Top, SwitchLevel, Resumed
  <1>4. SuspendedOK'
    <2> SUFFICES ASSUME NEW t \in All \ {rsp}, depth[t] # 0
                 PROVE  Suspended(t)'
      BY DEF SuspendedOK
    <2>1. Suspended(t)
      BY DEF CtxInv, SuspendedOK
    <2> QED
      BY <1>1, <1>2, <1>3, <2>1 DEF Suspended
  <1>5. FlagOK'
    BY <1>1, <1>3 DEF FlagOK
  <1>6. SwitchOK'
    <2>1. CASE depth[rsp] = SwitchLevel
      <3>1. frame'[rsp][SwitchLevel] = f /\ SwitchLevel <= depth[rsp]
        BY <1>1, <1>2, <2>1
      <3>2. \A l \in Level: l <= depth'[rsp] /\ frame'[rsp][l].pc \in SwitchPC
                               => l = SwitchLevel
        <4> SUFFICES ASSUME NEW l \in Level, l <= depth[rsp], frame'[rsp][l].pc \in SwitchPC,
                            l # SwitchLevel
                     PROVE  FALSE
          OBVIOUS
        <4>1. frame'[rsp][l] = frame[rsp][l]
          BY <1>1, <1>2, <2>1
        <4> QED
          BY <4>1 DEF CtxInv, SwitchOK
      <3> QED
        BY <1>3, <2>1, <3>1, <3>2 DEF SwitchOK
    <2>2. CASE depth[rsp] # SwitchLevel
      <3>1. frame'[rsp][SwitchLevel] = frame[rsp][SwitchLevel]
        BY <1>1, <1>2, <2>2
      <3>2. \A l \in Level: l <= depth'[rsp] /\ frame'[rsp][l].pc \in SwitchPC
                               => l = SwitchLevel
        <4> SUFFICES ASSUME NEW l \in Level, l <= depth[rsp], frame'[rsp][l].pc \in SwitchPC
                     PROVE  l = SwitchLevel
          OBVIOUS
        <4>1. l # depth[rsp] /\ frame'[rsp][l] = frame[rsp][l]
          BY <1>1, <1>2, <2>2
        <4> QED
          BY <4>1 DEF CtxInv, SwitchOK
      <3> QED
        BY <1>3, <2>2, <3>1, <3>2 DEF CtxInv, SwitchOK
    <2> QED
      BY <2>1, <2>2
  <1>7. TickOK'
    BY <1>1, <1>3 DEF TickOK
  <1> QED
    BY <1>4, <1>5, <1>6, <1>7 DEF CtxInv

(* The steps of the spinlock. *)
LEMMA IrqSaveCtx ==
  ASSUME IInv, CtxInv,
         NEW p \in {"add_cli", "sw_cli"}, NEW q \in {"add_acquire", "sw_acquire"},
         p = "add_cli" <=> q = "add_acquire",
         IrqSave(p, q)
  PROVE  CtxInv'
  <1> DEFINE f == [Top EXCEPT !.pc = q, !.flags = ief]
  <1>1. /\ Top.pc = p /\ SetTop(f) /\ ~ief'
        /\ UNCHANGED <<current, ticks_since_switch, stack_pointer, depth, rsp, irr, load, wild>>
    BY DEF IrqSave, At, ring, lapic
  <1>2. /\ f \in Frame /\ f.pc = q /\ (f.flags <=> ief)
        /\ f.prev = Top.prev /\ f.nxt = Top.nxt /\ f.sp = Top.sp
    BY TopFacts, FrameTypes DEF IInv, TypeOK, Frame, PC, AddPC, SwitchPC
  <1>3. /\ depth[rsp] = 1 => ief
        /\ depth[rsp] = 2 => ~ief
    BY <1>1 DEF CtxInv, FlagOK, Open
  <1>4. ~load.outlasts /\ irr' => ticks_since_switch' < SCHED_TIME_SLICE_TICKS - 1
    BY <1>1 DEF CtxInv, TickOK
  <1>5. ~load.outlasts /\ depth[rsp] = 2 => ~irr'
    BY <1>1 DEF CtxInv, TickOK
  <1> HIDE DEF f
  <1>6. p = "sw_cli" => depth[rsp] = SwitchLevel /\ current = rsp
    BY <1>1, RunningFacts DEF SwitchPC, Unpicked
  <1>7. depth[rsp] = SwitchLevel /\ p # "sw_cli" => current = rsp
    BY <1>1, RunningFacts DEF SwitchPC
  <1> QED
    BY <1>1, <1>2, <1>3, <1>4, <1>5, <1>6, <1>7, RunningFacts, FrameStep
       DEF SwitchPC, IsrPC, AddPC, Open, Saved, Unpicked, Picked, Leaving

(* spinlock_acquire and spinlock_release leave the flags alone. *)
LEMMA LockCtx ==
  ASSUME IInv, CtxInv,
         NEW p, NEW q,
         <<p, q>> \in {<<"add_acquire", "add_link">>, <<"sw_acquire", "sw_pick">>,
                       <<"add_release", "add_restore">>, <<"sw_release", "sw_restore">>},
         Top.pc = p, Goto(q), UNCHANGED <<ring, ticks_since_switch, stack_pointer, depth, cpu,
                                          lapic, load, wild>>
  PROVE  CtxInv'
  <1> DEFINE f == [Top EXCEPT !.pc = q]
  <1>0. q \in {"add_link", "sw_pick", "add_restore", "sw_restore"}
    OBVIOUS
  <1>1. /\ SetTop(f)
        /\ UNCHANGED <<current, ticks_since_switch, stack_pointer, depth, rsp, ief, irr,
                       load, wild>>
    BY DEF Goto, ring, cpu, lapic
  <1>2. /\ f \in Frame /\ f.pc = q /\ f.flags = Top.flags
        /\ f.prev = Top.prev /\ f.nxt = Top.nxt /\ f.sp = Top.sp
    BY <1>0, TopFacts, FrameTypes DEF Frame, PC, AddPC, SwitchPC
  <1>3. /\ depth[rsp] = 1 => Top.flags
        /\ depth[rsp] = 2 => ~ief /\ ~Top.flags
    BY DEF CtxInv, FlagOK, Saved
  <1>4. ~load.outlasts => /\ irr' => ticks_since_switch' < SCHED_TIME_SLICE_TICKS - 1
                          /\ depth[rsp] = 2 => ~irr'
    BY <1>1 DEF CtxInv, TickOK
  <1> HIDE DEF f
  <1>5. q \in SwitchPC => depth[rsp] = SwitchLevel
    BY <1>0, RunningFacts DEF SwitchPC
  <1>6. depth[rsp] = SwitchLevel =>
          /\ q \notin SwitchPC \/ q \in Unpicked => current = rsp
          /\ q \in Picked => Top.prev = rsp /\ Top.nxt = current
    BY <1>0, RunningFacts DEF SwitchPC, IsrPC, AddPC, Open, Saved, Unpicked, Picked, Leaving
  <1> QED
    BY <1>0, <1>1, <1>2, <1>3, <1>4, <1>5, <1>6, RunningFacts, FrameStep
       DEF SwitchPC, IsrPC, AddPC, Open, Saved, Unpicked, Picked, Leaving

(* restore_interrupt_state turns interrupts on again for the thread's own code. *)
LEMMA IrqRestoreCtx ==
  ASSUME IInv, CtxInv,
         NEW p \in {"add_restore", "sw_restore"}, NEW q \in {"code", "sw_reset"},
         p = "add_restore" <=> q = "code",
         IrqRestore(p, q)
  PROVE  CtxInv'
  <1> DEFINE f == [Top EXCEPT !.pc = q, !.flags = FALSE, !.arg = None]
  <1>1. /\ Top.pc = p /\ SetTop(f) /\ ief' = Top.flags
        /\ UNCHANGED <<current, ticks_since_switch, stack_pointer, depth, rsp, irr, load, wild>>
    BY DEF IrqRestore, At, ring, lapic
  <1>2. /\ f \in Frame /\ f.pc = q
        /\ f.prev = Top.prev /\ f.nxt = Top.nxt /\ f.sp = Top.sp
    <2>1. Top \in Frame /\ q \in PC
      BY TopFacts DEF PC, CodePC, SwitchPC
    <2>2. f \in Frame
      BY <2>1, FrameTypes
    <2> QED
      BY <2>1, <2>2 DEF Frame
  <1>3. /\ depth[rsp] = 1 => Top.flags
        /\ depth[rsp] = 2 => ~Top.flags
    BY <1>1 DEF CtxInv, FlagOK, Saved
  <1>4. ~load.outlasts => /\ irr' => ticks_since_switch' < SCHED_TIME_SLICE_TICKS - 1
                          /\ depth[rsp] = 2 => ~irr'
    BY <1>1 DEF CtxInv, TickOK
  <1> HIDE DEF f
  <1>5. q \in SwitchPC => depth[rsp] = SwitchLevel
    BY <1>1, RunningFacts DEF SwitchPC
  <1>6. depth[rsp] = SwitchLevel =>
          /\ q \notin SwitchPC \/ q \in Unpicked => current = rsp
          /\ q \in Picked => Top.prev = rsp /\ Top.nxt = current
    BY <1>1, RunningFacts DEF SwitchPC, IsrPC, AddPC, Open, Saved, Unpicked, Picked, Leaving
  <1> QED
    BY <1>1, <1>2, <1>3, <1>4, <1>5, <1>6, RunningFacts, FrameStep
       DEF SwitchPC, IsrPC, AddPC, Open, Saved, Unpicked, Picked, Leaving

(* A step of the innermost frame from p to q that is not one of the spinlock's and *)
(* only moves the pc.                                                             *)
LEMMA GotoCtx ==
  ASSUME IInv, CtxInv, NEW p, NEW q,
         <<p, q>> \in {<<"eoi", "handler">>, <<"handler", "iret">>, <<"handler", "sw_cli">>,
                       <<"boot", "code">>, <<"new", "code">>, <<"code", "sw_cli">>,
                       <<"add_link", "add_splice">>, <<"add_splice", "add_release">>},
         Top.pc = p, Goto(q),
         UNCHANGED <<current, stack_pointer, depth, rsp, irr, load, wild>>,
         q = "code" => ief',
         q # "code" => (ief' <=> ief),
         q = "sw_cli" => depth[rsp] = SwitchLevel,
         p # "handler" => ticks_since_switch' = ticks_since_switch
  PROVE  CtxInv'
  <1> DEFINE f == [Top EXCEPT !.pc = q]
  <1>0. /\ q \in {"handler", "iret", "sw_cli", "code", "add_splice", "add_release"}
        /\ p \in {"eoi", "handler", "boot", "new", "code", "add_link", "add_splice"}
        /\ p \in {"eoi", "handler"} <=> q \in {"handler", "iret"} \/ (p = "handler" /\ q = "sw_cli")
    OBVIOUS
  <1>1. SetTop(f)
    BY DEF Goto
  <1>2. /\ f \in Frame /\ f.pc = q /\ f.flags = Top.flags
    <2>1. Top \in Frame /\ q \in PC
      BY <1>0, TopFacts DEF PC, CodePC, SwitchPC, IsrPC, AddPC
    <2>2. f \in Frame
      BY <2>1, FrameTypes
    <2> QED
      BY <2>1, <2>2 DEF Frame
  <1> HIDE DEF f
  <1>3. depth[rsp] = 2 <=> p \in {"eoi", "handler"}
    BY <1>0, RunningFacts DEF SwitchPC, IsrPC, AddPC, Open, Saved, Unpicked, Picked, Leaving
  <1>4. /\ depth[rsp] = 1 => /\ q \in Open => ief'
                             /\ q \in Saved => Top.flags
        /\ depth[rsp] = 2 => ~ief'
    BY <1>0, <1>3 DEF CtxInv, FlagOK, Open, Saved
  <1>5. depth[rsp] = SwitchLevel => current = rsp
    BY <1>0, RunningFacts DEF SwitchPC, IsrPC, AddPC, Open, Saved, Unpicked, Picked, Leaving
  <1>6. ~load.outlasts => /\ depth[rsp] = 2 => ~irr'
                          /\ irr' \/ q \in {"eoi", "handler"} =>
                               ticks_since_switch' < SCHED_TIME_SLICE_TICKS - 1
    BY <1>0, <1>3 DEF CtxInv, TickOK
  <1> QED
    BY <1>0, <1>1, <1>2, <1>3, <1>4, <1>5, <1>6, RunningFacts, FrameStep
       DEF SwitchPC, IsrPC, AddPC, Open, Saved, Unpicked, Picked, Leaving

(* isr_dispatch. Where threads yield, a tick never ends the slice. *)
LEMMA HandlerCtx ==
  ASSUME IInv, CtxInv, Eoi \/ TickHandler
  PROVE  CtxInv'
  <1>1. CASE Eoi
    BY <1>1, GotoCtx DEF Eoi, At, Dispatch, ring, cpu
  <1>2. CASE TickHandler
    <2>1. /\ Top.pc = "handler" /\ ticks_since_switch' = ticks_since_switch + 1
          /\ UNCHANGED <<current, stack_pointer, depth, rsp, ief, irr, load, wild>>
          /\ Goto(IF ticks_since_switch' >= SCHED_TIME_SLICE_TICKS THEN "sw_cli" ELSE "iret")
      BY <1>2 DEF TickHandler, At, Dispatch, ring, cpu, lapic
    <2>2. depth[rsp] = 2
      BY <2>1, RunningFacts DEF IsrPC
    <2>3. CASE ticks_since_switch' >= SCHED_TIME_SLICE_TICKS
      <3>1. load.outlasts
        BY <2>1, <2>3, SchedAssumption DEF CtxInv, TickOK, IInv, TypeOK
      <3>2. depth[rsp] = SwitchLevel
        BY <2>2, <3>1 DEF SwitchLevel
      <3> QED
        BY <2>1, <2>3, <3>2, GotoCtx
    <2>4. CASE ~(ticks_since_switch' >= SCHED_TIME_SLICE_TICKS)
      BY <2>1, <2>4, GotoCtx
    <2> QED
      BY <2>3, <2>4
  <1> QED
    BY <1>1, <1>2

(* The steps of thread code. *)
LEMMA CodeCtx ==
  ASSUME Pure, IInv, CtxInv, EnableInterrupts \/ Trampoline \/ Yield
  PROVE  CtxInv'
  <1>1. CASE EnableInterrupts
    <2>1. /\ Top.pc = "boot" /\ Goto("code") /\ ief'
          /\ UNCHANGED <<current, ticks_since_switch, stack_pointer, depth, rsp, irr,
                         load, wild>>
      BY <1>1 DEF EnableInterrupts, At, ring, lapic
    <2> QED
      BY <2>1, GotoCtx
  <1>2. CASE Trampoline
    <2>1. /\ Top.pc = "new" /\ Goto("code") /\ ief'
          /\ UNCHANGED <<current, ticks_since_switch, stack_pointer, depth, rsp, irr,
                         load, wild>>
      BY <1>2 DEF Trampoline, At, ring, lapic
    <2> QED
      BY <2>1, GotoCtx
  <1>3. CASE Yield
    <2>1. /\ Top.pc = "code" /\ rsp \in load.yielders /\ Goto("sw_cli")
          /\ UNCHANGED <<current, ticks_since_switch, stack_pointer, depth, rsp, ief, irr,
                         load, wild>>
      BY <1>3 DEF Yield, At, ring, cpu, lapic
    <2>2. ~load.outlasts
      BY <2>1 DEF Pure, IInv, TypeOK, Load
    <2>3. depth[rsp] = SwitchLevel
      BY <2>1, <2>2, RunningFacts DEF SwitchLevel, SwitchPC, IsrPC
    <2> QED
      BY <2>1, <2>3, GotoCtx
  <1> QED
    BY <1>1, <1>2, <1>3

(* sched_add_thread's two writes to the ring. *)
LEMMA LinkCtx ==
  ASSUME IInv, CtxInv, Link \/ Splice
  PROVE  CtxInv'
  BY GotoCtx DEF Link, Splice, At, cpu, lapic

(* switch_to_next reads the ring and saves what it will need. *)
LEMMA PickNextCtx ==
  ASSUME IInv, CtxInv, PickNext
  PROVE  CtxInv'
  <1> DEFINE f == [Top EXCEPT !.pc = "sw_release", !.prev = current, !.nxt = next[current]]
  <1>1. /\ Top.pc = "sw_pick" /\ SetTop(f) /\ current' = next[current]
        /\ UNCHANGED <<ticks_since_switch, stack_pointer, depth, rsp, ief, irr, load, wild>>
    BY DEF PickNext, At, cpu, lapic
  <1>2. current = rsp /\ depth[rsp] = SwitchLevel
    BY <1>1, RunningFacts DEF SwitchPC, Unpicked
  <1>3. current \in All /\ next[current] \in All
    BY RunningFacts DEF IInv, RingIntact, InRing
  <1>4. /\ f \in Frame /\ f.pc = "sw_release" /\ f.flags = Top.flags
        /\ f.prev = current /\ f.nxt = next[current]
    BY <1>3, TopFacts DEF Frame, PC, SwitchPC
  <1>5. /\ depth[rsp] = 1 => Top.flags
        /\ depth[rsp] = 2 => ~ief /\ ~Top.flags
    BY <1>1 DEF CtxInv, FlagOK, Saved
  <1>6. ~load.outlasts => /\ irr' => ticks_since_switch' < SCHED_TIME_SLICE_TICKS - 1
                          /\ depth[rsp] = 2 => ~irr'
    BY <1>1 DEF CtxInv, TickOK
  <1> HIDE DEF f
  <1> QED
    BY <1>1, <1>2, <1>3, <1>4, <1>5, <1>6, RunningFacts, FrameStep
       DEF SwitchPC, IsrPC, AddPC, Open, Saved, Unpicked, Picked, Leaving

(* switch_to_next returns at once when the thread is alone in the ring. *)
LEMMA ResetTicksCtx ==
  ASSUME IInv, CtxInv, ResetTicks
  PROVE  CtxInv'
  <1> DEFINE f == IF Top.nxt # Top.prev THEN [Top EXCEPT !.pc = "sw_load"]
                                        ELSE FrameAt(Return)
  <1>1. /\ Top.pc = "sw_reset" /\ SetTop(f) /\ ticks_since_switch' = 0
        /\ UNCHANGED <<current, stack_pointer, depth, rsp, ief, irr, load, wild>>
    BY DEF ResetTicks, At, ring, cpu, lapic
  <1>2. /\ depth[rsp] = SwitchLevel /\ Top.prev = rsp /\ Top.nxt = current
        /\ depth[current] # 0 /\ current \in All
    BY <1>1, RunningFacts DEF SwitchPC, Picked
  <1>3. /\ depth[rsp] = 1 => ief
        /\ depth[rsp] = 2 => ~ief
    BY <1>1 DEF CtxInv, FlagOK, Open
  <1>4. ~load.outlasts => /\ irr' => ticks_since_switch' < SCHED_TIME_SLICE_TICKS - 1
                          /\ depth[rsp] = 2 => ~irr'
    BY <1>1, SchedAssumption DEF CtxInv, TickOK, IInv, TypeOK
  <1>5. CASE Top.nxt # Top.prev
    <2>1. f \in Frame /\ f.pc = "sw_load" /\ f.prev = rsp /\ f.nxt = current
      BY <1>2, <1>5, TopFacts, FrameTypes DEF Frame, PC, SwitchPC
    <2> HIDE DEF f
    <2> QED
      BY <1>1, <1>2, <1>3, <1>4, <1>5, <2>1, RunningFacts, FrameStep
         DEF SwitchPC, IsrPC, AddPC, Open, Saved, Unpicked, Picked, Leaving
  <1>6. CASE Top.nxt = Top.prev
    <2>1. f = FrameAt(Return)
      BY <1>6
    <2> HIDE DEF f
    <2>2. /\ f \in Frame /\ depth[rsp] = 1 => f.pc = "code"
          /\ depth[rsp] # 1 => f.pc = "iret"
      BY <1>1, <2>1, ReturnFacts DEF SwitchPC
    <2>3. f \in Frame
      BY <1>1, <2>1, ReturnFacts DEF SwitchPC
    <2> QED
      BY <1>1, <1>2, <1>3, <1>4, <1>6, <2>2, <2>3, RunningFacts, FrameStep
         DEF SwitchPC, IsrPC, AddPC, Open, Saved, Unpicked, Picked, Leaving
  <1> QED
    BY <1>5, <1>6

(* The next thread's context is read into a register of the outgoing one. *)
LEMMA LoadArgumentCtx ==
  ASSUME IInv, CtxInv, LoadArgument
  PROVE  CtxInv'
  <1> DEFINE f == [Top EXCEPT !.pc = "sw_save", !.sp = stack_pointer[Top.nxt]]
  <1>1. /\ Top.pc = "sw_load" /\ SetTop(f)
        /\ UNCHANGED <<current, ticks_since_switch, stack_pointer, depth, rsp, ief, irr,
                       load, wild>>
    BY DEF LoadArgument, At, ring, cpu, lapic
  <1>2. /\ depth[rsp] = SwitchLevel /\ Top.prev = rsp /\ Top.nxt = current
        /\ current # rsp /\ depth[current] # 0 /\ current \in All
    BY <1>1, RunningFacts DEF SwitchPC, Picked, Leaving
  <1>3. /\ depth[rsp] = 1 => ief
        /\ depth[rsp] = 2 => ~ief
    BY <1>1 DEF CtxInv, FlagOK, Open
  <1>4. ~load.outlasts => /\ irr' => ticks_since_switch' < SCHED_TIME_SLICE_TICKS - 1
                          /\ depth[rsp] = 2 => ~irr'
    BY <1>1 DEF CtxInv, TickOK
  <1>5. stack_pointer[Top.nxt] \in Context \cup {None}
    BY <1>2 DEF IInv, TypeOK
  <1>6. /\ f \in Frame /\ f.pc = "sw_save" /\ f.prev = rsp /\ f.nxt = current
        /\ f.sp = stack_pointer[current]
    BY <1>2, <1>5, TopFacts DEF Frame, PC, SwitchPC
  <1> HIDE DEF f
  <1> QED
    BY <1>1, <1>2, <1>3, <1>4, <1>6, RunningFacts, FrameStep
       DEF SwitchPC, IsrPC, AddPC, Open, Saved, Unpicked, Picked, Leaving

(* The outgoing thread's own stack_pointer, and no other, is written. *)
LEMMA SaveContextCtx ==
  ASSUME IInv, CtxInv, SaveContext
  PROVE  CtxInv'
  <1> DEFINE f == [Top EXCEPT !.pc = "sw_jump"]
  <1>1. /\ Top.pc = "sw_save" /\ SetTop(f)
        /\ stack_pointer' = [stack_pointer EXCEPT
                               ![Top.prev] = [owner |-> rsp, level |-> depth[rsp]]]
        /\ UNCHANGED <<current, ticks_since_switch, depth, rsp, ief, irr, load, wild>>
    BY DEF SaveContext, At, Goto, ring, cpu, lapic
  <1>2. /\ depth[rsp] = SwitchLevel /\ Top.prev = rsp /\ Top.nxt = current
        /\ current # rsp /\ depth[current] # 0 /\ current \in All /\ rsp \in All
        /\ Top.sp = stack_pointer[current]
    BY <1>1, RunningFacts DEF SwitchPC, Picked, Leaving
  <1>3. /\ depth[rsp] = 1 => ief
        /\ depth[rsp] = 2 => ~ief
    BY <1>1 DEF CtxInv, FlagOK, Open
  <1>4. ~load.outlasts => /\ irr' => ticks_since_switch' < SCHED_TIME_SLICE_TICKS - 1
                          /\ depth[rsp] = 2 => ~irr'
    BY <1>1 DEF CtxInv, TickOK
  <1>5. /\ stack_pointer'[rsp] = [owner |-> rsp, level |-> SwitchLevel]
        /\ \A t \in All \ {rsp}: stack_pointer'[t] = stack_pointer[t]
    BY <1>1, <1>2 DEF IInv, TypeOK
  <1>6. /\ f \in Frame /\ f.pc = "sw_jump" /\ f.prev = rsp /\ f.nxt = current
        /\ f.sp = stack_pointer[current]
    BY <1>2, TopFacts, FrameTypes DEF Frame, PC, SwitchPC
  <1> HIDE DEF f
  <1>7. UNCHANGED <<current, ticks_since_switch, depth, rsp, ief, irr, load, wild>> /\ SetTop(f)
    BY <1>1
  <1> QED
    BY <1>2, <1>3, <1>4, <1>5, <1>6, <1>7, RunningFacts, FrameStep
       DEF SwitchPC, IsrPC, AddPC, Open, Saved, Unpicked, Picked, Leaving

(* A suspended stack stays so while nothing of it is written. *)
LEMMA SuspendedKept ==
  ASSUME NEW t \in All, Suspended(t), IInv, load' = load, depth'[t] = depth[t],
         stack_pointer'[t] = stack_pointer[t],
         \A l \in Level: frame'[t][l] = frame[t][l]
  PROVE  Suspended(t)'
  <1>1. 1 \in Level /\ SwitchLevel \in Level
    BY SchedAssumption DEF Level, SwitchLevel
  <1>2. SwitchLevel' = SwitchLevel /\ Resumed' = Resumed
    BY DEF SwitchLevel, Resumed
  <1> QED
    BY <1>1, <1>2 DEF Suspended

(* The timer only requests: where threads yield, while a slice has time left. *)
LEMMA TickCtx ==
  ASSUME IInv, CtxInv, Tick
  PROVE  CtxInv'
  <1>1. UNCHANGED <<current, ticks_since_switch, stack_pointer, depth, frame, rsp, ief,
                    load, wild>>
    BY DEF Tick, ring, cpu
  <1>2. ~load.outlasts => /\ depth[rsp] = 1
                          /\ ticks_since_switch < SCHED_TIME_SLICE_TICKS - 1
    BY DEF Tick
  <1>3. SwitchLevel' = SwitchLevel /\ Resumed' = Resumed /\ Top' = Top
    BY <1>1 DEF SwitchLevel, Resumed, Top
  <1>4. SuspendedOK'
    BY <1>1, <1>3 DEF CtxInv, SuspendedOK, Suspended
  <1>5. FlagOK' /\ SwitchOK'
    BY <1>1, <1>3 DEF CtxInv, FlagOK, SwitchOK
  <1>6. TickOK'
    BY <1>1, <1>2 DEF TickOK
  <1> QED
    BY <1>1, <1>4, <1>5, <1>6 DEF CtxInv

(* An interrupt is taken only over a thread's own code. *)
LEMMA InterruptCtx ==
  ASSUME IInv, CtxInv, Interrupt
  PROVE  CtxInv'
  <1> DEFINE f == FrameAt("eoi")
  <1>1. /\ 1 \in Level /\ 2 \in Level /\ SwitchLevel \in {1, 2} /\ rsp \in All
        /\ depth \in [All -> 0..MaxFrames] /\ frame \in [All -> [Level -> Frame]]
    BY RunningFacts
  <1>2. depth[rsp] = 1
    BY RunningFacts DEF Interrupt, CtxInv, FlagOK
  <1>3. /\ irr /\ ~irr' /\ ~ief'
        /\ UNCHANGED <<current, ticks_since_switch, stack_pointer, rsp, load, wild>>
    BY DEF Interrupt, ring
  <1>4. f.pc = "eoi" /\ ~f.flags
    BY DEF FrameAt
  <1>5. depth' = [depth EXCEPT ![rsp] = 2] /\ frame' = [frame EXCEPT ![rsp][2] = f]
    BY <1>1, <1>2 DEF Interrupt, Dispatch
  <1> HIDE DEF f
  <1>6. /\ depth'[rsp] = 2
        /\ frame'[rsp][2] = f
        /\ \A t \in All: t # rsp => depth'[t] = depth[t]
        /\ \A t \in All, l \in Level: t # rsp \/ l # 2 => frame'[t][l] = frame[t][l]
    BY <1>1, <1>5
  <1>7. Top' = f /\ SwitchLevel' = SwitchLevel
    BY <1>3, <1>6 DEF Top, SwitchLevel
  <1>8. SuspendedOK'
    <2> SUFFICES ASSUME NEW t \in All \ {rsp}, depth'[t] # 0
                 PROVE  Suspended(t)'
      BY <1>3 DEF SuspendedOK
    <2>1. Suspended(t)
      BY <1>6 DEF CtxInv, SuspendedOK
    <2> QED
      BY <1>3, <1>6, <2>1, SuspendedKept
  <1>9. FlagOK'
    BY <1>3, <1>4, <1>6, <1>7 DEF FlagOK, Saved
  <1>10. SwitchOK'
    <2>1. \A l \in Level: l <= depth'[rsp] /\ frame'[rsp][l].pc \in SwitchPC
                             => l = SwitchLevel
      <3> SUFFICES ASSUME NEW l \in Level, l <= 2, frame'[rsp][l].pc \in SwitchPC
                   PROVE  l = SwitchLevel
        BY <1>6
      <3>1. l # 2
        BY <1>4, <1>6 DEF SwitchPC
      <3>2. l <= depth[rsp] /\ frame'[rsp][l] = frame[rsp][l]
        BY <1>1, <1>2, <1>6, <3>1 DEF Level
      <3> QED
        BY <3>2 DEF CtxInv, SwitchOK
    <2>2. CASE SwitchLevel = 1
      <3>1. frame'[rsp][SwitchLevel] = frame[rsp][SwitchLevel]
            /\ SwitchLevel <= depth[rsp] /\ SwitchLevel <= depth'[rsp]
        BY <1>1, <1>2, <1>6, <2>2
      <3>2. depth[current] # 0 => depth'[current] # 0
        BY <1>6, RunningFacts
      <3> QED
        BY <1>3, <1>7, <2>1, <3>1, <3>2 DEF CtxInv, SwitchOK
    <2>3. CASE SwitchLevel = 2
      <3>1. frame'[rsp][SwitchLevel].pc = "eoi" /\ current = rsp
        BY <1>1, <1>2, <1>4, <1>6, <2>3, RunningFacts
      <3>2. frame'[rsp][SwitchLevel].pc \notin SwitchPC
        BY <3>1 DEF SwitchPC
      <3> QED
        BY <1>3, <1>7, <2>1, <3>1, <3>2 DEF SwitchOK
    <2> QED
      BY <1>1, <2>2, <2>3
  <1>11. TickOK'
    BY <1>3 DEF CtxInv, TickOK
  <1> QED
    BY <1>3, <1>8, <1>9, <1>10, <1>11 DEF CtxInv

(* iretq goes back to the interrupted code, which had interrupts on. *)
LEMMA IretCtx ==
  ASSUME IInv, CtxInv, Iret
  PROVE  CtxInv'
  <1> DEFINE f == FrameAt("new")
  <1>1. /\ 1 \in Level /\ 2 \in Level /\ SwitchLevel \in {1, 2} /\ rsp \in All
        /\ depth \in [All -> 0..MaxFrames] /\ frame \in [All -> [Level -> Frame]]
    BY RunningFacts
  <1>2. /\ Top.pc = "iret" /\ ief'
        /\ UNCHANGED <<current, ticks_since_switch, stack_pointer, rsp, irr, load, wild>>
    BY DEF Iret, At, ring, lapic
  <1>3. depth[rsp] = 2
    BY <1>2, RunningFacts DEF IsrPC
  <1>4. depth' = [depth EXCEPT ![rsp] = 1] /\ frame' = [frame EXCEPT ![rsp][2] = f]
    BY <1>1, <1>3 DEF Iret, SetTop
  <1> HIDE DEF f
  <1>5. /\ depth'[rsp] = 1
        /\ \A t \in All: t # rsp => depth'[t] = depth[t]
        /\ \A t \in All, l \in Level: t # rsp \/ l # 2 => frame'[t][l] = frame[t][l]
    BY <1>1, <1>4
  <1>6. Top' = frame[rsp][1] /\ SwitchLevel' = SwitchLevel
    BY <1>1, <1>2, <1>5 DEF Top, SwitchLevel
  <1>7. SuspendedOK'
    <2> SUFFICES ASSUME NEW t \in All \ {rsp}, depth'[t] # 0
                 PROVE  Suspended(t)'
      BY <1>2 DEF SuspendedOK
    <2>1. Suspended(t)
      BY <1>5 DEF CtxInv, SuspendedOK
    <2> QED
      BY <1>2, <1>5, <2>1, SuspendedKept
  <1>8. frame[rsp][1].pc \notin Masked /\ frame[rsp][1].pc \notin IsrPC
    BY <1>1, <1>3 DEF IInv, FramesOK
  <1>9. FlagOK'
    BY <1>2, <1>5, <1>6, <1>8 DEF FlagOK, Saved, Masked, Holding
  <1>10. SwitchOK'
    <2>1. \A l \in Level: l <= depth'[rsp] /\ frame'[rsp][l].pc \in SwitchPC
                             => l = SwitchLevel
      <3> SUFFICES ASSUME NEW l \in Level, l <= 1, frame'[rsp][l].pc \in SwitchPC
                   PROVE  l = SwitchLevel
        BY <1>5
      <3>1. l <= depth[rsp] /\ frame'[rsp][l] = frame[rsp][l]
        BY <1>1, <1>3, <1>5 DEF Level
      <3> QED
        BY <3>1 DEF CtxInv, SwitchOK
    <2>2. CASE SwitchLevel = 1
      <3>1. frame'[rsp][SwitchLevel] = frame[rsp][SwitchLevel]
            /\ SwitchLevel <= depth[rsp] /\ SwitchLevel <= depth'[rsp]
        BY <1>1, <1>3, <1>5, <2>2
      <3>2. depth[current] # 0 => depth'[current] # 0
        BY <1>5, RunningFacts
      <3> QED
        BY <1>2, <1>6, <2>1, <3>1, <3>2 DEF CtxInv, SwitchOK
    <2>3. CASE SwitchLevel = 2
      <3>1. current = rsp
        BY <1>2, <1>3, <2>3, RunningFacts DEF SwitchPC
      <3>2. ~(SwitchLevel <= depth'[rsp])
        BY <1>5, <2>3
      <3> QED
        BY <1>2, <1>6, <2>1, <3>1, <3>2 DEF SwitchOK
    <2> QED
      BY <1>1, <2>2, <2>3
  <1>11. TickOK'
    BY <1>2, <1>5, <1>6, <1>8 DEF CtxInv, TickOK, IsrPC
  <1> QED
    BY <1>2, <1>7, <1>9, <1>10, <1>11 DEF CtxInv

(* context_switch lands on the stack that `current` names, at its innermost frame, *)
(* and leaves the outgoing stack ready to be resumed in the same way.             *)
LEMMA JumpCtx ==
  ASSUME IInv, CtxInv, Jump
  PROVE  CtxInv'
  <1> DEFINE f == FrameAt(Return)
  <1>1. /\ 1 \in Level /\ 2 \in Level /\ SwitchLevel \in {1, 2} /\ rsp \in All
        /\ depth \in [All -> 0..MaxFrames] /\ frame \in [All -> [Level -> Frame]]
        /\ current \in All /\ depth[current] # 0
    BY RunningFacts
  <1>2. /\ Top.pc = "sw_jump"
        /\ UNCHANGED <<current, ticks_since_switch, stack_pointer, depth, ief, irr, load>>
    BY DEF Jump, At, ring, lapic
  <1>3. /\ depth[rsp] = SwitchLevel /\ current # rsp
        /\ Top.sp = stack_pointer[current]
        /\ stack_pointer[rsp] = [owner |-> rsp, level |-> depth[rsp]]
    BY <1>2, RunningFacts DEF SwitchPC, Leaving
  <1>4. Suspended(current)
    BY <1>1, <1>3 DEF CtxInv, SuspendedOK
  <1>5. Top.sp = [owner |-> current, level |-> depth[current]]
    BY <1>3, <1>4 DEF Suspended
  <1>6. Resumable(Top.sp)
    <2>1. depth[current] \in Level
      BY <1>1 DEF Level
    <2>2. Top.sp # None
      BY <1>1, <1>5, <2>1, SchedAssumption DEF Context
    <2> QED
      BY <1>3, <1>5, <2>2 DEF Resumable
  <1>7. rsp' = current /\ SetTop(f) /\ wild' = wild
    BY <1>5, <1>6 DEF Jump
  <1>8. f \in Frame /\ f.pc = Resumed
    BY <1>1, <1>2, <1>3, ReturnFacts DEF SwitchPC, SwitchLevel, Resumed
  <1> HIDE DEF f
  <1>9. /\ frame'[rsp][depth[rsp]] = f
        /\ \A t \in All, l \in Level:
             t # rsp \/ l # depth[rsp] => frame'[t][l] = frame[t][l]
    BY <1>7, <1>8, TopStep
  <1>10. SwitchLevel' = SwitchLevel /\ Resumed' = Resumed /\ SwitchLevel \in Level
         /\ Resumed \notin SwitchPC
    BY <1>1, <1>2 DEF SwitchLevel, Resumed, SwitchPC
  <1>11. ASSUME NEW r \in All, r = rsp PROVE Suspended(r)'
    <2>1. \A l \in Level: l <= depth[rsp] => frame'[rsp][l].pc \notin SwitchPC
      <3> SUFFICES ASSUME NEW l \in Level, l <= depth[rsp], l # depth[rsp]
                   PROVE  frame[rsp][l].pc \notin SwitchPC
        BY <1>1, <1>8, <1>9, <1>10
      <3> QED
        BY <1>3 DEF CtxInv, SwitchOK
    <2>2. depth'[rsp] = SwitchLevel /\ frame'[rsp][SwitchLevel].pc = Resumed
      BY <1>2, <1>3, <1>8, <1>9
    <2>3. stack_pointer'[rsp] = [owner |-> rsp, level |-> depth[rsp]] /\ depth' = depth
      BY <1>2, <1>3
    <2> QED
      BY <1>10, <1>11, <2>1, <2>2, <2>3 DEF Suspended
  <1>12. SuspendedOK'
    <2> SUFFICES ASSUME NEW t \in All \ {current}, depth[t] # 0, t # rsp
                 PROVE  Suspended(t)'
      BY <1>2, <1>7, <1>11 DEF SuspendedOK
    <2>1. Suspended(t)
      BY DEF CtxInv, SuspendedOK
    <2> QED
      BY <1>2, <1>9, <2>1, SuspendedKept
  <1>13. /\ Top' = frame[current][depth[current]]
         /\ \A l \in Level: frame'[current][l] = frame[current][l]
    <2>1. \A l \in Level: frame'[current][l] = frame[current][l]
      BY <1>1, <1>3, <1>9
    <2>2. depth[current] \in Level
      BY <1>1 DEF Level
    <2> QED
      BY <1>2, <1>7, <2>1, <2>2 DEF Top
  <1>14. \/ depth[current] = 1 /\ Top'.pc = "new"
         \/ depth[current] = SwitchLevel /\ Top'.pc = Resumed
    BY <1>4, <1>13 DEF Suspended
  <1>15. /\ SwitchLevel = 1 => ief /\ Resumed = "code"
         /\ SwitchLevel = 2 => ~ief /\ Resumed = "iret"
    BY <1>2, <1>3 DEF CtxInv, FlagOK, Open, SwitchLevel, Resumed
  <1>16. FlagOK'
    BY <1>1, <1>2, <1>7, <1>14, <1>15 DEF FlagOK, Open, Saved
  <1>17. SwitchOK'
    <2>1. \A l \in Level: l <= depth[current] => frame[current][l].pc \notin SwitchPC
      BY <1>4 DEF Suspended
    <2> QED
      BY <1>2, <1>7, <1>10, <1>13, <2>1 DEF SwitchOK
  <1>18. TickOK'
    <2>1. ASSUME ~load.outlasts
          PROVE  depth[current] = 1 /\ Top'.pc \in {"new", "code"}
      BY <1>14, <2>1 DEF SwitchLevel, Resumed
    <2> QED
      BY <1>2, <1>7, <2>1 DEF CtxInv, TickOK
  <1> QED
    BY <1>7, <1>12, <1>16, <1>17, <1>18 DEF CtxInv

(* The stack thread_create prepares can be switched to at once. *)
LEMMA ThreadCreateCtx ==
  ASSUME IInv, CtxInv, NEW n \in Thread, ThreadCreate(n)
  PROVE  CtxInv'
  <1> DEFINE f == [Top EXCEPT !.pc = "add_cli", !.arg = n]
             g == FrameAt("new")
  <1>1. /\ 1 \in Level /\ 2 \in Level /\ SwitchLevel \in {1, 2} /\ rsp \in All
        /\ depth \in [All -> 0..MaxFrames] /\ frame \in [All -> [Level -> Frame]]
        /\ current \in All /\ depth[current] # 0
    BY RunningFacts
  <1>2. /\ Top.pc = "code" /\ depth[n] = 0 /\ n \in All /\ n # rsp
        /\ UNCHANGED <<current, ticks_since_switch, rsp, ief, irr, load, wild>>
    BY RunningFacts DEF ThreadCreate, At, All, ring, cpu, lapic
  <1>3. depth[rsp] = 1
    BY <1>2, RunningFacts DEF SwitchPC, IsrPC
  <1>4. f \in Frame /\ f.pc = "add_cli" /\ g \in Frame /\ g.pc = "new"
    BY <1>2, TopFacts, FrameTypes DEF Frame, PC, AddPC, CodePC, FrameAt
  <1>5. frame' = [frame EXCEPT ![rsp][1] = f, ![n][1] = g]
    BY <1>3 DEF ThreadCreate, Top
  <1> HIDE DEF f, g
  <1>6. /\ frame'[rsp][1] = f
        /\ frame'[n][1] = g
        /\ \A t \in All, l \in Level:
             (t # rsp /\ t # n) \/ l # 1 => frame'[t][l] = frame[t][l]
    BY <1>1, <1>2, <1>4, <1>5
  <1>7. /\ depth'[n] = 1
        /\ \A t \in All: t # n => depth'[t] = depth[t]
    BY <1>1, <1>2 DEF ThreadCreate
  <1>8. /\ stack_pointer'[n] = [owner |-> n, level |-> 1]
        /\ \A t \in All: t # n => stack_pointer'[t] = stack_pointer[t]
    BY <1>2 DEF ThreadCreate, IInv, TypeOK
  <1>9. Top' = f /\ SwitchLevel' = SwitchLevel /\ depth'[rsp] = 1
    BY <1>1, <1>2, <1>3, <1>6, <1>7 DEF Top, SwitchLevel
  <1>10. current = rsp
    BY <1>1, <1>2, <1>3, RunningFacts DEF SwitchPC
  <1>11. Suspended(n)'
    <2>1. \A l \in Level: l <= depth'[n] => l = 1
      BY <1>7 DEF Level
    <2> QED
      BY <1>4, <1>6, <1>7, <1>8, <2>1 DEF Suspended, SwitchPC
  <1>12. SuspendedOK'
    <2> SUFFICES ASSUME NEW t \in All \ {rsp}, depth'[t] # 0, t # n
                 PROVE  Suspended(t)'
      BY <1>2, <1>11 DEF SuspendedOK
    <2>1. Suspended(t)
      BY <1>7 DEF CtxInv, SuspendedOK
    <2> QED
      BY <1>2, <1>6, <1>7, <1>8, <2>1, SuspendedKept
  <1>13. FlagOK'
    BY <1>2, <1>3, <1>4, <1>9 DEF CtxInv, FlagOK, Open, Saved
  <1>14. SwitchOK'
    <2>1. \A l \in Level: l <= depth'[rsp] => frame'[rsp][l].pc \notin SwitchPC
      BY <1>4, <1>6, <1>9 DEF Level, SwitchPC
    <2> QED
      BY <1>1, <1>2, <1>9, <1>10, <2>1 DEF SwitchOK
  <1>15. TickOK'
    BY <1>2, <1>3, <1>4, <1>9 DEF CtxInv, TickOK
  <1> QED
    BY <1>2, <1>12, <1>13, <1>14, <1>15 DEF CtxInv

(* The boot context alone, interrupts off. *)
LEMMA InitCtx == Init => CtxInv
  <1> SUFFICES ASSUME Init PROVE CtxInv
    OBVIOUS
  <1>1. 1 \in Level /\ rsp = Boot /\ Boot \in All /\ depth[rsp] = 1 /\ ~wild /\ ~irr
        /\ current = rsp /\ \A t \in All: t # Boot => depth[t] = 0
    BY SchedAssumption DEF Init, Level, All
  <1>2. frame[rsp][1].pc = "boot" /\ Top = frame[rsp][1]
    BY <1>1 DEF Init, Top, FrameAt
  <1>3. SuspendedOK
    BY <1>1 DEF SuspendedOK
  <1>4. FlagOK
    BY <1>1, <1>2 DEF FlagOK, Open, Saved
  <1>5. SwitchOK
    <2>1. \A l \in Level: l <= depth[rsp] => frame[rsp][l].pc \notin SwitchPC
      BY <1>1, <1>2 DEF Level, SwitchPC
    <2>2. SwitchLevel \in Level
      BY SchedAssumption DEF SwitchLevel, Level
    <2> QED
      BY <1>1, <2>1, <2>2 DEF SwitchOK
  <1>6. TickOK
    BY <1>1, <1>2 DEF TickOK
  <1> QED
    BY <1>1, <1>3, <1>4, <1>5, <1>6 DEF CtxInv

(* Every step of the scheduler under a pure workload keeps the contexts. *)
LEMMA NextCtx ==
  ASSUME Pure, IInv, CtxInv, [Next]_vars
  PROVE  CtxInv'
  <1>1. CASE AddThread
    <2>1. CASE IrqSave("add_cli", "add_acquire")
      BY <2>1, IrqSaveCtx
    <2>2. CASE Acquire("add_acquire", "add_link")
      <3>1. /\ Top.pc = "add_acquire" /\ Goto("add_link")
            /\ UNCHANGED <<ring, ticks_since_switch, stack_pointer, depth, cpu, lapic,
                           load, wild>>
        BY <2>2 DEF Acquire, At
      <3> QED
        BY <3>1, LockCtx
    <2>3. CASE Release("add_release", "add_restore")
      <3>1. /\ Top.pc = "add_release" /\ Goto("add_restore")
            /\ UNCHANGED <<ring, ticks_since_switch, stack_pointer, depth, cpu, lapic,
                           load, wild>>
        BY <2>3 DEF Release, At
      <3> QED
        BY <3>1, LockCtx
    <2>4. CASE IrqRestore("add_restore", "code")
      BY <2>4, IrqRestoreCtx
    <2> QED
      BY <1>1, <2>1, <2>2, <2>3, <2>4, LinkCtx DEF AddThread
  <1>2. CASE SwitchToNext
    <2>1. CASE IrqSave("sw_cli", "sw_acquire")
      BY <2>1, IrqSaveCtx
    <2>2. CASE Acquire("sw_acquire", "sw_pick")
      <3>1. /\ Top.pc = "sw_acquire" /\ Goto("sw_pick")
            /\ UNCHANGED <<ring, ticks_since_switch, stack_pointer, depth, cpu, lapic,
                           load, wild>>
        BY <2>2 DEF Acquire, At
      <3> QED
        BY <3>1, LockCtx
    <2>3. CASE Release("sw_release", "sw_restore")
      <3>1. /\ Top.pc = "sw_release" /\ Goto("sw_restore")
            /\ UNCHANGED <<ring, ticks_since_switch, stack_pointer, depth, cpu, lapic,
                           load, wild>>
        BY <2>3 DEF Release, At
      <3> QED
        BY <3>1, LockCtx
    <2>4. CASE IrqRestore("sw_restore", "sw_reset")
      BY <2>4, IrqRestoreCtx
    <2> QED
      BY <1>2, <2>1, <2>2, <2>3, <2>4, PickNextCtx, ResetTicksCtx, LoadArgumentCtx,
         SaveContextCtx, JumpCtx DEF SwitchToNext
  <1>3. CASE CpuStep
    BY <1>1, <1>2, <1>3, HandlerCtx, IretCtx, CodeCtx DEF CpuStep
  <1>4. CASE \E t \in Thread: ThreadCreate(t)
    BY <1>4, ThreadCreateCtx
  <1>5. CASE KernelHalt
    BY <1>5 DEF KernelHalt, Pure
  <1>6. CASE UNCHANGED vars
    <2>1. /\ UNCHANGED <<current, ticks_since_switch, stack_pointer, depth, frame, rsp, ief,
                         irr, load, wild>>
      BY <1>6 DEF vars, ring, cpu, lapic
    <2>2. SwitchLevel' = SwitchLevel /\ Resumed' = Resumed /\ Top' = Top
      BY <2>1 DEF SwitchLevel, Resumed, Top
    <2> QED
      BY <2>1, <2>2 DEF CtxInv, SuspendedOK, Suspended, FlagOK, SwitchOK, TickOK
  <1> QED
    BY <1>3, <1>4, <1>5, <1>6, TickCtx, InterruptCtx, CodeCtx DEF Next

(* The workload never changes. *)
LEMMA LoadFixed == [Next]_vars => load' = load
  BY DEF Next, Tick, Interrupt, CpuStep, Eoi, TickHandler, Iret, EnableInterrupts,
         Trampoline, AddThread, SwitchToNext, IrqSave, Acquire, Release, IrqRestore, Link,
         Splice, PickNext, ResetTicks, LoadArgument, SaveContext, Jump, Yield,
         ThreadCreate, KernelHalt, vars

(* The invariant of the ring always holds, that of the contexts under a pure workload. *)
THEOREM ContextInvariance == Spec => [](IInv /\ (Pure => CtxInv))
  <1>1. [Next]_vars => (Pure' <=> Pure)
    BY LoadFixed DEF Pure
  <1>2. IInv /\ (Pure => CtxInv) /\ [Next]_vars => (Pure => CtxInv)'
    BY <1>1, NextCtx
  <1> QED
    BY <1>2, InitIInv, InitCtx, NextIInv, PTL DEF Spec

(* thread.h: as long as a kernel does not mix the two ways of switching, every    *)
(* thread of the ring but the running one can be resumed exactly where it was     *)
(* switched away from, and %rsp is never loaded with a stale context.             *)
THEOREM ContextsOwned == Spec => []PureOwnContext
  <1>1. IInv /\ (Pure => CtxInv) => PureOwnContext
    BY DEF IInv, FreshOK, InRing, CtxInv, SuspendedOK, Suspended, OwnContext, PureOwnContext
  <1> QED
    BY <1>1, ContextInvariance, PTL

(* switch_to_next writes `current` before the stack changes; under a pure workload *)
(* nothing but that very switch ever runs in between.                             *)
THEOREM CurrentRuns == Spec => []CurrentIsRunning
  <1>1. IInv /\ (Pure => CtxInv) => CurrentIsRunning
    <2> SUFFICES ASSUME IInv, CtxInv,
                        \A l \in 1..depth[rsp]: frame[rsp][l].pc \notin SwitchPC
                 PROVE  current = rsp
      BY DEF CurrentIsRunning
    <2>1. SwitchLevel \in {1, 2} /\ depth[rsp] \in {1, 2}
      BY RunningFacts
    <2>2. ~(SwitchLevel <= depth[rsp] /\ frame[rsp][SwitchLevel].pc \in SwitchPC)
      BY <2>1
    <2> QED
      BY <2>2 DEF CtxInv, SwitchOK
  <1> QED
    BY <1>1, ContextInvariance, PTL

(* context_switch.S's account of IF: a thread that goes on in its own code, after *)
(* a switch, an interrupt or a spinlock, has interrupts on.                       *)
THEOREM CodeInterruptible == Spec => []PureInterruptibleCode
  <1>1. IInv /\ (Pure => CtxInv) => PureInterruptibleCode
    <2> SUFFICES ASSUME IInv, CtxInv, Top.pc = "code" PROVE ief
      BY DEF InterruptibleCode, PureInterruptibleCode
    <2>1. depth[rsp] = 1
      BY RunningFacts DEF SwitchPC, IsrPC
    <2> QED
      BY <2>1 DEF CtxInv, FlagOK, Open
  <1> QED
    BY <1>1, ContextInvariance, PTL

(* idt.c: interrupts do not nest, on the running stack or on a suspended one. *)
THEOREM HandlersDoNotNest == Spec => []HandlerAtomic
  <1>1. IInv /\ (Pure => CtxInv) => HandlerAtomic
    <2> SUFFICES ASSUME IInv, CtxInv, NEW t \in All PROVE depth[t] <= 2
      BY DEF HandlerAtomic
    <2>1. SwitchLevel \in {1, 2} /\ depth[rsp] \in {1, 2}
          /\ depth \in [All -> 0..MaxFrames]
      BY RunningFacts
    <2>2. t # rsp => depth[t] \in {0, 1, SwitchLevel}
      BY DEF CtxInv, SuspendedOK, Suspended
    <2> QED
      BY <2>1, <2>2
  <1> QED
    BY <1>1, ContextInvariance, PTL
====
