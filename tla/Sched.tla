---------------------------------- MODULE Sched ----------------------------------
(* The scheduler of kernel/sched: the ready ring of sched.c, the interrupt-saving *)
(* spinlock that guards it, the timer interrupt that preempts and the stack       *)
(* switch of context_switch.S, on the one CPU the kernel runs on.                 *)
(*                                                                                *)
(* Every thread has a kernel stack. Its frame 1 is the thread's own code (kmain   *)
(* for Boot); a frame above it is one activation of isr_dispatch. A frame's pc is *)
(* the next machine-level step of that activation, so an interrupt can be taken   *)
(* between any two steps at which IF is set.                                      *)
EXTENDS Integers, FiniteSets

CONSTANTS
  Thread,                  \* the struct threads that thread_create may allocate
  Boot,                    \* sched.c's bootstrap_thread
  None,                    \* the NULL pointer
  SCHED_TIME_SLICE_TICKS,
  MaxFrames,               \* bound: frames that fit a stack, nested interrupts included
  Loads                    \* the workloads of a model, see Load

All == Thread \cup {Boot}

Level == 1..MaxFrames

(* What a saved stack pointer addresses: a level of one thread's stack. *)
Context == [owner: All, level: Level]

(* A workload says which threads call sched_yield and thread_create from their   *)
(* entry functions, whether a thread may outlast its time slice, and whether     *)
(* kmain reaches kernel_halt.                                                    *)
Load == [yielders: SUBSET All, creators: SUBSET All,
         outlasts: BOOLEAN, halts: BOOLEAN]

ASSUME SchedAssumption ==
  /\ Boot \notin Thread
  /\ None \notin All \cup Context
  /\ SCHED_TIME_SLICE_TICKS \in Nat \ {0}
  /\ MaxFrames \in Nat /\ MaxFrames >= 2
  /\ Loads \subseteq Load

VARIABLES
  current, next, id, next_thread_id,  \* sched.c's ring; next[t] is t->next
  locked,                             \* ready_lock.locked
  ticks_since_switch,
  stack_pointer,                      \* t->stack_pointer
  depth, frame,                       \* the kernel stacks
  rsp,                                \* whose stack the CPU is on
  ief,                                \* RFLAGS.IF
  irr, isr,                           \* LAPIC: timer vector requested, in service
  load,                               \* the workload, fixed
  wild                                \* %rsp was loaded with a stale context

ring == <<current, next, id, next_thread_id>>
cpu == <<rsp, ief>>
lapic == <<irr, isr>>
vars == <<ring, locked, ticks_since_switch, stack_pointer, depth, frame, cpu,
          lapic, load, wild>>

----------------------------------------------------------------------------------
(* Frames. flags, prev, nxt, sp and arg are the locals and argument registers of *)
(* the activation.                                                               *)

CodePC == {"boot", "new", "code", "halted"}
AddPC == {"add_cli", "add_acquire", "add_link", "add_splice", "add_release",
          "add_restore"}
SwitchPC == {"sw_cli", "sw_acquire", "sw_pick", "sw_release", "sw_restore",
             "sw_reset", "sw_load", "sw_save", "sw_jump"}
IsrPC == {"eoi", "handler", "iret"}
PC == CodePC \cup AddPC \cup SwitchPC \cup IsrPC

Frame == [pc: PC, flags: BOOLEAN, prev: All \cup {None}, nxt: All \cup {None},
          sp: Context \cup {None}, arg: All \cup {None}]

FrameAt(p) == [pc |-> p, flags |-> FALSE, prev |-> None, nxt |-> None,
               sp |-> None, arg |-> None]

Top == frame[rsp][depth[rsp]]
At(p) == ~wild /\ Top.pc = p
SetTop(f) == frame' = [frame EXCEPT ![rsp][depth[rsp]] = f]
Goto(p) == SetTop([Top EXCEPT !.pc = p])

(* Mutant: the LAPIC is acknowledged when the handler returns. *)
LateEoi == [entry |-> "handler", handler |-> "eoi", eoi |-> "iret"]

(* isr_dispatch acknowledges the LAPIC before it runs the handler. *)
Dispatch == [entry |-> "eoi", eoi |-> "handler", handler |-> "iret"]

(* Where switch_to_next returns to: sched_yield's caller, or out of the handler. *)
Return == IF depth[rsp] = 1 THEN "code" ELSE Dispatch.handler

----------------------------------------------------------------------------------
(* sched_init has run, interrupts are not yet enabled. *)

Init ==
  /\ current = Boot
  /\ next = [t \in All |-> IF t = Boot THEN Boot ELSE None]
  /\ id = [t \in All |-> 0]
  /\ next_thread_id = 1
  /\ locked = FALSE
  /\ ticks_since_switch = 0
  /\ stack_pointer = [t \in All |-> None]
  /\ depth = [t \in All |-> IF t = Boot THEN 1 ELSE 0]
  /\ frame = [t \in All |-> [l \in Level |->
                IF t = Boot /\ l = 1 THEN FrameAt("boot") ELSE FrameAt("new")]]
  /\ rsp = Boot
  /\ ief = FALSE
  /\ irr = FALSE
  /\ isr = FALSE
  /\ load \in Loads
  /\ wild = FALSE

----------------------------------------------------------------------------------
(* The timer and the LAPIC. *)

(* A tick latches the vector's request bit. Under a workload in which no thread  *)
(* outlasts its slice the running thread switches before its last tick.          *)
Tick ==
  /\ ~wild
  /\ ~irr
  /\ load.outlasts \/ ( /\ depth[rsp] = 1
                        /\ ticks_since_switch < SCHED_TIME_SLICE_TICKS - 1 )
  /\ irr' = TRUE
  /\ UNCHANGED <<ring, locked, ticks_since_switch, stack_pointer, depth, frame,
                 cpu, isr, load, wild>>

(* Delivery through an interrupt gate: a new frame on the current stack, IF off. *)
Interrupt ==
  /\ ~wild
  /\ irr /\ ~isr /\ ief
  /\ depth[rsp] < MaxFrames
  /\ irr' = FALSE
  /\ isr' = TRUE
  /\ ief' = FALSE
  /\ depth' = [depth EXCEPT ![rsp] = @ + 1]
  /\ frame' = [frame EXCEPT ![rsp][depth[rsp] + 1] = FrameAt(Dispatch.entry)]
  /\ UNCHANGED <<ring, locked, ticks_since_switch, stack_pointer, rsp, load, wild>>

Eoi ==
  /\ At("eoi")
  /\ isr' = FALSE
  /\ Goto(Dispatch.eoi)
  /\ UNCHANGED <<ring, locked, ticks_since_switch, stack_pointer, depth, cpu, irr,
                 load, wild>>

(* timer_tick_handler and the sched_tick it calls. *)
TickHandler ==
  /\ At("handler")
  /\ ticks_since_switch' = ticks_since_switch + 1
  /\ Goto(IF ticks_since_switch' >= SCHED_TIME_SLICE_TICKS THEN "sw_cli"
                                                           ELSE Dispatch.handler)
  /\ UNCHANGED <<ring, locked, stack_pointer, depth, cpu, lapic, load, wild>>

(* Only an interrupt taken with IF set pushed the frame, so iretq sets it again. *)
Iret ==
  /\ At("iret")
  /\ ief' = TRUE
  /\ depth' = [depth EXCEPT ![rsp] = @ - 1]
  /\ SetTop(FrameAt("new"))
  /\ UNCHANGED <<ring, locked, ticks_since_switch, stack_pointer, rsp, lapic, load,
                 wild>>

----------------------------------------------------------------------------------
(* spinlock.c on ready_lock, as sched_add_thread and switch_to_next use it. *)

(* Mutant: the lock is taken without cli. *)
IrqSaveNoCli(from, to) ==
  /\ At(from)
  /\ SetTop([Top EXCEPT !.pc = to, !.flags = ief])
  /\ UNCHANGED <<ring, locked, ticks_since_switch, stack_pointer, depth, cpu, lapic,
                 load, wild>>

(* read_and_disable_interrupts *)
IrqSave(from, to) ==
  /\ At(from)
  /\ SetTop([Top EXCEPT !.pc = to, !.flags = ief])
  /\ ief' = FALSE
  /\ UNCHANGED <<ring, locked, ticks_since_switch, stack_pointer, depth, rsp, lapic,
                 load, wild>>

(* spinlock_acquire; the spin on a held lock changes nothing. *)
Acquire(from, to) ==
  /\ At(from)
  /\ ~locked
  /\ locked' = TRUE
  /\ Goto(to)
  /\ UNCHANGED <<ring, ticks_since_switch, stack_pointer, depth, cpu, lapic, load,
                 wild>>

(* spinlock_release *)
Release(from, to) ==
  /\ At(from)
  /\ locked' = FALSE
  /\ Goto(to)
  /\ UNCHANGED <<ring, ticks_since_switch, stack_pointer, depth, cpu, lapic, load,
                 wild>>

(* Mutant: sti instead of restoring the saved flags. *)
IrqRestoreSti(from, to) ==
  /\ At(from)
  /\ ief' = TRUE
  /\ SetTop([Top EXCEPT !.pc = to, !.flags = FALSE, !.arg = None])
  /\ UNCHANGED <<ring, locked, ticks_since_switch, stack_pointer, depth, rsp, lapic,
                 load, wild>>

(* restore_interrupt_state *)
IrqRestore(from, to) ==
  /\ At(from)
  /\ ief' = Top.flags
  /\ SetTop([Top EXCEPT !.pc = to, !.flags = FALSE, !.arg = None])
  /\ UNCHANGED <<ring, locked, ticks_since_switch, stack_pointer, depth, rsp, lapic,
                 load, wild>>

----------------------------------------------------------------------------------
(* switch_to_next *)

(* Mutant: `current = next` forgotten. *)
PickNextKeepsCurrent ==
  /\ At("sw_pick")
  /\ SetTop([Top EXCEPT !.pc = "sw_release", !.prev = current, !.nxt = next[current]])
  /\ UNCHANGED <<ring, locked, ticks_since_switch, stack_pointer, depth, cpu, lapic,
                 load, wild>>

PickNext ==
  /\ At("sw_pick")
  /\ SetTop([Top EXCEPT !.pc = "sw_release", !.prev = current, !.nxt = next[current]])
  /\ current' = next[current]
  /\ UNCHANGED <<next, id, next_thread_id, locked, ticks_since_switch, stack_pointer,
                 depth, cpu, lapic, load, wild>>

(* Mutant: the slice is not restarted. *)
ResetTicksForgotten ==
  /\ At("sw_reset")
  /\ SetTop(IF Top.nxt # Top.prev THEN [Top EXCEPT !.pc = "sw_load"]
                                  ELSE FrameAt(Return))
  /\ UNCHANGED <<ring, locked, ticks_since_switch, stack_pointer, depth, cpu, lapic,
                 load, wild>>

ResetTicks ==
  /\ At("sw_reset")
  /\ ticks_since_switch' = 0
  /\ SetTop(IF Top.nxt # Top.prev THEN [Top EXCEPT !.pc = "sw_load"]
                                  ELSE FrameAt(Return))
  /\ UNCHANGED <<ring, locked, stack_pointer, depth, cpu, lapic, load, wild>>

(* The arguments of context_switch: next->stack_pointer goes into %rsi. *)
LoadArgument ==
  /\ At("sw_load")
  /\ SetTop([Top EXCEPT !.pc = "sw_save", !.sp = stack_pointer[Top.nxt]])
  /\ UNCHANGED <<ring, locked, ticks_since_switch, stack_pointer, depth, cpu, lapic,
                 load, wild>>

(* Mutant: the outgoing %rsp is stored in `current`, which is already the next. *)
SaveContextInCurrent ==
  /\ At("sw_save")
  /\ stack_pointer' = [stack_pointer EXCEPT
                         ![current] = [owner |-> rsp, level |-> depth[rsp]]]
  /\ Goto("sw_jump")
  /\ UNCHANGED <<ring, locked, ticks_since_switch, depth, cpu, lapic, load, wild>>

(* mov %rsp, (%rdi) *)
SaveContext ==
  /\ At("sw_save")
  /\ stack_pointer' = [stack_pointer EXCEPT
                         ![Top.prev] = [owner |-> rsp, level |-> depth[rsp]]]
  /\ Goto("sw_jump")
  /\ UNCHANGED <<ring, locked, ticks_since_switch, depth, cpu, lapic, load, wild>>

(* c addresses the innermost frame of a suspended stack. *)
Resumable(c) == c # None /\ c.owner # rsp /\ c.level = depth[c.owner]

(* mov %rsi, %rsp, the pops and ret: the outgoing frame will next return from    *)
(* switch_to_next, the incoming one goes on from its own switch. Loading any     *)
(* other stack pointer has no defined outcome.                                   *)
Jump ==
  /\ At("sw_jump")
  /\ IF Resumable(Top.sp)
       THEN /\ rsp' = Top.sp.owner
            /\ SetTop(FrameAt(Return))
            /\ UNCHANGED wild
       ELSE wild' = TRUE /\ UNCHANGED <<rsp, frame>>
  /\ UNCHANGED <<ring, locked, ticks_since_switch, stack_pointer, depth, ief, lapic,
                 load>>

----------------------------------------------------------------------------------
(* sched_add_thread *)

(* Mutant: thread->next is never set. *)
LinkForgotten ==
  /\ At("add_link")
  /\ id' = [id EXCEPT ![Top.arg] = next_thread_id]
  /\ next_thread_id' = next_thread_id + 1
  /\ Goto("add_splice")
  /\ UNCHANGED <<current, next, locked, ticks_since_switch, stack_pointer, depth, cpu,
                 lapic, load, wild>>

(* Mutant: the new thread links back to the current one and drops the rest. *)
LinkToCurrent ==
  /\ At("add_link")
  /\ id' = [id EXCEPT ![Top.arg] = next_thread_id]
  /\ next_thread_id' = next_thread_id + 1
  /\ next' = [next EXCEPT ![Top.arg] = current]
  /\ Goto("add_splice")
  /\ UNCHANGED <<current, locked, ticks_since_switch, stack_pointer, depth, cpu,
                 lapic, load, wild>>

Link ==
  /\ At("add_link")
  /\ id' = [id EXCEPT ![Top.arg] = next_thread_id]
  /\ next_thread_id' = next_thread_id + 1
  /\ next' = [next EXCEPT ![Top.arg] = next[current]]
  /\ Goto("add_splice")
  /\ UNCHANGED <<current, locked, ticks_since_switch, stack_pointer, depth, cpu,
                 lapic, load, wild>>

Splice ==
  /\ At("add_splice")
  /\ next' = [next EXCEPT ![current] = Top.arg]
  /\ Goto("add_release")
  /\ UNCHANGED <<current, id, next_thread_id, locked, ticks_since_switch,
                 stack_pointer, depth, cpu, lapic, load, wild>>

----------------------------------------------------------------------------------
(* Thread code. *)

(* io_enable_interrupts in kmain *)
EnableInterrupts ==
  /\ At("boot")
  /\ ief' = TRUE
  /\ Goto("code")
  /\ UNCHANGED <<ring, locked, ticks_since_switch, stack_pointer, depth, rsp, lapic,
                 load, wild>>

(* Mutant: thread_trampoline without its sti. *)
TrampolineNoSti ==
  /\ At("new")
  /\ Goto("code")
  /\ UNCHANGED <<ring, locked, ticks_since_switch, stack_pointer, depth, cpu, lapic,
                 load, wild>>

(* thread_trampoline: sti, then the entry function *)
Trampoline ==
  /\ At("new")
  /\ ief' = TRUE
  /\ Goto("code")
  /\ UNCHANGED <<ring, locked, ticks_since_switch, stack_pointer, depth, rsp, lapic,
                 load, wild>>

(* sched_yield *)
Yield ==
  /\ At("code")
  /\ rsp \in load.yielders
  /\ Goto("sw_cli")
  /\ UNCHANGED <<ring, locked, ticks_since_switch, stack_pointer, depth, cpu, lapic,
                 load, wild>>

(* thread_create up to its call of sched_add_thread; t's block and stack are    *)
(* fresh, and its stack holds the frame that starts in thread_trampoline.       *)
ThreadCreate(t) ==
  /\ At("code")
  /\ rsp \in load.creators
  /\ depth[t] = 0
  /\ depth' = [depth EXCEPT ![t] = 1]
  /\ stack_pointer' = [stack_pointer EXCEPT ![t] = [owner |-> t, level |-> 1]]
  /\ frame' = [frame EXCEPT ![rsp][depth[rsp]] = [@ EXCEPT !.pc = "add_cli", !.arg = t],
                            ![t][1] = FrameAt("new")]
  /\ UNCHANGED <<ring, locked, ticks_since_switch, cpu, lapic, load, wild>>

(* kernel_halt at the end of kmain: cli, then hlt for ever *)
KernelHalt ==
  /\ At("code")
  /\ rsp = Boot
  /\ load.halts
  /\ ief' = FALSE
  /\ Goto("halted")
  /\ UNCHANGED <<ring, locked, ticks_since_switch, stack_pointer, depth, rsp, lapic,
                 load, wild>>

----------------------------------------------------------------------------------

AddThread ==
  \/ IrqSave("add_cli", "add_acquire")
  \/ Acquire("add_acquire", "add_link")
  \/ Link
  \/ Splice
  \/ Release("add_release", "add_restore")
  \/ IrqRestore("add_restore", "code")

SwitchToNext ==
  \/ IrqSave("sw_cli", "sw_acquire")
  \/ Acquire("sw_acquire", "sw_pick")
  \/ PickNext
  \/ Release("sw_release", "sw_restore")
  \/ IrqRestore("sw_restore", "sw_reset")
  \/ ResetTicks
  \/ LoadArgument
  \/ SaveContext
  \/ Jump

(* What the CPU does by itself, whatever the threads choose to call. *)
CpuStep == Eoi \/ TickHandler \/ Iret \/ EnableInterrupts \/ Trampoline
           \/ AddThread \/ SwitchToNext

Next ==
  \/ Tick
  \/ Interrupt
  \/ CpuStep
  \/ Yield
  \/ \E t \in Thread: ThreadCreate(t)
  \/ KernelHalt

(* The timer keeps ticking, a pending interrupt that stays deliverable is        *)
(* delivered, the CPU keeps executing, and a thread that may yield does.         *)
Fairness == WF_vars(Tick) /\ WF_vars(Interrupt) /\ WF_vars(CpuStep) /\ WF_vars(Yield)

Spec == Init /\ [][Next]_vars /\ Fairness
----------------------------------------------------------------------------------
(* Properties. *)

(* The variables keep to their C types; ticks_since_switch never passes the slice. *)
TypeOK ==
  /\ current \in All
  /\ next \in [All -> All \cup {None}]
  /\ id \in [All -> Nat]
  /\ next_thread_id \in Nat
  /\ locked \in BOOLEAN
  /\ ticks_since_switch \in 0..SCHED_TIME_SLICE_TICKS
  /\ stack_pointer \in [All -> Context \cup {None}]
  /\ depth \in [All -> 0..MaxFrames]
  /\ frame \in [All -> [Level -> Frame]]
  /\ rsp \in All
  /\ ief \in BOOLEAN
  /\ irr \in BOOLEAN
  /\ isr \in BOOLEAN
  /\ load \in Loads
  /\ wild \in BOOLEAN

(* The threads some link leads to. *)
InRing == {t \in All: \E u \in All: next[u] = t}

(* sched.c's ring is one cycle through current at every instant, in the middle of *)
(* an insertion too: no set of threads is closed under t->next but the whole ring, *)
(* so a walk from any thread of the ring meets every other.                        *)
RingIntact ==
  /\ current \in InRing
  /\ \A t \in InRing: next[t] \in InRing
  /\ \A S \in SUBSET InRing:
       S # {} /\ (\A t \in S: next[t] \in S) => S = InRing

(* The scheduler implements the round-robin ring of RoundRobin: an insertion takes *)
(* effect when current->next is written, a switch when `current` is.               *)
RoundRobinRing == INSTANCE RoundRobin WITH succ <- [t \in InRing |-> next[t]]

ImplementsRoundRobin == RoundRobinRing!Spec

(* spinlock_acquire_irqsave never finds ready_lock held: on one CPU a spin there, *)
(* with interrupts off, would be for ever.                                         *)
NeverSpins == ~wild /\ Top.pc \in {"add_acquire", "sw_acquire"} => ~locked

(* A pure workload: no thread that yields meets the end of a slice, and kmain does *)
(* not reach kernel_halt.                                                          *)
Pure == ~load.halts /\ (load.outlasts => load.yielders = {})

(* thread.h: a thread's stack_pointer is valid while the thread is not the one     *)
(* running. Every thread of the ring but the one on the CPU can be resumed exactly *)
(* where it was switched away from.                                                *)
OwnContext ==
  /\ ~wild
  /\ \A t \in InRing \ {rsp}: stack_pointer[t] = [owner |-> t, level |-> depth[t]]

(* It holds as long as a kernel does not mix the two ways of switching.            *)
PureOwnContext == Pure => OwnContext

(* Under a pure workload `current` names the thread whose stack the CPU is on,     *)
(* whenever no switch is under way on that stack.                                  *)
CurrentIsRunning ==
  Pure /\ ~wild /\ (\A l \in 1..depth[rsp]: frame[rsp][l].pc \notin SwitchPC)
    => current = rsp

(* A thread in its own code can be interrupted, and so preempted: a `hlt` there    *)
(* wakes up again (context_switch.S's account of IF).                              *)
InterruptibleCode == ~wild /\ Top.pc = "code" => ief

(* It holds as long as a kernel does not mix the two ways of switching.            *)
PureInterruptibleCode == Pure => InterruptibleCode

(* idt.c: under a pure workload no interrupt handler is interrupted by another     *)
(* before it finishes.                                                             *)
HandlerAtomic == Pure => \A t \in All: depth[t] <= 2

(* Round robin without starvation: under a pure workload a thread of the ring gets *)
(* the CPU again and again, although isr_dispatch may leave its stack before it    *)
(* returns.                                                                        *)
EveryThreadRuns == \A t \in All: (Pure /\ t \in InRing) ~> (rsp = t)
----------------------------------------------------------------------------------
(* The inductive invariant behind TypeOK, RingIntact and NeverSpins. *)

Holding == {"sw_pick", "sw_release", "add_link", "add_splice", "add_release"}
Masked == Holding \cup {"sw_acquire", "sw_restore", "add_acquire", "add_restore",
                        "eoi", "handler"}
BeforeLink == {"add_cli", "add_acquire", "add_link"}
BeforeSplice == BeforeLink \cup {"add_splice"}
Picked == {"sw_release", "sw_restore", "sw_reset", "sw_load", "sw_save", "sw_jump"}
BeforeReset == {"sw_cli", "sw_acquire", "sw_pick", "sw_release", "sw_restore",
                "sw_reset"}

(* A frame that is not the innermost one of the running stack is never in a      *)
(* section that runs with interrupts off; interrupt frames sit above frame 1.    *)
FramesOK ==
  \A t \in All, l \in Level: l <= depth[t] =>
    /\ l = 1 => frame[t][l].pc \notin IsrPC
    /\ l # 1 => frame[t][l].pc \in SwitchPC \cup IsrPC
    /\ frame[t][l].pc \in Masked => t = rsp /\ l = depth[t]
    /\ frame[t][l].pc \in Picked => frame[t][l].prev \in All /\ frame[t][l].nxt \in All

(* The lock is held exactly in the sections of the innermost frame that hold it, *)
(* with interrupts off.                                                          *)
LockOK ==
  /\ depth[rsp] # 0
  /\ Top.pc \in Masked => ~ief
  /\ locked <=> Top.pc \in Holding

(* A slice that is over is being switched out, by the interrupt that ended it. *)
SliceOK ==
  ticks_since_switch = SCHED_TIME_SLICE_TICKS =>
    /\ depth[rsp] # 1
    /\ Top.pc \in BeforeReset
    /\ ~ief
    /\ Top.pc # "sw_cli" => ~Top.flags

Adding(t) == depth[t] # 0 /\ frame[t][1].pc \in BeforeSplice

(* A thread on its way into the ring is outside it, belongs to one caller of      *)
(* sched_add_thread, and has a link only between the two writes of the insertion. *)
FreshOK ==
  /\ \A t \in InRing: depth[t] # 0
  /\ \A t \in All: depth[t] = 0 => next[t] = None
  /\ \A t \in All: Adding(t) =>
       /\ frame[t][1].arg \in Thread \ InRing
       /\ depth[frame[t][1].arg] # 0
       /\ frame[t][1].pc \in BeforeLink => next[frame[t][1].arg] = None
       /\ frame[t][1].pc = "add_splice" => next[frame[t][1].arg] = next[current]
  /\ \A t, u \in All:
       Adding(t) /\ Adding(u) /\ frame[t][1].arg = frame[u][1].arg => t = u

IInv == TypeOK /\ FramesOK /\ LockOK /\ SliceOK /\ RingIntact /\ FreshOK
================================================================================
