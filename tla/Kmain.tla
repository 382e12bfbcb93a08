---------------------------------- MODULE Kmain ----------------------------------
(* The kernel from power-on to halt: BringUp, then the threads kmain creates, on   *)
(* what the scheduler promises (RoundRobin), with interrupts, allocation by         *)
(* preemptible threads, and one thread that drops to ring 3 and makes a system call. *)
(* A switch is one step: what can go wrong inside one is the subject of Sched.       *)
EXTENDS BringUp

CONSTANTS DEMO_THREAD_ITERATIONS, THREAD_STACK_PAGES

(* Mutant: the ring 3 thread is created first. *)
Ring3First == <<"ring3", "demo", "demo", "demo">>

(* The entry functions kmain gives thread_create, in that order. *)
Entry == <<"demo", "demo", "demo", "ring3">>

Thread == 1..Len(Entry)
All == Thread \cup {Boot}

ASSUME KmainAssumption ==
  /\ DEMO_THREAD_ITERATIONS \in Nat /\ THREAD_STACK_PAGES \in Nat \ {0}
  /\ Boot \notin Thread /\ Null \notin All

VARIABLES
  pc, n,           \* where each thread is; its count of turns or of threads to create
  left,            \* how a thread lost the CPU, with CS and SS if in an interrupt
  kstack,          \* whose frame is at the top of syscall_init's stack
  saved_user_rsp   \* whose stack pointer syscall_entry.S keeps

tvars == <<pc, n, left, kstack, saved_user_rsp>>
vars == <<bvars, tvars>>

RR == INSTANCE RoundRobin

(* The CPU's segments matter only to a thread that was interrupted. *)
Left(why, cs, ss) == [how |-> why, cs |-> cs, ss |-> ss]

KInit ==
  /\ Init
  /\ pc = [t \in All |-> IF t = Boot THEN "kmalloc" ELSE "new"]
  /\ n = [t \in All |-> IF t = Boot THEN 1 ELSE DEMO_THREAD_ITERATIONS]
  /\ left = [t \in All |-> Left(IF t = Boot THEN "running" ELSE "new", 0, 0)]
  /\ kstack = Null
  /\ saved_user_rsp = Null

(* In ring 3; inside the heap, the VMM or the PMM, none of which takes a lock. *)
User(t) == pc[t] \in {"syscall", "spin"}
Allocating(t) == pc[t] \in {"kmalloc", "guarded", "kfree", "frames", "map"}

At(p) == power = "on" /\ Up /\ pc[current] = p
Goto(p) == pc' = [pc EXCEPT ![current] = p]
Free(k) == mem' = [mem EXCEPT !.free = k]

----------------------------------------------------------------------------------
(* What an entry function does first. *)
Start(f) == IF f = "demo" THEN "iterate" ELSE "frames"

(* Switching. The thread that stops is left in sched_yield or in an interrupt, the *)
(* CPU having state c and the top of the shared stack being k. The next one starts  *)
(* in thread_trampoline with sti, goes on in its own sched_yield with IF as it is,  *)
(* or leaves its interrupt by iretq.                                                *)
SwitchFrom(l, c, k) ==
  LET t == succ[current]
      r == IF t = current THEN l ELSE left[t]
  IN /\ RR!Switch
     /\ left' = [left EXCEPT ![current] = l, ![t] = Left("running", 0, 0)]
     /\ pc' = [pc EXCEPT ![t] = IF r.how = "new" THEN Start(Entry[t]) ELSE @]
     /\ cpu' = CASE r.how = "new"   -> [c EXCEPT !.ief = TRUE]
                 [] r.how = "yield" -> c
                 [] r.how = "irq"   -> [c EXCEPT !.ief = TRUE, !.cs = r.cs, !.ss = r.ss]
     /\ kstack' = IF r.how = "irq" /\ User(t) THEN Null ELSE k

(* sched_yield *)
Yield ==
  /\ SwitchFrom(Left("yield", 0, 0), cpu, kstack)
  /\ UNCHANGED <<world, step, power, handlers, mem, dev, saved_user_rsp>>

----------------------------------------------------------------------------------
(* Interrupts. *)

(* A source that is not masked may ask for its vector at any time, so a request *)
(* that the LAPIC latched while IF was off needs no state of its own.           *)
Requested(v) ==
  /\ power = "on" /\ cpu.ief
  /\ v \in dev.lines \/ (v = LAPIC_SPURIOUS_VECTOR /\ dev.lapic)

(* What delivery meets: from ring 3 the stack of the TSS; the gate; then the EOI, *)
(* which isr_dispatch writes to the LAPIC's page.                                 *)
Delivery(v) ==
  IF User(current) /\ ~cpu.rsp0 THEN "reset"
  ELSE IF v \notin cpu.idt THEN Exception(13)
  ELSE IF v # LAPIC_SPURIOUS_VECTOR /\ ~dev.lapic THEN Exception(14)
  ELSE "on"

(* The CPU has switched stacks if it comes from ring 3, pushed the frame, cleared IF. *)
Interrupted == [cpu EXCEPT !.ief = FALSE, !.cs = GDT_KERNEL_CODE,
                           !.ss = IF User(current) THEN 0 ELSE @]

(* isr_dispatch acknowledges the vector, runs its handler if it has one, and the  *)
(* handler returns: the frame is popped again. A spurious interrupt has no        *)
(* handler and is not acknowledged.                                               *)
Serve(v) ==
  /\ Requested(v)
  /\ power' = Delivery(v)
  /\ kstack' = IF User(current) THEN Null ELSE kstack
  /\ UNCHANGED <<world, step, cpu, handlers, mem, dev, current, succ, pc, n, left,
                 saved_user_rsp>>

(* The tick that ends a slice: sched_tick passes the turn on. Before sched_init   *)
(* the next thread is a null pointer.                                             *)
Preempt ==
  /\ Requested(TIMER_VECTOR) /\ TIMER_VECTOR \in DOMAIN handlers
  /\ power' = IF Delivery(TIMER_VECTOR) = "on" /\ succ[current] = Null
              THEN Exception(14) ELSE Delivery(TIMER_VECTOR)
  /\ IF power' = "on"
     THEN SwitchFrom(Left("irq", cpu.cs, cpu.ss), Interrupted,
                     IF User(current) THEN current ELSE kstack)
     ELSE UNCHANGED <<cpu, current, succ, pc, left, kstack>>
  /\ UNCHANGED <<world, step, handlers, mem, dev, n, saved_user_rsp>>

----------------------------------------------------------------------------------
(* kmain: thread_create four times, its result unused, then its yields. *)

(* The next thread_create, or the first yield. *)
Created ==
  IF n[Boot] < Len(Entry)
  THEN Goto("kmalloc") /\ n' = [n EXCEPT ![Boot] = @ + 1]
  ELSE Goto("iterate") /\ n' = [n EXCEPT ![Boot] = DEMO_THREAD_ITERATIONS]

CreateUnchanged == UNCHANGED <<world, step, cpu, handlers, dev, current, left, kstack,
                               saved_user_rsp>>

(* kmalloc: the heap's pages fault in as its headers are written; without a frame *)
(* the fault is fatal. The heap itself does not run out with four threads.        *)
Kmalloc ==
  /\ At("kmalloc")
  /\ \E k \in 0..(MaxTables + 1):
       /\ power' = PageFault(k)
       /\ Free(IF k <= mem.free THEN mem.free - k ELSE mem.free)
  /\ Goto("guarded")
  /\ UNCHANGED <<succ, n>> /\ CreateUnchanged

(* vmm_alloc_guarded: without enough frames those already used stay used, except  *)
(* one that was waiting for its page table.                                       *)
AllocGuarded ==
  /\ At("guarded")
  /\ \E k \in 0..MaxTables:
       IF THREAD_STACK_PAGES + k <= mem.free
       THEN Goto("add") /\ Free(mem.free - THREAD_STACK_PAGES - k)
       ELSE Goto("kfree") /\ \E r \in 0..1: r <= mem.free /\ r <= k /\ Free(r)
  /\ UNCHANGED <<power, succ, n>> /\ CreateUnchanged

Kfree ==
  /\ At("kfree")
  /\ Created
  /\ UNCHANGED <<power, mem, succ>> /\ CreateUnchanged

AddThread ==
  /\ At("add")
  /\ RR!Add(n[Boot])
  /\ Created
  /\ UNCHANGED <<power, mem>>
  /\ UNCHANGED <<world, step, cpu, handlers, dev, left, kstack, saved_user_rsp>>

(* kmain's loop and demo_thread's. The line that is logged first is Console's. *)
Iterate ==
  /\ At("iterate")
  /\ n[current] > 0
  /\ n' = [n EXCEPT ![current] = @ - 1]
  /\ Yield

(* demo_thread ends in hlt, waiting for interrupts. *)
Idle ==
  /\ At("iterate")
  /\ n[current] = 0 /\ current # Boot
  /\ Goto("idle")
  /\ UNCHANGED <<bvars, n, left, kstack, saved_user_rsp>>

(* qemu_debug_exit ends the machine or does nothing; kernel_halt: cli; hlt. *)
Halt ==
  /\ At("iterate")
  /\ n[current] = 0 /\ current = Boot
  /\ power' = "done"
  /\ cpu' = [cpu EXCEPT !.ief = FALSE]
  /\ UNCHANGED <<world, step, handlers, mem, dev, current, succ, tvars>>

----------------------------------------------------------------------------------
(* ring3_demo_thread and the program it starts: syscall, then a jump to itself. *)

UserUnchanged == UNCHANGED <<world, step, handlers, dev, current, succ, n, left>>

(* Two frames, both asked for before either is tested. *)
UserFrames ==
  /\ At("frames")
  /\ Goto(IF mem.free >= 2 THEN "map" ELSE "idle")
  /\ Free(IF mem.free >= 2 THEN mem.free - 2 ELSE 0)
  /\ UNCHANGED <<power, cpu, kstack, saved_user_rsp>> /\ UserUnchanged

(* Two calls of vmm_map, then the program is written. *)
UserMap ==
  /\ At("map")
  /\ \E k \in 0..(2 * MaxTables):
       /\ Goto(IF mem.free >= k THEN "jump" ELSE "idle")
       /\ Free(IF mem.free >= k THEN mem.free - k ELSE 0)
  /\ UNCHANGED <<power, cpu, kstack, saved_user_rsp>> /\ UserUnchanged

(* iretq to selectors 0x23 and 0x1b with IF set. *)
JumpToRing3 ==
  /\ At("jump")
  /\ Goto("syscall")
  /\ cpu' = [cpu EXCEPT !.cs = 35, !.ss = 27, !.ief = TRUE]
  /\ UNCHANGED <<power, mem, kstack, saved_user_rsp>> /\ UserUnchanged

(* SYSCALL takes its selectors from STAR, masks IF by FMASK and keeps the stack. *)
Syscall ==
  /\ At("syscall")
  /\ power' = IF cpu.sce THEN "on" ELSE Exception(6)
  /\ Goto("entry")
  /\ cpu' = [cpu EXCEPT !.cs = cpu.star.call, !.ss = cpu.star.call + 8,
                        !.ief = @ /\ ~cpu.fmask]
  /\ UNCHANGED <<mem, kstack, saved_user_rsp>> /\ UserUnchanged

(* Off the user's stack, onto the kernel's; RIP and RFLAGS are pushed there. *)
SyscallEntry ==
  /\ At("entry")
  /\ power' = IF cpu.kernel_syscall_rsp THEN "on" ELSE "reset"
  /\ Goto("dispatch")
  /\ saved_user_rsp' = current
  /\ kstack' = current
  /\ UNCHANGED <<mem, cpu>> /\ UserUnchanged

(* syscall_dispatch says ENOSYS; the frame is popped, the user's stack restored. *)
(* SYSRET takes its selectors from STAR and the saved RFLAGS, in which IF is set. *)
Sysret ==
  /\ At("dispatch")
  /\ Goto("spin")
  /\ cpu' = [cpu EXCEPT !.cs = cpu.star.sysret + 16 + 3, !.ss = cpu.star.sysret + 8 + 3,
                        !.ief = TRUE]
  /\ kstack' = Null
  /\ UNCHANGED <<power, mem, saved_user_rsp>> /\ UserUnchanged

----------------------------------------------------------------------------------
Next ==
  \/ BootStep /\ UNCHANGED tvars
  \/ \E v \in {TIMER_VECTOR, KEYBOARD_VECTOR, LAPIC_SPURIOUS_VECTOR}: Serve(v)
  \/ Preempt
  \/ Kmalloc \/ AllocGuarded \/ Kfree \/ AddThread \/ Iterate \/ Idle \/ Halt
  \/ UserFrames \/ UserMap \/ JumpToRing3 \/ Syscall \/ SyscallEntry \/ Sysret

(* Nothing in the set-up waits but the calibration, for a counter that runs out. *)
Spec == KInit /\ [][Next]_vars /\ WF_vars(BootStep /\ UNCHANGED tvars)

----------------------------------------------------------------------------------
(* No two threads are inside the allocators at once, although none of them takes *)
(* a lock and every thread can be preempted there: kmain's last allocation is    *)
(* over before ring3_demo_thread, the only other one, exists.                    *)
AllocatorsExclusive ==
  Up => \A t, u \in DOMAIN succ: Allocating(t) /\ Allocating(u) => t = u

(* The stack syscall_init allocates serves interrupts from ring 3 and system      *)
(* calls alike. No frame on it is overwritten while its thread still needs it,    *)
(* the saved user stack pointer is the caller's, and no interrupt is taken while  *)
(* the kernel is still on the user's stack.                                       *)
UserContextIntact ==
  \A t \in Thread:
    /\ User(t) /\ t # current => kstack = t
    /\ pc[t] = "dispatch" => kstack = t /\ saved_user_rsp = t
    /\ pc[t] = "entry" => t = current /\ ~cpu.ief

(* CS selects a code segment of the current ring, and in ring 3 SS a data segment *)
(* of ring 3: the GDT's order, STAR, the gates and the literals of                *)
(* syscall_entry.S agree on every way in and out of ring 3.                       *)
SegmentsMatch ==
  LET ring == IF User(current) THEN 3 ELSE 0
      at(sel) == cpu.gdt[sel \div 8]
  IN power = "on" /\ Up =>
       /\ cpu.cs % 4 = ring /\ at(cpu.cs) = [system |-> FALSE, code |-> TRUE, dpl |-> ring]
       /\ ring = 3 => /\ cpu.ss % 4 = 3
                      /\ at(cpu.ss) = [system |-> FALSE, code |-> FALSE, dpl |-> 3]
================================================================================
