------------------------------- MODULE KmainProof -------------------------------
(* Proofs about BringUp and Kmain: for every machine, number of frames and number *)
(* of turns, the kernel never resets the machine, the allocators are never        *)
(* entered twice, and every way in and out of ring 3 keeps the user's context and *)
(* the segments.                                                                  *)
EXTENDS Kmain, SequenceTheorems, TLAPS

(* The steps after which what they set up can be relied on. *)
SerialUp == step > 2
FbUp == step > 3
GdtUp == step > 4
IdtUp == step > 5
LapicUp == step > 11
RingUp == step > 13
SyscallUp == step > 17

Cpu == [gdt: {<<>>, Gdt}, cs: Nat, ss: Nat, rsp0: BOOLEAN, idt: SUBSET Nat,
        ief: BOOLEAN, sce: BOOLEAN, star: [sysret: Nat, call: Nat], fmask: BOOLEAN,
        kernel_syscall_rsp: BOOLEAN]

Mem == [free: Nat, lazy: BOOLEAN, heap: BOOLEAN]
Dev == [out: SUBSET {"serial", "fb"}, lapic: BOOLEAN, lines: SUBSET Nat]

Creating == {"kmalloc", "guarded", "kfree", "add"}
DemoPC == {"new", "iterate", "idle"}
Ring3PC == {"new", "frames", "map", "jump", "syscall", "entry", "dispatch", "spin", "idle"}

TypeOK ==
  /\ world \in Worlds
  /\ step \in 1..19
  /\ power \in {"on", "done", "panicked", "silent"}
  /\ cpu \in Cpu
  /\ mem \in Mem
  /\ dev \in Dev
  /\ pc \in [All -> Creating \cup DemoPC \cup Ring3PC]
  /\ n \in [All -> Nat]
  /\ left \in [All -> [how: {"new", "running", "yield", "irq"}, cs: Nat, ss: Nat]]

(* The outputs the machine has are known before anything but the protocol's        *)
(* revision is tested.                                                             *)
OutputsOK ==
  /\ step > 1 => world.revision
  /\ SerialUp /\ world.serial => "serial" \in dev.out
  /\ FbUp /\ world.fb => "fb" \in dev.out
  /\ power = "silent" => ~world.revision \/ ~(world.serial \/ world.fb)

(* The vectors the kernel can meet. *)
Vectors == {6, 13, 14, TIMER_VECTOR, KEYBOARD_VECTOR, LAPIC_SPURIOUS_VECTOR}

SyscallSet(c) ==
  /\ c.rsp0 /\ c.kernel_syscall_rsp /\ c.sce /\ c.fmask
  /\ c.star = [sysret |-> GDT_KERNEL_DATA, call |-> GDT_KERNEL_CODE]

TablesOK ==
  /\ GdtUp => cpu.gdt = Gdt
  /\ IdtUp => Vectors \subseteq cpu.idt
  /\ LapicUp => dev.lapic
  /\ SyscallUp => SyscallSet(cpu)

(* During the set-up there is only kmain, with interrupts off. *)
QuietOK ==
  step <= 18 =>
    /\ ~cpu.ief
    /\ GdtUp => cpu.cs = GDT_KERNEL_CODE
    /\ current = Boot /\ DOMAIN succ = {Boot}
    /\ pc[Boot] = "kmalloc" /\ n[Boot] = 1
    /\ \A t \in Thread: pc[t] = "new"

RingOK ==
  /\ Boot \in DOMAIN succ /\ current \in DOMAIN succ /\ DOMAIN succ \subseteq All
  /\ RingUp => \A t \in DOMAIN succ: succ[t] \in DOMAIN succ

(* Each thread is in its own code, and only threads of the ring have started.      *)
(* While kmain still creates threads, those it has not come to are not in the ring. *)
ThreadsOK ==
  /\ pc[Boot] \in Creating \cup {"iterate"}
  /\ \A t \in {1, 2, 3}: pc[t] \in DemoPC
  /\ pc[4] \in Ring3PC
  /\ pc[Boot] \in Creating =>
       /\ n[Boot] \in 1..4
       /\ \A t \in Thread: t >= n[Boot] => t \notin DOMAIN succ
  /\ \A t \in Thread: t \notin DOMAIN succ => pc[t] = "new"

(* Who lost the CPU in an interrupt gets back the segments it had. *)
LeftOK ==
  /\ \A t \in All: pc[t] = "new" <=> left[t].how = "new"
  /\ left[current].how = "running"
  /\ \A t \in All: t # current =>
       /\ left[t].how # "running"
       /\ left[t].how = "yield" => ~User(t)
       /\ left[t].how = "irq" =>
            IF User(t) THEN left[t].cs = 35 /\ left[t].ss = 27
                       ELSE left[t].cs = GDT_KERNEL_CODE

CpuOK ==
  Up => IF User(current) THEN cpu.cs = 35 /\ cpu.ss = 27
                         ELSE cpu.cs = GDT_KERNEL_CODE

KInv ==
  /\ TypeOK /\ OutputsOK /\ TablesOK /\ QuietOK /\ RingOK /\ ThreadsOK /\ LeftOK
  /\ CpuOK /\ UserContextIntact /\ (pc[4] = "dispatch" => current = 4 /\ ~cpu.ief)

----------------------------------------------------------------------------------

Name == {"limine_requests_check", "serial_init", "fb_init", "gdt_init", "idt_init",
         "pmm_init", "vmm_init", "heap_init", "heap_store", "acpi_init", "lapic_init",
         "ioapic_init", "sched_init", "timer_init", "calibrate", "keyboard_init",
         "syscall_init", "io_enable_interrupts"}

HasLen(s, k) == s \in Seq(Name) /\ Len(s) = k

(* w is the k names of s followed by those of u, l in all. *)
Joins(w, s, k, u, l) ==
  /\ \A i \in 1..k: w[i] = s[i]
  /\ \A i \in (k + 1)..l: w[i] = u[i - k]

(* Concatenation of a sequence of k names and one of m. *)
LEMMA Concat ==
  ASSUME NEW k \in Nat, NEW m \in Nat, NEW l, l = k + m,
         NEW s, HasLen(s, k), NEW u, HasLen(u, m)
  PROVE  HasLen(s \o u, l) /\ Joins(s \o u, s, k, u, l)
  <1>1. s \in Seq(Name) /\ u \in Seq(Name) /\ Len(s) = k /\ Len(u) = m
    BY DEF HasLen
  <1> DEFINE w == s \o u
  <1>2. /\ w \in Seq(Name) /\ Len(w) = Len(s) + Len(u)
        /\ \A i \in 1..Len(s) + Len(u): w[i] = IF i <= Len(s) THEN s[i] ELSE u[i - Len(s)]
    BY <1>1, ConcatProperties
  <1> HIDE DEF w
  <1>3. HasLen(w, l)
    BY <1>1, <1>2 DEF HasLen
  <1>4. Joins(w, s, k, u, l)
    BY <1>1, <1>2 DEF Joins
  <1> QED
    BY <1>3, <1>4 DEF w

(* The order of the set-up, written out. *)
LEMMA OrderFacts ==
  /\ Len(BootOrder) = 18
  /\ BootOrder[1] = "limine_requests_check" /\ BootOrder[2] = "serial_init"
  /\ BootOrder[3] = "fb_init" /\ BootOrder[4] = "gdt_init"
  /\ BootOrder[5] = "idt_init" /\ BootOrder[6] = "pmm_init"
  /\ BootOrder[7] = "vmm_init" /\ BootOrder[8] = "heap_init"
  /\ BootOrder[9] = "heap_store" /\ BootOrder[10] = "acpi_init"
  /\ BootOrder[11] = "lapic_init" /\ BootOrder[12] = "ioapic_init"
  /\ BootOrder[13] = "sched_init" /\ BootOrder[14] = "timer_init"
  /\ BootOrder[15] = "calibrate" /\ BootOrder[16] = "keyboard_init"
  /\ BootOrder[17] = "syscall_init" /\ BootOrder[18] = "io_enable_interrupts"
  <1> DEFINE sched == <<"sched_init">>
             last == <<"io_enable_interrupts">>
             o1 == Outputs \o Tables
             o2 == o1 \o Memory
             o3 == o2 \o Devices
             o4 == o3 \o sched
             o5 == o4 \o Ticking
  <1>1. HasLen(Outputs, 3) /\ HasLen(Tables, 2) /\ HasLen(Memory, 4)
    BY DEF Outputs, Tables, Memory, Name, HasLen
  <1>2. HasLen(Devices, 3) /\ HasLen(sched, 1) /\ HasLen(Ticking, 4) /\ HasLen(last, 1)
    BY DEF Devices, Ticking, Name, HasLen
  <1>3. BootOrder = o5 \o last
    BY DEF BootOrder
  <1>4. /\ Outputs[1] = "limine_requests_check" /\ Outputs[2] = "serial_init" /\ Outputs[3] = "fb_init"
        /\ Tables[1] = "gdt_init" /\ Tables[2] = "idt_init"
    BY DEF Outputs, Tables
  <1>5. /\ Memory[1] = "pmm_init" /\ Memory[2] = "vmm_init"
        /\ Memory[3] = "heap_init" /\ Memory[4] = "heap_store"
        /\ Devices[1] = "acpi_init" /\ Devices[2] = "lapic_init"
        /\ Devices[3] = "ioapic_init"
        /\ sched[1] = "sched_init"
    BY DEF Memory, Devices
  <1>6. /\ Ticking[1] = "timer_init" /\ Ticking[2] = "calibrate"
        /\ Ticking[3] = "keyboard_init" /\ Ticking[4] = "syscall_init"
        /\ last[1] = "io_enable_interrupts"
    BY DEF Ticking
  <1> HIDE DEF sched, last
  <1>7. HasLen(o1, 5) /\ Joins(o1, Outputs, 3, Tables, 5)
    BY <1>1, <1>2, Concat
  <1> HIDE DEF o1
  <1>8. HasLen(o2, 9) /\ Joins(o2, o1, 5, Memory, 9)
    BY <1>1, <1>7, Concat
  <1> HIDE DEF o2
  <1>9. HasLen(o3, 12) /\ Joins(o3, o2, 9, Devices, 12)
    BY <1>2, <1>8, Concat
  <1> HIDE DEF o3
  <1>10. HasLen(o4, 13) /\ Joins(o4, o3, 12, sched, 13)
    BY <1>2, <1>9, Concat
  <1> HIDE DEF o4
  <1>11. HasLen(o5, 17) /\ Joins(o5, o4, 13, Ticking, 17)
    BY <1>2, <1>10, Concat
  <1> HIDE DEF o5
  <1>12. HasLen(BootOrder, 18) /\ Joins(BootOrder, o5, 17, last, 18)
    BY <1>2, <1>11, Concat, <1>3
  <1>13. \A i \in 1..3: BootOrder[i] = Outputs[i]
    BY <1>7, <1>8, <1>9, <1>10, <1>11, <1>12 DEF Joins
  <1>14. \A i \in 4..5: BootOrder[i] = Tables[i - 3]
    BY <1>7, <1>8, <1>9, <1>10, <1>11, <1>12 DEF Joins
  <1>15. \A i \in 6..9: BootOrder[i] = Memory[i - 5]
    BY <1>8, <1>9, <1>10, <1>11, <1>12 DEF Joins
  <1>16. \A i \in 10..12: BootOrder[i] = Devices[i - 9]
    BY <1>9, <1>10, <1>11, <1>12 DEF Joins
  <1>17. BootOrder[13] = sched[1]
    BY <1>10, <1>11, <1>12 DEF Joins
  <1>18. \A i \in 14..17: BootOrder[i] = Ticking[i - 13]
    BY <1>11, <1>12 DEF Joins
  <1>19. BootOrder[18] = last[1] /\ Len(BootOrder) = 18
    BY <1>12 DEF Joins, HasLen
  <1> HIDE DEF BootOrder
  <1> QED
    BY <1>4, <1>5, <1>6, <1>13, <1>14, <1>15, <1>16, <1>17, <1>18, <1>19

(* Each name stands once in it. *)
LEMMA StepOf ==
  ASSUME NEW i \in 1..18
  PROVE  /\ Len(BootOrder) = 18
         /\ BootOrder[i] = "serial_init" => i = 2
         /\ BootOrder[i] = "fb_init" => i = 3
         /\ BootOrder[i] = "gdt_init" => i = 4
         /\ BootOrder[i] = "idt_init" => i = 5
         /\ BootOrder[i] = "pmm_init" => i = 6
         /\ BootOrder[i] = "vmm_init" => i = 7
         /\ BootOrder[i] = "heap_init" => i = 8
         /\ BootOrder[i] = "heap_store" => i = 9
         /\ BootOrder[i] = "acpi_init" => i = 10
         /\ BootOrder[i] = "lapic_init" => i = 11
         /\ BootOrder[i] = "ioapic_init" => i = 12
         /\ BootOrder[i] = "sched_init" => i = 13
         /\ BootOrder[i] = "timer_init" => i = 14
         /\ BootOrder[i] = "calibrate" => i = 15
         /\ BootOrder[i] = "keyboard_init" => i = 16
         /\ BootOrder[i] = "syscall_init" => i = 17
         /\ BootOrder[i] = "io_enable_interrupts" => i = 18
  BY OrderFacts

----------------------------------------------------------------------------------
(* The set-up. *)

(* What the CPU, the devices and the ring have before step k of the set-up. *)
CpuBefore(c, k) ==
  /\ c \in Cpu
  /\ k <= 18 => ~c.ief
  /\ k > 4 => c.gdt = Gdt /\ c.cs = GDT_KERNEL_CODE
  /\ k > 5 => Vectors \subseteq c.idt
  /\ k > 17 => SyscallSet(c)

DevBefore(d, k) ==
  /\ d \in Dev
  /\ k > 1 => world.revision
  /\ k > 2 /\ world.serial => "serial" \in d.out
  /\ k > 3 /\ world.fb => "fb" \in d.out
  /\ k > 11 => d.lapic

RingBefore(s, k) == DOMAIN s = {Boot} /\ (k > 13 => s[Boot] = Boot)

(* A way to stop that tells the user why, if the machine can. *)
Clean(p) ==
  /\ p \in {"on", "panicked", "silent"}
  /\ p = "silent" => ~world.revision \/ ~(world.serial \/ world.fb)

(* kmain's four threads. *)
LEMMA ThreadFacts ==
  /\ Len(Entry) = 4 /\ Thread = {1, 2, 3, 4} /\ Entry[1] = "demo" /\ Entry[2] = "demo"
  /\ Entry[3] = "demo" /\ Entry[4] = "ring3"
  /\ Boot \notin Thread /\ Null \notin All /\ Boot \in All /\ 4 \in All
  <1>1. Len(Entry) = 4 /\ Entry[1] = "demo" /\ Entry[2] = "demo"
        /\ Entry[3] = "demo" /\ Entry[4] = "ring3"
    BY DEF Entry
  <1>2. Thread = {1, 2, 3, 4}
    BY <1>1 DEF Thread
  <1> QED
    BY <1>1, <1>2, KmainAssumption DEF All

(* What the invariant says of the set-up. *)
LEMMA SetUpFacts ==
  ASSUME KInv, ~Up
  PROVE  /\ step \in 1..18
         /\ CpuBefore(cpu, step) /\ DevBefore(dev, step) /\ RingBefore(succ, step)
         /\ current = Boot
  <1>1. step \in 1..18
    BY OrderFacts DEF KInv, TypeOK, Up
  <1>2. CpuBefore(cpu, step)
    BY <1>1 DEF KInv, TypeOK, TablesOK, QuietOK, CpuBefore, GdtUp, IdtUp, SyscallUp
  <1>3. DevBefore(dev, step)
    BY <1>1 DEF KInv, TypeOK, OutputsOK, TablesOK, DevBefore, SerialUp, FbUp, LapicUp
  <1>4. RingBefore(succ, step) /\ current = Boot
    BY <1>1 DEF KInv, QuietOK, RingOK, RingBefore, RingUp
  <1> QED
    BY <1>1, <1>2, <1>3, <1>4

(* A step of the set-up that leaves things as the next one expects them. *)
LEMMA BootKept ==
  ASSUME KInv, ~Up, step' \in {step, step + 1}, UNCHANGED <<world, tvars>>,
         Clean(power'), mem' \in Mem, CpuBefore(cpu', step'), DevBefore(dev', step'),
         RingBefore(succ', step'), current' = Boot
  PROVE  KInv'
  <1>1. /\ step \in 1..18 /\ UNCHANGED <<world, pc, n, left, kstack, saved_user_rsp>>
        /\ current = Boot
    BY SetUpFacts DEF tvars
  <1>2. TypeOK'
    BY <1>1 DEF KInv, TypeOK, Clean, CpuBefore, DevBefore
  <1>3. OutputsOK' /\ TablesOK'
    BY <1>1 DEF Clean, CpuBefore, DevBefore, OutputsOK, TablesOK, SerialUp, FbUp, GdtUp,
                IdtUp, LapicUp, SyscallUp
  <1>4. /\ pc[Boot] = "kmalloc" /\ n[Boot] = 1
        /\ \A t \in Thread: pc[t] = "new"
    BY <1>1 DEF KInv, QuietOK
  <1>5. QuietOK'
    BY <1>1, <1>4 DEF QuietOK, CpuBefore, RingBefore, GdtUp
  <1>6. RingOK'
    BY <1>1, ThreadFacts DEF RingOK, RingBefore, RingUp
  <1>7. ThreadsOK'
    <2>1. \A t \in Thread: t \notin DOMAIN succ'
      BY ThreadFacts DEF RingBefore
    <2>2. /\ pc'[Boot] = "kmalloc" /\ n'[Boot] = 1
          /\ pc'[1] = "new" /\ pc'[2] = "new" /\ pc'[3] = "new" /\ pc'[4] = "new"
          /\ \A t \in Thread: pc'[t] = "new"
      BY <1>1, <1>4, ThreadFacts
    <2>3. \A t \in {1, 2, 3}: pc'[t] \in DemoPC
      BY <2>2 DEF DemoPC
    <2>4. pc'[Boot] \in Creating \cup {"iterate"} /\ pc'[4] \in Ring3PC
      BY <2>2 DEF Creating, Ring3PC
    <2>5. n'[Boot] \in 1..4
      BY <2>2
    <2> QED
      BY <2>1, <2>2, <2>3, <2>4, <2>5 DEF ThreadsOK
  <1>8. LeftOK'
    BY <1>1 DEF KInv, LeftOK, User
  <1>9. \A t \in All: pc[t] \in {"new", "kmalloc"}
    BY <1>4, ThreadFacts DEF All
  <1>10. CpuOK'
    <2>1. Up' => step' > 4
      BY <1>1, OrderFacts DEF Up
    <2> QED
      BY <1>1, <1>9, <2>1, ThreadFacts DEF CpuOK, CpuBefore, User
  <1>11. UserContextIntact' /\ pc'[4] # "dispatch"
    BY <1>1, <1>9, ThreadFacts DEF UserContextIntact, User, All
  <1> QED
    BY <1>2, <1>3, <1>5, <1>6, <1>7, <1>8, <1>10, <1>11 DEF KInv

(* Once the outputs are known a panic is clean, and once the IDT is loaded so is   *)
(* every exception the kernel can raise.                                           *)
LEMMA StopFacts ==
  ASSUME KInv, step > 5
  PROVE  /\ Clean("on") /\ Clean(Panicked)
         /\ \A v \in Vectors: Exception(v) = Panicked
         /\ \A p: Clean(p) => Clean(HhdmOr(p))
         /\ \A k: Clean(PageFault(k))
  <1>1. Clean("on")
    BY DEF Clean
  <1>2. Clean(Panicked)
    BY DEF KInv, TypeOK, OutputsOK, SerialUp, FbUp, Clean, Panicked
  <1>3. \A v \in Vectors: Exception(v) = Panicked
    BY DEF KInv, TypeOK, TablesOK, IdtUp, Exception
  <1>4. 14 \in Vectors
    BY DEF Vectors
  <1>5. \A p: Clean(p) => Clean(HhdmOr(p))
    BY <1>2, <1>3, <1>4 DEF HhdmOr
  <1>6. \A k: Clean(PageFault(k))
    BY <1>1, <1>2, <1>3, <1>4 DEF PageFault
  <1> QED
    BY <1>1, <1>2, <1>3, <1>5, <1>6

(* What a step of the set-up does to its place in the order. *)
LEMMA StepFacts ==
  ASSUME KInv, NEW name, NEW p, Step(name, p)
  PROVE  /\ ~Up /\ step \in 1..18 /\ power' = p /\ world' = world
         /\ BootOrder[step] = name /\ step' \in {step, step + 1}
         /\ p = "on" => step' = step + 1
         /\ p # "on" => step' = step
  <1>1. ~Up
    BY DEF Step
  <1> QED
    BY <1>1, SetUpFacts DEF Step

(* The steps that find out what the machine has to write on. *)
LEMMA OutputsKInv ==
  ASSUME KInv, UNCHANGED tvars, LimineRequestsCheck \/ SerialInit \/ FbInit
  PROVE  KInv'
  <1>1. CASE LimineRequestsCheck
    <2> DEFINE p == IF world.revision THEN "on"
                    ELSE IF "serial" \in dev.out THEN "panicked" ELSE "silent"
    <2>1. Step("limine_requests_check", p) /\ UNCHANGED <<cpu, handlers, mem, dev, current, succ>>
      BY <1>1 DEF LimineRequestsCheck
    <2>2. Clean(p)
      BY DEF Clean
    <2> HIDE DEF p
    <2>3. /\ ~Up /\ step \in 1..18 /\ step = 1 /\ step' \in {1, 2} /\ world' = world
          /\ Clean(power')
      BY <2>1, <2>2, StepFacts, OrderFacts
    <2>4. step' > 1 => world.revision
      BY <2>1, <2>3, StepFacts DEF p
    <2>5. mem' \in Mem /\ CpuBefore(cpu', step') /\ DevBefore(dev', step')
          /\ RingBefore(succ', step') /\ current' = Boot
      BY <2>1, <2>3, <2>4, SetUpFacts DEF KInv, TypeOK, CpuBefore, DevBefore, RingBefore
    <2> QED
      BY <2>3, <2>5, BootKept
  <1>2. CASE SerialInit
    <2>1. /\ Step("serial_init", "on") /\ UNCHANGED <<cpu, handlers, mem, current, succ>>
          /\ dev' = [dev EXCEPT !.out = @ \cup (IF world.serial THEN {"serial"} ELSE {})]
      BY <1>2 DEF SerialInit
    <2>2. /\ ~Up /\ step = 2 /\ step' = 3 /\ world' = world /\ Clean(power')
      BY <2>1, StepFacts, StepOf DEF Clean
    <2>3. DevBefore(dev', step')
      BY <2>1, <2>2, SetUpFacts DEF DevBefore, Dev
    <2>4. mem' \in Mem /\ CpuBefore(cpu', step')
          /\ RingBefore(succ', step') /\ current' = Boot
      BY <2>1, <2>2, SetUpFacts DEF KInv, TypeOK, CpuBefore, RingBefore
    <2> QED
      BY <2>2, <2>3, <2>4, BootKept
  <1>3. CASE FbInit
    <2>1. /\ Step("fb_init", "on") /\ UNCHANGED <<cpu, handlers, mem, current, succ>>
          /\ dev' = [dev EXCEPT !.out = @ \cup (IF world.fb THEN {"fb"} ELSE {})]
      BY <1>3 DEF FbInit
    <2>2. /\ ~Up /\ step = 3 /\ step' = 4 /\ world' = world /\ Clean(power')
      BY <2>1, StepFacts, StepOf DEF Clean
    <2>3. DevBefore(dev', step')
      BY <2>1, <2>2, SetUpFacts DEF DevBefore, Dev
    <2>4. mem' \in Mem /\ CpuBefore(cpu', step')
          /\ RingBefore(succ', step') /\ current' = Boot
      BY <2>1, <2>2, SetUpFacts DEF KInv, TypeOK, CpuBefore, RingBefore
    <2> QED
      BY <2>2, <2>3, <2>4, BootKept
  <1> QED
    BY <1>1, <1>2, <1>3

(* The descriptor tables. *)
LEMMA TablesKInv ==
  ASSUME KInv, UNCHANGED tvars, GdtInit \/ IdtInit
  PROVE  KInv'
  <1>1. CASE GdtInit
    <2>1. /\ Step("gdt_init", "on") /\ UNCHANGED <<handlers, mem, dev, current, succ>>
          /\ cpu' = [cpu EXCEPT !.gdt = Gdt, !.cs = GDT_KERNEL_CODE, !.ss = GDT_KERNEL_DATA,
                                !.rsp0 = FALSE]
      BY <1>1 DEF GdtInit
    <2>2. /\ ~Up /\ step = 4 /\ step' = 5 /\ world' = world /\ Clean(power')
      BY <2>1, StepFacts, StepOf DEF Clean
    <2>3. cpu \in Cpu /\ ~cpu.ief
      BY <2>2, SetUpFacts DEF CpuBefore
    <2>4. cpu' \in Cpu /\ ~cpu'.ief /\ cpu'.gdt = Gdt /\ cpu'.cs = GDT_KERNEL_CODE
      BY <2>1, <2>3 DEF Cpu, GDT_KERNEL_CODE, GDT_KERNEL_DATA
    <2>5. CpuBefore(cpu', step')
      BY <2>2, <2>4 DEF CpuBefore
    <2>6. mem' \in Mem /\ DevBefore(dev', step')
          /\ RingBefore(succ', step') /\ current' = Boot
      BY <2>1, <2>2, SetUpFacts DEF KInv, TypeOK, DevBefore, RingBefore
    <2> QED
      BY <2>2, <2>5, <2>6, BootKept
  <1>2. CASE IdtInit
    <2> DEFINE gates == (0..31) \cup {32 + i: i \in 0..15} \cup {LAPIC_SPURIOUS_VECTOR}
    <2>1. /\ Step("idt_init", "on") /\ UNCHANGED <<handlers, mem, dev, current, succ>>
          /\ cpu' = [cpu EXCEPT !.idt = gates]
      BY <1>2 DEF IdtInit
    <2>2. /\ ~Up /\ step = 5 /\ step' = 6 /\ world' = world /\ Clean(power')
      BY <2>1, StepFacts, StepOf DEF Clean
    <2>3. gates \in SUBSET Nat /\ Vectors \subseteq gates
      <3>1. gates \subseteq Nat
        BY DEF LAPIC_SPURIOUS_VECTOR
      <3>2. 32 + 0 \in gates /\ 32 + 1 \in gates
        OBVIOUS
      <3> QED
        BY <3>1, <3>2 DEF Vectors, LAPIC_SPURIOUS_VECTOR, TIMER_VECTOR, KEYBOARD_VECTOR
    <2> HIDE DEF gates
    <2>4. cpu \in Cpu /\ ~cpu.ief /\ cpu.gdt = Gdt /\ cpu.cs = GDT_KERNEL_CODE
      BY <2>2, SetUpFacts DEF CpuBefore
    <2>5. cpu' \in Cpu /\ ~cpu'.ief /\ cpu'.gdt = Gdt /\ cpu'.cs = GDT_KERNEL_CODE
          /\ Vectors \subseteq cpu'.idt
      BY <2>1, <2>3, <2>4 DEF Cpu
    <2>6. CpuBefore(cpu', step')
      BY <2>2, <2>5 DEF CpuBefore
    <2>7. mem' \in Mem /\ DevBefore(dev', step')
          /\ RingBefore(succ', step') /\ current' = Boot
      BY <2>1, <2>2, SetUpFacts DEF KInv, TypeOK, DevBefore, RingBefore
    <2> QED
      BY <2>2, <2>6, <2>7, BootKept
  <1> QED
    BY <1>1, <1>2

(* A step of the set-up between the tables and the devices touches memory only. *)
LEMMA MemoryKept ==
  ASSUME KInv, UNCHANGED <<world, tvars, cpu, dev, current, succ>>, ~Up, step \in 6..10,
         step' \in {step, step + 1}, Clean(power'), mem' \in Mem
  PROVE  KInv'
  <1>1. CpuBefore(cpu', step') /\ DevBefore(dev', step')
        /\ RingBefore(succ', step') /\ current' = Boot
    BY SetUpFacts DEF CpuBefore, DevBefore, RingBefore
  <1>2. UNCHANGED <<world, tvars>>
    OBVIOUS
  <1> QED
    BY <1>1, <1>2, BootKept

(* The frames, the kernel's address space, the heap and the ACPI tables. *)
LEMMA MemoryKInv ==
  ASSUME KInv, UNCHANGED tvars, PmmInit \/ VmmInit \/ HeapInit \/ HeapStore \/ AcpiInit
  PROVE  KInv'
  <1>0. mem \in Mem /\ world.frames \in Nat
    BY BringUpAssumption DEF KInv, TypeOK, World
  <1>1. CASE PmmInit
    <2> DEFINE p == HhdmOr(IF world.memmap /\ world.frames > 0 THEN "on" ELSE Panicked)
    <2>1. /\ Step("pmm_init", p) /\ UNCHANGED <<cpu, handlers, dev, current, succ>>
          /\ mem' = IF power' = "on" THEN [mem EXCEPT !.free = world.frames] ELSE mem
      BY <1>1 DEF PmmInit
    <2>2. /\ ~Up /\ step = 6 /\ step' \in {step, step + 1} /\ world' = world /\ power' = p
      <3> HIDE DEF p
      <3> QED
        BY <2>1, StepFacts, StepOf
    <2>3. Clean(p)
      BY <2>2, StopFacts
    <2>4. mem' \in Mem
      BY <1>0, <2>1 DEF Mem
    <2> QED
      BY <2>1, <2>2, <2>3, <2>4, MemoryKept
  <1>2. CASE VmmInit
    <2> DEFINE p == HhdmOr("on")
    <2>1. /\ Step("vmm_init", p) /\ UNCHANGED <<cpu, mem, dev, current, succ>>
      BY <1>2 DEF VmmInit
    <2>2. /\ ~Up /\ step = 7 /\ step' \in {step, step + 1} /\ world' = world /\ power' = p
      <3> HIDE DEF p
      <3> QED
        BY <2>1, StepFacts, StepOf
    <2>3. Clean(p)
      BY <2>2, StopFacts
    <2> QED
      BY <1>0, <2>1, <2>2, <2>3, MemoryKept
  <1>3. CASE HeapInit
    <2>1. /\ Step("heap_init", "on") /\ UNCHANGED <<cpu, handlers, dev, current, succ>>
          /\ mem' = [mem EXCEPT !.lazy = TRUE]
      BY <1>3 DEF HeapInit
    <2>2. /\ ~Up /\ step = 8 /\ step' \in {step, step + 1} /\ world' = world
          /\ Clean(power')
      BY <2>1, StepFacts, StepOf DEF Clean
    <2>3. mem' \in Mem
      BY <1>0, <2>1 DEF Mem
    <2> QED
      BY <2>1, <2>2, <2>3, MemoryKept
  <1>4. CASE HeapStore
    <2>1. CASE Step("heap_store", "on") /\ UNCHANGED <<cpu, handlers, mem, dev, current, succ>>
      <3>1. /\ ~Up /\ step = 9 /\ step' \in {step, step + 1} /\ world' = world
            /\ Clean(power')
        BY <2>1, StepFacts, StepOf DEF Clean
      <3> QED
        BY <1>0, <2>1, <3>1, MemoryKept
    <2>2. ASSUME power = "on", ~Up, BootOrder[step] = "heap_store",
                 UNCHANGED <<world, step, cpu, handlers, dev, current, succ>>,
                 NEW k \in 1..(MaxTables + 1), power' = PageFault(k),
                 mem' = IF power' = "on" THEN [mem EXCEPT !.free = @ - k, !.heap = TRUE]
                                         ELSE mem
          PROVE  KInv'
      <3>1. step = 9
        BY <2>2, SetUpFacts, StepOf
      <3>2. Clean(power') /\ Exception(14) # "on"
        BY <2>2, <3>1, StopFacts DEF Vectors, Panicked
      <3>3. power' = "on" => k <= mem.free
        BY <2>2, <3>2 DEF PageFault
      <3>4. mem' \in Mem
        <4>1. mem.free \in Nat /\ k \in Nat
          BY <1>0, <2>2, BringUpAssumption DEF Mem
        <4>2. power' = "on" => mem.free - k \in Nat
          BY <3>3, <4>1
        <4> DEFINE f == mem.free - k
        <4>3. mem' = IF power' = "on" THEN [mem EXCEPT !.free = f, !.heap = TRUE] ELSE mem
          BY <2>2
        <4> HIDE DEF f
        <4> QED
          BY <1>0, <4>2, <4>3 DEF Mem, f
      <3> QED
        BY <2>2, <3>1, <3>2, <3>4, MemoryKept
    <2> QED
      BY <1>4, <2>1, <2>2 DEF HeapStore
  <1>5. CASE AcpiInit
    <2> DEFINE p == HhdmOr(IF world.rsdp = "good" THEN "on" ELSE Panicked)
    <2>1. /\ Step("acpi_init", p) /\ UNCHANGED <<cpu, handlers, mem, dev, current, succ>>
      BY <1>5 DEF AcpiInit
    <2>2. /\ ~Up /\ step = 10 /\ step' \in {step, step + 1} /\ world' = world /\ power' = p
      <3> HIDE DEF p
      <3> QED
        BY <2>1, StepFacts, StepOf
    <2>3. Clean(p)
      BY <2>2, StopFacts
    <2> QED
      BY <1>0, <2>1, <2>2, <2>3, MemoryKept
  <1> QED
    BY <1>1, <1>2, <1>3, <1>4, <1>5

(* A step that maps memory, and what it leaves of the frames. *)
LEMMA MapFacts ==
  ASSUME KInv, NEW name, NEW k \in Nat, MapOr(name, k), step > 5
  PROVE  /\ ~Up /\ step \in 1..18 /\ world' = world /\ BootOrder[step] = name
         /\ Clean(power') /\ mem' \in Mem
         /\ step' = IF power' = "on" THEN step + 1 ELSE step
  <1> DEFINE p == IF k <= mem.free THEN "on" ELSE Panicked
  <1>1. Step(name, p) /\ mem' = [mem EXCEPT !.free = IF k <= @ THEN @ - k ELSE 0]
    BY DEF MapOr
  <1>2. Clean(p)
    BY StopFacts
  <1>3. mem' \in Mem
    BY <1>1 DEF KInv, TypeOK, Mem
  <1> HIDE DEF p
  <1> QED
    BY <1>1, <1>2, <1>3, StepFacts

(* The interrupt controllers; the LAPIC is on from here. *)
LEMMA DevicesKInv ==
  ASSUME KInv, UNCHANGED tvars, LapicInit \/ IoapicInit
  PROVE  KInv'
  <1>1. CASE LapicInit
    <2>1. PICK k \in 0..MaxTables: MapOr("lapic_init", k)
      BY <1>1 DEF LapicInit
    <2>2. /\ UNCHANGED <<cpu, handlers, current, succ>>
          /\ dev' = IF power' = "on"
                    THEN [dev EXCEPT !.lapic = TRUE, !.lines = @ \ {TIMER_VECTOR}] ELSE dev
      BY <1>1 DEF LapicInit
    <2>3. ~Up /\ step = 11
      BY <2>1, SetUpFacts, StepOf DEF MapOr, Step
    <2>4. /\ world' = world /\ Clean(power') /\ mem' \in Mem /\ k \in Nat
          /\ step' = IF power' = "on" THEN 12 ELSE 11
      BY <2>1, <2>3, MapFacts, BringUpAssumption
    <2>5. DevBefore(dev', step')
      <3>1. DevBefore(dev, 11)
        BY <2>3, SetUpFacts
      <3>2. CASE power' = "on"
        <4>1. dev' \in Dev /\ dev'.lapic /\ dev'.out = dev.out
          BY <2>2, <3>1, <3>2 DEF DevBefore, Dev
        <4> QED
          BY <2>4, <3>1, <3>2, <4>1 DEF DevBefore
      <3>3. CASE power' # "on"
        BY <2>2, <2>4, <3>1, <3>3
      <3> QED
        BY <3>2, <3>3
    <2>6. CpuBefore(cpu', step') /\ RingBefore(succ', step') /\ current' = Boot
      BY <2>2, <2>3, <2>4, SetUpFacts DEF CpuBefore, RingBefore
    <2> QED
      BY <2>3, <2>4, <2>5, <2>6, BootKept
  <1>2. CASE IoapicInit
    <2>1. ~Up /\ step = 12 /\ UNCHANGED <<cpu, handlers, current, succ>>
      BY <1>2, SetUpFacts, StepOf DEF IoapicInit, MapOr, Step
    <2>2. /\ world' = world /\ Clean(power') /\ mem' \in Mem
          /\ step' \in {12, 13}
          /\ dev' = dev \/ dev' = [dev EXCEPT !.lines = @ \ {KEYBOARD_VECTOR}]
      <3>1. CASE world.madt = "corrupt"
        <4>1. Step("ioapic_init", Panicked) /\ UNCHANGED <<mem, dev>>
          BY <1>2, <3>1 DEF IoapicInit
        <4> QED
          BY <2>1, <4>1, StepFacts, StopFacts DEF KInv, TypeOK
      <3>2. CASE world.madt # "corrupt"
        <4>1. PICK k \in 0..MaxTables: MapOr("ioapic_init", k)
          BY <1>2, <3>2 DEF IoapicInit
        <4>2. dev' = [dev EXCEPT !.lines = @ \ {KEYBOARD_VECTOR}]
          BY <1>2, <3>2 DEF IoapicInit
        <4>3. k \in Nat
          BY BringUpAssumption
        <4> QED
          BY <2>1, <4>1, <4>2, <4>3, MapFacts
      <3> QED
        BY <3>1, <3>2
    <2>3. DevBefore(dev', step')
      BY <2>1, <2>2, SetUpFacts DEF DevBefore, Dev
    <2>4. CpuBefore(cpu', step') /\ RingBefore(succ', step') /\ current' = Boot
      BY <2>1, <2>2, SetUpFacts DEF CpuBefore, RingBefore
    <2> QED
      BY <2>1, <2>2, <2>3, <2>4, BootKept
  <1> QED
    BY <1>1, <1>2

(* The bootstrap thread becomes a ring of one. *)
LEMMA SchedInitKInv ==
  ASSUME KInv, UNCHANGED tvars, SchedInit
  PROVE  KInv'
  <1>1. /\ Step("sched_init", "on") /\ UNCHANGED <<cpu, handlers, mem, dev>>
        /\ current' = Boot /\ succ' = [t \in {Boot} |-> Boot]
    BY DEF SchedInit
  <1>2. ~Up /\ step = 13 /\ step' = 14 /\ world' = world /\ Clean(power')
    BY <1>1, StepFacts, StepOf DEF Clean
  <1>3. RingBefore(succ', step')
    BY <1>1 DEF RingBefore
  <1>4. mem' \in Mem /\ CpuBefore(cpu', step') /\ DevBefore(dev', step')
    BY <1>1, <1>2, SetUpFacts DEF KInv, TypeOK, CpuBefore, DevBefore
  <1> QED
    BY <1>1, <1>2, <1>3, <1>4, BootKept

(* The sources of interrupts. *)
LEMMA TickingKInv ==
  ASSUME KInv, UNCHANGED tvars, TimerInit \/ Calibrate \/ KeyboardInit
  PROVE  KInv'
  <1>1. PICK lines \in SUBSET Nat: dev' = [dev EXCEPT !.lines = lines]
    <2>1. dev.lines \in SUBSET Nat
      BY DEF KInv, TypeOK, Dev
    <2> QED
      BY <2>1 DEF TimerInit, Calibrate, KeyboardInit, TIMER_VECTOR, KEYBOARD_VECTOR
  <1>2. \E name \in {"timer_init", "calibrate", "keyboard_init"}: Step(name, "on")
    BY DEF TimerInit, Calibrate, KeyboardInit
  <1>3. UNCHANGED <<cpu, mem, current, succ>>
    BY DEF TimerInit, Calibrate, KeyboardInit
  <1>4. /\ ~Up /\ step \in {14, 15, 16} /\ step' = step + 1 /\ world' = world
        /\ Clean(power')
    BY <1>2, StepFacts, StepOf DEF Clean
  <1>5. DevBefore(dev', step')
    BY <1>1, <1>4, SetUpFacts DEF DevBefore, Dev
  <1>6. mem' \in Mem /\ CpuBefore(cpu', step') /\ RingBefore(succ', step') /\ current' = Boot
    BY <1>3, <1>4, SetUpFacts DEF KInv, TypeOK, CpuBefore, RingBefore
  <1> QED
    BY <1>4, <1>5, <1>6, BootKept

(* The registers of the system call, then the interrupt flag. *)
LEMMA LastStepsKInv ==
  ASSUME KInv, UNCHANGED tvars, SyscallInit \/ IoEnableInterrupts
  PROVE  KInv'
  <1>1. CASE SyscallInit
    <2>1. PICK k \in 0..MaxTables: MapOr("syscall_init", SYSCALL_KERNEL_STACK_PAGES + k)
      BY <1>1 DEF SyscallInit
    <2>2. /\ UNCHANGED <<handlers, dev, current, succ>>
          /\ cpu' = IF power' = "on" THEN SyscallRegisters(cpu) ELSE cpu
      BY <1>1 DEF SyscallInit
    <2>3. ~Up /\ step = 17
      BY <2>1, SetUpFacts, StepOf DEF MapOr, Step
    <2>4. SYSCALL_KERNEL_STACK_PAGES + k \in Nat
      BY BringUpAssumption
    <2>5. /\ world' = world /\ Clean(power') /\ mem' \in Mem
          /\ step' = IF power' = "on" THEN 18 ELSE 17
      BY <2>1, <2>3, <2>4, MapFacts
    <2>6. CpuBefore(cpu, 17)
      BY <2>3, SetUpFacts
    <2>7. /\ SyscallRegisters(cpu) \in Cpu /\ ~SyscallRegisters(cpu).ief
          /\ SyscallRegisters(cpu).gdt = cpu.gdt /\ SyscallRegisters(cpu).cs = cpu.cs
          /\ SyscallRegisters(cpu).idt = cpu.idt
      <3>1. cpu \in Cpu /\ ~cpu.ief
        BY <2>6 DEF CpuBefore
      <3>2. SyscallRegisters(cpu) \in Cpu
        BY <3>1 DEF Cpu, SyscallRegisters, GDT_KERNEL_CODE, GDT_KERNEL_DATA
      <3> QED
        BY <3>1, <3>2 DEF Cpu, SyscallRegisters
    <2>8. SyscallSet(SyscallRegisters(cpu))
      BY <2>6 DEF CpuBefore, Cpu, SyscallRegisters, SyscallSet
    <2>9. CpuBefore(cpu', step')
      BY <2>2, <2>5, <2>6, <2>7, <2>8 DEF CpuBefore
    <2>10. DevBefore(dev', step') /\ RingBefore(succ', step') /\ current' = Boot
      BY <2>2, <2>3, <2>5, SetUpFacts DEF DevBefore, RingBefore
    <2> QED
      BY <2>3, <2>5, <2>9, <2>10, BootKept
  <1>2. CASE IoEnableInterrupts
    <2>1. /\ Step("io_enable_interrupts", "on") /\ cpu' = [cpu EXCEPT !.ief = TRUE]
          /\ UNCHANGED <<handlers, mem, dev, current, succ>>
      BY <1>2 DEF IoEnableInterrupts
    <2>2. ~Up /\ step = 18 /\ step' = 19 /\ world' = world /\ Clean(power')
      BY <2>1, StepFacts, StepOf DEF Clean
    <2>3. CpuBefore(cpu, 18)
      BY <2>2, SetUpFacts
    <2>4. /\ cpu' \in Cpu /\ cpu'.gdt = cpu.gdt /\ cpu'.cs = cpu.cs /\ cpu'.idt = cpu.idt
          /\ SyscallSet(cpu')
      <3>1. cpu \in Cpu /\ SyscallSet(cpu)
        BY <2>3 DEF CpuBefore
      <3>2. cpu' \in Cpu
        BY <2>1, <3>1 DEF Cpu
      <3> QED
        BY <2>1, <3>1, <3>2 DEF Cpu, SyscallSet
    <2>5. CpuBefore(cpu', step')
      BY <2>2, <2>3, <2>4 DEF CpuBefore
    <2>6. mem' \in Mem /\ DevBefore(dev', step') /\ RingBefore(succ', step') /\ current' = Boot
      BY <2>1, <2>2, SetUpFacts DEF KInv, TypeOK, DevBefore, RingBefore
    <2> QED
      BY <2>2, <2>5, <2>6, BootKept
  <1> QED
    BY <1>1, <1>2

(* Every step of the set-up keeps the invariant. *)
LEMMA BootStepKInv ==
  ASSUME KInv, UNCHANGED tvars, BootStep
  PROVE  KInv'
  BY OutputsKInv, TablesKInv, MemoryKInv, DevicesKInv, SchedInitKInv, TickingKInv,
     LastStepsKInv DEF BootStep

----------------------------------------------------------------------------------
(* The threads. *)

(* Whose code a thread's place belongs to. *)
LEMMA PlaceFacts ==
  ASSUME KInv, NEW t \in All
  PROVE  /\ pc[t] \in {"frames", "map", "jump", "syscall", "entry", "dispatch", "spin"} => t = 4
         /\ pc[t] \in Creating => t = Boot
         /\ pc[t] = "iterate" => t # 4
         /\ User(t) => t = 4
         /\ t \in {1, 2, 3, 4, Boot}
  <1>1. t \in {1, 2, 3, 4, Boot}
    BY ThreadFacts DEF All
  <1>2. CASE t \in {1, 2, 3}
    BY <1>2 DEF KInv, ThreadsOK, DemoPC, Creating, User
  <1>3. CASE t = 4
    BY <1>3, ThreadFacts DEF KInv, ThreadsOK, Ring3PC, Creating, User
  <1>4. CASE t = Boot
    <2>1. pc[t] \in {"kmalloc", "guarded", "kfree", "add", "iterate"} /\ t # 4
      BY <1>4, ThreadFacts DEF KInv, ThreadsOK, Creating
    <2> QED
      BY <1>1, <1>4, <2>1 DEF Creating, User
  <1> QED
    BY <1>1, <1>2, <1>3, <1>4

(* What the invariant says once kmain has come to the threads. *)
LEMMA UpFacts ==
  ASSUME KInv, Up
  PROVE  /\ step = 19 /\ dev.lapic /\ Vectors \subseteq cpu.idt /\ SyscallSet(cpu)
         /\ cpu \in Cpu /\ cpu.gdt = Gdt
         /\ current \in DOMAIN succ /\ succ[current] \in DOMAIN succ /\ DOMAIN succ \subseteq All
         /\ current \in All /\ succ[current] \in All
         /\ pc[current] # "new" /\ left[current].how = "running"
         /\ pc[current] \in {"entry", "dispatch"} => ~cpu.ief
  <1>1. step = 19
    BY OrderFacts DEF KInv, TypeOK, Up
  <1>2. dev.lapic /\ Vectors \subseteq cpu.idt /\ SyscallSet(cpu) /\ cpu \in Cpu /\ cpu.gdt = Gdt
    BY <1>1 DEF KInv, TypeOK, TablesOK, GdtUp, IdtUp, LapicUp, SyscallUp
  <1>3. /\ current \in DOMAIN succ /\ succ[current] \in DOMAIN succ /\ DOMAIN succ \subseteq All
        /\ current \in All /\ succ[current] \in All
    BY <1>1 DEF KInv, RingOK, RingUp
  <1>4. left[current].how = "running" /\ pc[current] # "new"
    BY <1>3 DEF KInv, LeftOK
  <1>5. pc[current] \in {"entry", "dispatch"} => ~cpu.ief
    <2>1. pc[current] \in {"entry", "dispatch"} => current = 4 /\ 4 \in Thread
      BY <1>3, PlaceFacts, ThreadFacts
    <2> QED
      BY <2>1 DEF KInv, UserContextIntact
  <1> QED
    BY <1>1, <1>2, <1>3, <1>4, <1>5

(* Interrupts are on only after the set-up, and then find all they need. *)
LEMMA DeliveryFacts ==
  ASSUME KInv, NEW v \in {TIMER_VECTOR, KEYBOARD_VECTOR, LAPIC_SPURIOUS_VECTOR}, Requested(v)
  PROVE  Up /\ Delivery(v) = "on" /\ pc[current] \notin {"entry", "dispatch"}
  <1>1. cpu.ief
    BY DEF Requested
  <1>2. Up
    BY <1>1, SetUpFacts DEF CpuBefore
  <1>3. v \in cpu.idt /\ cpu.rsp0 /\ dev.lapic
    BY <1>2, UpFacts DEF Vectors, SyscallSet
  <1> QED
    BY <1>1, <1>2, <1>3, UpFacts DEF Delivery

(* A CPU that still has its tables and system call registers. *)
Intact(c) == c \in Cpu /\ c.gdt = Gdt /\ Vectors \subseteq c.idt /\ SyscallSet(c)

(* A step of the running thread, to q, that does not switch. *)
LEMMA ThreadKept ==
  ASSUME KInv, Up, NEW q, pc' = [pc EXCEPT ![current] = q],
         current = Boot => q \in Creating \cup {"iterate"},
         current \in {1, 2, 3} => q \in {"iterate", "idle"},
         current = 4 => q \in Ring3PC \ {"new"},
         UNCHANGED <<world, step, dev, current, left>>,
         power' = "done" \/ Clean(power'), mem' \in Mem,
         Intact(cpu'),
         RingOK', DOMAIN succ \subseteq DOMAIN succ',
         n' \in [All -> Nat],
         pc'[Boot] \in Creating =>
           /\ n'[Boot] \in 1..4
           /\ \A t \in Thread: t >= n'[Boot] => t \notin DOMAIN succ',
         q \in {"syscall", "spin"} => cpu'.cs = 35 /\ cpu'.ss = 27,
         q \notin {"syscall", "spin"} => cpu'.cs = GDT_KERNEL_CODE,
         q \in {"entry", "dispatch"} => ~cpu'.ief,
         q = "dispatch" => kstack' = 4 /\ saved_user_rsp' = 4,
         current # 4 => kstack' = kstack
  PROVE  KInv'
  <1>1. current \in All /\ step = 19 /\ current \in {1, 2, 3, 4, Boot}
    BY UpFacts, PlaceFacts
  <1>2. pc \in [All -> Creating \cup DemoPC \cup Ring3PC]
    BY DEF KInv, TypeOK
  <1>3. pc'[current] = q /\ \A t \in All: t # current => pc'[t] = pc[t]
    BY <1>1, <1>2
  <1>4. q \in Creating \cup DemoPC \cup Ring3PC /\ q # "new"
    BY <1>1 DEF Creating, DemoPC
  <1>5. TypeOK'
    BY <1>1, <1>2, <1>4 DEF KInv, TypeOK, Clean, Intact
  <1>6. OutputsOK' /\ TablesOK' /\ QuietOK'
    BY <1>1, UpFacts DEF KInv, OutputsOK, SerialUp, FbUp, TablesOK, GdtUp, IdtUp, LapicUp,
                SyscallUp, QuietOK, Clean, Intact
  <1>7. ThreadsOK'
    <2>1. pc'[Boot] \in Creating \cup {"iterate"}
      BY <1>1, <1>3, ThreadFacts DEF KInv, ThreadsOK
    <2>2. ASSUME NEW t \in {1, 2, 3} PROVE pc'[t] \in DemoPC
      <3>1. t \in All
        BY ThreadFacts DEF All
      <3> QED
        BY <1>3, <3>1 DEF KInv, ThreadsOK, DemoPC
    <2>3. pc'[4] \in Ring3PC
      BY <1>3, ThreadFacts DEF KInv, ThreadsOK
    <2>4. ASSUME NEW t \in Thread, t \notin DOMAIN succ' PROVE pc'[t] = "new"
      BY <1>3, <2>4, UpFacts DEF KInv, ThreadsOK, All
    <2> QED
      BY <2>1, <2>2, <2>3, <2>4 DEF ThreadsOK
  <1>8. LeftOK'
    BY <1>1, <1>3, <1>4, UpFacts DEF KInv, LeftOK, User
  <1>9. CpuOK'
    BY <1>1, <1>3 DEF CpuOK, User
  <1>10. ASSUME NEW t \in Thread
         PROVE  /\ User(t)' /\ t # current' => kstack' = t
                /\ pc'[t] = "dispatch" => kstack' = t /\ saved_user_rsp' = t
                /\ pc'[t] = "entry" => t = current' /\ ~cpu'.ief
                /\ pc'[t] = "dispatch" => t = current' /\ ~cpu'.ief
    <2>1. t \in All
      BY DEF All
    <2>2. CASE t = current
      BY <1>3, <2>2, ThreadFacts DEF DemoPC
    <2>3. CASE t # current
      <3>1. pc'[t] = pc[t] /\ (User(t)' <=> User(t))
        BY <1>3, <2>1, <2>3 DEF User
      <3>2. User(t) => t = 4
        BY <2>1, PlaceFacts
      <3>3. pc[t] = "dispatch" => t = 4
        BY <2>1, PlaceFacts
      <3> QED
        BY <2>3, <3>1, <3>2, <3>3 DEF KInv, UserContextIntact
    <2> QED
      BY <2>2, <2>3
  <1>11. UserContextIntact' /\ (pc'[4] = "dispatch" => current' = 4 /\ ~cpu'.ief)
    BY <1>10, ThreadFacts DEF UserContextIntact
  <1> QED
    BY <1>5, <1>6, <1>7, <1>8, <1>9, <1>11 DEF KInv

(* An interrupt that is served and returns. *)
LEMMA ServeKInv ==
  ASSUME KInv, NEW v \in {TIMER_VECTOR, KEYBOARD_VECTOR, LAPIC_SPURIOUS_VECTOR}, Serve(v)
  PROVE  KInv'
  <1>1. Requested(v) /\ power' = Delivery(v)
        /\ kstack' = (IF User(current) THEN Null ELSE kstack)
        /\ UNCHANGED <<world, step, cpu, handlers, mem, dev, current, succ, pc, n, left,
                       saved_user_rsp>>
    BY DEF Serve
  <1>2. Up /\ power' = "on" /\ pc[current] \notin {"entry", "dispatch"}
    BY <1>1, DeliveryFacts
  <1> DEFINE q == pc[current]
  <1>3. current \in All /\ step = 19 /\ current \in {1, 2, 3, 4, Boot} /\ Intact(cpu')
    BY <1>1, <1>2, UpFacts, PlaceFacts DEF Intact
  <1>4. pc' = [pc EXCEPT ![current] = q]
    BY <1>1, <1>3 DEF KInv, TypeOK
  <1>5. /\ current = Boot => q \in Creating \cup {"iterate"}
        /\ current \in {1, 2, 3} => q \in {"iterate", "idle"}
        /\ current = 4 => q \in Ring3PC \ {"new"}
    BY <1>2, UpFacts DEF KInv, ThreadsOK, DemoPC
  <1>6. /\ q \in {"syscall", "spin"} => cpu'.cs = 35 /\ cpu'.ss = 27
        /\ q \notin {"syscall", "spin"} => cpu'.cs = GDT_KERNEL_CODE
    BY <1>1, <1>2 DEF KInv, CpuOK, User
  <1>7. /\ RingOK' /\ DOMAIN succ \subseteq DOMAIN succ' /\ n' \in [All -> Nat]
        /\ mem' \in Mem
    BY <1>1 DEF KInv, TypeOK, RingOK, RingUp
  <1>8. pc'[Boot] \in Creating =>
          /\ n'[Boot] \in 1..4
          /\ \A t \in Thread: t >= n'[Boot] => t \notin DOMAIN succ'
    BY <1>1 DEF KInv, ThreadsOK
  <1>9. current # 4 => kstack' = kstack
    BY <1>1, <1>3, PlaceFacts
  <1>10. Clean(power')
    BY <1>2 DEF Clean
  <1> HIDE DEF q
  <1>11. UNCHANGED <<world, step, dev, current, left>> /\ q \notin {"entry", "dispatch"}
    BY <1>1, <1>2 DEF q
  <1> QED
    BY <1>2, <1>3, <1>4, <1>5, <1>6, <1>7, <1>8, <1>9, <1>10, <1>11, ThreadKept

(* A switch, from a thread left as l says to the next of the ring. *)
LEMMA SwitchKept ==
  ASSUME KInv, Up, NEW l, NEW c, NEW k, SwitchFrom(l, c, k),
         l \in [how: {"yield", "irq"}, cs: Nat, ss: Nat],
         Intact(c), c.cs = GDT_KERNEL_CODE,
         l.how = "yield" => ~User(current),
         l.how = "irq" => IF User(current) THEN l.cs = 35 /\ l.ss = 27
                                           ELSE l.cs = GDT_KERNEL_CODE,
         pc[current] \notin {"entry", "dispatch"},
         User(current) => k = 4,
         ~User(current) => k = kstack,
         UNCHANGED <<world, step, mem, dev>>, power' = "on",
         n' \in [All -> Nat], pc[Boot] \in Creating => n'[Boot] = n[Boot]
  PROVE  KInv'
  <1> DEFINE t == succ[current]
             r == IF t = current THEN l ELSE left[t]
             ran == Left("running", 0, 0)
             q == IF r.how = "new" THEN Start(Entry[t]) ELSE pc[t]
  <1>1. /\ current' = t /\ succ' = succ
        /\ left' = [left EXCEPT ![current] = l, ![t] = ran]
        /\ kstack' = IF r.how = "irq" /\ User(t) THEN Null ELSE k
    BY DEF SwitchFrom, RR!Switch
  <1>2. pc' = [pc EXCEPT ![t] = q]
    BY DEF SwitchFrom
  <1>3. cpu' = CASE r.how = "new"   -> [c EXCEPT !.ief = TRUE]
                 [] r.how = "yield" -> c
                 [] r.how = "irq"   -> [c EXCEPT !.ief = TRUE, !.cs = r.cs, !.ss = r.ss]
    BY DEF SwitchFrom
  <1>4. /\ step = 19 /\ current \in All /\ t \in All /\ t \in DOMAIN succ
        /\ t \in {1, 2, 3, 4, Boot} /\ pc[current] # "new"
    BY UpFacts, PlaceFacts
  <1>5. /\ r \in [how: {"new", "yield", "irq"}, cs: Nat, ss: Nat]
        /\ r.how = "new" <=> pc[t] = "new"
        /\ r.how = "yield" => ~User(t)
        /\ r.how = "irq" => IF User(t) THEN r.cs = 35 /\ r.ss = 27
                                       ELSE r.cs = GDT_KERNEL_CODE
    <2>1. CASE t = current
      BY <1>4, <2>1
    <2>2. CASE t # current
      <3>1. r = left[t] /\ left[t] \in [how: {"new", "running", "yield", "irq"}, cs: Nat, ss: Nat]
        BY <1>4, <2>2 DEF KInv, TypeOK
      <3> HIDE DEF r
      <3> QED
        BY <1>4, <2>2, <3>1 DEF KInv, LeftOK
    <2> QED
      BY <2>1, <2>2
  <1> HIDE DEF r
  <1>6. /\ r.how # "new" => q = pc[t]
        /\ r.how = "new" => /\ t \in Thread
                            /\ q = IF t = 4 THEN "frames" ELSE "iterate"
    <2>1. r.how = "new" => t # Boot
      BY <1>5 DEF KInv, ThreadsOK, Creating
    <2>2. r.how # "new" => q = pc[t]
      OBVIOUS
    <2>3. r.how = "new" => t \in {1, 2, 3, 4}
      BY <1>4, <2>1
    <2>4. ASSUME r.how = "new", t = 4 PROVE q = "frames"
      <3>1. Entry[t] = "ring3"
        BY <2>4, ThreadFacts
      <3> QED
        BY <2>4, <3>1 DEF Start
    <2>5. ASSUME r.how = "new", t # 4 PROVE q = "iterate"
      <3>1. t \in {1, 2, 3}
        BY <2>3, <2>5
      <3>2. Entry[t] = "demo"
        BY <3>1, ThreadFacts
      <3> QED
        BY <2>5, <3>2 DEF Start
    <2> HIDE DEF q, t
    <2> QED
      BY <2>2, <2>3, <2>4, <2>5, ThreadFacts
  <1> HIDE DEF q
  <1>7. /\ left'[t] = ran
        /\ t # current => left'[current] = l
        /\ \A u \in All: u # current /\ u # t => left'[u] = left[u]
        /\ pc'[t] = q
        /\ \A u \in All: u # t => pc'[u] = pc[u]
    BY <1>1, <1>2, <1>4 DEF KInv, TypeOK
  <1>8. /\ ran \in [how: {"new", "running", "yield", "irq"}, cs: Nat, ss: Nat]
        /\ l \in [how: {"new", "running", "yield", "irq"}, cs: Nat, ss: Nat]
        /\ ran.how = "running"
    BY DEF Left
  <1> HIDE DEF ran
  <1>9. left' \in [All -> [how: {"new", "running", "yield", "irq"}, cs: Nat, ss: Nat]]
    BY <1>1, <1>4, <1>8 DEF KInv, TypeOK
  <1>10. q \in Creating \cup DemoPC \cup Ring3PC /\ q # "new"
    BY <1>4, <1>5, <1>6 DEF KInv, TypeOK, DemoPC, Ring3PC
  <1>11. pc' \in [All -> Creating \cup DemoPC \cup Ring3PC]
    BY <1>2, <1>10 DEF KInv, TypeOK
  <1>12. /\ Intact(cpu')
         /\ q \in {"syscall", "spin"} => cpu'.cs = 35 /\ cpu'.ss = 27
         /\ q \notin {"syscall", "spin"} => cpu'.cs = GDT_KERNEL_CODE
    <2>1. CASE r.how = "new"
      <3>1. cpu' = [c EXCEPT !.ief = TRUE] /\ c \in Cpu
        BY <1>3, <2>1 DEF Intact
      <3>2. cpu' \in Cpu /\ cpu'.cs = c.cs
        BY <3>1 DEF Cpu
      <3>3. Intact(cpu')
        BY <3>1, <3>2 DEF Intact, Cpu, SyscallSet
      <3> QED
        BY <1>6, <2>1, <3>2, <3>3
    <2>2. CASE r.how = "yield"
      BY <1>3, <1>5, <1>6, <2>2 DEF User
    <2>3. CASE r.how = "irq"
      <3>1. /\ cpu' = [c EXCEPT !.ief = TRUE, !.cs = r.cs, !.ss = r.ss] /\ c \in Cpu
            /\ r.cs \in Nat /\ r.ss \in Nat
        BY <1>3, <1>5, <2>3 DEF Intact
      <3>2. cpu' \in Cpu /\ cpu'.cs = r.cs /\ cpu'.ss = r.ss
        BY <3>1 DEF Cpu
      <3>3. Intact(cpu')
        BY <3>1, <3>2 DEF Intact, Cpu, SyscallSet
      <3> QED
        BY <1>5, <1>6, <2>3, <3>2, <3>3 DEF User
    <2> QED
      BY <1>5, <2>1, <2>2, <2>3
  <1>13. TypeOK'
    BY <1>4, <1>9, <1>11, <1>12 DEF KInv, TypeOK, Intact
  <1>14. OutputsOK' /\ TablesOK' /\ QuietOK' /\ RingOK'
    <2>1. OutputsOK' /\ QuietOK'
      BY <1>4 DEF KInv, OutputsOK, SerialUp, FbUp, QuietOK
    <2>2. TablesOK'
      BY <1>4, <1>12 DEF KInv, TablesOK, GdtUp, IdtUp, LapicUp, SyscallUp, Intact
    <2>3. RingOK'
      BY <1>1, <1>4 DEF KInv, RingOK, RingUp
    <2> QED
      BY <2>1, <2>2, <2>3
  <1>15. ThreadsOK'
    <2>1. pc'[Boot] = pc[Boot]
      BY <1>5, <1>6, <1>7, ThreadFacts
    <2>2. ASSUME NEW u \in {1, 2, 3} PROVE pc'[u] \in DemoPC
      <3>1. u \in All /\ u # 4 /\ pc[u] \in DemoPC
        BY ThreadFacts DEF All, KInv, ThreadsOK
      <3> QED
        BY <1>6, <1>7, <3>1 DEF DemoPC
    <2>3. pc'[4] \in Ring3PC
      <3>1. pc[4] \in Ring3PC
        BY DEF KInv, ThreadsOK
      <3> QED
        BY <1>6, <1>7, <3>1, ThreadFacts DEF Ring3PC
    <2>4. ASSUME NEW u \in Thread, u \notin DOMAIN succ' PROVE pc'[u] = "new"
      <3>1. u \in All /\ u # t
        BY <1>1, <1>4, <2>4 DEF All
      <3> QED
        BY <1>1, <1>7, <2>4, <3>1 DEF KInv, ThreadsOK
    <2>5. pc'[Boot] \in Creating =>
            /\ n'[Boot] \in 1..4
            /\ \A u \in Thread: u >= n'[Boot] => u \notin DOMAIN succ'
      BY <1>1, <2>1 DEF KInv, ThreadsOK
    <2>6. pc'[Boot] \in Creating \cup {"iterate"}
      BY <2>1 DEF KInv, ThreadsOK
    <2> QED
      BY <2>2, <2>3, <2>4, <2>5, <2>6 DEF ThreadsOK
  <1>16. LeftOK'
    <2>1. left'[t].how = "running" /\ pc'[t] # "new"
      BY <1>7, <1>8, <1>10
    <2>2. ASSUME NEW u \in All, u # t
          PROVE  /\ pc'[u] = "new" <=> left'[u].how = "new"
                 /\ left'[u].how # "running"
                 /\ left'[u].how = "yield" => ~User(u)'
                 /\ left'[u].how = "irq" =>
                      IF User(u)' THEN left'[u].cs = 35 /\ left'[u].ss = 27
                                  ELSE left'[u].cs = GDT_KERNEL_CODE
      <3>1. pc'[u] = pc[u] /\ (User(u)' <=> User(u))
        BY <1>7, <2>2 DEF User
      <3>2. CASE u = current
        <4>1. left'[u] = l
          BY <1>7, <2>2, <3>2
        <4> QED
          BY <1>4, <3>1, <3>2, <4>1
      <3>3. CASE u # current
        <4>1. left'[u] = left[u]
          BY <1>7, <2>2, <3>3
        <4> QED
          BY <3>1, <3>3, <4>1 DEF KInv, LeftOK
      <3> QED
        BY <3>2, <3>3
    <2> QED
      BY <1>1, <2>1, <2>2 DEF LeftOK
  <1>17. CpuOK'
    BY <1>1, <1>7, <1>12 DEF CpuOK, User
  <1>18. ASSUME NEW u \in Thread
         PROVE  /\ User(u)' /\ u # current' => kstack' = u
                /\ pc'[u] \notin {"entry", "dispatch"}
    <2>1. u \in All
      BY DEF All
    <2>2. pc'[u] \notin {"entry", "dispatch"}
      <3>1. \A w \in Thread: pc[w] \in {"entry", "dispatch"} => w = current
        BY PlaceFacts, ThreadFacts DEF KInv, UserContextIntact, All
      <3>2. pc[u] \notin {"entry", "dispatch"}
        BY <3>1
      <3>3. pc[t] \notin {"entry", "dispatch"}
        BY <1>4, <3>1, PlaceFacts, ThreadFacts DEF All
      <3> QED
        BY <1>6, <1>7, <2>1, <3>2, <3>3
    <2>3. ASSUME User(u)', u # t PROVE kstack' = u
      <3>1. User(u)
        BY <1>7, <2>1, <2>3 DEF User
      <3>2. u = 4 /\ ~User(t)
        BY <1>4, <2>1, <2>3, <3>1, PlaceFacts
      <3>3. kstack' = k
        BY <1>1, <3>2
      <3>4. current # 4 => ~User(current) /\ kstack = 4
        BY <1>4, <3>1, <3>2, PlaceFacts DEF KInv, UserContextIntact
      <3> QED
        BY <3>1, <3>2, <3>3, <3>4
    <2> QED
      BY <1>1, <2>2, <2>3
  <1>19. UserContextIntact' /\ pc'[4] # "dispatch"
    BY <1>18, ThreadFacts DEF UserContextIntact
  <1> QED
    BY <1>13, <1>14, <1>15, <1>16, <1>17, <1>19 DEF KInv

(* sched_tick at the end of a slice, and sched_yield. *)
LEMMA PreemptKInv ==
  ASSUME KInv, Preempt
  PROVE  KInv'
  <1> DEFINE l == Left("irq", cpu.cs, cpu.ss)
             k == IF User(current) THEN current ELSE kstack
             c == Interrupted
  <1>1. Requested(TIMER_VECTOR) /\ UNCHANGED <<world, step, handlers, mem, dev, n, saved_user_rsp>>
    BY DEF Preempt
  <1>2. Up /\ Delivery(TIMER_VECTOR) = "on" /\ pc[current] \notin {"entry", "dispatch"}
    BY <1>1, DeliveryFacts
  <1>3. succ[current] # Null /\ current \in All /\ cpu \in Cpu
    BY <1>2, UpFacts, ThreadFacts
  <1>4. power' = "on" /\ SwitchFrom(l, c, k)
    BY <1>2, <1>3 DEF Preempt
  <1>5. l \in [how: {"yield", "irq"}, cs: Nat, ss: Nat] /\ l.how = "irq"
        /\ l.cs = cpu.cs /\ l.ss = cpu.ss
    BY <1>3 DEF Left, Cpu
  <1>6. IF User(current) THEN l.cs = 35 /\ l.ss = 27 ELSE l.cs = GDT_KERNEL_CODE
    BY <1>2, <1>5 DEF KInv, CpuOK
  <1>7. c \in Cpu /\ c.cs = GDT_KERNEL_CODE
    BY <1>3 DEF Interrupted, Cpu, GDT_KERNEL_CODE
  <1>8. Intact(c)
    <2>1. c.gdt = cpu.gdt /\ c.idt = cpu.idt /\ (SyscallSet(cpu) => SyscallSet(c))
      BY <1>3, <1>7 DEF Interrupted, Cpu, SyscallSet
    <2> HIDE DEF c
    <2> QED
      BY <1>2, <1>7, <2>1, UpFacts DEF Intact
  <1>9. (User(current) => k = 4) /\ (~User(current) => k = kstack)
    BY <1>3, PlaceFacts
  <1>10. n' \in [All -> Nat] /\ n' = n
    BY <1>1 DEF KInv, TypeOK
  <1> HIDE DEF l, c, k
  <1> QED
    BY <1>1, <1>2, <1>4, <1>5, <1>6, <1>7, <1>8, <1>9, <1>10, SwitchKept

(* A turn of kmain or of demo_thread. *)
LEMMA IterateKInv ==
  ASSUME KInv, Iterate
  PROVE  KInv'
  <1> DEFINE l == Left("yield", 0, 0)
  <1>1. /\ Up /\ power = "on" /\ pc[current] = "iterate" /\ n[current] > 0
        /\ n' = [n EXCEPT ![current] = @ - 1]
        /\ SwitchFrom(l, cpu, kstack)
        /\ UNCHANGED <<world, step, power, handlers, mem, dev, saved_user_rsp>>
    BY DEF Iterate, At, Yield
  <1>2. current \in All /\ Intact(cpu) /\ ~User(current)
    BY <1>1, UpFacts DEF Intact, User
  <1>3. cpu.cs = GDT_KERNEL_CODE
    BY <1>1, <1>2 DEF KInv, CpuOK
  <1>4. l \in [how: {"yield", "irq"}, cs: Nat, ss: Nat] /\ l.how = "yield"
    BY DEF Left
  <1>5. n' \in [All -> Nat] /\ (pc[Boot] \in Creating => n'[Boot] = n[Boot])
    <2>1. n \in [All -> Nat] /\ Boot \in All
      BY ThreadFacts DEF KInv, TypeOK
    <2>2. n[current] - 1 \in Nat
      BY <1>1, <1>2, <2>1
    <2>3. pc[Boot] \in Creating => current # Boot
      BY <1>1 DEF Creating
    <2> QED
      BY <1>1, <1>2, <2>1, <2>2, <2>3
  <1> HIDE DEF l
  <1>6. pc[current] \notin {"entry", "dispatch"} /\ power' = "on"
        /\ UNCHANGED <<world, step, mem, dev>>
    BY <1>1
  <1> QED
    BY <1>1, <1>2, <1>3, <1>4, <1>5, <1>6, SwitchKept

(* A step of kmain's thread_create: kmain stays in it or begins to yield. *)
LEMMA CreateKept ==
  ASSUME KInv, Up, current = Boot, pc[Boot] \in Creating,
         NEW q \in Creating \cup {"iterate"}, pc' = [pc EXCEPT ![current] = q],
         UNCHANGED <<world, step, cpu, dev, current, left, kstack>>,
         Clean(power'), mem' \in Mem, RingOK', DOMAIN succ \subseteq DOMAIN succ',
         n' \in [All -> Nat],
         q \in Creating =>
           /\ n'[Boot] \in 1..4
           /\ \A t \in Thread: t >= n'[Boot] => t \notin DOMAIN succ'
  PROVE  KInv'
  <1>1. current # 4 /\ current \notin {1, 2, 3}
    BY ThreadFacts
  <1>2. q \notin {"syscall", "spin", "entry", "dispatch"}
    BY DEF Creating
  <1>3. Intact(cpu') /\ cpu'.cs = GDT_KERNEL_CODE
    <2>1. ~User(current)
      BY DEF User, Creating
    <2> QED
      BY <2>1, UpFacts DEF Intact, KInv, CpuOK
  <1>4. pc'[Boot] = q
    BY ThreadFacts DEF KInv, TypeOK
  <1> QED
    BY <1>1, <1>2, <1>3, <1>4, ThreadKept

(* thread_create up to sched_add_thread. *)
LEMMA AllocKInv ==
  ASSUME KInv, Kmalloc \/ AllocGuarded \/ Kfree
  PROVE  KInv'
  <1>1. \E p \in {"kmalloc", "guarded", "kfree"}: At(p)
    BY DEF Kmalloc, AllocGuarded, Kfree
  <1>2. Up /\ pc[current] \in Creating
    BY <1>1 DEF At, Creating
  <1>3. current = Boot /\ pc[Boot] \in Creating
    BY <1>2, UpFacts, PlaceFacts
  <1>4. /\ UNCHANGED <<world, step, cpu, dev, current, left, kstack>> /\ succ' = succ
    BY DEF Kmalloc, AllocGuarded, Kfree, CreateUnchanged
  <1>5. RingOK' /\ DOMAIN succ \subseteq DOMAIN succ'
    BY <1>4 DEF KInv, RingOK, RingUp
  <1>6. /\ n[Boot] \in 1..4
        /\ \A t \in Thread: t >= n[Boot] => t \notin DOMAIN succ
    BY <1>3 DEF KInv, ThreadsOK
  <1>7. mem \in Mem /\ mem.free \in Nat /\ n \in [All -> Nat] /\ Boot \in All
    BY ThreadFacts DEF KInv, TypeOK, Mem
  <1>8. step > 5
    BY <1>2, UpFacts
  <1>9. CASE Kmalloc
    <2>1. PICK k \in 0..(MaxTables + 1):
            /\ power' = PageFault(k)
            /\ Free(IF k <= mem.free THEN mem.free - k ELSE mem.free)
      BY <1>9 DEF Kmalloc
    <2>2. Clean(power')
      BY <1>8, <2>1, StopFacts
    <2> DEFINE f == IF k <= mem.free THEN mem.free - k ELSE mem.free
    <2>3. f \in Nat
      BY <1>7, BringUpAssumption
    <2>4. mem' = [mem EXCEPT !.free = f]
      BY <2>1 DEF Free
    <2> HIDE DEF f
    <2>5. mem' \in Mem
      BY <1>7, <2>3, <2>4 DEF Mem
    <2>6. pc' = [pc EXCEPT ![current] = "guarded"] /\ n' = n
      BY <1>9 DEF Kmalloc, Goto
    <2>7. "guarded" \in Creating
      BY DEF Creating
    <2> QED
      BY <1>2, <1>3, <1>4, <1>5, <1>6, <1>7, <2>2, <2>5, <2>6, <2>7, CreateKept
  <1>10. CASE AllocGuarded
    <2>1. PICK k \in 0..MaxTables:
            IF THREAD_STACK_PAGES + k <= mem.free
            THEN Goto("add") /\ Free(mem.free - THREAD_STACK_PAGES - k)
            ELSE Goto("kfree") /\ \E r \in 0..1: r <= mem.free /\ r <= k /\ Free(r)
      BY <1>10 DEF AllocGuarded
    <2>2. \E f \in Nat: Free(f)
      <3>1. CASE THREAD_STACK_PAGES + k <= mem.free
        <4>1. mem.free - THREAD_STACK_PAGES - k \in Nat
          BY <1>7, <3>1, KmainAssumption, BringUpAssumption
        <4> QED
          BY <2>1, <3>1, <4>1
      <3>2. CASE ~(THREAD_STACK_PAGES + k <= mem.free)
        BY <2>1, <3>2
      <3> QED
        BY <3>1, <3>2
    <2>3. mem' \in Mem
      <3>1. PICK f \in Nat: mem' = [mem EXCEPT !.free = f]
        BY <2>2 DEF Free
      <3> QED
        BY <1>7, <3>1 DEF Mem
    <2>4. PICK q \in {"add", "kfree"}: pc' = [pc EXCEPT ![current] = q]
      BY <2>1 DEF Goto
    <2>5. q \in Creating /\ n' = n
      BY <1>10 DEF Creating, AllocGuarded
    <2>6. Clean(power')
      <3>1. power' = power /\ power = "on"
        BY <1>10 DEF AllocGuarded, At
      <3> QED
        BY <3>1 DEF Clean
    <2> QED
      BY <1>2, <1>3, <1>4, <1>5, <1>6, <1>7, <2>3, <2>4, <2>5, <2>6, CreateKept
  <1>11. CASE Kfree
    <2>1. Created /\ power' = power /\ power = "on" /\ mem' = mem
      BY <1>11 DEF Kfree, At
    <2>2. Clean(power') /\ mem' \in Mem
      BY <1>7, <2>1 DEF Clean
    <2>3. CASE n[Boot] < 4
      <3>1. pc' = [pc EXCEPT ![current] = "kmalloc"] /\ n' = [n EXCEPT ![Boot] = @ + 1]
        BY <2>1, <2>3, ThreadFacts DEF Created, Goto
      <3>2. n'[Boot] = n[Boot] + 1 /\ n' \in [All -> Nat]
        BY <1>7, <3>1
      <3>3. /\ n'[Boot] \in 1..4
            /\ \A t \in Thread: t >= n'[Boot] => t \notin DOMAIN succ'
        BY <1>4, <1>6, <2>3, <3>2, ThreadFacts
      <3>4. "kmalloc" \in Creating
        BY DEF Creating
      <3> QED
        BY <1>2, <1>3, <1>4, <1>5, <2>2, <3>1, <3>2, <3>3, <3>4, CreateKept
    <2>4. CASE ~(n[Boot] < 4)
      <3>1. pc' = [pc EXCEPT ![current] = "iterate"]
            /\ n' = [n EXCEPT ![Boot] = DEMO_THREAD_ITERATIONS]
        BY <2>1, <2>4, ThreadFacts DEF Created, Goto
      <3>2. n' \in [All -> Nat] /\ "iterate" \notin Creating
        BY <1>7, <3>1, KmainAssumption DEF Creating
      <3> QED
        BY <1>2, <1>3, <1>4, <1>5, <2>2, <3>1, <3>2, CreateKept
    <2> QED
      BY <2>3, <2>4
  <1> QED
    BY <1>9, <1>10, <1>11

(* sched_add_thread: the thread enters the ring behind kmain. *)
LEMMA AddThreadKInv ==
  ASSUME KInv, AddThread
  PROVE  KInv'
  <1>1. /\ Up /\ power = "on" /\ pc[current] = "add" /\ RR!Add(n[Boot]) /\ Created
        /\ power' = power /\ mem' = mem
        /\ UNCHANGED <<world, step, cpu, handlers, dev, left, kstack, saved_user_rsp>>
    BY DEF AddThread, At
  <1>2. "add" \in Creating
    BY DEF Creating
  <1>3. current = Boot /\ pc[Boot] \in Creating
    BY <1>1, <1>2, UpFacts, PlaceFacts
  <1> DEFINE m == n[Boot]
  <1>4. m \in 1..4 /\ m \in All
        /\ \A t \in Thread: t >= m => t \notin DOMAIN succ
    <2>1. m \in 1..4 /\ \A t \in Thread: t >= m => t \notin DOMAIN succ
      BY <1>3 DEF KInv, ThreadsOK
    <2> QED
      BY <2>1, ThreadFacts DEF All
  <1> HIDE DEF m
  <1>5. /\ current' = current
        /\ DOMAIN succ' = DOMAIN succ \cup {m}
        /\ \A u \in DOMAIN succ': succ'[u] = CASE u = m       -> succ[current]
                                               [] u = current -> m
                                               [] OTHER       -> succ[u]
        /\ m \notin DOMAIN succ
    BY <1>1 DEF RR!Add, m
  <1>6. RingOK'
    <2>1. /\ step = 19 /\ current \in DOMAIN succ /\ Boot \in DOMAIN succ /\ DOMAIN succ \subseteq All
          /\ \A u \in DOMAIN succ: succ[u] \in DOMAIN succ
      BY <1>1, UpFacts DEF KInv, RingOK, RingUp
    <2>2. current # m
      BY <1>5, <2>1
    <2>3. \A u \in DOMAIN succ': succ'[u] \in DOMAIN succ'
      BY <1>5, <2>1, <2>2
    <2> QED
      BY <1>4, <1>5, <2>1, <2>3 DEF RingOK
  <1>7. n \in [All -> Nat] /\ Boot \in All /\ mem' \in Mem /\ Clean(power')
    BY <1>1, ThreadFacts DEF KInv, TypeOK, Clean
  <1>8. UNCHANGED <<world, step, cpu, dev, current, left, kstack>>
        /\ DOMAIN succ \subseteq DOMAIN succ'
    BY <1>1, <1>5
  <1>9. CASE m < 4
    <2>1. pc' = [pc EXCEPT ![current] = "kmalloc"] /\ n' = [n EXCEPT ![Boot] = @ + 1]
      BY <1>1, <1>9, ThreadFacts DEF Created, Goto, m
    <2>2. n'[Boot] = m + 1 /\ n' \in [All -> Nat]
      BY <1>7, <2>1 DEF m
    <2>3. /\ n'[Boot] \in 1..4
          /\ \A t \in Thread: t >= n'[Boot] => t \notin DOMAIN succ'
      BY <1>4, <1>5, <1>9, <2>2, ThreadFacts
    <2>4. "kmalloc" \in Creating
      BY DEF Creating
    <2> QED
      BY <1>1, <1>3, <1>6, <1>7, <1>8, <2>1, <2>2, <2>3, <2>4, CreateKept
  <1>10. CASE ~(m < 4)
    <2>1. pc' = [pc EXCEPT ![current] = "iterate"]
          /\ n' = [n EXCEPT ![Boot] = DEMO_THREAD_ITERATIONS]
      BY <1>1, <1>10, ThreadFacts DEF Created, Goto, m
    <2>2. n' \in [All -> Nat] /\ "iterate" \notin Creating
      BY <1>7, <2>1, KmainAssumption DEF Creating
    <2> QED
      BY <1>1, <1>3, <1>6, <1>7, <1>8, <2>1, <2>2, CreateKept
  <1> QED
    BY <1>9, <1>10

(* A step of the running thread, to q, that leaves the ring and the counts alone. *)
LEMMA PlainKept ==
  ASSUME KInv, Up, NEW q, pc' = [pc EXCEPT ![current] = q],
         current = Boot => q = "iterate",
         current \in {1, 2, 3} => q \in {"iterate", "idle"},
         current = 4 => q \in Ring3PC \ {"new"},
         UNCHANGED <<world, step, dev, current, succ, n, left>>,
         power' = "done" \/ Clean(power'), mem' \in Mem, Intact(cpu'),
         q \in {"syscall", "spin"} => cpu'.cs = 35 /\ cpu'.ss = 27,
         q \notin {"syscall", "spin"} => cpu'.cs = GDT_KERNEL_CODE,
         q \in {"entry", "dispatch"} => ~cpu'.ief,
         q = "dispatch" => kstack' = 4 /\ saved_user_rsp' = 4,
         current # 4 => kstack' = kstack
  PROVE  KInv'
  <1>1. RingOK' /\ DOMAIN succ \subseteq DOMAIN succ' /\ n' \in [All -> Nat]
    BY DEF KInv, TypeOK, RingOK, RingUp
  <1>2. pc'[Boot] \in Creating => pc[Boot] \in Creating
    BY ThreadFacts, UpFacts DEF KInv, TypeOK, Creating
  <1>3. pc'[Boot] \in Creating =>
          /\ n'[Boot] \in 1..4
          /\ \A t \in Thread: t >= n'[Boot] => t \notin DOMAIN succ'
    BY <1>2 DEF KInv, ThreadsOK
  <1>4. current = Boot => q \in Creating \cup {"iterate"}
    OBVIOUS
  <1>5. UNCHANGED <<world, step, dev, current, left>>
    OBVIOUS
  <1> QED
    BY <1>1, <1>3, <1>4, <1>5, ThreadKept

(* The ends of demo_thread and of kmain. *)
LEMMA EndKInv ==
  ASSUME KInv, Idle \/ Halt
  PROVE  KInv'
  <1>1. Up /\ power = "on" /\ pc[current] = "iterate"
    BY DEF Idle, Halt, At
  <1>2. current \in All /\ current \in {1, 2, 3, Boot} /\ current # 4
    BY <1>1, UpFacts, PlaceFacts
  <1>3. cpu \in Cpu /\ Intact(cpu) /\ cpu.cs = GDT_KERNEL_CODE
    <2>1. ~User(current)
      BY <1>1 DEF User
    <2> QED
      BY <1>1, <2>1, UpFacts DEF Intact, KInv, CpuOK
  <1>4. mem \in Mem
    BY DEF KInv, TypeOK
  <1>5. CASE Idle
    <2>1. /\ pc' = [pc EXCEPT ![current] = "idle"] /\ current # Boot
          /\ UNCHANGED <<world, step, power, cpu, mem, dev, current, succ, n, left, kstack>>
      BY <1>5 DEF Idle, Goto, bvars
    <2>2. Clean(power')
      BY <1>1, <2>1 DEF Clean
    <2> QED
      BY <1>1, <1>2, <1>3, <1>4, <2>1, <2>2, PlainKept
  <1>6. CASE Halt
    <2>1. /\ pc' = pc /\ power' = "done" /\ cpu' = [cpu EXCEPT !.ief = FALSE]
          /\ UNCHANGED <<world, step, mem, dev, current, succ, n, left, kstack>>
      BY <1>6 DEF Halt, tvars
    <2>2. pc' = [pc EXCEPT ![current] = "iterate"]
      BY <1>1, <1>2, <2>1 DEF KInv, TypeOK
    <2>3. cpu' \in Cpu /\ cpu'.cs = cpu.cs
      BY <1>3, <2>1 DEF Cpu
    <2>4. Intact(cpu')
      BY <1>3, <2>1, <2>3 DEF Intact, Cpu, SyscallSet
    <2> QED
      BY <1>1, <1>2, <1>3, <1>4, <2>1, <2>2, <2>3, <2>4, PlainKept
  <1> QED
    BY <1>5, <1>6

(* What ring3_demo_thread needs of the CPU and of the shared stack to be at q. *)
Fits(c, k, s, q) ==
  /\ q \in {"syscall", "spin"} => c.cs = 35 /\ c.ss = 27
  /\ q \notin {"syscall", "spin"} => c.cs = GDT_KERNEL_CODE
  /\ q \in {"entry", "dispatch"} => ~c.ief
  /\ q = "dispatch" => k = 4 /\ s = 4

Still == UNCHANGED <<world, step, dev, current, succ, n, left>>

Loads(cs, ss) == \E b \in BOOLEAN: cpu' = [cpu EXCEPT !.cs = cs, !.ss = ss, !.ief = b]

(* A step of ring3_demo_thread. *)
LEMMA Ring3Kept ==
  ASSUME KInv, Up, current = 4, NEW q \in Ring3PC \ {"new"}, Goto(q), Still,
         Clean(power'), mem' \in Mem, Intact(cpu'), Fits(cpu', kstack', saved_user_rsp', q)
  PROVE  KInv'
  <1>1. pc' = [pc EXCEPT ![current] = q]
    BY DEF Goto
  <1>2. UNCHANGED <<world, step, dev, current, succ, n, left>>
    BY DEF Still
  <1>3. current # Boot /\ current \notin {1, 2, 3}
    BY ThreadFacts
  <1>4. /\ q \in {"syscall", "spin"} => cpu'.cs = 35 /\ cpu'.ss = 27
        /\ q \notin {"syscall", "spin"} => cpu'.cs = GDT_KERNEL_CODE
        /\ q \in {"entry", "dispatch"} => ~cpu'.ief
        /\ q = "dispatch" => kstack' = 4 /\ saved_user_rsp' = 4
    BY DEF Fits
  <1> QED
    BY <1>1, <1>2, <1>3, <1>4, PlainKept

(* ring3_demo_thread, still in the kernel. *)
LEMMA UserSetUpKInv ==
  ASSUME KInv, UserFrames \/ UserMap
  PROVE  KInv'
  <1>1. Up /\ power = "on" /\ pc[current] \in {"frames", "map"}
    BY DEF UserFrames, UserMap, At
  <1>2. current = 4
    BY <1>1, UpFacts, PlaceFacts, ThreadFacts
  <1>3. Intact(cpu) /\ cpu.cs = GDT_KERNEL_CODE
    <2>1. ~User(current)
      BY <1>1 DEF User
    <2> QED
      BY <1>1, <2>1, UpFacts DEF Intact, KInv, CpuOK
  <1>4. mem \in Mem /\ mem.free \in Nat
    BY DEF KInv, TypeOK, Mem
  <1>5. Still /\ power' = power /\ cpu' = cpu
    BY DEF UserFrames, UserMap, UserUnchanged, Still
  <1>6. PICK q \in {"map", "jump", "idle"}: Goto(q)
    BY DEF UserFrames, UserMap
  <1>7. \E f \in Nat: Free(f)
    <2>1. CASE UserFrames
      <3>1. (IF mem.free >= 2 THEN mem.free - 2 ELSE 0) \in Nat
        BY <1>4
      <3> QED
        BY <2>1, <3>1 DEF UserFrames
    <2>2. CASE UserMap
      <3>1. PICK k \in 0..(2 * MaxTables): Free(IF mem.free >= k THEN mem.free - k ELSE 0)
        BY <2>2 DEF UserMap
      <3>2. k \in Nat
        BY BringUpAssumption
      <3>3. (IF mem.free >= k THEN mem.free - k ELSE 0) \in Nat
        BY <1>4, <3>2
      <3> QED
        BY <3>1, <3>3
    <2> QED
      BY <2>1, <2>2
  <1>8. mem' \in Mem
    <2>1. PICK f \in Nat: mem' = [mem EXCEPT !.free = f]
      BY <1>7 DEF Free
    <2> QED
      BY <1>4, <2>1 DEF Mem
  <1>9. Clean(power') /\ Intact(cpu')
    BY <1>1, <1>3, <1>5 DEF Clean
  <1>10. q \in Ring3PC \ {"new"} /\ Fits(cpu', kstack', saved_user_rsp', q)
    BY <1>3, <1>5 DEF Ring3PC, Fits
  <1> QED
    BY <1>1, <1>2, <1>5, <1>6, <1>8, <1>9, <1>10, Ring3Kept

(* Into ring 3 and back: every selector comes out right. *)
LEMMA Ring3KInv ==
  ASSUME KInv, JumpToRing3 \/ Syscall \/ SyscallEntry \/ Sysret
  PROVE  KInv'
  <1>1. Up /\ power = "on" /\ pc[current] \in {"jump", "syscall", "entry", "dispatch"}
    BY DEF JumpToRing3, Syscall, SyscallEntry, Sysret, At
  <1>2. current = 4
    BY <1>1, UpFacts, PlaceFacts, ThreadFacts
  <1>3. cpu \in Cpu /\ Intact(cpu)
    BY <1>1, UpFacts DEF Intact, KInv, TypeOK
  <1>4. mem' \in Mem /\ Still
    <2>1. Still /\ mem' = mem
      BY DEF JumpToRing3, Syscall, SyscallEntry, Sysret, UserUnchanged, Still
    <2> QED
      BY <2>1 DEF KInv, TypeOK
  <1>5. /\ cpu.star.call = GDT_KERNEL_CODE /\ cpu.star.sysret = GDT_KERNEL_DATA
        /\ cpu.sce /\ cpu.fmask /\ cpu.kernel_syscall_rsp
    BY <1>3 DEF Intact, SyscallSet
  <1>6. Clean(power')
    BY <1>1, <1>5 DEF Clean, JumpToRing3, Syscall, SyscallEntry, Sysret
  <1>7. ASSUME NEW cs \in Nat, NEW ss \in Nat, Loads(cs, ss)
        PROVE  Intact(cpu') /\ cpu'.cs = cs /\ cpu'.ss = ss
    <2>1. PICK b \in BOOLEAN: cpu' = [cpu EXCEPT !.cs = cs, !.ss = ss, !.ief = b]
      BY <1>7 DEF Loads
    <2>2. cpu' \in Cpu
      BY <1>3, <2>1 DEF Cpu
    <2>3. cpu'.cs = cs /\ cpu'.ss = ss
      BY <1>3, <2>1 DEF Cpu
    <2>4. /\ cpu'.gdt = cpu.gdt /\ cpu'.idt = cpu.idt /\ cpu'.star = cpu.star
          /\ cpu'.rsp0 = cpu.rsp0 /\ cpu'.kernel_syscall_rsp = cpu.kernel_syscall_rsp
          /\ cpu'.sce = cpu.sce /\ cpu'.fmask = cpu.fmask
      BY <1>3, <2>1 DEF Cpu
    <2> QED
      BY <1>3, <2>2, <2>3, <2>4 DEF Intact, SyscallSet
  <1>8. CASE JumpToRing3
    <2>1. Goto("syscall") /\ Loads(35, 27)
      BY <1>8 DEF JumpToRing3, Loads
    <2>2. Intact(cpu') /\ cpu'.cs = 35 /\ cpu'.ss = 27
      BY <1>7, <2>1
    <2>3. "syscall" \in Ring3PC \ {"new"} /\ Fits(cpu', kstack', saved_user_rsp', "syscall")
      BY <2>2 DEF Ring3PC, Fits
    <2> QED
      BY <1>1, <1>2, <1>4, <1>6, <2>1, <2>2, <2>3, Ring3Kept
  <1>9. CASE Syscall
    <2>1. Goto("entry")
      BY <1>9 DEF Syscall
    <2>2. /\ cpu' = [cpu EXCEPT !.cs = GDT_KERNEL_CODE, !.ss = GDT_KERNEL_CODE + 8, !.ief = FALSE]
          /\ Loads(GDT_KERNEL_CODE, GDT_KERNEL_CODE + 8)
      BY <1>5, <1>9 DEF Syscall, Loads
    <2>3. GDT_KERNEL_CODE \in Nat /\ GDT_KERNEL_CODE + 8 \in Nat
      BY DEF GDT_KERNEL_CODE
    <2>4. Intact(cpu') /\ cpu'.cs = GDT_KERNEL_CODE
      BY <1>7, <2>2, <2>3
    <2>5. ~cpu'.ief
      BY <1>3, <2>2 DEF Cpu
    <2>6. "entry" \in Ring3PC \ {"new"} /\ Fits(cpu', kstack', saved_user_rsp', "entry")
      BY <2>4, <2>5 DEF Ring3PC, Fits
    <2> QED
      BY <1>1, <1>2, <1>4, <1>6, <2>1, <2>4, <2>6, Ring3Kept
  <1>10. CASE SyscallEntry
    <2>1. /\ pc[current] = "entry" /\ Goto("dispatch")
          /\ cpu' = cpu /\ saved_user_rsp' = 4 /\ kstack' = 4
      BY <1>2, <1>10 DEF SyscallEntry, At
    <2>2. ~cpu.ief /\ ~User(current)
      BY <1>1, <2>1, UpFacts DEF User
    <2>3. cpu.cs = GDT_KERNEL_CODE
      BY <1>1, <2>2 DEF KInv, CpuOK
    <2>4. "dispatch" \in Ring3PC \ {"new"} /\ Fits(cpu', kstack', saved_user_rsp', "dispatch")
      BY <2>1, <2>2, <2>3 DEF Ring3PC, Fits
    <2> QED
      BY <1>1, <1>2, <1>3, <1>4, <1>6, <2>1, <2>4, Ring3Kept
  <1>11. CASE Sysret
    <2>1. Goto("spin")
      BY <1>11 DEF Sysret
    <2>2. GDT_KERNEL_DATA + 16 + 3 = 35 /\ GDT_KERNEL_DATA + 8 + 3 = 27
      BY DEF GDT_KERNEL_DATA
    <2>3. Loads(35, 27)
      BY <1>5, <1>11, <2>2 DEF Sysret, Loads
    <2>4. Intact(cpu') /\ cpu'.cs = 35 /\ cpu'.ss = 27
      BY <1>7, <2>3
    <2>5. "spin" \in Ring3PC \ {"new"} /\ Fits(cpu', kstack', saved_user_rsp', "spin")
      BY <2>4 DEF Ring3PC, Fits
    <2> QED
      BY <1>1, <1>2, <1>4, <1>6, <2>1, <2>4, <2>5, Ring3Kept
  <1> QED
    BY <1>8, <1>9, <1>10, <1>11

(* Power-on. *)
LEMMA InitKInv == KInit => KInv
  <1> SUFFICES ASSUME KInit PROVE KInv
    OBVIOUS
  <1>1. /\ world \in Worlds /\ step = 1 /\ power = "on"
        /\ mem = [free |-> 0, lazy |-> FALSE, heap |-> FALSE]
        /\ dev = [out |-> {}, lapic |-> FALSE, lines |-> {}]
        /\ current = Boot /\ succ = [t \in {Boot} |-> Null]
        /\ cpu = [gdt |-> <<>>, cs |-> 0, ss |-> 0, rsp0 |-> FALSE, idt |-> {},
                  ief |-> FALSE, sce |-> FALSE, star |-> [sysret |-> 0, call |-> 0],
                  fmask |-> FALSE, kernel_syscall_rsp |-> FALSE]
    BY DEF KInit, Init
  <1>2. /\ \A t \in All: pc[t] = IF t = Boot THEN "kmalloc" ELSE "new"
        /\ \A t \in All: n[t] = IF t = Boot THEN 1 ELSE DEMO_THREAD_ITERATIONS
        /\ \A t \in All: left[t] = [how |-> IF t = Boot THEN "running" ELSE "new",
                                    cs |-> 0, ss |-> 0]
    BY DEF KInit, Left
  <1>3. TypeOK
    <2>1. cpu \in Cpu /\ ~cpu.ief
      BY <1>1 DEF Cpu
    <2>2. mem \in Mem /\ dev \in Dev
      BY <1>1 DEF Mem, Dev
    <2>3. pc \in [All -> Creating \cup DemoPC \cup Ring3PC]
      BY DEF KInit, Creating, DemoPC
    <2>4. n \in [All -> Nat]
      BY KmainAssumption DEF KInit
    <2>5. left \in [All -> [how: {"new", "running", "yield", "irq"}, cs: Nat, ss: Nat]]
      BY DEF KInit, Left
    <2> QED
      BY <1>1, <2>1, <2>2, <2>3, <2>4, <2>5 DEF TypeOK
  <1>4. OutputsOK /\ TablesOK
    BY <1>1 DEF OutputsOK, TablesOK, SerialUp, FbUp, GdtUp, IdtUp, LapicUp, SyscallUp
  <1>5. /\ pc[Boot] = "kmalloc" /\ n[Boot] = 1
        /\ \A t \in Thread: pc[t] = "new"
        /\ pc[1] = "new" /\ pc[2] = "new" /\ pc[3] = "new" /\ pc[4] = "new"
    BY <1>2, ThreadFacts DEF All
  <1>6. QuietOK
    BY <1>1, <1>5 DEF QuietOK, GdtUp
  <1>7. RingOK
    BY <1>1, ThreadFacts DEF RingOK, RingUp
  <1>8. ThreadsOK
    <2>1. \A t \in Thread: t \notin DOMAIN succ
      BY <1>1, ThreadFacts
    <2>2. \A t \in {1, 2, 3}: pc[t] \in DemoPC
      BY <1>5 DEF DemoPC
    <2>3. pc[Boot] \in Creating /\ pc[4] \in Ring3PC /\ n[Boot] \in 1..4
      BY <1>5 DEF Creating, Ring3PC
    <2> QED
      BY <1>5, <2>1, <2>2, <2>3 DEF ThreadsOK
  <1>9. LeftOK
    <2>1. \A t \in All: pc[t] = "new" <=> t # Boot
      BY <1>2
    <2>2. ASSUME NEW t \in All
          PROVE  left[t].how = IF t = Boot THEN "running" ELSE "new"
      <3>1. left[t] = [how |-> IF t = Boot THEN "running" ELSE "new", cs |-> 0, ss |-> 0]
        BY <1>2
      <3>2. CASE t = Boot
        BY <3>1, <3>2
      <3>3. CASE t # Boot
        BY <3>1, <3>3
      <3> QED
        BY <3>2, <3>3
    <2>3. current = Boot /\ Boot \in All
      BY <1>1 DEF All
    <2> QED
      BY <2>1, <2>2, <2>3 DEF LeftOK
  <1>10. CpuOK
    BY <1>1, OrderFacts DEF CpuOK, Up
  <1>11. UserContextIntact /\ pc[4] # "dispatch"
    BY <1>5 DEF UserContextIntact, User
  <1> QED
    BY <1>3, <1>4, <1>6, <1>7, <1>8, <1>9, <1>10, <1>11 DEF KInv

(* Every step of the kernel keeps the invariant. *)
LEMMA NextKInv == KInv /\ [Next]_vars => KInv'
  <1> SUFFICES ASSUME KInv, [Next]_vars PROVE KInv'
    OBVIOUS
  <1>1. CASE UNCHANGED vars
    <2>1. UNCHANGED <<world, step, power, cpu, mem, dev, current, succ, pc, n, left, kstack,
                      saved_user_rsp>>
      BY <1>1 DEF vars, bvars, tvars
    <2>2. TypeOK' /\ RingOK'
      BY <2>1 DEF KInv, TypeOK, RingOK, RingUp
    <2>3. OutputsOK' /\ TablesOK'
      BY <2>1 DEF KInv, OutputsOK, TablesOK, SerialUp, FbUp, GdtUp, IdtUp, LapicUp, SyscallUp
    <2>4. QuietOK' /\ ThreadsOK'
      BY <2>1 DEF KInv, QuietOK, ThreadsOK, GdtUp
    <2>5. LeftOK' /\ CpuOK'
      BY <2>1 DEF KInv, LeftOK, CpuOK, User, Up
    <2>6. UserContextIntact' /\ (pc[4] = "dispatch" => current = 4 /\ ~cpu.ief)'
      BY <2>1 DEF KInv, UserContextIntact, User
    <2> QED
      BY <2>2, <2>3, <2>4, <2>5, <2>6 DEF KInv
  <1>2. CASE \E v \in {TIMER_VECTOR, KEYBOARD_VECTOR, LAPIC_SPURIOUS_VECTOR}: Serve(v)
    BY <1>2, ServeKInv
  <1> QED
    BY <1>1, <1>2, BootStepKInv, PreemptKInv, IterateKInv, AllocKInv, AddThreadKInv, EndKInv,
       UserSetUpKInv, Ring3KInv DEF Next

(* On every machine, however long it runs, the kernel keeps what it has set up. *)
THEOREM KernelInvariance == Spec => []KInv
  BY InitKInv, NextKInv, PTL DEF Spec

(* kmain, for any answer of the boot loader and any number of frames: no step, no  *)
(* fault and no interrupt ends in a triple fault, and whatever stops the kernel is *)
(* told on an output the machine has, from the step on that looks for the last.    *)
THEOREM StopsCleanly == Spec => []PanicsShown
  <1>1. Len(Outputs) = 3
    BY DEF Outputs
  <1>2. KInv => PanicsShown
    BY <1>1 DEF KInv, TypeOK, OutputsOK, PanicsShown
  <1> QED
    BY <1>2, KernelInvariance, PTL

(* main.c's order of creation keeps two threads from ever being inside the heap,   *)
(* the VMM and the PMM at once, for any slices, turns and failed allocations.      *)
THEOREM OneAllocator == Spec => []AllocatorsExclusive
  <1>1. KInv => AllocatorsExclusive
    <2> SUFFICES ASSUME KInv, Up, NEW t \in DOMAIN succ, NEW u \in DOMAIN succ,
                        Allocating(t), Allocating(u)
                 PROVE  t = u
      BY DEF AllocatorsExclusive
    <2>1. t \in All /\ u \in All
      BY DEF KInv, RingOK
    <2>2. /\ t = 4 \/ (t = Boot /\ pc[Boot] \in Creating)
          /\ u = 4 \/ (u = Boot /\ pc[Boot] \in Creating)
      BY <2>1, PlaceFacts DEF Allocating, Creating
    <2>3. pc[Boot] \in Creating => 4 \notin DOMAIN succ
      <3>1. pc[Boot] \in Creating => n[Boot] \in 1..4 /\ 4 >= n[Boot]
        BY DEF KInv, ThreadsOK
      <3> QED
        BY <3>1, ThreadFacts DEF KInv, ThreadsOK
    <2> QED
      BY <2>2, <2>3
  <1> QED
    BY <1>1, KernelInvariance, PTL

(* syscall.c and gdt.c share one kernel stack between interrupts from ring 3 and   *)
(* system calls; no frame on it, and no saved user stack pointer, is ever lost.    *)
THEOREM UserContextKept == Spec => []UserContextIntact
  BY KernelInvariance, PTL DEF KInv

(* gdt.c's table, syscall.c's STAR, the gates of idt.c and the literals of         *)
(* syscall_entry.S agree: CS and SS always select segments of the current ring.    *)
THEOREM SegmentsAgree == Spec => []SegmentsMatch
  <1>1. KInv => SegmentsMatch
    <2> SUFFICES ASSUME KInv, Up PROVE SegmentsMatch
      BY DEF SegmentsMatch
    <2>1. cpu.gdt = Gdt
      BY UpFacts
    <2>2. /\ Gdt[1] = [system |-> FALSE, code |-> TRUE, dpl |-> 0]
          /\ Gdt[3] = [system |-> FALSE, code |-> FALSE, dpl |-> 3]
          /\ Gdt[4] = [system |-> FALSE, code |-> TRUE, dpl |-> 3]
      <3>1. /\ Gdt[1] = Descriptor(154) /\ Gdt[3] = Descriptor(242) /\ Gdt[4] = Descriptor(250)
        BY DEF Gdt
      <3>2. Descriptor(154) = [system |-> FALSE, code |-> TRUE, dpl |-> 0]
        <4>1. /\ ((154 \div 16) % 2 = 0) = FALSE
              /\ ((154 \div 8) % 2 = 1) = TRUE
              /\ (154 \div 32) % 4 = 0
          BY SMT
        <4> QED
          BY <4>1, Zenon DEF Descriptor
      <3>3. Descriptor(242) = [system |-> FALSE, code |-> FALSE, dpl |-> 3]
        <4>1. /\ ((242 \div 16) % 2 = 0) = FALSE
              /\ ((242 \div 8) % 2 = 1) = FALSE
              /\ (242 \div 32) % 4 = 3
          BY SMT
        <4> QED
          BY <4>1, Zenon DEF Descriptor
      <3>4. Descriptor(250) = [system |-> FALSE, code |-> TRUE, dpl |-> 3]
        <4>1. /\ ((250 \div 16) % 2 = 0) = FALSE
              /\ ((250 \div 8) % 2 = 1) = TRUE
              /\ (250 \div 32) % 4 = 3
          BY SMT
        <4> QED
          BY <4>1, Zenon DEF Descriptor
      <3> QED
        BY <3>1, <3>2, <3>3, <3>4
    <2>3. 8 % 4 = 0 /\ 8 \div 8 = 1 /\ 35 % 4 = 3 /\ 35 \div 8 = 4 /\ 27 % 4 = 3 /\ 27 \div 8 = 3
      OBVIOUS
    <2>4. CASE User(current)
      BY <2>1, <2>2, <2>3, <2>4 DEF KInv, CpuOK, SegmentsMatch
    <2>5. CASE ~User(current)
      BY <2>1, <2>2, <2>3, <2>5 DEF KInv, CpuOK, SegmentsMatch, GDT_KERNEL_CODE
    <2> QED
      BY <2>4, <2>5
  <1> QED
    BY <1>1, KernelInvariance, PTL
====
