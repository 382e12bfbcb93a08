--------------------------------- MODULE BringUp ---------------------------------
(* kernel_entry and the first half of kmain: every part of the kernel is brought  *)
(* up in a fixed order, on a machine and from a boot loader that may lack what a   *)
(* part asks for. Interrupts stay off until the last step. What is kept of each    *)
(* part is what the others need of it: its tables, handlers, frames and outputs.   *)
EXTENDS Integers, Sequences

CONSTANTS
  Worlds,                      \* the machines of a model, see World
  MaxTables,                   \* bound: page tables that one mapping can need
  SYSCALL_KERNEL_STACK_PAGES,
  Boot,                        \* sched.c's bootstrap_thread
  Null

(* What Limine answered and what the machine has: its protocol revision, a       *)
(* COM1 and a usable framebuffer, the HHDM, memory map and RSDP answers, the      *)
(* state of the ACPI root table and of the MADT, and the frames pmm_init finds.   *)
World == [revision: BOOLEAN, serial: BOOLEAN, fb: BOOLEAN, hhdm: BOOLEAN,
          memmap: BOOLEAN, rsdp: {"none", "good", "corrupt"},
          madt: {"none", "good", "corrupt"}, frames: Nat]

ASSUME BringUpAssumption ==
  /\ Worlds \subseteq World
  /\ MaxTables \in Nat /\ SYSCALL_KERNEL_STACK_PAGES \in Nat \ {0}
  /\ Boot # Null

VARIABLES
  world,          \* the machine, fixed
  step,           \* the next entry of BootOrder
  power,          \* on; done; halted with a message, or without; reset by a triple fault
  cpu,            \* segment and system registers, with the tables they point to
  handlers,       \* isr.c: vector to handler
  mem,            \* PMM's free frames; the heap's lazy region and its first page
  dev,            \* outputs found, LAPIC enabled, vectors of unmasked lines
  current, succ   \* the scheduler's ring

bvars == <<world, step, power, cpu, handlers, mem, dev, current, succ>>

GDT_KERNEL_CODE == 8
GDT_KERNEL_DATA == 16
TIMER_VECTOR == 32
KEYBOARD_VECTOR == 33
LAPIC_SPURIOUS_VECTOR == 255

Init ==
  /\ world \in Worlds
  /\ step = 1
  /\ power = "on"
  /\ cpu = [gdt |-> <<>>, cs |-> 0, ss |-> 0, rsp0 |-> FALSE, idt |-> {}, ief |-> FALSE,
            sce |-> FALSE, star |-> [sysret |-> 0, call |-> 0], fmask |-> FALSE,
            kernel_syscall_rsp |-> FALSE]
  /\ handlers = [v \in {} |-> Null]
  /\ mem = [free |-> 0, lazy |-> FALSE, heap |-> FALSE]
  /\ dev = [out |-> {}, lapic |-> FALSE, lines |-> {}]
  /\ current = Boot
  /\ succ = [t \in {Boot} |-> Null]

----------------------------------------------------------------------------------
(* Stopping. *)

(* panic and panic_exception print on every output that is up, then cli; hlt. *)
Panicked == IF dev.out = {} THEN "silent" ELSE "panicked"

(* The CPU raises exception v: through its gate, or into a triple fault. isr.c   *)
(* panics unless the vector has a handler.                                       *)
Exception(v) == IF v \in cpu.idt THEN Panicked ELSE "reset"

(* A store to the heap's page while it is not mapped: page_fault_isr backs the   *)
(* page, with n frames for it and its tables, if it is in a lazy region.         *)
PageFault(n) ==
  IF 14 \in cpu.idt /\ 14 \in DOMAIN handlers /\ mem.lazy /\ n <= mem.free
  THEN "on" ELSE Exception(14)

(* boot_get_hhdm_offset dereferences the answer unchecked. *)
HhdmOr(p) == IF world.hhdm THEN p ELSE Exception(14)

----------------------------------------------------------------------------------
(* The order of kernel_entry and kmain. *)

Outputs == <<"limine_requests_check", "serial_init", "fb_init">>
Tables == <<"gdt_init", "idt_init">>
Memory == <<"pmm_init", "vmm_init", "heap_init", "heap_store">>
Devices == <<"acpi_init", "lapic_init", "ioapic_init">>
Ticking == <<"timer_init", "calibrate", "keyboard_init", "syscall_init">>

(* Mutant: memory is set up before the interrupt descriptor table is loaded. *)
MemoryBeforeTables == Outputs \o Memory \o Tables \o Devices \o <<"sched_init">>
                        \o Ticking \o <<"io_enable_interrupts">>

(* Mutant: interrupts are on while the scheduler is still to be set up. *)
EnabledTooEarly == Outputs \o Tables \o Memory \o Devices \o Ticking
                     \o <<"io_enable_interrupts", "sched_init">>

BootOrder == Outputs \o Tables \o Memory \o Devices \o <<"sched_init">> \o Ticking
               \o <<"io_enable_interrupts">>

Up == step > Len(BootOrder)

(* The step of this name runs and ends with p: "on" if it returns. *)
Step(name, p) ==
  /\ power = "on" /\ ~Up
  /\ BootOrder[step] = name
  /\ power' = p
  /\ step' = IF p = "on" THEN step + 1 ELSE step
  /\ UNCHANGED world

(* serial_write drops the message while serial_present is unset. *)
LimineRequestsCheck ==
  /\ Step("limine_requests_check",
          IF world.revision THEN "on"
          ELSE IF "serial" \in dev.out THEN "panicked" ELSE "silent")
  /\ UNCHANGED <<cpu, handlers, mem, dev, current, succ>>

(* The loopback test finds out whether there is a port. *)
SerialInit ==
  /\ Step("serial_init", "on")
  /\ dev' = [dev EXCEPT !.out = @ \cup (IF world.serial THEN {"serial"} ELSE {})]
  /\ UNCHANGED <<cpu, handlers, mem, current, succ>>

FbInit ==
  /\ Step("fb_init", "on")
  /\ dev' = [dev EXCEPT !.out = @ \cup (IF world.fb THEN {"fb"} ELSE {})]
  /\ UNCHANGED <<cpu, handlers, mem, current, succ>>

(* A descriptor's access byte: P, DPL (2 bits), S, executable, ... *)
Descriptor(access) ==
  [system |-> (access \div 16) % 2 = 0, code |-> (access \div 8) % 2 = 1,
   dpl |-> (access \div 32) % 4]

(* Mutant: user code stands before user data. *)
GdtCodeFirst == <<Descriptor(154), Descriptor(146), Descriptor(250), Descriptor(242),
                  Descriptor(137)>>

(* Kernel code and data, user data and code, TSS: selectors 8, 16, 24, 32, 40. *)
Gdt == <<Descriptor(154), Descriptor(146), Descriptor(242), Descriptor(250),
         Descriptor(137)>>

(* gdt_flush reloads the segment registers; the TSS is cleared, then loaded. *)
GdtInit ==
  /\ Step("gdt_init", "on")
  /\ cpu' = [cpu EXCEPT !.gdt = Gdt, !.cs = GDT_KERNEL_CODE, !.ss = GDT_KERNEL_DATA,
                        !.rsp0 = FALSE]
  /\ UNCHANGED <<handlers, mem, dev, current, succ>>

IdtInit ==
  /\ Step("idt_init", "on")
  /\ cpu' = [cpu EXCEPT !.idt = (0..31) \cup {32 + i: i \in 0..15}
                                  \cup {LAPIC_SPURIOUS_VECTOR}]
  /\ UNCHANGED <<handlers, mem, dev, current, succ>>

(* No memory map, or no usable region for the bitmap (frames = 0), is a panic. *)
PmmInit ==
  /\ Step("pmm_init",
          HhdmOr(IF world.memmap /\ world.frames > 0 THEN "on" ELSE Panicked))
  /\ mem' = IF power' = "on" THEN [mem EXCEPT !.free = world.frames] ELSE mem
  /\ UNCHANGED <<cpu, handlers, dev, current, succ>>

(* interrupt_register_handler *)
Register(v, h) == [w \in DOMAIN handlers \cup {v} |-> IF w = v THEN h ELSE handlers[w]]

VmmInit ==
  /\ Step("vmm_init", HhdmOr("on"))
  /\ handlers' = IF power' = "on" THEN Register(14, "page_fault_isr") ELSE handlers
  /\ UNCHANGED <<cpu, mem, dev, current, succ>>

HeapInit ==
  /\ Step("heap_init", "on")
  /\ mem' = [mem EXCEPT !.lazy = TRUE]
  /\ UNCHANGED <<cpu, handlers, dev, current, succ>>

(* Writing the first header faults; the handler returns to the same store. *)
HeapStore ==
  \/ /\ mem.heap
     /\ Step("heap_store", "on")
     /\ UNCHANGED <<cpu, handlers, mem, dev, current, succ>>
  \/ /\ power = "on" /\ ~Up /\ BootOrder[step] = "heap_store"
     /\ ~mem.heap
     /\ \E n \in 1..(MaxTables + 1):
          /\ power' = PageFault(n)
          /\ mem' = IF power' = "on" THEN [mem EXCEPT !.free = @ - n, !.heap = TRUE]
                                     ELSE mem
     /\ UNCHANGED <<world, step, cpu, handlers, dev, current, succ>>

AcpiInit ==
  /\ Step("acpi_init", HhdmOr(IF world.rsdp = "good" THEN "on" ELSE Panicked))
  /\ UNCHANGED <<cpu, handlers, mem, dev, current, succ>>

(* A step that maps memory takes up to n frames and panics without them. *)
MapOr(name, n) ==
  /\ Step(name, IF n <= mem.free THEN "on" ELSE Panicked)
  /\ mem' = [mem EXCEPT !.free = IF n <= @ THEN @ - n ELSE 0]

(* The LVT entries are masked before the LAPIC is enabled. *)
LapicInit ==
  /\ \E n \in 0..MaxTables: MapOr("lapic_init", n)
  /\ dev' = IF power' = "on"
            THEN [dev EXCEPT !.lapic = TRUE, !.lines = @ \ {TIMER_VECTOR}] ELSE dev
  /\ UNCHANGED <<cpu, handlers, current, succ>>

(* madt_parse, then ioapic_init at the base it found or at the default one; every *)
(* redirection entry is masked. A corrupt MADT is a panic.                        *)
IoapicInit ==
  /\ IF world.madt = "corrupt"
     THEN Step("ioapic_init", Panicked) /\ UNCHANGED <<mem, dev>>
     ELSE /\ \E n \in 0..MaxTables: MapOr("ioapic_init", n)
          /\ dev' = [dev EXCEPT !.lines = @ \ {KEYBOARD_VECTOR}]
  /\ UNCHANGED <<cpu, handlers, current, succ>>

SchedInit ==
  /\ Step("sched_init", "on")
  /\ current' = Boot
  /\ succ' = [t \in {Boot} |-> Boot]
  /\ UNCHANGED <<cpu, handlers, mem, dev>>

TimerInit ==
  /\ Step("timer_init", "on")
  /\ handlers' = Register(TIMER_VECTOR, "timer_tick_handler")
  /\ dev' = [dev EXCEPT !.lines = @ \ {TIMER_VECTOR}]
  /\ UNCHANGED <<cpu, mem, current, succ>>

(* The PIT's count has run out: the timer is started and unmasked. *)
Calibrate ==
  /\ Step("calibrate", "on")
  /\ dev' = [dev EXCEPT !.lines = @ \cup {TIMER_VECTOR}]
  /\ UNCHANGED <<cpu, handlers, mem, current, succ>>

(* keyboard_init, then ioapic_set_irq unmasks IRQ1. *)
KeyboardInit ==
  /\ Step("keyboard_init", "on")
  /\ handlers' = Register(KEYBOARD_VECTOR, "keyboard_isr")
  /\ dev' = [dev EXCEPT !.lines = @ \cup {KEYBOARD_VECTOR}]
  /\ UNCHANGED <<cpu, mem, current, succ>>

(* Mutant: SYSCALL leaves the interrupt flag alone. *)
SyscallRegistersNoMask(c) ==
  [c EXCEPT !.rsp0 = TRUE, !.kernel_syscall_rsp = TRUE, !.sce = TRUE,
            !.star = [sysret |-> GDT_KERNEL_DATA, call |-> GDT_KERNEL_CODE]]

(* TSS.RSP0 and kernel_syscall_rsp are set to one stack; EFER.SCE, STAR, FMASK. *)
SyscallRegisters(c) ==
  [c EXCEPT !.rsp0 = TRUE, !.kernel_syscall_rsp = TRUE, !.sce = TRUE,
            !.star = [sysret |-> GDT_KERNEL_DATA, call |-> GDT_KERNEL_CODE],
            !.fmask = TRUE]

SyscallInit ==
  /\ \E n \in 0..MaxTables: MapOr("syscall_init", SYSCALL_KERNEL_STACK_PAGES + n)
  /\ cpu' = IF power' = "on" THEN SyscallRegisters(cpu) ELSE cpu
  /\ UNCHANGED <<handlers, dev, current, succ>>

IoEnableInterrupts ==
  /\ Step("io_enable_interrupts", "on")
  /\ cpu' = [cpu EXCEPT !.ief = TRUE]
  /\ UNCHANGED <<handlers, mem, dev, current, succ>>

BootStep ==
  \/ LimineRequestsCheck \/ SerialInit \/ FbInit \/ GdtInit \/ IdtInit \/ PmmInit
  \/ VmmInit \/ HeapInit \/ HeapStore \/ AcpiInit \/ LapicInit \/ IoapicInit
  \/ SchedInit \/ TimerInit \/ Calibrate \/ KeyboardInit \/ SyscallInit
  \/ IoEnableInterrupts

----------------------------------------------------------------------------------
(* A machine that has all kmain insists on, and frames for its own part of it. *)
Adequate ==
  /\ world.revision /\ world.hhdm /\ world.memmap
  /\ world.rsdp = "good" /\ world.madt # "corrupt"
  /\ world.frames >= 1 + SYSCALL_KERNEL_STACK_PAGES + 4 * MaxTables

(* Whatever is missing, no step resets the machine; and once serial_init and      *)
(* fb_init have looked for the outputs, whatever stops the kernel is told on one  *)
(* the machine has.                                                               *)
PanicsShown ==
  /\ power # "reset"
  /\ power = "silent" /\ step > Len(Outputs) => ~(world.serial \/ world.fb)

(* docs/ROADMAP.md and limine_requests.h: if the boot loader does not grant the   *)
(* base revision, limine_requests_check writes a message to serial and halts.     *)
RevisionReported == ~world.revision /\ world.serial => power # "silent"

(* On an adequate machine kmain gets through its set-up: no step panics, the     *)
(* faulting first store to the heap is not repeated for ever, and the interrupts *)
(* latched meanwhile find everything they use in place.                          *)
BootCompletes == (step = 1 /\ Adequate) ~> Up
================================================================================
