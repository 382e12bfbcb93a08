# Quin kernel: TLA+ models, model checking and proofs

TLA+ models of the parts of the Quin kernel template (`src/kernel`) that keep
state: the scheduler, the heap, the physical and virtual memory managers, the
keyboard driver, the text console with its logger, the pure routines under `lib`
and `acpi`, and the kernel as a whole from power-on to halt, with its descriptor
tables, interrupts, system calls and ring 3. TLC checks each on a small instance;
TLAPS proves every safety property of the passing runs for every instance.
`PROJECT.json` maps each definition to the lines it models and lists the runs,
findings, hazards and theorems.

    tlc -config MCSched.cfg MCSched            # one run
    tlapm SchedProof.tla                       # the proofs of one module

## 1. Inventory

The kernel is a single-CPU x86_64 kernel booted by Limine. `kmain` brings up its
parts in order, enables interrupts, runs demo threads and halts. Concurrency comes
from two sources only: the LAPIC timer, which may preempt a thread at any
instruction at which IF is set, and the keyboard's IRQ1.

| Component | State | Operations | Correct when |
|---|---|---|---|
| scheduler (`sched/sched.c`, `thread.c`, `context_switch.S`) | `current`, the circular list through `thread->next`, `ticks_since_switch`, each thread's `stack_pointer` | `sched_init`, `sched_add_thread`, `sched_yield`, `sched_tick`, `thread_create` | the list is one cycle at every instant, each thread resumes where it was left, none starves |
| spinlock (`sched/spinlock.c`) | `locked` | acquire, release, the irqsave variants | never found held on one CPU: spinning with IF off is for ever |
| interrupts (`isr.c`, `isr_stubs.S`, `idt.c`, `lapic*.c`, `timer.c`) | the LAPIC's request and in-service bits, IF, the interrupt frames | dispatch, EOI, tick | EOI before a handler that may not return; handlers do not nest |
| heap (`mm/heap.c`) | the list of block headers | `kmalloc`, `kfree` | headers tile the heap, callers' blocks are disjoint, first fit fails only if nothing fits |
| PMM (`mm/pmm.c`, `lib/bitmap.c`) | bitmap, hint, count | `pmm_init`, `pmm_alloc_frame`, `pmm_free_frame` | usable frames are free or held, nothing else is handed out, the count is exact |
| VMM (`arch/x86_64/mm/vmm.c`) | page tables, two bump pointers, lazy regions | map, unmap, page fault, guarded allocation, MMIO window | a flat address space; no frame shared; none lost but by the failing `vmm_alloc_guarded` that the source describes |
| keyboard (`drivers/keyboard`) | ring buffer, `shift_held` | the IRQ1 handler, `keyboard_read_char` | a bounded FIFO against a reader it may interrupt anywhere |
| console and log (`drivers/framebuffer`, `lib/log.c`) | screen, cursor, colour | `log_write`, `fb_console_putc` | draws inside the framebuffer, shows the tail of the serial output |
| library routines and ACPI (`lib/printf.c`, `lib/string.c`, `acpi/`) | the root table | formatting, copying, `acpi_init`, `acpi_find_table`, `madt_parse` | results equal their definitions at every edge of the input |
| boot sequence (`main.c`, `boot/`) | what Limine answered; which parts are up | `kernel_entry`, `kmain` | on an adequate machine it completes; on any other it stops, with a message once there is an output for it, never in a reset |
| descriptor tables, interrupt controllers (`gdt.c`, `idt.c`, `isr.c`, `lapic.c`, `ioapic.c`) | GDT, TSS, IDT, handlers, masked lines | set-up, registration, masking | every vector that can be raised has what it needs by then |
| system calls, ring 3 (`syscall.c`, `syscall_entry.S`) | `kernel_syscall_rsp`, `saved_user_rsp`, TSS.RSP0, STAR, FMASK | `jump_to_ring3`, SYSCALL, SYSRET, interrupts from ring 3 | a user thread's frame survives on the one shared stack, selectors match the GDT |
| serial port, panic | `serial_present` | loopback test, message | the message reaches every output there is |

How they interact. The timer's handler calls `sched_tick`, which may switch stacks
before `isr_dispatch` returns. `thread_create` takes its struct from the heap and
its stack from `vmm_alloc_guarded`; the heap's pages are backed by the VMM's lazy
region on page faults; the VMM takes frames from the PMM. Everybody logs. `kmain`
creates three threads that yield and one that maps two pages and drops to ring 3, so
allocation, preemption and system calls meet without any lock but `ready_lock`.

What is hard: an interrupt between any two instructions of the scheduler; a stack
left in the middle of a handler and resumed by a different path from the one it was
left by; allocation failure half-way up the page tables; long sequences of kmalloc
and kfree; wrap-around in the ring buffer, the frame search and the console. The
full list, line by line, is under `hazards` in `PROJECT.json`.

## 2. Modules

| Module | Models | Notes |
|---|---|---|
| `Sched` | scheduler, spinlock, timer interrupt | one action per step between which an interrupt can be taken |
| `RoundRobin` | what `sched.h` promises | abstract: a ring and a turn |
| `SchedProof` | | theorems about `Sched`: the ring, then the contexts |
| `Heap`, `HeapProof` | `mm/heap.c` | one action per turn of kmalloc's loop |
| `Pmm`, `PmmProof` | `mm/pmm.c`, `lib/bitmap.c` | |
| `Vmm` | `vmm.c` over `Pmm` (`PM == INSTANCE Pmm`) | one action per level of the walk |
| `AddressSpace` | what `vmm.h` promises | abstract: page to frame and rights |
| `VmmProof` | | lemmas on page tables; theorems about `Vmm` |
| `Keyboard`, `BoundedFifo` | `keyboard.c`; its abstract queue | reader in three steps, handler in one |
| `KeyboardProof` | | theorems about `Keyboard` |
| `Console`, `ConsoleProof` | `framebuffer.c`, `log.c` | one action per statement on the cursor |
| `Printf`, `Memory`, `Acpi` | `lib/printf.c`, `lib/string.c`, `acpi/*.c` as operators | a loop is a recursive function of the turns done |
| `Library`, `LibraryProof` | calls of these routines | each call once, result against a reference |
| `BringUp` | `entry.c`, `limine_requests.c`, the set-up half of `kmain` and what it calls of `gdt.c`, `idt.c`, `lapic*.c`, `ioapic.c`, `syscall.c`, `serial.c`, `panic.c` | one action per call of `kmain` |
| `Kmain` | the rest of `kmain`, its threads, interrupts, `syscall_entry.S`; extends `BringUp` | composes it with the ring of `RoundRobin`, the specification that `Sched` implements |
| `KmainProof` | | theorems about `Kmain` |
| `MC*` | constants for TLC | |

An operator preceded by a comment "Mutant:" is a wrong form of the definition after
it; it is used by no specification and documents a change that a property detects.

### Sched

`frame[t]` is thread t's kernel stack: frame 1 is its own code, every frame above it
one activation of `isr_dispatch`; `pc` in a frame is its next step. `rsp` says whose
stack the CPU is on and is distinct from `current`, which C code writes before the
stacks are switched; most of what can go wrong lies between the two. The argument
load, save and jump of `context_switch` are separate steps. A stack pointer that does
not address the innermost frame of a suspended stack has no defined effect when
loaded: the model then sets `wild` and stops. `irr` and `isr` are the LAPIC's two
bits for the timer vector, so a tick that comes while one is in service is latched
once. `load` fixes which threads yield and create threads, whether a thread can
outlast its slice, and whether `kmain` halts; these choices belong to the code
running in the threads, not to the scheduler. Allocation inside `thread_create` is
taken to succeed (a failure returns before any scheduler state changes). Threads
never return from their entry functions, as in the shipped kernel.
`kernel_halt` is taken to end with IF off, so a halted `kmain` stops the machine.

### Heap

Addresses are offsets from `HEAP_VBASE`; `block` maps the address of each header in
the list to its fields. `live` is what callers hold, with the size they asked for.
`align_up` is modelled in 64-bit arithmetic (`WORD`). Calls do not overlap: the heap
has no lock, and after interrupts are on only `kmain` allocates from it.

### Pmm and Vmm

`Pmm` computes the bitmap's size and place from the memory map in bytes, as
`pmm_init` does, and abstracts the bits of each byte to a set. The hint and the
wrap-around of the search are kept. A wrong free is modelled where the code
detects it (a frame that is free, or beyond the last). pmm.c:117 accepts every other
address: a frame handed to somebody else since, page 0, the bitmap's own frames, a hole
or a reserved frame below the last. After such a free the allocator hands out what is
not its to give; no caller in the kernel makes one, and they are left out. `Vmm` runs over an
instance of `Pmm` whose variables it shares, so each allocation in a walk is
`pmm_alloc_frame` itself; its `Boot` is kmain's call of `pmm_init`, and `vmm_init`, which
only loads the HHDM offset and registers the handler, is a step of `BringUp`. `call` holds the locals of the call under way. The CPU's own
walk (`Walk`) grants a right only if every level does. `BootAssumption` says what is
taken of the tables Limine leaves: a tree that grants W and U above the leaves, in
frames the memory map does not call usable, with nothing mapped where
`vmm_alloc_guarded` will allocate. Limine's direct map of all memory, through which
the kernel reads tables and frames by physical address, is left out of them: it maps
every frame a second time by construction, and frames are named by number instead.
`ZoneAssumption` keeps apart what vmm.h and heap.c keep apart by constants: the lazy
heap (from 0xffffffff90000000), the guarded ranges (from 0xffffffffb0000000), the MMIO
windows (from 0xffffffffc0000000) and the pages ring 3 uses (0x400000, 0x500000).
Calls do not overlap, for the same reason as in the heap: `kmain` is done
allocating before `ring3_demo_thread` starts. `AllocGuarded` stays below
`VMM_MMIO_VBASE`; the code does not check that, see `hazards`. A `vmm_alloc_guarded` that
runs out of frames leaves the pages it has mapped behind, with no owner: vmm.c:185-188
and docs/ROADMAP.md:108-116 call this a leak. `abandoned` records those pages, and
`FramesAccounted` says that they are all that is ever lost.

### Keyboard and Console

The handler runs with IF off and is one action; the reader's test, load and advance
are three, the last two in either order since nothing in the code orders them. The
slot that stays empty makes the order irrelevant: the slot just freed is not written
before the tail moves again. Scancode bytes wait on `wire`; an extended key sends 0xE0
first. The run has both Shift keys, the Shift code with a prefix that Print Screen
sends (0xE0 0x2A), a letter (two characters) and an arrow key. With each byte goes what
the user meant by it: `up` if no Shift key was down, `down` if one was and no two have
overlapped, `unclear` otherwise. `ShiftedAsTyped` compares the buffered characters with
that. In the unclear case the code is wrong by its data: `shift_held` is one flag
(keyboard.c:68), so releasing one of two Shift keys clears it. The handler ignores the
prefix, so an extended key whose second byte is in the tables is decoded as the plain
one, although keyboard.c:16-20 says such keys are dropped; the model decodes them as the
code does. Both are under `hazards`.

`Console` keeps the framebuffer as cells. `sent` records what the serial port got and
in which colour, and `ScreenShowsTail` recomputes from it where each character
belongs: its column is its distance from the last newline modulo the width, its row the
number of lines that ended before it. Comparing the screen with that layout is the
reference check of wrap, newline and scroll.

### Library

A loop is a recursive function of the number of turns done: `Quotients` is
`emit_unsigned`'s value after k divisions and `Turns` where its `do` loop stops,
`Copies` the memory after k bytes, `Walk` the cursor and `madt_info` after k entries,
`Printed` the text after k directives. `Printf` keeps the order in which digits are
found and reversed, the cut of `va_arg` to int or long (`INT_VALUES` and
`LONG_VALUES` values), the sign before the padding, and snprintf's counting past the
end of its buffer. A format is the sequence of directives read off the string; reading
the characters of a directive is abstracted, and a width is a natural number. A format
ends between directives or in a bare `%`; one that ends inside a directive (`%5`, `%0`,
`%l`) takes the default case with the terminator in hand, prints it and steps over it
(printf.c:121-124, 51), reading on behind the string. No call in the kernel has such a
format and it is not modelled. `Memory`
performs copies one byte at a time in the code's order. `Acpi` chooses the root table,
searches it and walks the MADT by counted bytes. A checksum or signature is what it is
used as: it matches or not; `local_apic_address`, copied as it stands, is left out.

References: a printed number is read back from the left, digit by digit; a move happens
at once; a MADT's whole entries are those before the first that has no length, whose
header does not fit in the table or whose summed lengths reach past its end. An entry
may be shorter than its type says: its fields are then whatever lies at their offsets,
and every content is tried. Which bytes of the next entry, or behind the table, these are
is not modelled, see `hazards`.

### BringUp and Kmain

`world` is the machine and the boot loader's answers: each may be missing or bad.
`BootOrder` is the order of calls in `kernel_entry` and `kmain`; each has an action that
changes what other parts rely on (gates loaded, handlers registered, frames taken,
lines unmasked) and ends with the machine on, halted by a panic that some output
shows (`panicked`) or none does (`silent`), or reset by a fault without a gate. The
page tables a mapping may need are a choice up to `MaxTables`. The heap's first store is
a step of its own, since it faults, is backed by the handler and runs again.

`Kmain` adds the threads. What the heap, the VMM and the PMM do inside a call is the
subject of their own modules; here a thread is in one of them or not, and can be
preempted there. A context switch is one step: what can go wrong inside it is
`Sched`'s subject, and `Kmain` uses the ring `Sched` is proved to implement. How a
thread was left decides IF on its return, as in the code, so finding 2 below occurs
here too: a demo thread may reach its `hlt` with IF clear. An unmasked source may ask
for its vector at any time, which covers requests latched while IF was off. The CPU's
part (stack and selectors on an interrupt from ring 3, on SYSCALL, SYSRET and iretq) is
modelled with the table entries and registers the code has set, so a wrong selector or
an unset RSP0 shows as such. `kstack` says whose frame lies on the stack that
`syscall_init` allocates.

`PanicsShown` speaks of the time from `serial_init` and `fb_init` on, when the kernel
knows its outputs. The one stop before it is `limine_requests_check`'s, which
docs/ROADMAP.md:63-65 says is reported; `RevisionReported` states that, and
`kmain_old_loader` refutes it.

## 3. Runs

| Run | Instance | Shows |
|---|---|---|
| `sched` | 2 threads and `kmain`, slice 2, 3 frames; three workloads: no thread yields, all yield in time, or threads yield and outlast slices while `kmain` creates them and halts | in all: ring intact at every instant, implements `RoundRobin`, `ready_lock` never found held; in the first two: own context on resumption, `current` is the running thread, IF on in thread code, no nesting, no starvation |
| `sched_lost_context`, `sched_idle_irq` | as `sched`, third workload | the first two findings below |
| `heap` | 36 units, header 4, alignment 2, requests of 0, 1, 2, 5, 12 | all sequences of calls, exhaustion and fragmentation included |
| `pmm` | seven memory maps, 2-byte pages | the map's edge cases (page 0 usable, bitmap of several frames, nothing usable, no map), all sequences of calls |
| `vmm` | 3 levels of 3 entries, 27 pages, 6 usable frames of which the bitmap takes 2 | all calls until frames run out at every level of the walk; two guarded ranges side by side, the second whole or failing part-way |
| `keyboard` | ring of 3, wire of 3; two Shift keys, a prefixed one, a letter, an arrow | FIFO, drops only when full, characters in the case they were typed in |
| `console` | 2x2 screen, one writer, 12 characters | layout as specified by the reference |
| `library` | all 8-bit words through every integer conversion, flags, widths 0 to 5; 5 formats and 6 buffer sizes; all moves in 5 bytes; MADT streams of up to 3 entries, empty, one-byte and too short ones among them, cut at every length; RSDP and checksum combinations | results equal the references |
| `console_race` | two writers | the third finding |
| `kmain` | 39 machines: complete, without MADT, each with one answer missing or bad and any outputs, and with 1 to 9 frames; 3 demo threads of 2 turns, one ring 3 thread | the set-up completes or stops, with a message once the outputs are up; allocators never overlap; ring 3's frame and selectors hold |
| `kmain_old_loader` | the same machines | the fourth finding |

Why the bounds are enough. The scheduler's code treats all threads but `current`
alike; three ring members distinguish "next", "previous" and "another", and
three frames allow an interrupt in a handler, the deepest case that matters: a
deeper one is a repetition. A slice of 2 separates a tick that ends it from one that
does not. Thirty-six heap units hold up to six blocks, so a block with used, free and
missing neighbours on each side occurs, as do exact fits, remainders too small to
split and failures. The page table instance is deep enough to fail at a top, a middle
and no level, with pages sharing none, some and all of their tables. Its guarded zone
holds two ranges of one page, or of one and two, with their guards, so a range is
allocated, or given up half-way, next to a finished one. A ring of three
slots wraps while it is full, partly full and empty. Two rows and columns reach wrap
and scroll together. With stacks of one page and at most one table per mapping, nine
frames or fewer make every allocation of `kmain` the one that fails; two turns let every
demo thread be resumed once from a yield and then idle. What a bound cuts off is
named at the constant (`MaxFrames`, `MaxOwned`, `MaxWire`, `MaxSent`) or in the
action's comment.

Deadlock is checked in `heap` and `keyboard`. `sched` may stop because `kmain` halts the
machine, and at `MaxFrames`; that its first two workloads do not is part of
`EveryThreadRuns`. `pmm` and `vmm` stop at a panic; `console` stops at `MaxSent`;
`library` makes one call; `kmain` ends in a halt.

Fairness. `Sched`: the periodic timer keeps ticking, an interrupt that stays
deliverable is delivered, the CPU keeps executing, and a thread that may yield
eventually does (a demo thread yields in a loop; a thread that does not yield
outlasts its slice instead). `Heap`: a walk under way goes on, since the loop waits for
nothing. `Keyboard`: a waiting byte keeps IRQ1 asserted, and a reader keeps polling;
the repository has no caller of `keyboard_read_char` in a loop, so the latter is an
assumption on the client. `Kmain`: the steps of the set-up are taken; the
only one that waits is the timer's calibration, for a PIT counter that runs out. The
other specifications claim no liveness.

## 4. Findings

Threads that only yield, and threads that only get preempted, are scheduled correctly
(`sched`). Mixing both breaks statements of the documentation, all because
`switch_to_next` restores IF before `context_switch` has saved the outgoing stack and
because only two of the three ways a thread can be suspended carry its IF. `kmain`
mixes them: its demo threads yield and the ring 3 demo is preempted. Reading its order
of creation, the ring 3 thread's slice ends with a switch to a demo thread suspended in
`sched_yield`, which is the second finding; it goes unnoticed because the demo threads
yield on and `kmain` halts after three rounds. The first finding needs a slice to end
within a few instructions.

1. `sched_lost_context`: a slice that ends inside `sched_yield` after
   `spinlock_release_irqrestore` (sched.c:39) saves the yielding stack in the wrong
   thread's struct; contrary to thread.h:7-9 and context_switch.S:8-10.
2. `sched_idle_irq`: a thread that yielded and is resumed by a preemption continues
   with IF off; contrary to context_switch.S:13-19 and docs/ARCHITECTURE.md:391-396.
3. `console_race`: the console has no lock; a thread preempted between moving the
   cursor and scrolling lets another draw below the last row; log.h:13-18 calls
   logging "safe to call from anywhere".
4. `kmain_old_loader`: `limine_requests_check` writes its message before `serial_init`
   has found the port, `serial_putc` drops it, and a machine with an old boot loader
   stops in silence; contrary to docs/ROADMAP.md:63-65 and limine_requests.h:15-17.

`HandlerAtomic`, which `sched` checks of the first two workloads, fails in the third for
the same reason as the first two findings: a handler's tail resumed by a yield runs with
IF on and is interrupted, contrary to idt.c:7-11.

Keeping IF off from `read_and_disable_interrupts` until after `context_switch`, and
restoring it on the incoming side, would remove the first two and the nesting.

## 5. Proofs

From `SchedAssumption` (distinct threads, a slice of at least one tick, room for one
interrupt on a stack), for any set of threads, slice and workload, `SchedProof`
proves:

- `TypeCorrect`, `RingStaysIntact`, `LockNeverSpins`: `Spec => []P` for the three
  invariants of `sched` that hold in every workload;
- `Refinement`: `Spec` implements `RoundRobin!Spec`.

None of the three is inductive alone. `IInv` adds `FramesOK` (a section that runs
with IF off is always the innermost frame of the running stack), `LockOK` (the lock is
held exactly there), `SliceOK` (a slice that is over is being switched out by an
interrupt with IF off, which is why `ticks_since_switch` never passes it) and
`FreshOK` (a thread being inserted is outside the ring, belongs to one caller, and
its link stays equal to `current->next` until it is spliced in, since the lock keeps
`current` still). `RingIntact` is stated over closed sets of threads, not over paths,
so insertion preserves it without induction: a closed set of the new ring minus the
new thread is closed in the old one. The invariant holds in the mixed workload too:
the findings corrupt stacks and flags, never the ring.

`SchedAssumption` also keeps `None` out of the threads and the contexts, as NULL is
neither.

The other four are theorems too (`ContextsOwned`, `CurrentRuns`, `CodeInterruptible`,
`HandlersDoNotNest`). Each states its own hypothesis, `Pure`: either no thread outlasts
its slice or none yields, and `kmain` does not halt. The hypothesis is needed, the first
two findings are behaviours without it. `CtxInv` adds to
`IInv` what the stacks look like: a stack the CPU is not on was left at its innermost
frame, at the statement after `context_switch` or before its first, and its thread's
`stack_pointer` says so (`SuspendedOK`); only the running stack is inside
`switch_to_next`, at one level, and what it has read is still so (`SwitchOK`); IF is on
outside the lock in a thread and off in a handler (`FlagOK`); where threads yield, a tick
finds time left in the slice (`TickOK`).

From `HeapAssumption` (positive header and alignment, a heap larger than a header,
sizes below the word), `HeapProof` proves `TypeCorrect`, `AlwaysTiled`,
`AlwaysCoalesced`, `CallersHoldBlocksInUse`, `FreeingAllRestores` and `FirstFitExact`,
and, if no request is within `MIN_SPLIT_SIZE` of 2^64, `EveryRequestHonoured`: without
that bound `align_up` wraps. The inductive invariant is the conjunction of `TypeOK`,
`Tiled`, `Coalesced`, `LiveExact` and `WalkOK` (the walk has left behind only blocks
that do not fit). Lemmas establish once what `SplitAt` and `Absorb` do to a tiled list;
`Kfree` applies them twice. "Freeing all restores one block" follows from `Coalesced`:
with nothing in use, block 0 is free, so it has no successor.

`PmmProof`, for any page size and memory map: `FramesPartitioned`, `FreeCountExact` and
`AllocComplete`. `IInv` joins `Partition` and `CountExact` with the types and with what
`pmm_init` leaves (`Built`, `Unbuilt`). That the search with its wrap-around misses no
free frame is proved from the least free frame at or after the hint, or else the least
of all. This and the other arguments over numbers below use that a nonempty set of
naturals has a least element, which takes the place of induction.

`KeyboardProof`, for any ring size: `RingInv` bounds head, tail and the reader's place in
its three steps; from it follow `DropsExact` and `RingIsFifo`, a refinement of the safety
part of `BoundedFifo` in which the queue is what lies between tail and head, less the
slot a reader has read and not yet released. `ShiftFollows`, for any keys and any number of
Shift keys, is `ShiftedAsTyped`; its invariant relates `shift_held` to what the user means
once the bytes on the wire are handled.

`KmainProof`, for every machine and any number of frames, tables and turns: from
`KmainAssumption` (`Boot` is no thread, `Null` is neither) `StopsCleanly` (`PanicsShown`), `OneAllocator`,
`UserContextKept` and `SegmentsAgree`. `KInv` says by step number which outputs, tables and
registers are set up (`OutputsOK`, `TablesOK`), that until `io_enable_interrupts` there is
only `kmain`, with IF off (`QuietOK`), where each thread can be and who is in the ring
(`ThreadsOK`, `RingOK`), and with which segments each was left and runs (`LeftOK`, `CpuOK`).
The allocators stay exclusive because `kmain` adds the one thread that allocates last and
allocates no more itself.

`VmmProof`, for any number of levels, entries and frames, from
`VmmAssumption`, `BootAssumption` and `ZoneAssumption`: all six properties of the `vmm` run,
both refinements included. Its first part shows what holds of tables as such: a page is
determined by its indices; in a tree, the walk for a page meets at each level the
table that serves it, if there is one; entering a table changes what is found for no
page, entering a leaf for one page only. The inductive invariant `Inv` has seven parts:

- `TreeOK`: some assignment of a level and a page to each table makes the tables a tree,
  and the walk under way stands on the table that serves its page (each step exhibits
  the new assignment); no two entries lead to one frame, devices apart;
- `CallOK`: the frame a call is about to enter is its caller's, and no entry leads to it;
- `HeldOK`: the frames held are those in use, less the bootloader's;
- `LeafOK`: a page outside the lazy and guarded zones leads to a frame a caller, the
  bootloader or a device owns, so that overwriting its entry loses no frame;
- `RangesOK` and `PendingOK`: finished ranges lie below the bump pointer, mapped between
  their guards, with nothing mapped beyond; the range in the making is mapped up to the
  page under way, so that it is whole when it is returned;
- `StaticsOK`: the regions and the MMIO pointer keep their bounds.

`FramesAccounted` (`NoFrameLost`) needs a second invariant, `ClaimedOK`: every page mapped in
the guarded zone is of a range returned or under way, or is abandoned. With it, and with the
page that each entry of a tree serves (`PageOfSlot`, `LeadsToPage`), every frame the tables
lead to is found behind a page somebody answers for, or behind an abandoned one.

`VmmProof` uses `PmmProof` by instance: its assumption on memory maps is discharged from
`BootAssumption`, and `UsesPmm` shows every step of the VMM to be a step of `Pmm`, so the
allocator's theorems hold under its real client.

`ConsoleProof`, for a screen of any size and any messages, with one writer (with two,
`DrawsInside` is what the third finding refutes): `NeverOutside` and `ScreenExact`.
`ConsoleInv` says, for each statement of `fb_console_putc`, how far screen and cursor are
from the layout of what was sent: the drawn cell pending, the cursor behind, the top row
not yet moved. It rests on lemmas about the layout: a character advances the cursor by a
column or to the start of the next row, so the cursor never returns to a cell
(`CursorAdvances`) and a row it has just entered is empty (`FreshRowBlank`).

`LibraryProof`, for words of any width, texts, sizes, memories and tables of any length:
`MovesRightly`, `SnprintfIsBounded`, `MadtIsExact` and `NumbersAreReadBack`, the four
properties of the `library` run. What a recursive function computes is shown without an
induction rule that takes an operator: `RunExists` and `RunIs` show once that a function
defined turn by turn exists and what it is, `TurnByTurn` that what a turn keeps always
holds, both from the least turn at which it would fail. On these rest, loop by loop:

- copying: after k bytes the first (or last) k are moved and the others untouched; a byte
  not yet read is not yet written because the copy runs away from the overlap
  (`CopiesUp`, `CopiesDown`);
- digits: quotients only fall, so the turn at which the first is 0 is the number of
  digits, and `TurnsSuffice` shows that `digits` is never full before it. `SpelledBack`:
  reading k digits from the left gives the quotient that was left when they were
  found, so all give the number; the first is not 0 unless it is the only one;
- text: what each directive prints is a sequence of characters (`ConversionIsText`), which
  is what ksnprintf's count needs;
- the MADT: after k entries `madt_info` sums up the whole ones among them, and the cursor
  stands at the end of the last as long as all were whole (`SumsUp`, `Stands`).

Assumed are `CharAssumption` (the characters include those kvprintf prints of itself),
`PrintfAssumption` (an int has at least two values and a long no fewer than an int; the
longest number fits in `digits`, which for 64 bits and 32 places it does with 20 digits),
`AcpiAssumption` (NULL and a panic are neither tables nor results) and
`LibraryAssumption`: arguments have the types their directives ask for, a
memory holds bytes, and an address the firmware gives for a table is one's.

Only model-checked: liveness (`EveryThreadRuns`, `Terminates`, `BootCompletes`, the fairness
part of `BoundedFifo`, and so `ImplementsFifo` as a whole), which is out of the prover's
reach.

## 6. Plan

Done: all modules with runs, and proofs of the safety properties of all of them. Left, in
this order: the encodings of descriptors and I/O APIC entries as bit fields; the bytes that
`madt_parse` reads past a short entry; the bound that `vmm_alloc_guarded` does not check
(`hazards`).

Not modelled: pixel drawing, colour packing and the font (data layout); the fills and
comparisons of `lib/string.c` (one-line loops); the register dump and stack trace of a
panic (output); the timer's measured frequency and the encodings of device registers
(hardware); `boot_get_kernel_address`, `timer_get_ticks` and `thread_exited`, which
nothing reaches; other CPUs, which the kernel does not start.
