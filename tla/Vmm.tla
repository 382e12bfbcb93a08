------------------------------------ MODULE Vmm ------------------------------------
(* kernel/arch/x86_64/mm/vmm.c over the frame allocator of Pmm: page tables that   *)
(* grow on demand, guarded allocations, MMIO windows and demand-paged regions.     *)
(* Pages are virtual page numbers, frames physical ones. The walk of vmm_map takes *)
(* one step per table, so that running out of frames can hit at each.              *)
EXTENDS Integers, Sequences, FiniteSets, Functions

CONSTANTS
  PAGE_SIZE, MemMaps,     \* see Pmm
  LEVELS,                 \* levels of page tables: 4 on x86_64
  ENTRIES,                \* PAGE_TABLE_ENTRIES
  Cr3,                    \* the frame of the top-level table
  BootTables,             \* the page tables the bootloader left, by frame
  VMM_DYNAMIC_VBASE, VMM_MMIO_VBASE,
  MAX_LAZY_REGIONS,
  Absent,                 \* an entry that is not present
  Regions,                \* lazy regions subsystems register
  UserPages,              \* pages that callers of vmm_map and vmm_unmap manage
  FlagSets,               \* the flags of these calls: sets of Flag
  PageCounts,             \* sizes callers ask vmm_alloc_guarded for
  Devices,                \* frames of device registers
  MaxOwned                \* bound: frames a caller of vmm_map holds at once

VARIABLES
  memmap, phase, bitmap, frame_count, next_search_index, free_frames, held,
  table,                                  \* the page tables, by frame
  lazy_regions,                           \* the registered regions
  dynamic_next_vaddr, mmio_next_vaddr,
  call,                                   \* the call under way: its locals
  mine,                                   \* frames callers got from pmm_alloc_frame
  guarded,                                \* ranges vmm_alloc_guarded returned
  abandoned,                              \* history: pages it had mapped when it failed
  halted                                  \* panic or panic_exception was called

PM == INSTANCE Pmm

pmmVars == <<memmap, phase, bitmap, frame_count, next_search_index, free_frames, held>>
statics == <<lazy_regions, dynamic_next_vaddr, mmio_next_vaddr>>
callers == <<mine, guarded, abandoned>>
vars == <<pmmVars, table, statics, call, callers, halted>>

Flag == {"W", "U", "NC", "NX"}

(* The pages below one entry of a table at level l + 1. *)
Span[l \in 0..LEVELS] == IF l = 0 THEN 1 ELSE ENTRIES * Span[l - 1]

Page == 0..(Span[LEVELS] - 1)
Slot == 0..(ENTRIES - 1)
Region == [start: Page, end: Nat, flags: SUBSET Flag]

(* A table entry: where it leads, with which rights. *)
Entry(f, flags) == [frame |-> f, flags |-> flags]
Mapping == [frame: Nat, flags: SUBSET Flag]

EmptyTable == [i \in Slot |-> Absent]

(* page_table_indices: the index into the table at level l, the leaf table is 1. *)
Index(v, l) == (v \div Span[l - 1]) % ENTRIES

ASSUME VmmAssumption ==
  /\ LEVELS \in Nat \ {0} /\ ENTRIES \in Nat \ {0}
  /\ VMM_DYNAMIC_VBASE \in Page /\ VMM_MMIO_VBASE \in Page
  /\ MAX_LAZY_REGIONS \in Nat
  /\ Regions \subseteq Region
  /\ UserPages \subseteq Page
  /\ FlagSets \subseteq SUBSET Flag
  /\ PageCounts \subseteq Nat \ {0}
  /\ Devices \subseteq Nat
  /\ MaxOwned \in Nat
  /\ Absent \notin Nat \cup Mapping \cup [page: Page, mapping: Mapping]

----------------------------------------------------------------------------------
(* What the kernel finds, and how it divides the address space. *)

(* Pages v and w go through the same table at level l. *)
Agree(v, w, l) == \A k \in (l + 1)..LEVELS: Index(v, k) = Index(w, k)

(* The page tables t are a tree: pos gives each its level and a page it serves, and *)
(* an entry of a table at level l leads to the table at l - 1 for its index.        *)
Tree(t, pos) ==
  /\ pos \in [DOMAIN t -> [level: 1..LEVELS, page: Page]]
  /\ Cr3 \in DOMAIN t /\ pos[Cr3].level = LEVELS
  /\ \A g \in DOMAIN t, i \in Slot: t[g][i] # Absent /\ pos[g].level = 1 =>
       t[g][i].frame \notin DOMAIN t
  /\ \A g \in DOMAIN t, i \in Slot: t[g][i] # Absent /\ pos[g].level > 1 =>
       LET h == t[g][i].frame
       IN  /\ h \in DOMAIN t /\ pos[h].level = pos[g].level - 1
           /\ Agree(pos[h].page, pos[g].page, pos[g].level)
           /\ Index(pos[h].page, pos[g].level) = i
           /\ {"W", "U"} \subseteq t[g][i].flags
  /\ \A h \in DOMAIN t: pos[h].level < LEVELS =>
       \E g \in DOMAIN t: /\ pos[g].level = pos[h].level + 1
                          /\ Agree(pos[g].page, pos[h].page, pos[g].level)
                          /\ t[g][Index(pos[h].page, pos[g].level)] # Absent
  /\ \A g, h \in DOMAIN t:
       pos[g].level = pos[h].level /\ Agree(pos[g].page, pos[h].page, pos[g].level) => g = h

Dynamic == VMM_DYNAMIC_VBASE..(VMM_MMIO_VBASE - 1)
LazyPage == {v \in Page: \E r \in Regions: r.start <= v /\ v < r.end}

BootPresent == {x \in (DOMAIN BootTables) \X Slot: BootTables[x[1]][x[2]] # Absent}

(* What the bootloader's tables occupy and map. *)
Bootloader == DOMAIN BootTables \cup {BootTables[x[1]][x[2]].frame: x \in BootPresent}

(* The bootloader leaves a tree in memory it does not call usable, granting W and U *)
(* above the leaves and mapping nothing where vmm_alloc_guarded allocates.          *)
ASSUME BootAssumption ==
  /\ PAGE_SIZE \in Nat \ {0} /\ \A m \in MemMaps: PM!WellFormed(m)
  /\ \A m \in MemMaps: PM!Cleared(m) \cap (Bootloader \cup Devices) = {}
  /\ DOMAIN BootTables \subseteq Nat \ Devices
  /\ \A f \in DOMAIN BootTables: BootTables[f] \in [Slot -> Mapping \cup {Absent}]
  /\ \A x, y \in BootPresent:
       BootTables[x[1]][x[2]].frame = BootTables[y[1]][y[2]].frame => x = y
  /\ \E pos \in [DOMAIN BootTables -> [level: 1..LEVELS, page: Page]]:
       /\ Tree(BootTables, pos)
       /\ \A g \in DOMAIN BootTables, v \in Dynamic:
            pos[g].level = 1 /\ Agree(pos[g].page, v, 1) => BootTables[g][Index(v, 1)] = Absent

(* The pages of vmm_map's callers, of the lazy regions, of vmm_alloc_guarded and of  *)
(* the MMIO windows are apart.                                                       *)
ASSUME ZoneAssumption ==
  /\ UserPages \cap (Dynamic \cup LazyPage) = {}
  /\ LazyPage \cap (Dynamic \cup {v \in Page: v >= VMM_MMIO_VBASE}) = {}

Idle == [op |-> "idle", virt |-> 0, frame |-> 0, flags |-> {}, level |-> 0,
         at |-> Cr3, start |-> 0, left |-> 0]

(* vmm_map(v, f, flags) on behalf of op, about to look at the top-level table. *)
MapCall(op, v, f, flags, start, left) ==
  [op |-> op, virt |-> v, frame |-> f, flags |-> flags, level |-> LEVELS,
   at |-> Cr3, start |-> start, left |-> left]

(* The tables on the way to page v, from the top-level one at LEVELS to the leaf   *)
(* table at 1; Absent below an entry that is not present.                          *)
PathIn(t, v) ==
  LET at[l \in 1..LEVELS] ==
        IF l = LEVELS THEN Cr3
        ELSE IF at[l + 1] = Absent THEN Absent
        ELSE LET e == t[at[l + 1]][Index(v, l + 1)]
             IN  IF e = Absent THEN Absent ELSE e.frame
  IN  at

Path(v) == PathIn(table, v)

(* What the CPU finds for page v: a right must be granted at every level. *)
Walk(v) ==
  LET at == Path(v)
      e == table[at[1]][Index(v, 1)]
      withheld == {x \in {"W", "U"}: \E l \in 2..LEVELS: x \notin table[at[l]][Index(v, l)].flags}
  IN  IF at[1] = Absent \/ e = Absent THEN Absent ELSE Entry(e.frame, e.flags \ withheld)

(* The entries that are present. *)
Present == {x \in (DOMAIN table) \X Slot: table[x[1]][x[2]] # Absent}
Target(x) == table[x[1]][x[2]].frame

Ready == phase = "ready" /\ ~halted
Free == Ready /\ call.op = "idle"
AllocFrame(f) == f \in 0..(frame_count - 1) /\ PM!AllocFrame(f)

Init ==
  /\ PM!Init
  /\ table = BootTables
  /\ lazy_regions = << >>
  /\ dynamic_next_vaddr = VMM_DYNAMIC_VBASE
  /\ mmio_next_vaddr = VMM_MMIO_VBASE
  /\ call = Idle
  /\ mine = {}
  /\ guarded = {}
  /\ abandoned = {}
  /\ halted = FALSE

(* kmain's call of pmm_init; vmm_init, which only loads the HHDM offset and         *)
(* registers page_fault_isr, is a step of BringUp.                                  *)
Boot ==
  /\ PM!PmmInit
  /\ UNCHANGED <<table, statics, call, callers, halted>>

----------------------------------------------------------------------------------
(* vmm_map *)

Here == table[call.at][Index(call.virt, call.level)]

(* ensure_next_level finds a table. *)
Descend ==
  /\ Ready
  /\ call.level > 1
  /\ Here # Absent
  /\ call' = [call EXCEPT !.level = @ - 1, !.at = Here.frame]
  /\ UNCHANGED <<pmmVars, table, statics, callers, halted>>

(* Mutant: a new table is entered in its parent as supervisor-only. *)
TableRightsSupervisor == {"W"}

(* The rights in the entry of a table: the leaf's own rights are to decide. *)
TableRights == {"W", "U"}

(* ensure_next_level allocates a table. *)
Extend ==
  /\ Ready
  /\ call.level > 1
  /\ Here = Absent
  /\ \E f \in 0..(frame_count - 1):
       /\ AllocFrame(f)
       /\ table' = [g \in DOMAIN table \cup {f} |->
                      IF g = f THEN EmptyTable
                      ELSE IF g = call.at
                             THEN [table[g] EXCEPT ![Index(call.virt, call.level)] =
                                     Entry(f, TableRights)]
                             ELSE table[g]]
       /\ call' = [call EXCEPT !.level = @ - 1, !.at = f]
  /\ UNCHANGED <<statics, callers, halted>>

(* Mutant: vmm_alloc_guarded forgets the frame it could not map. *)
GivesBackNothing == {}

(* Mutant: it frees the table it was looking at instead. *)
GivesBackTable == IF call.op = "guarded" THEN {call.at} ELSE {}

(* What the caller of a failed vmm_map gives back: vmm_alloc_guarded the page's frame. *)
GivesBack == IF call.op = "guarded" THEN {call.frame} ELSE {}

(* The pages vmm_alloc_guarded has mapped so far. *)
UnderWay == IF call.op = "guarded" THEN call.start..(call.virt - 1) ELSE {}

(* No frame for a table: vmm_map returns false. A fault or an MMIO window panics;   *)
(* vmm_alloc_guarded returns NULL and leaves its earlier pages mapped.              *)
MapFails ==
  /\ Ready
  /\ call.level > 1
  /\ Here = Absent
  /\ PM!OutOfFrames
  /\ IF GivesBack = {} THEN UNCHANGED pmmVars ELSE \E f \in GivesBack: PM!FreeFrame(f)
  /\ halted' = (call.op \in {"fault", "mmio"})
  /\ call' = Idle
  /\ abandoned' = abandoned \cup UnderWay
  /\ UNCHANGED <<table, statics, mine, guarded>>

(* The entry is written and vmm_map returns true; vmm_alloc_guarded goes on with    *)
(* its next page or returns the range.                                              *)
SetLeaf ==
  /\ Ready
  /\ call.level = 1
  /\ table' = [table EXCEPT ![call.at][Index(call.virt, 1)] = Entry(call.frame, call.flags)]
  /\ IF call.op = "guarded" /\ call.left > 1
       THEN call' = [Idle EXCEPT !.op = "guarded", !.virt = call.virt + 1,
                                 !.start = call.start, !.flags = call.flags,
                                 !.left = call.left - 1]
       ELSE call' = Idle
  /\ guarded' = IF call.op = "guarded" /\ call.left = 1
                  THEN guarded \cup {[start |-> call.start, end |-> call.virt + 1]}
                  ELSE guarded
  /\ UNCHANGED <<pmmVars, statics, mine, abandoned, halted>>

----------------------------------------------------------------------------------
(* The other entry points. *)

(* A caller allocates, maps, unmaps and frees pages of its own, as ring3_demo does. *)
CallerAllocs(f) ==
  /\ Free
  /\ Cardinality(mine) < MaxOwned
  /\ AllocFrame(f)
  /\ mine' = mine \cup {f}
  /\ UNCHANGED <<table, statics, call, guarded, abandoned, halted>>

(* ... maps a frame of its own that no page leads to yet ... *)
CallerMaps(v, f, flags) ==
  /\ Free
  /\ f \in mine /\ f \notin {Target(x): x \in Present}
  /\ call' = MapCall("map", v, f, flags, 0, 0)
  /\ UNCHANGED <<pmmVars, table, statics, callers, halted>>

(* ... and frees one that no page leads to any more. *)
CallerFrees(f) ==
  /\ Free
  /\ f \in mine /\ f \notin {Target(x): x \in Present}
  /\ PM!FreeFrame(f)
  /\ mine' = mine \ {f}
  /\ UNCHANGED <<table, statics, call, guarded, abandoned, halted>>

(* Mutant: vmm_unmap frees the frame its caller still owns. *)
UnmapAlsoFrees(v) == IF Walk(v) = Absent THEN UNCHANGED pmmVars ELSE PM!FreeFrame(Walk(v).frame)

(* The frame behind a page stays its owner's. *)
UnmapKeeps(v) == UNCHANGED pmmVars

(* vmm_unmap: a page without a leaf table is left alone. *)
VmmUnmap(v) ==
  /\ Free
  /\ table' = IF Path(v)[1] = Absent THEN table
              ELSE [table EXCEPT ![Path(v)[1]][Index(v, 1)] = Absent]
  /\ UnmapKeeps(v)
  /\ UNCHANGED <<statics, call, callers, halted>>

(* Mutant: the table of regions is taken to be unbounded. *)
SlotUnusedAlways == TRUE

SlotUnused == Len(lazy_regions) < MAX_LAZY_REGIONS

(* vmm_register_lazy_region, true while a slot is unused *)
RegisterLazyRegion(r) ==
  /\ Free
  /\ r \notin Range(lazy_regions)
  /\ lazy_regions' = IF SlotUnused THEN Append(lazy_regions, r) ELSE lazy_regions
  /\ UNCHANGED <<pmmVars, table, dynamic_next_vaddr, mmio_next_vaddr, call, callers, halted>>

Covers(i, v) == lazy_regions[i].start <= v /\ v < lazy_regions[i].end

(* page_fault_isr and vmm_handle_page_fault: an access to page v faults. A page    *)
(* that is present faults for its rights (a write, an access from ring 3 or an     *)
(* instruction fetch), a real bug; one that is not is backed if it lies in a lazy  *)
(* region, the first that covers it.                                               *)
PageFault(v) ==
  /\ Free
  /\ \/ /\ Walk(v) = Absent
        /\ \E i \in DOMAIN lazy_regions:
             /\ Covers(i, v) /\ \A j \in 1..(i - 1): ~Covers(j, v)
             /\ \E f \in 0..(frame_count - 1):
                  /\ AllocFrame(f)
                  /\ call' = MapCall("fault", v, f, lazy_regions[i].flags, 0, 0)
        /\ UNCHANGED halted
     \/ /\ \/ Walk(v) = Absent /\ (PM!OutOfFrames \/ \A i \in DOMAIN lazy_regions: ~Covers(i, v))
           \/ /\ Walk(v) # Absent
              /\ ~({"W", "U"} \subseteq Walk(v).flags) \/ "NX" \in Walk(v).flags
        /\ halted' = TRUE
        /\ UNCHANGED <<pmmVars, call>>
  /\ UNCHANGED <<table, statics, callers>>

FirstPage == dynamic_next_vaddr + 1

(* Mutant: the guard pages are left out of what a range takes up. *)
AfterRangeBare(n) == dynamic_next_vaddr + n

(* Where the next range begins: behind the guard page that follows this one. *)
AfterRange(n) == FirstPage + n + 1

(* vmm_alloc_guarded up to its loop: a guard page, n pages, a guard page. The        *)
(* address space is never given back. Bound: the ranges stay below the MMIO windows. *)
AllocGuarded(n, flags) ==
  /\ Free
  /\ AfterRange(n) <= VMM_MMIO_VBASE
  /\ dynamic_next_vaddr' = AfterRange(n)
  /\ call' = [Idle EXCEPT !.op = "guarded", !.virt = FirstPage, !.start = FirstPage,
                          !.flags = flags, !.left = n]
  /\ UNCHANGED <<pmmVars, table, lazy_regions, mmio_next_vaddr, callers, halted>>

(* One turn of its loop: a frame for the next page, or NULL, with the pages of the  *)
(* earlier turns left mapped.                                                       *)
GuardedPage ==
  /\ Ready
  /\ call.op = "guarded" /\ call.level = 0
  /\ \/ \E f \in 0..(frame_count - 1):
          /\ AllocFrame(f)
          /\ call' = MapCall("guarded", call.virt, f, call.flags, call.start, call.left)
          /\ UNCHANGED abandoned
     \/ /\ PM!OutOfFrames
        /\ call' = Idle
        /\ abandoned' = abandoned \cup UnderWay
        /\ UNCHANGED pmmVars
  /\ UNCHANGED <<table, statics, mine, guarded, halted>>

(* vmm_map_mmio. Bound: the windows end with the address space. *)
MapMmio(f) ==
  /\ Free
  /\ mmio_next_vaddr \in Page
  /\ mmio_next_vaddr' = mmio_next_vaddr + 1
  /\ call' = MapCall("mmio", mmio_next_vaddr, f, {"W", "NC", "NX"}, 0, 0)
  /\ UNCHANGED <<pmmVars, table, lazy_regions, dynamic_next_vaddr, callers, halted>>

Next ==
  \/ Boot
  \/ Descend
  \/ Extend
  \/ MapFails
  \/ SetLeaf
  \/ \E f \in 0..(frame_count - 1): CallerAllocs(f)
  \/ \E v \in UserPages, f \in mine, flags \in FlagSets: CallerMaps(v, f, flags)
  \/ \E f \in mine: CallerFrees(f)
  \/ \E v \in UserPages: VmmUnmap(v)
  \/ \E r \in Regions: RegisterLazyRegion(r)
  \/ \E v \in Page: PageFault(v)
  \/ \E n \in PageCounts, flags \in FlagSets: AllocGuarded(n, flags)
  \/ GuardedPage
  \/ \E f \in Devices: MapMmio(f)

Spec == Init /\ [][Next]_vars

----------------------------------------------------------------------------------
(* Properties. *)

(* The values keep to their C types; the cursor of a walk is a table. *)
TypeOK ==
  /\ PM!TypeOK
  /\ \A f \in DOMAIN table: table[f] \in [Slot -> Mapping \cup {Absent}]
  /\ Len(lazy_regions) <= MAX_LAZY_REGIONS
  /\ dynamic_next_vaddr \in Page /\ mmio_next_vaddr \in Nat
  /\ call.op \in {"idle", "map", "fault", "guarded", "mmio"}
  /\ call.level \in 0..LEVELS
  /\ call.at \in DOMAIN table
  /\ call.virt \in Page
  /\ mine \subseteq Nat
  /\ halted \in BOOLEAN

(* The page tables implement one flat address space: a call of vmm_map changes the *)
(* page it was asked for and no other, gives it the rights of its flags whatever   *)
(* the tables on the way say, and a call that fails changes nothing.               *)
Space == INSTANCE AddressSpace WITH
  space <- [v \in Page |-> Walk(v)],
  want <- IF call.level = 0 THEN Absent
          ELSE [page |-> call.virt, mapping |-> Entry(call.frame, call.flags)]

ImplementsAddressSpace == Space!Spec

(* Every step of the VMM uses the frame allocator as pmm.h allows: it frees only   *)
(* what it holds.                                                                  *)
ImplementsPmm == PM!Spec

Tables == DOMAIN table

(* The tables form a tree and share no frame with what is mapped: no two entries   *)
(* lead to the same frame of RAM.                                                  *)
NoSharing ==
  \A x, y \in Present:
    Target(x) \notin Devices /\ Target(x) = Target(y) => x = y

InFlight == IF call.op \in {"fault", "guarded"} /\ call.level # 0 THEN {call.frame} ELSE {}

(* The frames behind the pages of S. *)
Backing(S) == {Walk(v).frame: v \in {w \in S: Walk(w) # Absent}}

Returned == UNION {r.start..(r.end - 1): r \in guarded}

(* The frames somebody answers for: tables, frames of vmm_map's callers, the frame  *)
(* being mapped, and what backs lazy pages and ranges returned or under way.        *)
Owned == UNION {Tables, mine, InFlight, Backing(LazyPage \cup Returned \cup UnderWay)}

(* Every frame taken from the allocator has an owner, on the failure paths too,     *)
(* save those of the pages a failed vmm_alloc_guarded has left mapped: the leak     *)
(* that vmm.c and docs/ROADMAP.md describe is all that is ever lost.                *)
FramesAccounted ==
  ~halted => held = (Owned \cup Backing(abandoned)) \ (Bootloader \cup Devices)

(* A range from vmm_alloc_guarded is mapped throughout and has an unmapped page on *)
(* either side, whatever is allocated, backed or mapped later.                     *)
GuardsHold ==
  \A r \in guarded:
    /\ \A v \in r.start..(r.end - 1): Walk(v) # Absent
    /\ Walk(r.start - 1) = Absent /\ Walk(r.end) = Absent
================================================================================
