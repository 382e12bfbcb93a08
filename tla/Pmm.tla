------------------------------------ MODULE Pmm ------------------------------------
(* kernel/mm/pmm.c: the physical frame allocator, one bit per frame, built once   *)
(* from the bootloader's memory map. A bit that is set means in use or not RAM.   *)
(* The bit twiddling of lib/bitmap.c is abstracted to the set of bits that are    *)
(* set; the search keeps its hint and its wrap-around.                            *)
EXTENDS Integers, Sequences, FiniteSets, FiniteSetsExt

CONSTANTS
  PAGE_SIZE,
  MemMaps      \* the answers of boot_get_memmap: sequences of Entry

(* Entries in bytes. The bootloader keeps usable entries disjoint and aligned. *)
Kind == {"usable", "reclaimable", "kernel", "reserved"}
Entry == [base: Nat, length: Nat, type: Kind]

Frames(e) == (e.base \div PAGE_SIZE)..((e.base + e.length) \div PAGE_SIZE - 1)

Usable(m) == {i \in DOMAIN m: m[i].type = "usable"}

WellFormed(m) ==
  /\ m \in Seq(Entry)
  /\ \A i \in Usable(m): m[i].base % PAGE_SIZE = 0 /\ m[i].length % PAGE_SIZE = 0
  /\ \A i, j \in Usable(m): i # j => Frames(m[i]) \cap Frames(m[j]) = {}

ASSUME PmmAssumption ==
  /\ PAGE_SIZE \in Nat \ {0}
  /\ \A m \in MemMaps: WellFormed(m)

VARIABLES
  memmap,             \* the bootloader's answer, fixed
  phase,              \* "boot" until pmm_init has run, "ready", "panic"
  bitmap,             \* the bits that are set
  frame_count,
  next_search_index,
  free_frames,
  held                \* the frames callers own

pmmVars == <<memmap, phase, bitmap, frame_count, next_search_index, free_frames, held>>

----------------------------------------------------------------------------------
(* pmm_init *)

(* The end of the RAM-backed entries. *)
HighestAddr(m) ==
  Max({0} \cup {m[i].base + m[i].length: i \in {j \in DOMAIN m: m[j].type # "reserved"}})

FrameCount(m) == HighestAddr(m) \div PAGE_SIZE

(* ceil(n / k): align_up(n, k) / k *)
CeilDiv(n, k) == (n + k - 1) \div k

BitmapBytes(m) == CeilDiv(FrameCount(m), 8)

(* The first usable entry with room for the bitmap; 0 stands for none. *)
BitmapPhys(m) ==
  LET fit == {i \in Usable(m): m[i].length >= BitmapBytes(m)}
  IN  IF fit = {} THEN 0 ELSE m[Min(fit)].base

(* The frames the bitmap occupies, claimed back after the clearing loop. *)
BitmapFrames(m) ==
  LET first == BitmapPhys(m) \div PAGE_SIZE
  IN  first..(first + CeilDiv(BitmapBytes(m), PAGE_SIZE) - 1)

(* What the clearing loop clears, and how many turns it takes, each counted. *)
Cleared(m) == UNION {Frames(m[i]): i \in Usable(m)}
ClearedCount(m) == Cardinality(UNION {{i} \X Frames(m[i]): i \in Usable(m)})

Panic == phase' = "panic"

(* Mutant: page 0 is not claimed back. *)
ReservedNotPageZero(m) == BitmapFrames(m)

Reserved(m) == BitmapFrames(m) \cup {0}

PmmInit ==
  /\ phase = "boot"
  /\ IF memmap = << >> \/ BitmapPhys(memmap) = 0
       THEN Panic /\ UNCHANGED <<bitmap, frame_count, free_frames>>
       ELSE /\ phase' = "ready"
            /\ frame_count' = FrameCount(memmap)
            /\ LET kept == Reserved(memmap)
               IN  /\ bitmap' = (0..(8 * BitmapBytes(memmap) - 1) \ Cleared(memmap)) \cup kept
                   /\ free_frames' = ClearedCount(memmap) - Cardinality(kept \cap Cleared(memmap))
  /\ UNCHANGED <<memmap, next_search_index, held>>

----------------------------------------------------------------------------------
(* pmm_alloc_frame and pmm_free_frame *)

(* Mutant: the search stops at the last bit instead of wrapping around. *)
FirstClearNoWrap(f) ==
  /\ f \in (next_search_index % frame_count)..(frame_count - 1)
  /\ f \notin bitmap
  /\ \A g \in (next_search_index % frame_count)..(f - 1): g \in bitmap

(* bitmap_find_first_clear stops at f: every bit from the hint up to f, wrapping   *)
(* around once, is set.                                                            *)
FirstClear(f) ==
  \E n \in 0..(frame_count - 1):
    /\ f = (next_search_index + n) % frame_count
    /\ f \notin bitmap
    /\ \A i \in 0..(n - 1): (next_search_index + i) % frame_count \in bitmap

(* pmm_alloc_frame returns f; f is zeroed. *)
AllocFrame(f) ==
  /\ phase = "ready"
  /\ FirstClear(f)
  /\ bitmap' = bitmap \cup {f}
  /\ free_frames' = free_frames - 1
  /\ next_search_index' = f + 1
  /\ held' = held \cup {f}
  /\ UNCHANGED <<memmap, phase, frame_count>>

(* pmm_alloc_frame returns 0. *)
OutOfFrames ==
  /\ phase = "ready"
  /\ ~ \E f \in 0..(frame_count - 1): FirstClear(f)

AllocFails == OutOfFrames /\ UNCHANGED pmmVars

(* Mutant: the frame goes back without being counted. *)
CountedBackNot == free_frames

CountedBack == free_frames + 1

(* pmm_free_frame of the frame f an address lies in: a caller's own frame, or one  *)
(* that the check must catch.                                                      *)
FreeFrame(f) ==
  /\ phase = "ready"
  /\ IF f >= frame_count \/ f \notin bitmap
       THEN Panic /\ UNCHANGED <<bitmap, free_frames, held>>
       ELSE /\ bitmap' = bitmap \ {f}
            /\ free_frames' = CountedBack
            /\ held' = held \ {f}
            /\ UNCHANGED phase
  /\ UNCHANGED <<memmap, frame_count, next_search_index>>

Init ==
  /\ memmap \in MemMaps
  /\ phase = "boot"
  /\ bitmap = {}
  /\ frame_count = 0
  /\ next_search_index = 0
  /\ free_frames = 0
  /\ held = {}

(* A caller frees what it holds, or wrongly something that is free already or lies *)
(* past the bitmap. The wrong frees that the check lets through are left out, as no *)
(* caller in the kernel makes one: of a frame that has another owner by now, of     *)
(* page 0, of the bitmap's own frames, of a hole below frame_count.                 *)
Next ==
  \/ PmmInit
  \/ \E f \in 0..(frame_count - 1): AllocFrame(f)
  \/ AllocFails
  \/ \E f \in 0..frame_count: (f \in held \/ f \notin bitmap) /\ FreeFrame(f)

Spec == Init /\ [][Next]_pmmVars

----------------------------------------------------------------------------------

(* What may ever be handed out: usable memory without page 0 and the bitmap's own  *)
(* frames.                                                                         *)
Allocatable == Cleared(memmap) \ (BitmapFrames(memmap) \cup {0})

FreeFrames == (0..(frame_count - 1)) \ bitmap

(* The values keep to their C types, and no bit outside the bitmap is ever set. *)
TypeOK ==
  /\ memmap \in MemMaps
  /\ phase \in {"boot", "ready", "panic"}
  /\ bitmap \subseteq 0..(8 * CeilDiv(frame_count, 8) - 1)
  /\ frame_count \in Nat
  /\ next_search_index \in 0..frame_count
  /\ free_frames \in Nat
  /\ held \subseteq Nat

(* Every allocatable frame is either free or held by a caller, never both, and     *)
(* nothing else ever is: page 0, the bitmap and memory the bootloader did not call *)
(* usable are never handed out, and no frame is lost or handed out twice.          *)
Partition ==
  phase = "ready" => FreeFrames = Allocatable \ held /\ held \subseteq Allocatable

(* pmm_free_frame_count is the number of clear bits. *)
CountExact == phase = "ready" => free_frames = Cardinality(FreeFrames)

(* pmm_alloc_frame returns 0 only when every allocatable frame is held, wherever   *)
(* the search starts.                                                              *)
FailsOnlyWhenExhausted == OutOfFrames => held = Allocatable
================================================================================
