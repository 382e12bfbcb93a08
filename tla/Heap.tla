----------------------------------- MODULE Heap -----------------------------------
(* kernel/mm/heap.c: a first-fit allocator over one fixed range, a doubly linked  *)
(* list of block headers in address order, splitting on kmalloc and coalescing    *)
(* with both neighbours on kfree. Addresses are offsets from HEAP_VBASE.          *)
EXTENDS Integers

CONSTANTS
  HEAP_SIZE,
  MIN_SPLIT_SIZE,
  HDR,             \* sizeof(struct block_header)
  WORD,            \* 2^64: sizes are uint64_t
  NULL,
  Requests         \* the sizes callers of kmalloc ask for

ASSUME HeapAssumption ==
  /\ HDR \in Nat \ {0}
  /\ MIN_SPLIT_SIZE \in Nat \ {0}
  /\ HEAP_SIZE \in Nat /\ HEAP_SIZE > HDR
  /\ WORD \in Nat /\ WORD > HEAP_SIZE /\ WORD > MIN_SPLIT_SIZE
  /\ NULL \notin Nat
  /\ Requests \subseteq 0..(WORD - 1)

VARIABLES
  block,   \* the headers in the list, by address
  live,    \* the pointers callers hold, with the size each was asked for
  pc,      \* "idle", or "walk" inside kmalloc's loop
  asked,   \* the argument of the kmalloc under way
  size,    \* the local of that name: asked, aligned
  node     \* the loop's cursor

vars == <<block, live, pc, asked, size, node>>

Addr == 0..(HEAP_SIZE - 1)
Header == [size: Nat, free: BOOLEAN, prev: Addr \cup {NULL}, next: Addr \cup {NULL}]

----------------------------------------------------------------------------------

(* Mutant: rounds down. *)
AlignDown(v) == v - (v % MIN_SPLIT_SIZE)

(* align_up(v, MIN_SPLIT_SIZE) on a uint64_t *)
AlignUp(v) ==
  LET w == (v + MIN_SPLIT_SIZE - 1) % WORD
  IN  w - (w % MIN_SPLIT_SIZE)

(* heap_init *)
Init ==
  /\ block = [h \in {0} |-> [size |-> HEAP_SIZE - HDR, free |-> TRUE,
                             prev |-> NULL, next |-> NULL]]
  /\ live = [p \in {} |-> 0]
  /\ pc = "idle"
  /\ asked = 0
  /\ size = 0
  /\ node = NULL

(* kmalloc up to its loop; kmalloc(0), like kfree(NULL), returns at once and     *)
(* changes nothing.                                                              *)
Kmalloc(n) ==
  /\ pc = "idle"
  /\ n # 0
  /\ asked' = n
  /\ size' = AlignUp(n)
  /\ node' = 0
  /\ pc' = "walk"
  /\ UNCHANGED <<block, live>>

(* Mutant: a block of exactly the size is passed over. *)
FitsStrictly(h) == block[h].free /\ block[h].size > size

Fits(h) == block[h].free /\ block[h].size >= size

(* Mutant: the cursor does not advance. *)
SkipStays ==
  /\ pc = "walk"
  /\ node # NULL
  /\ ~Fits(node)
  /\ UNCHANGED vars

(* `continue`: the block is in use or too small. *)
Skip ==
  /\ pc = "walk"
  /\ node # NULL
  /\ ~Fits(node)
  /\ node' = block[node].next
  /\ UNCHANGED <<block, live, pc, asked, size>>

(* The list after h is cut to `size` bytes and the rest becomes a block. *)
SplitAt(h) ==
  LET new == h + HDR + size
      old == block[h]
  IN  [b \in DOMAIN block \cup {new} |->
         CASE b = new      -> [size |-> old.size - size - HDR, free |-> TRUE,
                               prev |-> h, next |-> old.next]
           [] b = h        -> [size |-> size, free |-> FALSE, prev |-> old.prev, next |-> new]
           [] b = old.next -> [block[b] EXCEPT !.prev = new]
           [] OTHER        -> block[b]]

(* Mutant: the header of the new block is not counted. *)
SplitsWithoutHeader(h) == block[h].size - size >= MIN_SPLIT_SIZE

Splits(h) == block[h].size - size >= HDR + MIN_SPLIT_SIZE

(* kmalloc's locals are gone when it returns. *)
ReturnFromKmalloc == pc' = "idle" /\ asked' = 0 /\ size' = 0 /\ node' = NULL

(* Mutant: a block taken whole is not marked in use. *)
TakeLeavesFree ==
  /\ pc = "walk"
  /\ node # NULL
  /\ Fits(node)
  /\ block' = IF Splits(node) THEN SplitAt(node) ELSE block
  /\ live' = [p \in DOMAIN live \cup {node + HDR} |->
                IF p = node + HDR THEN asked ELSE live[p]]
  /\ ReturnFromKmalloc

(* The first block that fits is taken, split if the rest can hold a block. *)
Take ==
  /\ pc = "walk"
  /\ node # NULL
  /\ Fits(node)
  /\ block' = IF Splits(node) THEN SplitAt(node) ELSE [block EXCEPT ![node].free = FALSE]
  /\ live' = [p \in DOMAIN live \cup {node + HDR} |->
                IF p = node + HDR THEN asked ELSE live[p]]
  /\ ReturnFromKmalloc

(* The end of the list: kmalloc returns NULL. *)
Fail ==
  /\ pc = "walk"
  /\ node = NULL
  /\ ReturnFromKmalloc
  /\ UNCHANGED <<block, live>>

(* Mutant: the back link of the block after the pair is not updated. *)
AbsorbKeepsPrev(blk, h) ==
  LET n == blk[h].next
  IN  [b \in DOMAIN blk \ {n} |->
         IF b = h THEN [blk[h] EXCEPT !.size = @ + HDR + blk[n].size,
                                      !.next = blk[n].next]
                  ELSE blk[b]]

(* Mutant: the header of the absorbed block is lost. *)
AbsorbLeaks(blk, h) ==
  LET n == blk[h].next
  IN  [b \in DOMAIN blk \ {n} |->
         CASE b = h           -> [blk[h] EXCEPT !.size = @ + blk[n].size,
                                                !.next = blk[n].next]
           [] b = blk[n].next -> [blk[b] EXCEPT !.prev = h]
           [] OTHER           -> blk[b]]

(* h swallows the block after it: header and payload become part of h. *)
Absorb(blk, h) ==
  LET n == blk[h].next
  IN  [b \in DOMAIN blk \ {n} |->
         CASE b = h           -> [size |-> blk[h].size + HDR + blk[n].size,
                                  free |-> blk[h].free, prev |-> blk[h].prev,
                                  next |-> blk[n].next]
           [] b = blk[n].next -> [blk[b] EXCEPT !.prev = h]
           [] OTHER           -> blk[b]]

(* kfree's first `if`: coalesce with a free next block. *)
MergeNext(blk, h) ==
  IF blk[h].next # NULL /\ blk[blk[h].next].free THEN Absorb(blk, h) ELSE blk

(* Mutant: kfree only coalesces forwards. *)
MergePrevNever(blk, h) == blk

(* Its second: coalesce into a free previous block. *)
MergePrev(blk, h) ==
  IF blk[h].prev # NULL /\ blk[blk[h].prev].free THEN Absorb(blk, blk[h].prev) ELSE blk

(* kfree of a pointer the caller holds *)
Kfree(p) ==
  /\ pc = "idle"
  /\ LET h == p - HDR
     IN  block' = MergePrev(MergeNext([block EXCEPT ![h].free = TRUE], h), h)
  /\ live' = [q \in DOMAIN live \ {p} |-> live[q]]
  /\ UNCHANGED <<pc, asked, size, node>>

Next ==
  \/ \E n \in Requests: Kmalloc(n)
  \/ Skip
  \/ Take
  \/ Fail
  \/ \E p \in DOMAIN live: Kfree(p)

(* kmalloc's loop is not interrupted for ever. *)
Spec == Init /\ [][Next]_vars /\ WF_vars(Skip \/ Take \/ Fail)

----------------------------------------------------------------------------------

(* Where block h of list blk ends. *)
End(blk, h) == h + HDR + blk[h].size

(* The blocks of blk tile the heap: each ends where its successor begins, the     *)
(* last at HEAP_SIZE; prev and next are inverse; no two blocks overlap.           *)
TiledBy(blk) ==
  /\ 0 \in DOMAIN blk
  /\ \A h \in DOMAIN blk:
       /\ blk[h].next = NULL => End(blk, h) = HEAP_SIZE
       /\ blk[h].next # NULL => /\ blk[h].next \in DOMAIN blk
                                /\ blk[h].next = End(blk, h)
                                /\ blk[blk[h].next].prev = h
       /\ blk[h].prev = NULL <=> h = 0
       /\ blk[h].prev # NULL => /\ blk[h].prev \in DOMAIN blk
                                /\ blk[blk[h].prev].next = h
  /\ \A g, h \in DOMAIN blk: g < h => End(blk, g) <= h

(* The values keep to their C types; a cursor is a header of the list or NULL. *)
TypeOK ==
  /\ DOMAIN block \subseteq Addr
  /\ block \in [DOMAIN block -> Header]
  /\ DOMAIN live \subseteq Nat
  /\ live \in [DOMAIN live -> Nat]
  /\ pc \in {"idle", "walk"}
  /\ asked \in Requests \cup {0}
  /\ size \in Nat
  /\ node \in DOMAIN block \cup {NULL}

(* After any sequence of kmalloc and kfree the headers in the list tile the heap. *)
Tiled == TiledBy(block)

(* kfree leaves no two free neighbours, so free space never stays fragmented      *)
(* across a freed boundary.                                                       *)
Coalesced ==
  \A h \in DOMAIN block: block[h].free /\ block[h].next # NULL => ~block[block[h].next].free

(* What callers hold is exactly the payloads of the blocks in use, so no two      *)
(* callers share a byte, nor any of them with a header.                           *)
LiveExact == DOMAIN live = {h + HDR: h \in {b \in DOMAIN block: ~block[b].free}}

(* A pointer from kmalloc has room for what was asked for; a request the heap     *)
(* cannot hold gets NULL ("heap exhausted").                                      *)
RequestHonoured == \A p \in DOMAIN live: block[p - HDR].size >= live[p]

(* Once every allocation is freed the heap is the one block heap_init made. *)
NothingLost ==
  DOMAIN live = {} => DOMAIN block = {0} /\ block[0].size = HEAP_SIZE - HDR

(* kmalloc returns NULL only when no free block could hold the aligned request:   *)
(* the first-fit walk passes none over.                                           *)
FailsOnlyIfFull ==
  [][Fail => \A h \in DOMAIN block: ~(block[h].free /\ block[h].size >= size)]_vars

(* kmalloc's walk along the list ends. *)
Terminates == pc = "walk" ~> pc = "idle"

----------------------------------------------------------------------------------
(* The inductive invariant. *)

(* The walk has left behind only blocks that do not fit. *)
WalkOK ==
  /\ pc = "idle" => node = NULL
  /\ pc = "walk" => \A h \in DOMAIN block: node = NULL \/ h < node => ~Fits(h)

IInv == TypeOK /\ Tiled /\ Coalesced /\ LiveExact /\ WalkOK
================================================================================
