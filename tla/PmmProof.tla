--------------------------------- MODULE PmmProof ---------------------------------
(* Proofs about Pmm for every page size and every well-formed memory map. The      *)
(* library's induction theorems take operators, so an argument by induction is     *)
(* written with the least element of a set of numbers instead.                     *)
EXTENDS Pmm, FiniteSetTheorems, TLAPS

----------------------------------------------------------------------------------
(* Arithmetic and extrema *)

(* A nonempty set of naturals has a least element. *)
LEMMA LeastNat ==
  ASSUME NEW T \in SUBSET Nat, T # {}
  PROVE  \E n \in T: \A k \in T: n <= k
  <1>1. PICK n \in T: \A k \in T: ~ (<<k, n>> \in OpToRel(<, Nat))
    BY NatLessThanWellFounded, WFMin
  <1>2. \A k \in T: ~ (k < n)
    BY <1>1 DEF OpToRel
  <1> QED
    BY <1>2

(* Min picks the least element. *)
LEMMA MinNat ==
  ASSUME NEW T \in SUBSET Nat, T # {}
  PROVE  Min(T) \in T /\ \A k \in T: Min(T) <= k
  BY LeastNat DEF Min

(* Division by the page size is monotone. *)
LEMMA DivMono ==
  ASSUME NEW a \in Nat, NEW b \in Nat, a <= b
  PROVE  /\ a \div PAGE_SIZE \in Nat
         /\ b \div PAGE_SIZE \in Nat
         /\ a \div PAGE_SIZE <= b \div PAGE_SIZE
  BY PmmAssumption

(* Whole pages add up. *)
LEMMA DivPages ==
  ASSUME NEW a \in Nat, NEW b \in Nat, a % PAGE_SIZE = 0, b % PAGE_SIZE = 0
  PROVE  /\ a = PAGE_SIZE * (a \div PAGE_SIZE)
         /\ (a + b) \div PAGE_SIZE = a \div PAGE_SIZE + b \div PAGE_SIZE
  BY PmmAssumption

(* Whole pages that hold n bytes hold CeilDiv(n, PAGE_SIZE) frames. *)
LEMMA CeilDivFits ==
  ASSUME NEW n \in Nat, NEW b \in Nat, b % PAGE_SIZE = 0, n <= b
  PROVE  /\ CeilDiv(n, PAGE_SIZE) \in Nat
         /\ CeilDiv(n, PAGE_SIZE) <= b \div PAGE_SIZE
  BY PmmAssumption DEF CeilDiv

(* Counting in bytes of eight bits covers every bit. *)
LEMMA CeilDivEight ==
  ASSUME NEW n \in Nat
  PROVE  CeilDiv(n, 8) \in Nat /\ n <= 8 * CeilDiv(n, 8)
  BY DEF CeilDiv

----------------------------------------------------------------------------------
(* What pmm_init computes from a well-formed memory map *)

(* The end of RAM is a natural number at or above the end of every usable entry:   *)
(* the running maximum of the loop over the first n entries always exists.         *)
LEMMA HighestAddrBounds ==
  ASSUME NEW m \in MemMaps
  PROVE  /\ HighestAddr(m) \in Nat
         /\ \A i \in Usable(m): m[i].base + m[i].length <= HighestAddr(m)
  <1> DEFINE Ends(n) == {0} \cup {m[i].base + m[i].length:
                                    i \in {j \in DOMAIN m: m[j].type # "reserved" /\ j <= n}}
             HasMax(n) == \E x \in Ends(n): \A y \in Ends(n): x >= y
             Bad == {n \in 0..Len(m): ~HasMax(n)}
  <1>0. m \in Seq(Entry) /\ DOMAIN m = 1..Len(m) /\ Len(m) \in Nat
    BY PmmAssumption DEF WellFormed
  <1>1. \A i \in DOMAIN m: m[i].base \in Nat /\ m[i].length \in Nat
                             /\ m[i].base + m[i].length \in Nat
    <2>1. \A i \in DOMAIN m: m[i] \in Entry
      BY <1>0
    <2> QED
      BY <2>1 DEF Entry
  <1>2. \A n: Ends(n) \subseteq Nat
    BY <1>1
  <1>3. Bad = {}
    <2> SUFFICES ASSUME Bad # {} PROVE FALSE
      OBVIOUS
    <2>1. PICK n \in Bad: \A k \in Bad: n <= k
      <3>1. Bad \subseteq Nat
        BY <1>0
      <3> HIDE DEF Bad
      <3> QED
        BY <3>1, LeastNat
    <2>2. n \in Nat /\ n <= Len(m) /\ ~HasMax(n)
      OBVIOUS
    <2>3. n # 0
      <3>1. Ends(0) = {0}
        BY <1>0
      <3> QED
        BY <2>2, <3>1
    <2>4. HasMax(n - 1)
      <3>1. n - 1 \in 0..Len(m)
        BY <2>2, <2>3, <1>0
      <3>2. n - 1 \notin Bad
        <4> HIDE DEF Bad
        <4> QED
          BY <2>1, <2>2, <1>0
      <3> HIDE DEF HasMax
      <3> QED
        BY <3>1, <3>2
    <2>5. PICK x \in Ends(n - 1): \A y \in Ends(n - 1): x >= y
      BY <2>4
    <2>6. n \in DOMAIN m
      BY <1>0, <2>2, <2>3
    <2> DEFINE e == m[n].base + m[n].length
    <2>7. e \in Nat /\ x \in Nat
      BY <1>1, <1>2, <2>6
    <2>8. m[n].type # "reserved" => Ends(n) = Ends(n - 1) \cup {e}
      <3> SUFFICES ASSUME m[n].type # "reserved" PROVE Ends(n) = Ends(n - 1) \cup {e}
        OBVIOUS
      <3>1. {j \in DOMAIN m: m[j].type # "reserved" /\ j <= n}
              = {j \in DOMAIN m: m[j].type # "reserved" /\ j <= n - 1} \cup {n}
        BY <1>0, <2>2, <2>6
      <3> QED
        BY <3>1
    <2>9. m[n].type = "reserved" => Ends(n) = Ends(n - 1)
      <3> SUFFICES ASSUME m[n].type = "reserved" PROVE Ends(n) = Ends(n - 1)
        OBVIOUS
      <3>1. {j \in DOMAIN m: m[j].type # "reserved" /\ j <= n}
              = {j \in DOMAIN m: m[j].type # "reserved" /\ j <= n - 1}
        BY <1>0, <2>2, <2>6
      <3> QED
        BY <3>1
    <2>10. HasMax(n)
      <3> HIDE DEF Ends, e
      <3>1. CASE m[n].type = "reserved"
        BY <2>4, <2>9, <3>1
      <3>2. CASE m[n].type # "reserved" /\ e <= x
        <4>1. \A y \in Ends(n): x >= y
          BY <2>5, <2>7, <2>8, <3>2
        <4> QED
          BY <2>5, <2>8, <3>2, <4>1
      <3>3. CASE m[n].type # "reserved" /\ e > x
        <4>1. \A y \in Ends(n): e >= y
          BY <1>2, <2>5, <2>7, <2>8, <3>3
        <4> QED
          BY <2>8, <3>3, <4>1
      <3> QED
        BY <2>7, <3>1, <3>2, <3>3
    <2> QED
      BY <2>2, <2>10
  <1>4. HasMax(Len(m))
    <2>1. Len(m) \in 0..Len(m)
      BY <1>0
    <2> HIDE DEF HasMax
    <2> QED
      BY <1>3, <2>1
  <1>5. HighestAddr(m) = Max(Ends(Len(m)))
    <2>1. {j \in DOMAIN m: m[j].type # "reserved"}
            = {j \in DOMAIN m: m[j].type # "reserved" /\ j <= Len(m)}
      BY <1>0
    <2> QED
      BY <2>1 DEF HighestAddr
  <1>6. HighestAddr(m) \in Ends(Len(m)) /\ \A y \in Ends(Len(m)): HighestAddr(m) >= y
    <2> HIDE DEF Ends
    <2> QED
      BY <1>4, <1>5 DEF Max
  <1>7. ASSUME NEW i \in Usable(m)
        PROVE  m[i].base + m[i].length <= HighestAddr(m)
    <2>1. i \in {j \in DOMAIN m: m[j].type # "reserved" /\ j <= Len(m)}
      BY <1>0 DEF Usable
    <2>2. m[i].base + m[i].length \in Ends(Len(m))
      BY <2>1
    <2> HIDE DEF Ends
    <2> QED
      BY <1>2, <1>6, <2>2
  <1>8. HighestAddr(m) \in Nat
    <2> HIDE DEF Ends
    <2> QED
      BY <1>2, <1>6
  <1> QED
    BY <1>7, <1>8

(* A usable entry is whole pages of RAM below the last frame. *)
LEMMA UsableFrames ==
  ASSUME NEW m \in MemMaps, NEW i \in Usable(m)
  PROVE  /\ i \in DOMAIN m /\ i \in Nat
         /\ m[i].base \in Nat /\ m[i].length \in Nat
         /\ m[i].base % PAGE_SIZE = 0 /\ m[i].length % PAGE_SIZE = 0
         /\ FrameCount(m) \in Nat
         /\ (m[i].base + m[i].length) \div PAGE_SIZE \in Nat
         /\ (m[i].base + m[i].length) \div PAGE_SIZE <= FrameCount(m)
         /\ Frames(m[i]) \subseteq 0..(FrameCount(m) - 1)
         /\ IsFiniteSet(Frames(m[i]))
  <1>1. m \in Seq(Entry) /\ i \in DOMAIN m /\ WellFormed(m)
    BY PmmAssumption DEF WellFormed, Usable
  <1>2. i \in Nat /\ m[i] \in Entry
    BY <1>1
  <1>3. m[i].base \in Nat /\ m[i].length \in Nat
    BY <1>2 DEF Entry
  <1>4. m[i].base % PAGE_SIZE = 0 /\ m[i].length % PAGE_SIZE = 0
    BY <1>1 DEF WellFormed
  <1>5. /\ (m[i].base + m[i].length) \div PAGE_SIZE \in Nat
        /\ FrameCount(m) \in Nat
        /\ (m[i].base + m[i].length) \div PAGE_SIZE <= FrameCount(m)
    BY <1>3, HighestAddrBounds, DivMono DEF FrameCount
  <1>6. m[i].base \div PAGE_SIZE \in Nat
    BY <1>3, DivMono
  <1>7. Frames(m[i]) \subseteq 0..(FrameCount(m) - 1)
    BY <1>5, <1>6 DEF Frames
  <1>8. IsFiniteSet(Frames(m[i]))
    BY <1>5, <1>6, FS_Interval DEF Frames
  <1> QED
    BY <1>1, <1>2, <1>3, <1>4, <1>5, <1>7, <1>8

(* What the clearing loop clears lies below the frame count, and because usable    *)
(* entries do not overlap it counts every bit it clears once.                      *)
LEMMA ClearedFacts ==
  ASSUME NEW m \in MemMaps
  PROVE  /\ FrameCount(m) \in Nat
         /\ Cleared(m) \subseteq 0..(FrameCount(m) - 1)
         /\ IsFiniteSet(Cleared(m))
         /\ ClearedCount(m) = Cardinality(Cleared(m))
  <1>1. FrameCount(m) \in Nat
    BY HighestAddrBounds, DivMono DEF FrameCount
  <1>2. Cleared(m) \subseteq 0..(FrameCount(m) - 1)
    BY UsableFrames DEF Cleared
  <1>3. IsFiniteSet(Cleared(m))
    <2>1. IsFiniteSet(0..(FrameCount(m) - 1))
      BY <1>1, FS_Interval
    <2> QED
      BY <1>2, <2>1, FS_Subset
  <1> DEFINE Turns == UNION {{i} \X Frames(m[i]): i \in Usable(m)}
             clears == [t \in Turns |-> t[2]]
  <1>4. \A t \in Turns: /\ t[1] \in Usable(m) /\ t[2] \in Frames(m[t[1]])
                        /\ t = <<t[1], t[2]>>
    <2> SUFFICES ASSUME NEW t \in Turns
                 PROVE  /\ t[1] \in Usable(m) /\ t[2] \in Frames(m[t[1]])
                        /\ t = <<t[1], t[2]>>
      OBVIOUS
    <2>1. PICK i \in Usable(m): t \in {i} \X Frames(m[i])
      OBVIOUS
    <2>2. t[1] = i /\ t[2] \in Frames(m[i]) /\ t = <<t[1], t[2]>>
      BY <2>1
    <2> QED
      BY <2>2
  <1>5. \A i \in Usable(m): \A f \in Frames(m[i]): <<i, f>> \in Turns
    OBVIOUS
  <1>6. clears \in Injection(Turns, Cleared(m))
    <2>1. clears \in [Turns -> Cleared(m)]
      <3> HIDE DEF Turns
      <3> QED
        BY <1>4 DEF Cleared
    <2>2. ASSUME NEW s \in Turns, NEW t \in Turns, clears[s] = clears[t]
          PROVE  s = t
      <3> HIDE DEF Turns
      <3>1. s[2] = t[2]
        BY <2>2
      <3>2. s[1] = t[1]
        BY <1>4, <3>1, PmmAssumption DEF WellFormed
      <3> QED
        BY <1>4, <3>1, <3>2
    <2> HIDE DEF Turns, clears
    <2> QED
      BY <2>1, <2>2 DEF Injection, IsInjective
  <1>7. \A f \in Cleared(m): \E t \in Turns: clears[t] = f
    <2> SUFFICES ASSUME NEW f \in Cleared(m) PROVE \E t \in Turns: clears[t] = f
      OBVIOUS
    <2>1. PICK i \in Usable(m): f \in Frames(m[i])
      BY DEF Cleared
    <2>2. <<i, f>> \in Turns
      BY <1>5, <2>1
    <2> HIDE DEF Turns
    <2> QED
      BY <2>2
  <1>8. IsFiniteSet(Turns) /\ (Cardinality(Turns) = Cardinality(Cleared(m)))
    <2> HIDE DEF Turns, clears
    <2>1. clears \in Surjection(Turns, Cleared(m))
      BY <1>6, <1>7 DEF Injection, Surjection
    <2> QED
      BY <1>3, <1>6, <2>1, FS_Injection
  <1> QED
    BY <1>1, <1>2, <1>3, <1>8 DEF ClearedCount

(* The bitmap's frames are usable frames of one entry, and page 0 exists. *)
LEMMA ReservedFacts ==
  ASSUME NEW m \in MemMaps, BitmapPhys(m) # 0
  PROVE  /\ FrameCount(m) \in Nat \ {0}
         /\ BitmapFrames(m) \subseteq Cleared(m)
         /\ Reserved(m) \subseteq 0..(FrameCount(m) - 1)
  <1> DEFINE fit == {i \in Usable(m): m[i].length >= BitmapBytes(m)}
             e == m[Min(fit)]
  <1>1. fit # {} /\ BitmapPhys(m) = e.base
    BY DEF BitmapPhys
  <1>2. fit \subseteq Nat
    BY UsableFrames
  <1>3. Min(fit) \in Usable(m) /\ e.length >= BitmapBytes(m)
    <2>1. Min(fit) \in fit
      <3> HIDE DEF fit
      <3> QED
        BY <1>1, <1>2, MinNat
    <2> QED
      BY <2>1
  <1>4. /\ e.base \in Nat /\ e.length \in Nat
        /\ e.base % PAGE_SIZE = 0 /\ e.length % PAGE_SIZE = 0
        /\ FrameCount(m) \in Nat
        /\ (e.base + e.length) \div PAGE_SIZE <= FrameCount(m)
        /\ Frames(e) \subseteq 0..(FrameCount(m) - 1)
    BY <1>3, UsableFrames
  <1> HIDE DEF e, fit
  <1>5. BitmapBytes(m) \in Nat
    BY <1>4, CeilDivEight DEF BitmapBytes
  <1>6. /\ CeilDiv(BitmapBytes(m), PAGE_SIZE) \in Nat
        /\ CeilDiv(BitmapBytes(m), PAGE_SIZE) <= e.length \div PAGE_SIZE
    BY <1>3, <1>4, <1>5, CeilDivFits
  <1>7. /\ e.base \div PAGE_SIZE \in Nat /\ e.length \div PAGE_SIZE \in Nat
        /\ (e.base + e.length) \div PAGE_SIZE
             = e.base \div PAGE_SIZE + e.length \div PAGE_SIZE
        /\ e.base \div PAGE_SIZE # 0
    <2>1. e.base \div PAGE_SIZE \in Nat /\ e.length \div PAGE_SIZE \in Nat
      BY <1>4, DivMono
    <2>2. /\ e.base = PAGE_SIZE * (e.base \div PAGE_SIZE)
          /\ (e.base + e.length) \div PAGE_SIZE
               = e.base \div PAGE_SIZE + e.length \div PAGE_SIZE
      BY <1>4, DivPages
    <2>3. PAGE_SIZE * 0 = 0
      BY PmmAssumption
    <2> QED
      BY <1>1, <2>1, <2>2, <2>3
  <1>8. BitmapFrames(m) \subseteq Frames(e)
    BY <1>1, <1>6, <1>7 DEF BitmapFrames, Frames
  <1>9. Frames(e) \subseteq Cleared(m)
    BY <1>3 DEF Cleared, e
  <1>10. FrameCount(m) # 0
    BY <1>4, <1>7
  <1> QED
    BY <1>4, <1>8, <1>9, <1>10 DEF Reserved

----------------------------------------------------------------------------------
(* The inductive invariant *)

(* The count and the map the bitmap was built from stay those of pmm_init. *)
Built ==
  phase = "ready" => /\ frame_count = FrameCount(memmap)
                     /\ BitmapPhys(memmap) # 0

(* Before pmm_init nothing is held and the search starts at the first bit. *)
Unbuilt == phase = "boot" => held = {} /\ next_search_index = 0

IInv == TypeOK /\ Built /\ Unbuilt /\ Partition /\ CountExact

(* What a bitmap that is ready looks like. *)
LEMMA ReadyFacts ==
  ASSUME IInv, phase = "ready"
  PROVE  /\ frame_count \in Nat \ {0}
         /\ IsFiniteSet(FreeFrames)
         /\ Cardinality(FreeFrames) \in Nat
         /\ free_frames = Cardinality(FreeFrames)
         /\ FreeFrames = Allocatable \ held
         /\ held \subseteq Allocatable
         /\ Allocatable \subseteq 0..(frame_count - 1)
         /\ 0..(frame_count - 1) \subseteq 0..(8 * CeilDiv(frame_count, 8) - 1)
  <1>1. frame_count \in Nat \ {0}
    BY ReservedFacts DEF IInv, TypeOK, Built
  <1>2. IsFiniteSet(0..(frame_count - 1))
    BY <1>1, FS_Interval
  <1>3. IsFiniteSet(FreeFrames)
    BY <1>2, FS_Difference DEF FreeFrames
  <1>4. Cardinality(FreeFrames) \in Nat
    BY <1>3, FS_CardinalityType
  <1>5. Allocatable \subseteq 0..(frame_count - 1)
    BY ClearedFacts DEF Allocatable, IInv, TypeOK, Built
  <1>6. 0..(frame_count - 1) \subseteq 0..(8 * CeilDiv(frame_count, 8) - 1)
    BY <1>1, CeilDivEight
  <1> QED
    BY <1>1, <1>3, <1>4, <1>5, <1>6 DEF IInv, Partition, CountExact

(* The state before pmm_init satisfies the invariant. *)
LEMMA InitIInv == Init => IInv
  BY DEF Init, IInv, TypeOK, Built, Unbuilt, Partition, CountExact, CeilDiv

(* pmm_init: the clear bits are the allocatable frames, counted once each. *)
LEMMA PmmInitIInv == IInv /\ PmmInit => IInv'
  <1> SUFFICES ASSUME IInv, PmmInit PROVE IInv'
    OBVIOUS
  <1>0. memmap \in MemMaps /\ memmap' = memmap /\ phase = "boot"
    BY DEF IInv, TypeOK, PmmInit
  <1>1. CASE memmap = << >> \/ BitmapPhys(memmap) = 0
    BY <1>0, <1>1 DEF PmmInit, Panic, IInv, TypeOK, Built, Unbuilt, Partition, CountExact
  <1>2. CASE ~ (memmap = << >> \/ BitmapPhys(memmap) = 0)
    <2> DEFINE fc == FrameCount(memmap)
               C == Cleared(memmap)
               K == Reserved(memmap)
    <2>1. /\ phase' = "ready" /\ frame_count' = fc
          /\ bitmap' = (0..(8 * CeilDiv(fc, 8) - 1) \ C) \cup K
          /\ free_frames' = ClearedCount(memmap) - Cardinality(K \cap C)
          /\ next_search_index' = next_search_index /\ held' = held
      BY <1>2 DEF PmmInit, BitmapBytes
    <2>2. /\ fc \in Nat \ {0} /\ K \subseteq 0..(fc - 1)
          /\ C \subseteq 0..(fc - 1) /\ IsFiniteSet(C)
          /\ ClearedCount(memmap) = Cardinality(C)
      BY <1>0, <1>2, ReservedFacts, ClearedFacts
    <2>3. 0..(fc - 1) \subseteq 0..(8 * CeilDiv(fc, 8) - 1)
      BY <2>2, CeilDivEight
    <2>4. FreeFrames' = C \ K
      <3>1. FreeFrames' = (0..(fc - 1)) \ bitmap'
        BY <2>1 DEF FreeFrames
      <3> HIDE DEF fc, C, K
      <3> QED
        BY <2>1, <2>2, <2>3, <3>1
    <2>5. Allocatable' = C \ K
      BY <1>0 DEF Allocatable, Reserved
    <2>6. held' = {}
      BY <1>0, <2>1 DEF IInv, TypeOK, Unbuilt
    <2>7. Partition'
      BY <2>4, <2>5, <2>6 DEF Partition
    <2>8. CountExact'
      <3> HIDE DEF C, K
      <3>1. /\ Cardinality(C \ K) = Cardinality(C) - Cardinality(C \cap K)
            /\ C \cap K = K \cap C
        BY <2>2, FS_Difference
      <3> QED
        BY <2>1, <2>2, <2>4, <3>1 DEF CountExact
    <2>9. TypeOK'
      <3>1. free_frames' \in Nat
        <4>1. IsFiniteSet(C \ K)
          BY <2>2, FS_Difference
        <4> HIDE DEF C, K
        <4> QED
          BY <2>1, <2>4, <2>8, <4>1, FS_CardinalityType DEF CountExact
      <3>2. bitmap' \subseteq 0..(8 * CeilDiv(frame_count', 8) - 1)
        <4> HIDE DEF fc, C, K
        <4> QED
          BY <2>1, <2>2, <2>3
      <3>3. next_search_index' \in 0..frame_count'
        BY <1>0, <2>1, <2>2 DEF IInv, TypeOK, Unbuilt
      <3> QED
        BY <1>0, <2>1, <2>2, <3>1, <3>2, <3>3 DEF IInv, TypeOK
    <2>10. Built' /\ Unbuilt'
      BY <1>0, <1>2, <2>1 DEF Built, Unbuilt
    <2> QED
      BY <2>7, <2>8, <2>9, <2>10 DEF IInv
  <1> QED
    BY <1>1, <1>2

(* pmm_alloc_frame moves one frame from the clear bits to the caller. *)
LEMMA AllocFrameIInv ==
  ASSUME IInv, NEW f \in 0..(frame_count - 1), AllocFrame(f)
  PROVE  IInv'
  <1>0. /\ phase = "ready" /\ phase' = "ready" /\ f \notin bitmap
        /\ memmap' = memmap /\ frame_count' = frame_count
        /\ bitmap' = bitmap \cup {f} /\ free_frames' = free_frames - 1
        /\ next_search_index' = f + 1 /\ held' = held \cup {f}
    BY DEF AllocFrame, FirstClear
  <1>1. /\ frame_count \in Nat \ {0} /\ IsFiniteSet(FreeFrames)
        /\ Cardinality(FreeFrames) \in Nat /\ free_frames = Cardinality(FreeFrames)
        /\ FreeFrames = Allocatable \ held /\ held \subseteq Allocatable
        /\ 0..(frame_count - 1) \subseteq 0..(8 * CeilDiv(frame_count, 8) - 1)
    BY <1>0, ReadyFacts
  <1>2. f \in FreeFrames /\ FreeFrames' = FreeFrames \ {f}
    BY <1>0 DEF FreeFrames
  <1>3. Allocatable' = Allocatable
    BY <1>0 DEF Allocatable
  <1>4. Partition'
    BY <1>0, <1>1, <1>2, <1>3 DEF Partition
  <1>5. Cardinality(FreeFrames \ {f}) = Cardinality(FreeFrames) - 1
          /\ IsFiniteSet(FreeFrames \ {f})
    BY <1>1, <1>2, FS_RemoveElement
  <1>6. CountExact' /\ free_frames' \in Nat
    <2>1. Cardinality(FreeFrames \ {f}) \in Nat
      BY <1>5, FS_CardinalityType
    <2> QED
      BY <1>0, <1>1, <1>2, <1>5, <2>1 DEF CountExact
  <1>7. TypeOK'
    <2>1. bitmap' \subseteq 0..(8 * CeilDiv(frame_count', 8) - 1)
      BY <1>0, <1>1 DEF IInv, TypeOK
    <2>2. next_search_index' \in 0..frame_count' /\ held' \subseteq Nat
      BY <1>0, <1>1 DEF IInv, TypeOK
    <2> QED
      BY <1>0, <1>6, <2>1, <2>2 DEF IInv, TypeOK
  <1> QED
    BY <1>0, <1>4, <1>6, <1>7 DEF IInv, Built, Unbuilt

(* pmm_free_frame gives a held frame back, and panics on any other. *)
LEMMA FreeFrameIInv ==
  ASSUME IInv, NEW f \in 0..frame_count, f \in held \/ f \notin bitmap, FreeFrame(f)
  PROVE  IInv'
  <1>0. /\ phase = "ready" /\ memmap' = memmap /\ frame_count' = frame_count
        /\ next_search_index' = next_search_index
    BY DEF FreeFrame
  <1>1. /\ frame_count \in Nat \ {0} /\ IsFiniteSet(FreeFrames)
        /\ Cardinality(FreeFrames) \in Nat /\ free_frames = Cardinality(FreeFrames)
        /\ FreeFrames = Allocatable \ held /\ held \subseteq Allocatable
    BY <1>0, ReadyFacts
  <1>2. CASE f >= frame_count \/ f \notin bitmap
    BY <1>0, <1>2 DEF FreeFrame, Panic, IInv, TypeOK, Built, Unbuilt, Partition, CountExact
  <1>3. CASE ~ (f >= frame_count \/ f \notin bitmap)
    <2>1. /\ phase' = "ready" /\ bitmap' = bitmap \ {f} /\ held' = held \ {f}
          /\ free_frames' = free_frames + 1
      BY <1>0, <1>3 DEF FreeFrame, CountedBack
    <2>2. f \in 0..(frame_count - 1) /\ f \in held
      BY <1>1, <1>3
    <2>3. f \notin FreeFrames /\ FreeFrames' = FreeFrames \cup {f}
      BY <1>0, <1>3, <2>1, <2>2 DEF FreeFrames
    <2>4. Allocatable' = Allocatable
      BY <1>0 DEF Allocatable
    <2>5. Partition'
      BY <1>1, <2>1, <2>2, <2>3, <2>4 DEF Partition
    <2>6. CountExact'
      BY <1>1, <2>1, <2>3, FS_AddElement DEF CountExact
    <2>7. TypeOK'
      <3>1. free_frames' \in Nat
        BY <2>1 DEF IInv, TypeOK
      <3>2. /\ bitmap' \subseteq 0..(8 * CeilDiv(frame_count', 8) - 1)
            /\ next_search_index' \in 0..frame_count' /\ held' \subseteq Nat
        BY <1>0, <2>1 DEF IInv, TypeOK
      <3> QED
        BY <1>0, <2>1, <3>1, <3>2 DEF IInv, TypeOK
    <2> QED
      BY <1>0, <2>1, <2>5, <2>6, <2>7 DEF IInv, Built, Unbuilt
  <1> QED
    BY <1>2, <1>3

(* Every call of the allocator keeps the invariant. *)
LEMMA NextIInv == IInv /\ [Next]_pmmVars => IInv'
  <1> SUFFICES ASSUME IInv, [Next]_pmmVars PROVE IInv'
    OBVIOUS
  <1>1. CASE PmmInit
    BY <1>1, PmmInitIInv
  <1>2. CASE \E f \in 0..(frame_count - 1): AllocFrame(f)
    BY <1>2, AllocFrameIInv
  <1>3. CASE \E f \in 0..frame_count: (f \in held \/ f \notin bitmap) /\ FreeFrame(f)
    BY <1>3, FreeFrameIInv
  <1>4. CASE AllocFails \/ UNCHANGED pmmVars
    BY <1>4 DEF AllocFails, pmmVars, IInv, TypeOK, Built, Unbuilt, Partition, CountExact,
                FreeFrames, Allocatable
  <1> QED
    BY <1>1, <1>2, <1>3, <1>4 DEF Next

----------------------------------------------------------------------------------
(* The theorems *)

(* The invariant holds in every reachable state. *)
THEOREM Invariance == Spec => []IInv
  <1> QED
    BY InitIInv, NextIInv, PTL DEF Spec

(* For every page size and memory map: the allocator's values keep to their types, *)
(* the search hint never passes the last frame, and no bit outside the bitmap that *)
(* pmm_init laid out is ever set.                                                  *)
THEOREM TypeCorrect == Spec => []TypeOK
  <1>1. IInv => TypeOK
    BY DEF IInv
  <1> QED
    BY <1>1, Invariance, PTL

(* For every page size and memory map: a frame that pmm_alloc_frame may return is  *)
(* either clear in the bitmap or held by exactly one caller, and page 0, the       *)
(* bitmap's own frames and memory that is not usable are neither.                  *)
THEOREM FramesPartitioned == Spec => []Partition
  <1>1. IInv => Partition
    BY DEF IInv
  <1> QED
    BY <1>1, Invariance, PTL

(* For every page size and memory map: free_frames is the number of clear bits.    *)
THEOREM FreeCountExact == Spec => []CountExact
  <1>1. IInv => CountExact
    BY DEF IInv
  <1> QED
    BY <1>1, Invariance, PTL

(* A search that starts at s and goes n bits past it, n below the size, visits     *)
(* s + n or, past the end, s + n minus the size.                                   *)
LEMMA Wrap ==
  ASSUME NEW c \in Nat \ {0}, NEW a \in 0..(2 * c)
  PROVE  a % c = IF a < c THEN a ELSE IF a < 2 * c THEN a - c ELSE 0
  <1>1. CASE a < c
    BY <1>1
  <1>2. CASE a >= c /\ a < 2 * c
    BY <1>2
  <1>3. CASE a = 2 * c
    BY <1>3
  <1> QED
    BY <1>1, <1>2, <1>3

(* If a bit is clear, bitmap_find_first_clear finds one, wherever it starts: the   *)
(* least distance from the hint to a clear bit is where it stops.                  *)
LEMMA SearchFinds ==
  ASSUME frame_count \in Nat \ {0}, next_search_index \in 0..frame_count,
         NEW g \in 0..(frame_count - 1), g \notin bitmap
  PROVE  \E f \in 0..(frame_count - 1): FirstClear(f)
  <1> DEFINE at(n) == (next_search_index + n) % frame_count
             Hits == {n \in 0..(frame_count - 1): at(n) \notin bitmap}
  <1>1. Hits # {}
    <2>1. CASE next_search_index = frame_count
      <3>1. at(g) = g
        BY <2>1, Wrap
      <3> QED
        BY <3>1
    <2>2. CASE next_search_index # frame_count /\ g >= next_search_index
      <3>1. g - next_search_index \in 0..(frame_count - 1)
        BY <2>2
      <3>2. at(g - next_search_index) = g
        BY <2>2, Wrap
      <3> QED
        BY <3>1, <3>2
    <2>3. CASE next_search_index # frame_count /\ g < next_search_index
      <3>1. g + frame_count - next_search_index \in 0..(frame_count - 1)
        BY <2>3
      <3>2. at(g + frame_count - next_search_index) = g
        BY <2>3, Wrap
      <3> QED
        BY <3>1, <3>2
    <2> QED
      BY <2>1, <2>2, <2>3
  <1>2. PICK n \in Hits: \A k \in Hits: n <= k
    <2>1. Hits \subseteq Nat
      OBVIOUS
    <2> HIDE DEF Hits
    <2> QED
      BY <1>1, <2>1, LeastNat
  <1>3. \A i \in 0..(n - 1): at(i) \in bitmap
    <2> SUFFICES ASSUME NEW i \in 0..(n - 1), at(i) \notin bitmap PROVE FALSE
      OBVIOUS
    <2>0. n \in 0..(frame_count - 1)
      OBVIOUS
    <2>1. i \in 0..(frame_count - 1) /\ ~ (n <= i)
      BY <2>0
    <2>2. i \in Hits
      BY <2>1
    <2> HIDE DEF Hits
    <2> QED
      BY <1>2, <2>1, <2>2
  <1>4. n \in 0..(frame_count - 1) /\ at(n) \notin bitmap
    OBVIOUS
  <1>5. at(n) \in 0..(frame_count - 1)
    BY <1>4
  <1> QED
    BY <1>3, <1>4, <1>5 DEF FirstClear

(* For every page size and memory map: pmm_alloc_frame returns 0 only when every   *)
(* allocatable frame is held, wherever the search starts.                          *)
THEOREM AllocComplete == Spec => []FailsOnlyWhenExhausted
  <1>1. IInv => FailsOnlyWhenExhausted
    <2> SUFFICES ASSUME IInv, OutOfFrames PROVE held = Allocatable
      BY DEF FailsOnlyWhenExhausted
    <2>1. /\ frame_count \in Nat \ {0} /\ FreeFrames = Allocatable \ held
          /\ held \subseteq Allocatable /\ next_search_index \in 0..frame_count
      BY ReadyFacts DEF OutOfFrames, IInv, TypeOK
    <2>2. FreeFrames = {}
      BY <2>1, SearchFinds DEF OutOfFrames, FreeFrames
    <2> QED
      BY <2>1, <2>2
  <1> QED
    BY <1>1, Invariance, PTL
====
