-------------------------------- MODULE HeapProof --------------------------------
(* Proofs about Heap for any heap size, header size, alignment and requests: the   *)
(* list always tiles the heap, callers hold exactly the blocks in use, free blocks *)
(* are coalesced, nothing is lost, and kmalloc fails only when nothing fits.       *)
EXTENDS Heap, TLAPS

Typed(blk) == DOMAIN blk \subseteq Addr /\ blk \in [DOMAIN blk -> Header]

(* The fields of a header and the order of neighbours in a tiled list. *)
LEMMA TiledFacts ==
  ASSUME NEW blk, Typed(blk), TiledBy(blk), NEW h \in DOMAIN blk
  PROVE  /\ h \in Nat /\ h \in Addr
         /\ blk[h].size \in Nat /\ blk[h].free \in BOOLEAN
         /\ blk[h].prev \in Addr \cup {NULL} /\ blk[h].next \in Addr \cup {NULL}
         /\ End(blk, h) \in Nat /\ End(blk, h) <= HEAP_SIZE
         /\ blk[h].next # NULL =>
              /\ blk[h].next \in DOMAIN blk /\ blk[h].next \in Nat
              /\ blk[h].next > h
         /\ blk[h].prev # NULL =>
              blk[h].prev \in DOMAIN blk /\ blk[h].prev \in Nat /\ blk[h].prev < h
  <1> USE HeapAssumption
  <1>1. h \in Addr /\ h \in Nat
    BY DEF Typed, Addr
  <1>2. blk[h] \in Header
    BY DEF Typed
  <1>3. /\ blk[h].size \in Nat /\ blk[h].free \in BOOLEAN
        /\ blk[h].prev \in Addr \cup {NULL} /\ blk[h].next \in Addr \cup {NULL}
    BY <1>2 DEF Header
  <1>4. End(blk, h) \in Nat /\ End(blk, h) > h
    BY <1>1, <1>3 DEF End
  <1>5. blk[h].next # NULL =>
          blk[h].next \in DOMAIN blk /\ blk[h].next \in Nat /\ blk[h].next = End(blk, h)
    BY <1>3 DEF TiledBy, Addr
  <1>6. End(blk, h) <= HEAP_SIZE
    BY <1>3, <1>4, <1>5 DEF TiledBy, Addr
  <1>7. blk[h].prev # NULL =>
          blk[h].prev \in DOMAIN blk /\ blk[h].prev \in Nat /\ blk[h].prev < h
    <2> SUFFICES ASSUME blk[h].prev # NULL
                 PROVE  /\ blk[h].prev \in DOMAIN blk /\ blk[h].prev \in Nat
                        /\ blk[h].prev < h
      OBVIOUS
    <2> DEFINE q == blk[h].prev
    <2>1. q \in DOMAIN blk /\ blk[q].next = h
      BY DEF TiledBy
    <2>2. q \in Nat /\ blk[q].size \in Nat
      BY <2>1 DEF Typed, Header, Addr
    <2>3. h = q + HDR + blk[q].size
      BY <1>1, <2>1 DEF TiledBy, End
    <2> HIDE DEF q
    <2>4. q < h
      BY <1>1, <2>2, <2>3
    <2> QED
      BY <2>1, <2>2, <2>4 DEF q
  <1> QED
    BY <1>1, <1>3, <1>4, <1>5, <1>6, <1>7

(* What Absorb does, header by header: a is the list blk after h absorbed n. *)
Absorbed(blk, h, n, a) ==
  /\ DOMAIN a = DOMAIN blk \ {n}
  /\ h \in DOMAIN a
  /\ n \in DOMAIN blk
  /\ a[h].size = blk[h].size + HDR + blk[n].size
  /\ a[h].free = blk[h].free /\ a[h].prev = blk[h].prev
  /\ a[h].next = blk[n].next
  /\ \A b \in DOMAIN a: b # h =>
       /\ a[b].size = blk[b].size /\ a[b].free = blk[b].free
       /\ a[b].next = blk[b].next
       /\ a[b].prev = IF b = blk[n].next THEN h ELSE blk[b].prev
  /\ a \in [DOMAIN a -> Header]

(* Absorb does that. *)
LEMMA AbsorbFields ==
  ASSUME NEW blk, Typed(blk), TiledBy(blk), NEW h \in DOMAIN blk, blk[h].next # NULL,
         NEW a, a = Absorb(blk, h), NEW n, n = blk[h].next
  PROVE  Absorbed(blk, h, n, a)
  <1>1. /\ n \in DOMAIN blk /\ n > h /\ n # h
        /\ blk[n] \in Header /\ blk[h] \in Header /\ h \in Addr
    BY TiledFacts DEF Typed
  <1>a. blk[n].next # h
    <2>1. h \in Nat /\ n \in Nat /\ NULL \notin Nat
      BY TiledFacts, <1>1, HeapAssumption
    <2>2. blk[n].next # NULL => blk[n].next > n /\ blk[n].next \in Nat
      BY TiledFacts, <1>1
    <2> QED
      BY <1>1, <2>1, <2>2
  <1>2. DOMAIN a = DOMAIN blk \ {n} /\ h \in DOMAIN a
    BY <1>1 DEF Absorb
  <1>3. a[h] = [size |-> blk[h].size + HDR + blk[n].size,
                free |-> blk[h].free, prev |-> blk[h].prev, next |-> blk[n].next]
    BY <1>a, <1>2 DEF Absorb
  <1>4. \A b \in DOMAIN a: b # h =>
          a[b] = IF b = blk[n].next THEN [blk[b] EXCEPT !.prev = h] ELSE blk[b]
    BY <1>2 DEF Absorb
  <1>5. a[h].size = blk[h].size + HDR + blk[n].size /\ a[h].next = blk[n].next
        /\ a[h].free = blk[h].free /\ a[h].prev = blk[h].prev /\ a[h] \in Header
    BY <1>1, <1>3, HeapAssumption DEF Header
  <1>6. \A b \in DOMAIN a: b # h =>
          /\ a[b].size = blk[b].size /\ a[b].free = blk[b].free
          /\ a[b].next = blk[b].next
          /\ a[b].prev = IF b = blk[n].next THEN h ELSE blk[b].prev
          /\ a[b] \in Header
    <2> SUFFICES ASSUME NEW b \in DOMAIN a, b # h
                 PROVE  /\ a[b].size = blk[b].size /\ a[b].free = blk[b].free
                        /\ a[b].next = blk[b].next
                        /\ a[b].prev = IF b = blk[n].next THEN h ELSE blk[b].prev
                        /\ a[b] \in Header
      OBVIOUS
    <2>1. blk[b] \in Header
      BY <1>2 DEF Typed
    <2>2. CASE b = blk[n].next
      BY <1>1, <1>4, <2>1, <2>2 DEF Header
    <2>3. CASE b # blk[n].next
      BY <1>4, <2>1, <2>3
    <2> QED
      BY <2>2, <2>3
  <1>7. a \in [DOMAIN a -> Header]
    <2>1. a = [b \in DOMAIN a |-> a[b]]
      BY DEF Absorb
    <2> QED
      BY <1>5, <1>6, <2>1
  <1> QED
    BY <1>1, <1>2, <1>5, <1>6, <1>7 DEF Absorbed

(* Absorbing the next block keeps the list a tiling. *)
LEMMA AbsorbTiled ==
  ASSUME NEW blk, Typed(blk), TiledBy(blk), NEW h \in DOMAIN blk, blk[h].next # NULL
  PROVE  Typed(Absorb(blk, h)) /\ TiledBy(Absorb(blk, h))
  <1> DEFINE a == Absorb(blk, h)
             n == blk[h].next
             m == blk[n].next
  <1> USE HeapAssumption
  <1>1. /\ DOMAIN a = DOMAIN blk \ {n}
        /\ h \in DOMAIN a
        /\ n \in DOMAIN blk
        /\ a[h].size = blk[h].size + HDR + blk[n].size
        /\ a[h].free = blk[h].free /\ a[h].prev = blk[h].prev
        /\ a[h].next = m
        /\ \A b \in DOMAIN a: b # h =>
             /\ a[b].size = blk[b].size
             /\ a[b].next = blk[b].next
             /\ a[b].prev = IF b = m THEN h ELSE blk[b].prev
        /\ a \in [DOMAIN a -> Header]
    <2>1. Absorbed(blk, h, n, a)
      BY AbsorbFields
    <2> QED
      BY <2>1 DEF Absorbed
  <1>2. n = h + HDR + blk[h].size /\ blk[n].prev = h /\ n > h
    BY <1>1, TiledFacts DEF TiledBy, End
  <1>3. /\ h \in Nat /\ n \in Nat /\ blk[h].size \in Nat /\ blk[n].size \in Nat
        /\ m \in Addr \cup {NULL}
    BY <1>1, TiledFacts
  <1>4. m # NULL => m \in DOMAIN blk /\ m > n /\ m = End(blk, n) /\ blk[m].prev = n
                    /\ m \in Nat
    BY <1>1, TiledFacts DEF TiledBy
  <1>5. m = NULL => End(blk, n) = HEAP_SIZE
    BY <1>1 DEF TiledBy
  <1> HIDE DEF a, n, m
  <1>6. End(a, h) = End(blk, n)
    BY <1>1, <1>2, <1>3 DEF End
  <1>7. \A b \in DOMAIN a: b # h => End(a, b) = End(blk, b)
    BY <1>1 DEF End
  <1>8. Typed(a)
    BY <1>1 DEF Typed
  <1>9. 0 \in DOMAIN a
    BY <1>1, <1>2, <1>3 DEF TiledBy
  <1>10. ASSUME NEW b \in DOMAIN a
         PROVE  /\ a[b].next = NULL => End(a, b) = HEAP_SIZE
                /\ a[b].next # NULL => /\ a[b].next \in DOMAIN a
                                       /\ a[b].next = End(a, b)
                                       /\ a[a[b].next].prev = b
                /\ a[b].prev = NULL <=> b = 0
                /\ a[b].prev # NULL => /\ a[b].prev \in DOMAIN a
                                       /\ a[a[b].prev].next = b
    <2>1. CASE b = h
      <3>1. m # NULL => m \in DOMAIN a /\ m # h /\ a[m].prev = h
        BY <1>1, <1>2, <1>3, <1>4
      <3>2. blk[h].prev # NULL => blk[h].prev \in DOMAIN a /\ a[blk[h].prev].next = h
        <4> SUFFICES ASSUME blk[h].prev # NULL
                     PROVE  blk[h].prev \in DOMAIN a /\ a[blk[h].prev].next = h
          OBVIOUS
        <4>1. /\ blk[h].prev \in DOMAIN blk /\ blk[h].prev < h /\ blk[h].prev \in Nat
              /\ blk[blk[h].prev].next = h
          BY TiledFacts DEF TiledBy
        <4> QED
          BY <1>1, <1>2, <1>3, <4>1
      <3>3. blk[h].prev = NULL <=> h = 0
        BY DEF TiledBy
      <3> QED
        BY <1>1, <1>4, <1>5, <1>6, <2>1, <3>1, <3>2, <3>3
    <2>2. CASE b # h
      <3>1. b \in DOMAIN blk /\ b # n /\ b \in Nat
        BY <1>1, TiledFacts
      <3>2. blk[b].next = NULL => End(a, b) = HEAP_SIZE
        BY <1>7, <2>2, <3>1 DEF TiledBy
      <3>3. blk[b].next # NULL => /\ blk[b].next \in DOMAIN a
                                  /\ blk[b].next = End(a, b)
                                  /\ a[blk[b].next].prev = b
        <4> SUFFICES ASSUME blk[b].next # NULL
                     PROVE  /\ blk[b].next \in DOMAIN a
                            /\ blk[b].next = End(a, b)
                            /\ a[blk[b].next].prev = b
          OBVIOUS
        <4>1. /\ blk[b].next \in DOMAIN blk /\ blk[b].next = End(blk, b)
              /\ blk[blk[b].next].prev = b
          BY <3>1 DEF TiledBy
        <4>2. blk[b].next # n
          BY <1>2, <2>2, <4>1
        <4>3. m # NULL => blk[b].next # m
          BY <1>4, <3>1, <4>1
        <4>4. blk[b].next # m
          BY <4>3
        <4> QED
          BY <1>1, <1>7, <2>2, <4>1, <4>2, <4>4
      <3>4. a[b].prev = NULL <=> b = 0
        <4>1. b = m => b # 0
          BY <1>2, <1>3, <1>4, <3>1
        <4> QED
          BY <1>1, <1>3, <2>2, <3>1, <4>1 DEF TiledBy
      <3>5. a[b].prev # NULL => a[b].prev \in DOMAIN a /\ a[a[b].prev].next = b
        <4>1. CASE b = m
          BY <1>1, <2>2, <4>1
        <4>2. CASE b # m
          <5> SUFFICES ASSUME blk[b].prev # NULL
                       PROVE  blk[b].prev \in DOMAIN a /\ a[blk[b].prev].next = b
            BY <1>1, <2>2, <4>2
          <5>1. blk[b].prev \in DOMAIN blk /\ blk[blk[b].prev].next = b
            BY <3>1 DEF TiledBy
          <5>2. blk[b].prev # n
            BY <4>2, <5>1 DEF m
          <5>3. blk[b].prev # h
            BY <3>1, <5>1 DEF n
          <5> QED
            BY <1>1, <5>1, <5>2, <5>3
        <4> QED
          BY <4>1, <4>2
      <3> QED
        BY <1>1, <2>2, <3>2, <3>3, <3>4, <3>5
    <2> QED
      BY <2>1, <2>2
  <1>11. ASSUME NEW g \in DOMAIN a, NEW b \in DOMAIN a, g < b
         PROVE  End(a, g) <= b
    <2>1. g \in DOMAIN blk /\ b \in DOMAIN blk /\ b # n /\ g # n /\ g \in Nat /\ b \in Nat
      BY <1>1, TiledFacts
    <2>2. CASE g = h
      <3>1. n <= b
        BY <1>2, <1>11, <2>1, <2>2 DEF TiledBy, End
      <3>2. n < b
        BY <1>3, <2>1, <3>1
      <3> QED
        BY <1>1, <1>6, <2>1, <2>2, <3>2 DEF TiledBy
    <2>3. CASE g # h
      BY <1>7, <1>11, <2>1, <2>3 DEF TiledBy
    <2> QED
      BY <2>2, <2>3
  <1>12. TiledBy(a)
    BY <1>9, <1>10, <1>11 DEF TiledBy
  <1> QED
    BY <1>8, <1>12 DEF a

(* What SplitAt does, header by header: a is blk with h cut at n, m was behind h. *)
Split(blk, h, n, m, a) ==
  /\ DOMAIN a = DOMAIN blk \cup {n}
  /\ n \notin DOMAIN blk
  /\ n \in Nat /\ n > h /\ n < End(blk, h) /\ n \in Addr
  /\ a[n].size \in Nat /\ a[n].size = blk[h].size - size - HDR
  /\ a[n].free /\ a[n].prev = h /\ a[n].next = m
  /\ a[h].size = size /\ ~a[h].free /\ a[h].prev = blk[h].prev /\ a[h].next = n
  /\ \A b \in DOMAIN blk: b # h =>
       /\ a[b].size = blk[b].size /\ a[b].free = blk[b].free
       /\ a[b].next = blk[b].next
       /\ a[b].prev = IF b = m THEN n ELSE blk[b].prev
  /\ a \in [DOMAIN a -> Header]

(* SplitAt does that. *)
LEMMA SplitFields ==
  ASSUME Typed(block), TiledBy(block), NEW h \in DOMAIN block, size \in Nat, Splits(h),
         NEW a, a = SplitAt(h), NEW n, n = h + HDR + size, NEW m, m = block[h].next
  PROVE  Split(block, h, n, m, a)
  <1> USE HeapAssumption
  <1>1. /\ h \in Nat /\ h \in Addr /\ block[h] \in Header /\ block[h].size \in Nat
        /\ block[h].prev \in Addr \cup {NULL} /\ m \in Addr \cup {NULL}
        /\ End(block, h) \in Nat /\ End(block, h) <= HEAP_SIZE
        /\ End(block, h) = h + HDR + block[h].size
    BY TiledFacts DEF Typed, End
  <1>2. /\ block[h].size - size - HDR \in Nat
        /\ n \in Nat /\ n > h /\ n < End(block, h)
    BY <1>1 DEF Splits
  <1>3. n \in Addr
    BY <1>1, <1>2 DEF Addr
  <1>4. n \notin DOMAIN block
    <2> SUFFICES ASSUME n \in DOMAIN block PROVE FALSE
      OBVIOUS
    <2>1. End(block, h) <= n
      BY <1>1, <1>2 DEF TiledBy
    <2> QED
      BY <1>1, <1>2, <2>1
  <1>5. m # h /\ m # n
    <2>1. m # NULL => m \in DOMAIN block /\ m > h /\ m \in Nat
      BY TiledFacts
    <2> QED
      BY <1>1, <1>2, <1>4, <2>1
  <1>6. DOMAIN a = DOMAIN block \cup {n}
    BY DEF SplitAt
  <1>7. a[n] = [size |-> block[h].size - size - HDR, free |-> TRUE, prev |-> h, next |-> m]
    BY <1>2, <1>4, <1>5, <1>6 DEF SplitAt
  <1>8. a[h] = [size |-> size, free |-> FALSE, prev |-> block[h].prev, next |-> n]
    BY <1>1, <1>2, <1>5, <1>6 DEF SplitAt
  <1>9. \A b \in DOMAIN block: b # h =>
          a[b] = IF b = m THEN [block[b] EXCEPT !.prev = n] ELSE block[b]
    BY <1>4, <1>6 DEF SplitAt
  <1>10. a[n] \in Header /\ a[h] \in Header
    BY <1>1, <1>2, <1>3, <1>7, <1>8 DEF Header
  <1>11. \A b \in DOMAIN block: b # h =>
           /\ a[b].size = block[b].size /\ a[b].free = block[b].free
           /\ a[b].next = block[b].next
           /\ a[b].prev = IF b = m THEN n ELSE block[b].prev
           /\ a[b] \in Header
    <2> SUFFICES ASSUME NEW b \in DOMAIN block, b # h
                 PROVE  /\ a[b].size = block[b].size /\ a[b].free = block[b].free
                        /\ a[b].next = block[b].next
                        /\ a[b].prev = IF b = m THEN n ELSE block[b].prev
                        /\ a[b] \in Header
      OBVIOUS
    <2>1. block[b] \in Header
      BY DEF Typed
    <2>2. CASE b = m
      BY <1>3, <1>9, <2>1, <2>2 DEF Header
    <2>3. CASE b # m
      BY <1>9, <2>1, <2>3
    <2> QED
      BY <2>2, <2>3
  <1>12. a \in [DOMAIN a -> Header]
    <2>1. a = [b \in DOMAIN a |-> a[b]]
      BY DEF SplitAt
    <2> QED
      BY <1>6, <1>10, <1>11, <2>1
  <1>13. /\ a[n].size = block[h].size - size - HDR
         /\ a[n].free /\ a[n].prev = h /\ a[n].next = m
    BY <1>7
  <1>14. /\ a[h].size = size /\ ~a[h].free /\ a[h].prev = block[h].prev /\ a[h].next = n
    BY <1>8
  <1> QED
    BY <1>2, <1>3, <1>4, <1>6, <1>11, <1>12, <1>13, <1>14 DEF Split

(* Splitting a block keeps the list a tiling. *)
LEMMA SplitTiled ==
  ASSUME Typed(block), TiledBy(block), NEW h \in DOMAIN block, size \in Nat, Splits(h)
  PROVE  Typed(SplitAt(h)) /\ TiledBy(SplitAt(h))
  <1> SUFFICES ASSUME NEW a, a = SplitAt(h), NEW n, n = h + HDR + size,
                      NEW m, m = block[h].next
               PROVE  Typed(a) /\ TiledBy(a)
    OBVIOUS
  <1> USE HeapAssumption
  <1>1. /\ DOMAIN a = DOMAIN block \cup {n}
        /\ n \notin DOMAIN block
        /\ n \in Nat /\ n > h /\ n < End(block, h) /\ n \in Addr
        /\ a[n].size \in Nat /\ a[n].size = block[h].size - size - HDR
        /\ a[n].free /\ a[n].prev = h /\ a[n].next = m
        /\ a[h].size = size /\ ~a[h].free /\ a[h].prev = block[h].prev /\ a[h].next = n
        /\ \A b \in DOMAIN block: b # h =>
             /\ a[b].size = block[b].size /\ a[b].free = block[b].free
             /\ a[b].next = block[b].next
             /\ a[b].prev = IF b = m THEN n ELSE block[b].prev
        /\ a \in [DOMAIN a -> Header]
    <2>1. Split(block, h, n, m, a)
      BY SplitFields
    <2> QED
      BY <2>1 DEF Split
  <1>2. h \in Nat /\ block[h].size \in Nat /\ m \in Addr \cup {NULL}
    BY TiledFacts
  <1>3. End(a, h) = n
    BY <1>1 DEF End
  <1>4. End(a, n) = End(block, h)
    BY <1>1, <1>2 DEF End
  <1>5. \A b \in DOMAIN block: b # h => End(a, b) = End(block, b)
    BY <1>1 DEF End
  <1>6. /\ m = NULL => End(block, h) = HEAP_SIZE
        /\ m # NULL => /\ m \in DOMAIN block /\ m = End(block, h) /\ m # h
                       /\ block[m].prev = h
    BY TiledFacts DEF TiledBy
  <1>7. n # NULL /\ h # NULL
    BY <1>1, <1>2
  <1>8. Typed(a)
    BY <1>1 DEF Typed
  <1>9. ASSUME NEW b \in DOMAIN a
        PROVE  /\ a[b].next = NULL => End(a, b) = HEAP_SIZE
               /\ a[b].next # NULL => /\ a[b].next \in DOMAIN a
                                      /\ a[b].next = End(a, b)
                                      /\ a[a[b].next].prev = b
               /\ a[b].prev = NULL <=> b = 0
               /\ a[b].prev # NULL => /\ a[b].prev \in DOMAIN a
                                      /\ a[a[b].prev].next = b
    <2>1. CASE b = n
      BY <1>1, <1>2, <1>4, <1>6, <1>7, <2>1
    <2>2. CASE b = h
      <3>1. block[h].prev # NULL =>
              /\ block[h].prev \in DOMAIN block /\ block[h].prev # h
              /\ block[block[h].prev].next = h
        BY TiledFacts DEF TiledBy
      <3>2. block[h].prev = NULL <=> h = 0
        BY DEF TiledBy
      <3> QED
        BY <1>1, <1>3, <1>7, <2>2, <3>1, <3>2
    <2>3. CASE b # n /\ b # h
      <3>1. b \in DOMAIN block
        BY <1>1, <2>3
      <3>2. /\ block[b].next = NULL => End(a, b) = HEAP_SIZE
            /\ block[b].next # NULL => /\ block[b].next \in DOMAIN block
                                       /\ block[b].next = End(a, b)
                                       /\ block[block[b].next].prev = b
            /\ block[b].prev = NULL <=> b = 0
            /\ block[b].prev # NULL => /\ block[b].prev \in DOMAIN block
                                       /\ block[block[b].prev].next = b
        BY <1>5, <2>3, <3>1 DEF TiledBy
      <3>3. block[b].next # NULL => a[block[b].next].prev = b
        <4> SUFFICES ASSUME block[b].next # NULL PROVE a[block[b].next].prev = b
          OBVIOUS
        <4>1. CASE block[b].next = h
          BY <1>1, <3>2, <4>1
        <4>2. CASE block[b].next # h
          <5>1. block[b].next # m
            BY <1>6, <2>3, <3>2
          <5> QED
            BY <1>1, <3>2, <4>2, <5>1
        <4> QED
          BY <4>1, <4>2
      <3>4. a[b].prev = NULL <=> b = 0
        BY <1>1, <1>2, <1>6, <1>7, <2>3, <3>1, <3>2
      <3>5. a[b].prev # NULL => a[b].prev \in DOMAIN a /\ a[a[b].prev].next = b
        <4>1. CASE b = m
          BY <1>1, <2>3, <3>1, <4>1
        <4>2. CASE b # m
          <5>1. block[b].prev # NULL => block[b].prev # h
            BY <3>2, <4>2
          <5> QED
            BY <1>1, <2>3, <3>1, <3>2, <4>2, <5>1
        <4> QED
          BY <4>1, <4>2
      <3> QED
        BY <1>1, <2>3, <3>1, <3>2, <3>3, <3>4, <3>5
    <2> QED
      BY <2>1, <2>2, <2>3
  <1>10. ASSUME NEW g \in DOMAIN a, NEW b \in DOMAIN a, g < b
         PROVE  End(a, g) <= b
    <2>1. End(block, h) \in Nat
      BY TiledFacts
    <2>2. CASE b = n
      <3>1. CASE g = h
        BY <1>1, <1>3, <2>2, <3>1
      <3>2. CASE g # h
        <4>1. g \in DOMAIN block /\ g \in Nat /\ g # n /\ End(block, g) \in Nat
          BY <1>1, <1>10, <2>2, TiledFacts
        <4>2. ~(h < g)
          BY <1>1, <1>10, <2>1, <2>2, <4>1 DEF TiledBy
        <4>3. End(block, g) <= h
          BY <1>2, <3>2, <4>1, <4>2 DEF TiledBy
        <4> QED
          BY <1>1, <1>2, <1>5, <2>2, <3>2, <4>1, <4>3
      <3> QED
        BY <3>1, <3>2
    <2>3. CASE b # n
      <3>1. b \in DOMAIN block /\ b \in Nat
        BY <1>1, <2>3, TiledFacts
      <3>2. CASE g = n \/ g = h
        <4>1. h < b
          BY <1>1, <1>2, <1>10, <3>1, <3>2
        <4>2. End(block, h) <= b
          BY <3>1, <4>1 DEF TiledBy
        <4> QED
          BY <1>1, <1>3, <1>4, <2>1, <3>1, <3>2, <4>2
      <3>3. CASE g # n /\ g # h
        BY <1>1, <1>5, <1>10, <3>1, <3>3 DEF TiledBy
      <3> QED
        BY <3>2, <3>3
    <2> QED
      BY <2>2, <2>3
  <1>11. TiledBy(a)
    <2>1. 0 \in DOMAIN a
      BY <1>1 DEF TiledBy
    <2> QED
      BY <1>9, <1>10, <2>1 DEF TiledBy
  <1> QED
    BY <1>8, <1>11

----------------------------------------------------------------------------------
(* kfree *)

Used(blk) == {b \in DOMAIN blk: ~blk[b].free}

(* Two free neighbours are possible only in front of h. *)
CoalescedUpTo(blk, h) ==
  \A g \in DOMAIN blk:
    blk[g].free /\ blk[g].next # NULL /\ blk[blk[g].next].free => blk[g].next = h

(* Two free neighbours are possible only around h: in front of it or behind it,   *)
(* not further on.                                                                *)
CoalescedAround(f, h) ==
  /\ \A g \in DOMAIN f:
       g # h /\ f[g].free /\ f[g].next # NULL /\ f[f[g].next].free => f[g].next = h
  /\ f[h].next # NULL /\ f[f[h].next].free /\ f[f[h].next].next # NULL
       => ~f[f[f[h].next].next].free

(* Changing the mark of one block keeps the tiling. *)
LEMMA MarkTiled ==
  ASSUME Typed(block), TiledBy(block), NEW h \in DOMAIN block, NEW v \in BOOLEAN,
         NEW f, f = [block EXCEPT ![h].free = v]
  PROVE  /\ Typed(f) /\ TiledBy(f)
         /\ DOMAIN f = DOMAIN block
         /\ f[h].free = v
         /\ \A b \in DOMAIN block: b # h => f[b] = block[b]
         /\ f[h].next = block[h].next
  <1>1. DOMAIN f = DOMAIN block /\ f[h] = [block[h] EXCEPT !.free = v]
        /\ \A b \in DOMAIN block: b # h => f[b] = block[b]
    OBVIOUS
  <1>2. block[h] \in Header
    BY DEF Typed
  <1>3. f[h].size = block[h].size /\ f[h].next = block[h].next /\ f[h].prev = block[h].prev
        /\ f[h].free = v /\ f[h] \in Header
    BY <1>1, <1>2 DEF Header
  <1>4. \A b \in DOMAIN block:
          f[b].size = block[b].size /\ f[b].next = block[b].next /\ f[b].prev = block[b].prev
    BY <1>1, <1>3
  <1>5. Typed(f)
    <2>1. f \in [DOMAIN block -> Header]
      BY <1>1, <1>2, <1>3 DEF Typed
    <2> QED
      BY <1>1, <2>1 DEF Typed
  <1>6. \A b \in DOMAIN block: End(f, b) = End(block, b)
    BY <1>4 DEF End
  <1>7. TiledBy(f)
    <2>1. ASSUME NEW b \in DOMAIN f
          PROVE  /\ f[b].next = NULL => End(f, b) = HEAP_SIZE
                 /\ f[b].next # NULL => /\ f[b].next \in DOMAIN f
                                        /\ f[b].next = End(f, b)
                                        /\ f[f[b].next].prev = b
                 /\ f[b].prev = NULL <=> b = 0
                 /\ f[b].prev # NULL => /\ f[b].prev \in DOMAIN f
                                        /\ f[f[b].prev].next = b
      <3>1. /\ block[b].next = NULL => End(block, b) = HEAP_SIZE
            /\ block[b].next # NULL => /\ block[b].next \in DOMAIN block
                                       /\ block[b].next = End(block, b)
                                       /\ block[block[b].next].prev = b
            /\ block[b].prev = NULL <=> b = 0
            /\ block[b].prev # NULL => /\ block[b].prev \in DOMAIN block
                                       /\ block[block[b].prev].next = b
        BY <1>1 DEF TiledBy
      <3> QED
        BY <1>1, <1>4, <1>6, <3>1
    <2>2. \A g, b \in DOMAIN f: g < b => End(f, g) <= b
      BY <1>1, <1>6 DEF TiledBy
    <2>3. 0 \in DOMAIN f
      BY <1>1 DEF TiledBy
    <2> QED
      BY <2>1, <2>2, <2>3 DEF TiledBy
  <1> QED
    BY <1>1, <1>3, <1>5, <1>7

(* Marking a free block as in use. *)
LEMMA MarkUsed ==
  ASSUME Typed(block), TiledBy(block), NEW h \in DOMAIN block,
         NEW f, f = [block EXCEPT ![h].free = FALSE]
  PROVE  Typed(f) /\ TiledBy(f) /\ Used(f) = Used(block) \cup {h}
  <1>1. /\ Typed(f) /\ TiledBy(f)
        /\ DOMAIN f = DOMAIN block
        /\ f[h].free = FALSE
        /\ \A b \in DOMAIN block: b # h => f[b] = block[b]
        /\ f[h].next = block[h].next
    BY MarkTiled
  <1> QED
    BY <1>1 DEF Used

(* Marking a block in use as free. *)
LEMMA MarkFree ==
  ASSUME Typed(block), TiledBy(block), Coalesced, NEW h \in DOMAIN block,
         NEW f, f = [block EXCEPT ![h].free = TRUE]
  PROVE  /\ Typed(f) /\ TiledBy(f)
         /\ h \in DOMAIN f /\ f[h].free
         /\ Used(f) = Used(block) \ {h}
         /\ CoalescedAround(f, h)
  <1>1. /\ Typed(f) /\ TiledBy(f)
        /\ DOMAIN f = DOMAIN block
        /\ f[h].free = TRUE
        /\ \A b \in DOMAIN block: b # h => f[b] = block[b]
        /\ f[h].next = block[h].next
    BY MarkTiled
  <1>2. Used(f) = Used(block) \ {h}
    BY <1>1 DEF Used
  <1>3. \A g \in DOMAIN f:
          g # h /\ f[g].free /\ f[g].next # NULL /\ f[f[g].next].free => f[g].next = h
    BY <1>1 DEF Coalesced, TiledBy
  <1>4. f[h].next # NULL /\ f[f[h].next].free /\ f[f[h].next].next # NULL
           => ~f[f[f[h].next].next].free
    <2> SUFFICES ASSUME f[h].next # NULL, f[f[h].next].free, f[f[h].next].next # NULL
                 PROVE  ~f[f[f[h].next].next].free
      OBVIOUS
    <2> DEFINE n == f[h].next
               m == f[n].next
    <2>1. n \in DOMAIN f /\ n > h /\ h \in Nat /\ n \in Nat
      BY <1>1, TiledFacts
    <2>2. m \in DOMAIN f /\ m > n /\ m \in Nat
      BY <1>1, <2>1, TiledFacts
    <2>3. n # h /\ m # h
      BY <2>1, <2>2
    <2> HIDE DEF n, m
    <2>4. block[n].free /\ block[n].next = m /\ m # NULL
      BY <1>1, <2>1, <2>3 DEF n, m
    <2>5. ~block[m].free
      BY <1>1, <2>1, <2>4 DEF Coalesced
    <2>6. ~f[m].free
      BY <1>1, <2>2, <2>3, <2>5
    <2> QED
      BY <2>6 DEF n, m
  <1> QED
    BY <1>1, <1>2, <1>3, <1>4 DEF CoalescedAround

(* The first `if` of kfree leaves at most the pair that ends in h uncoalesced. *)
LEMMA MergeNextOK ==
  ASSUME NEW f, Typed(f), TiledBy(f), NEW h \in DOMAIN f, f[h].free,
         CoalescedAround(f, h),
         NEW e, e = MergeNext(f, h)
  PROVE  /\ Typed(e) /\ TiledBy(e)
         /\ h \in DOMAIN e /\ e[h].free
         /\ Used(e) = Used(f)
         /\ CoalescedUpTo(e, h)
  <1>1. CASE f[h].next # NULL /\ f[f[h].next].free
    <2> DEFINE n == f[h].next
    <2>1. e = Absorb(f, h) /\ f[h].next # NULL
      BY <1>1 DEF MergeNext
    <2>2. Typed(e) /\ TiledBy(e)
      BY <1>1, <2>1, AbsorbTiled
    <2>3. /\ DOMAIN e = DOMAIN f \ {n}
          /\ h \in DOMAIN e
          /\ n \in DOMAIN f
          /\ e[h].size = f[h].size + HDR + f[n].size
          /\ e[h].free = f[h].free /\ e[h].prev = f[h].prev
          /\ e[h].next = f[n].next
          /\ \A b \in DOMAIN e: b # h =>
               /\ e[b].size = f[b].size /\ e[b].free = f[b].free
               /\ e[b].next = f[b].next
               /\ e[b].prev = IF b = f[n].next THEN h ELSE f[b].prev
          /\ e \in [DOMAIN e -> Header]
      <3>1. Absorbed(f, h, f[h].next, e)
        BY <2>1, AbsorbFields
      <3> QED
        BY <3>1 DEF Absorbed
    <2>4. Used(e) = Used(f)
      BY <1>1, <2>3 DEF Used
    <2>5. CoalescedUpTo(e, h)
      <3> SUFFICES ASSUME NEW g \in DOMAIN e, e[g].free, e[g].next # NULL,
                          e[e[g].next].free
                   PROVE  e[g].next = h
        BY DEF CoalescedUpTo
      <3>1. e[g].next \in DOMAIN e
        BY <2>2, TiledFacts
      <3>2. CASE g = h
        <4>1. e[g].next = f[n].next /\ f[n].next # h
          BY <2>2, <2>3, <3>2, TiledFacts
        <4>2. ~f[f[n].next].free
          BY <1>1, <3>2, <4>1 DEF CoalescedAround
        <4> QED
          BY <2>3, <3>1, <4>1, <4>2
      <3>3. CASE g # h
        <4>1. f[g].free /\ f[g].next = e[g].next /\ g \in DOMAIN f
          BY <2>3, <3>3
        <4>2. f[e[g].next].free
          BY <2>3, <3>1
        <4> QED
          BY <3>3, <4>1, <4>2 DEF CoalescedAround
      <3> QED
        BY <3>2, <3>3
    <2> QED
      BY <2>2, <2>3, <2>4, <2>5
  <1>2. CASE ~(f[h].next # NULL /\ f[f[h].next].free)
    <2>1. e = f
      BY <1>2 DEF MergeNext
    <2>2. CoalescedUpTo(f, h)
      BY <1>2 DEF CoalescedUpTo, CoalescedAround
    <2> QED
      BY <2>1, <2>2
  <1> QED
    BY <1>1, <1>2

(* The second `if` coalesces that pair too. *)
LEMMA MergePrevOK ==
  ASSUME NEW e, Typed(e), TiledBy(e), NEW h \in DOMAIN e, e[h].free, CoalescedUpTo(e, h),
         NEW a, a = MergePrev(e, h)
  PROVE  /\ Typed(a) /\ TiledBy(a)
         /\ Used(a) = Used(e)
         /\ \A g \in DOMAIN a: a[g].free /\ a[g].next # NULL => ~a[a[g].next].free
  <1>1. CASE e[h].prev # NULL /\ e[e[h].prev].free
    <2> SUFFICES ASSUME NEW q, q = e[h].prev
                 PROVE  /\ Typed(a) /\ TiledBy(a)
                        /\ Used(a) = Used(e)
                        /\ \A g \in DOMAIN a:
                             a[g].free /\ a[g].next # NULL => ~a[a[g].next].free
      OBVIOUS
    <2>1. q \in DOMAIN e /\ e[q].next = h /\ e[q].next # NULL /\ q # h
      BY <1>1, TiledFacts, HeapAssumption DEF TiledBy
    <2>2. a = Absorb(e, q)
      BY <1>1 DEF MergePrev
    <2>3. Typed(a) /\ TiledBy(a)
      BY <2>1, <2>2, AbsorbTiled
    <2>4. /\ DOMAIN a = DOMAIN e \ {h}
          /\ q \in DOMAIN a
          /\ h \in DOMAIN e
          /\ a[q].size = e[q].size + HDR + e[h].size
          /\ a[q].free = e[q].free /\ a[q].prev = e[q].prev
          /\ a[q].next = e[h].next
          /\ \A b \in DOMAIN a: b # q =>
               /\ a[b].size = e[b].size /\ a[b].free = e[b].free
               /\ a[b].next = e[b].next
               /\ a[b].prev = IF b = e[h].next THEN q ELSE e[b].prev
          /\ a \in [DOMAIN a -> Header]
      <3>1. Absorbed(e, q, e[q].next, a)
        BY <2>1, <2>2, AbsorbFields
      <3> QED
        BY <2>1, <3>1 DEF Absorbed
    <2>5. Used(a) = Used(e)
      BY <1>1, <2>4 DEF Used
    <2>6. ASSUME NEW g \in DOMAIN a, a[g].free, a[g].next # NULL, a[a[g].next].free
          PROVE  FALSE
      <3>1. a[g].next \in DOMAIN a /\ a[g].next # h
        BY <2>3, <2>4, <2>6, TiledFacts
      <3>2. e[a[g].next].free
        BY <1>1, <2>4, <2>6, <3>1
      <3>3. CASE g = q
        BY <2>4, <2>6, <3>1, <3>2, <3>3 DEF CoalescedUpTo
      <3>4. CASE g # q
        BY <2>4, <2>6, <3>1, <3>2, <3>4 DEF CoalescedUpTo
      <3> QED
        BY <3>3, <3>4
    <2> QED
      BY <2>3, <2>5, <2>6
  <1>2. CASE ~(e[h].prev # NULL /\ e[e[h].prev].free)
    <2>1. a = e
      BY <1>2 DEF MergePrev
    <2>2. ASSUME NEW g \in DOMAIN e, e[g].free, e[g].next # NULL, e[e[g].next].free
          PROVE  FALSE
      <3>1. e[g].next = h /\ e[h].prev = g
        BY <2>2 DEF CoalescedUpTo, TiledBy
      <3>2. g \in Nat
        BY TiledFacts
      <3> QED
        BY <1>2, <2>2, <3>1, <3>2, HeapAssumption
    <2> QED
      BY <2>1, <2>2
  <1> QED
    BY <1>1, <1>2

----------------------------------------------------------------------------------
(* The inductive invariant. *)

(* The one block heap_init makes satisfies the inductive invariant. *)
LEMMA InitIInv == Init => IInv
  <1> SUFFICES ASSUME Init PROVE IInv
    OBVIOUS
  <1> USE HeapAssumption
  <1>1. /\ DOMAIN block = {0} /\ block[0].size = HEAP_SIZE - HDR /\ block[0].free
        /\ block[0].prev = NULL /\ block[0].next = NULL /\ HEAP_SIZE - HDR \in Nat
    BY DEF Init
  <1>2. block \in [DOMAIN block -> Header] /\ DOMAIN block \subseteq Addr
    BY <1>1 DEF Init, Header, Addr
  <1>3. TypeOK
    <2>1. DOMAIN live = {} /\ live \in [DOMAIN live -> Nat]
      BY DEF Init
    <2> QED
      BY <1>2, <2>1 DEF Init, TypeOK
  <1>4. Tiled
    <2>1. End(block, 0) = HEAP_SIZE
      BY <1>1 DEF End
    <2> QED
      BY <1>1, <2>1 DEF Tiled, TiledBy
  <1>5. Coalesced /\ LiveExact /\ WalkOK
    BY <1>1 DEF Init, Coalesced, LiveExact, WalkOK
  <1> QED
    BY <1>3, <1>4, <1>5 DEF IInv

(* align_up yields a natural number, wrapped or not. *)
LEMMA AlignUpNat == \A v \in Nat: AlignUp(v) \in Nat
  <1> SUFFICES ASSUME NEW v \in Nat PROVE AlignUp(v) \in Nat
    OBVIOUS
  <1> USE HeapAssumption
  <1> DEFINE w == (v + MIN_SPLIT_SIZE - 1) % WORD
  <1>1. w \in Nat
    BY DEF w
  <1> HIDE DEF w
  <1>2. w % MIN_SPLIT_SIZE \in Nat /\ w % MIN_SPLIT_SIZE <= w
    BY <1>1
  <1>3. w - (w % MIN_SPLIT_SIZE) \in Nat
    BY <1>1, <1>2
  <1> QED
    BY <1>3 DEF AlignUp, w

(* Below the last multiple of the alignment it rounds up. *)
LEMMA AlignUpRounds ==
  ASSUME NEW v \in Nat, v <= WORD - MIN_SPLIT_SIZE
  PROVE  AlignUp(v) >= v
  <1> USE HeapAssumption
  <1> DEFINE w == v + MIN_SPLIT_SIZE - 1
  <1>1. w \in Nat /\ w < WORD
    OBVIOUS
  <1>2. w % WORD = w
    BY <1>1
  <1>3. w % MIN_SPLIT_SIZE \in 0..(MIN_SPLIT_SIZE - 1)
    BY <1>1
  <1>4. w - (w % MIN_SPLIT_SIZE) >= v
    BY <1>1, <1>3
  <1> QED
    BY <1>2, <1>4 DEF AlignUp

(* The type invariant types the list of headers. *)
LEMMA TypedBlock == TypeOK => Typed(block)
  BY DEF TypeOK, Typed

(* Entering kmalloc, with the cursor at the first block, keeps the invariant. *)
LEMMA KmallocIInv ==
  ASSUME IInv, NEW n \in Requests, Kmalloc(n)
  PROVE  IInv'
  <1> USE HeapAssumption
  <1>1. n \in Nat /\ size' \in Nat
    BY AlignUpNat DEF Kmalloc
  <1>2. 0 \in DOMAIN block
    BY DEF IInv, Tiled, TiledBy
  <1>3. TypeOK'
    BY <1>1, <1>2 DEF Kmalloc, IInv, TypeOK
  <1>4. WalkOK'
    BY DEF Kmalloc, IInv, TypeOK, WalkOK, Addr
  <1>5. block' = block /\ live' = live
    BY DEF Kmalloc
  <1>6. Tiled' /\ Coalesced' /\ LiveExact'
    BY <1>5 DEF IInv, Tiled, Coalesced, LiveExact
  <1> QED
    BY <1>3, <1>4, <1>6 DEF IInv

(* A `continue` of kmalloc's loop keeps it: the block passed over does not fit. *)
LEMMA SkipIInv == IInv /\ Skip => IInv'
  <1> SUFFICES ASSUME IInv, Skip PROVE IInv'
    OBVIOUS
  <1> USE HeapAssumption
  <1>1. node \in DOMAIN block /\ Typed(block) /\ TiledBy(block)
    BY DEF Skip, IInv, TypeOK, Typed, Tiled
  <1>2. UNCHANGED <<block, live, pc, asked, size>> /\ node' = block[node].next
    BY DEF Skip
  <1>3. node' \in DOMAIN block \cup {NULL}
    BY <1>1, <1>2, TiledFacts
  <1>4. TypeOK'
    BY <1>2, <1>3 DEF IInv, TypeOK
  <1>5. Tiled' /\ Coalesced' /\ LiveExact'
    BY <1>2 DEF IInv, Tiled, Coalesced, LiveExact
  <1>6. WalkOK'
    <2>1. pc = "walk" /\ node # NULL /\ ~Fits(node)
      BY DEF Skip
    <2>2. ASSUME NEW h \in DOMAIN block, node' = NULL \/ h < node'
          PROVE  ~Fits(h)
      <3>1. h \in Nat /\ node \in Nat /\ End(block, node) \in Nat
        BY <1>1, TiledFacts
      <3>2. CASE h < node
        BY <2>1, <3>2 DEF IInv, WalkOK
      <3>3. CASE h = node
        BY <2>1, <3>3
      <3>4. CASE h > node
        <4>1. End(block, node) <= h
          BY <1>1, <3>1, <3>4 DEF TiledBy
        <4>2. CASE node' = NULL
          <5>1. End(block, node) = HEAP_SIZE
            BY <1>1, <1>2, <4>2 DEF TiledBy
          <5>2. h < HEAP_SIZE
            BY <1>1, TiledFacts DEF Addr
          <5> QED
            BY <3>1, <4>1, <5>1, <5>2
        <4>3. CASE node' # NULL
          <5>1. node' = End(block, node)
            BY <1>1, <1>2, <4>3 DEF TiledBy
          <5> QED
            BY <2>2, <3>1, <4>1, <4>3, <5>1
        <4> QED
          BY <4>2, <4>3
      <3> QED
        BY <3>1, <3>2, <3>3, <3>4
    <2> QED
      BY <1>2, <2>1, <2>2 DEF WalkOK, Fits
  <1> QED
    BY <1>4, <1>5, <1>6 DEF IInv

(* Returning NULL keeps it. *)
LEMMA FailIInv == IInv /\ Fail => IInv'
  <1> SUFFICES ASSUME IInv, Fail PROVE IInv'
    OBVIOUS
  <1>1. /\ block' = block /\ live' = live
        /\ pc' = "idle" /\ asked' = 0 /\ size' = 0 /\ node' = NULL
    BY DEF Fail, ReturnFromKmalloc
  <1>2. TypeOK'
    BY <1>1 DEF IInv, TypeOK
  <1>3. Tiled' /\ Coalesced' /\ LiveExact' /\ WalkOK'
    BY <1>1 DEF IInv, Tiled, Coalesced, LiveExact, WalkOK
  <1> QED
    BY <1>2, <1>3 DEF IInv

(* What Take leaves of the list: the block at node in use, and behind it perhaps  *)
(* one new free block.                                                            *)
LEMMA TakeBlock ==
  ASSUME IInv, Take
  PROVE  /\ node \in DOMAIN block /\ block[node].free
         /\ Typed(block') /\ TiledBy(block')
         /\ Used(block') = Used(block) \cup {node}
         /\ Coalesced'
  <1> USE HeapAssumption
  <1>1. /\ node \in DOMAIN block /\ Typed(block) /\ TiledBy(block) /\ Coalesced
        /\ size \in Nat /\ block[node].free
    BY DEF Take, Fits, IInv, TypeOK, Typed, Tiled
  <1>2. CASE Splits(node)
    <2> DEFINE n == node + HDR + size
               m == block[node].next
    <2>1. block' = SplitAt(node)
      BY <1>2 DEF Take
    <2>2. Typed(block') /\ TiledBy(block')
      BY <1>1, <1>2, <2>1, SplitTiled
    <2>3. Split(block, node, n, m, block')
      BY <1>1, <1>2, <2>1, SplitFields
    <2> HIDE DEF n, m
    <2>4. /\ DOMAIN block' = DOMAIN block \cup {n} /\ n \notin DOMAIN block
          /\ block'[n].free /\ block'[n].next = m
          /\ ~block'[node].free /\ block'[node].next = n
          /\ \A b \in DOMAIN block: b # node =>
               block'[b].free = block[b].free /\ block'[b].next = block[b].next
      BY <2>3 DEF Split
    <2>5. Used(block') = Used(block) \cup {node}
      BY <1>1, <2>4 DEF Used
    <2>6. Coalesced'
      <3> SUFFICES ASSUME NEW b \in DOMAIN block', block'[b].free, block'[b].next # NULL
                   PROVE  ~block'[block'[b].next].free
        BY DEF Coalesced
      <3>1. CASE b = n
        <4>1. m # NULL /\ m \in DOMAIN block /\ m # node /\ ~block[m].free
          BY <1>1, <2>4, <3>1, TiledFacts DEF m, Coalesced
        <4> QED
          BY <2>4, <3>1, <4>1
      <3>2. CASE b # n
        <4>1. b \in DOMAIN block /\ b # node /\ block[b].free
              /\ block'[b].next = block[b].next
          BY <2>4, <3>2
        <4>2. block[b].next \in DOMAIN block /\ ~block[block[b].next].free
          BY <1>1, <4>1, TiledFacts DEF Coalesced
        <4> QED
          BY <2>4, <4>1, <4>2
      <3> QED
        BY <3>1, <3>2
    <2> QED
      BY <1>1, <2>2, <2>5, <2>6
  <1>3. CASE ~Splits(node)
    <2>1. block' = [block EXCEPT ![node].free = FALSE]
      BY <1>3 DEF Take
    <2>2. Typed(block') /\ TiledBy(block') /\ Used(block') = Used(block) \cup {node}
      BY <1>1, <2>1, MarkUsed
    <2>3. Coalesced'
      <3>1. \A b \in DOMAIN block: b # node => block'[b] = block[b]
        BY <2>1
      <3>a. DOMAIN block' = DOMAIN block
        BY <2>1
      <3>b. node \in Used(block')
        BY <2>2
      <3>2. DOMAIN block' = DOMAIN block /\ ~block'[node].free
        BY <3>a, <3>b DEF Used
      <3> SUFFICES ASSUME NEW b \in DOMAIN block', block'[b].free, block'[b].next # NULL
                   PROVE  ~block'[block'[b].next].free
        BY DEF Coalesced
      <3>3. b \in DOMAIN block /\ b # node /\ block'[b] = block[b]
        BY <3>1, <3>2
      <3>4. block[b].next \in DOMAIN block /\ ~block[block[b].next].free
        BY <1>1, <3>3, TiledFacts DEF Coalesced
      <3> QED
        BY <3>1, <3>2, <3>3, <3>4
    <2> QED
      BY <1>1, <2>2, <2>3
  <1> QED
    BY <1>2, <1>3

(* LiveExact by the set of blocks in use. *)
LEMMA LiveUsed == LiveExact <=> DOMAIN live = {h + HDR: h \in Used(block)}
  BY DEF LiveExact, Used

(* Returning a block, split or whole, keeps it. *)
LEMMA TakeIInv == IInv /\ Take => IInv'
  <1> SUFFICES ASSUME IInv, Take PROVE IInv'
    OBVIOUS
  <1> USE HeapAssumption
  <1>1. /\ node \in DOMAIN block /\ block[node].free
        /\ Typed(block') /\ TiledBy(block')
        /\ Used(block') = Used(block) \cup {node}
        /\ Coalesced'
    BY TakeBlock
  <1>2. /\ pc' = "idle" /\ asked' = 0 /\ size' = 0 /\ node' = NULL
        /\ live' = [p \in DOMAIN live \cup {node + HDR} |->
                     IF p = node + HDR THEN asked ELSE live[p]]
    BY DEF Take, ReturnFromKmalloc
  <1>3. /\ node + HDR \in Nat /\ asked \in Nat
        /\ DOMAIN live \subseteq Nat /\ live \in [DOMAIN live -> Nat]
    BY <1>1 DEF IInv, TypeOK, Addr
  <1>4. DOMAIN live' = DOMAIN live \cup {node + HDR}
    BY <1>2
  <1>5. DOMAIN live' \subseteq Nat /\ live' \in [DOMAIN live' -> Nat]
    BY <1>2, <1>3
  <1>6. TypeOK'
    BY <1>1, <1>2, <1>5 DEF TypeOK, Typed
  <1>7. DOMAIN live = {h + HDR: h \in Used(block)}
    BY LiveUsed DEF IInv
  <1>8. DOMAIN live' = {h + HDR: h \in Used(block')}
    BY <1>1, <1>4, <1>7
  <1>9. LiveExact'
    BY <1>8 DEF LiveExact, Used
  <1>10. WalkOK'
    BY <1>2 DEF WalkOK
  <1> QED
    BY <1>1, <1>6, <1>9, <1>10 DEF IInv, Tiled

(* kfree of a pointer a caller holds keeps it, coalescing included. *)
LEMMA KfreeIInv ==
  ASSUME IInv, NEW p \in DOMAIN live, Kfree(p)
  PROVE  IInv'
  <1> USE HeapAssumption
  <1> DEFINE h == p - HDR
             f == [block EXCEPT ![h].free = TRUE]
             e == MergeNext(f, h)
  <1>1. DOMAIN live = {b + HDR: b \in Used(block)}
    BY LiveUsed DEF IInv
  <1>2. PICK b \in Used(block): p = b + HDR
    BY <1>1
  <1>3. b \in DOMAIN block /\ b \in Nat
    BY <1>2 DEF Used, IInv, TypeOK, Addr
  <1>4. h = b /\ h \in Used(block) /\ h \in DOMAIN block /\ p = h + HDR
    BY <1>2, <1>3
  <1>5. /\ Typed(block) /\ TiledBy(block) /\ Coalesced
    BY DEF IInv, TypeOK, Typed, Tiled
  <1>6. /\ block' = MergePrev(e, h)
        /\ live' = [q \in DOMAIN live \ {p} |-> live[q]]
        /\ UNCHANGED <<pc, asked, size, node>> /\ pc = "idle"
    BY DEF Kfree
  <1> HIDE DEF h
  <1>7. /\ Typed(f) /\ TiledBy(f) /\ h \in DOMAIN f /\ f[h].free
        /\ Used(f) = Used(block) \ {h} /\ CoalescedAround(f, h)
    BY <1>4, <1>5, MarkFree
  <1> HIDE DEF f
  <1>8. /\ Typed(e) /\ TiledBy(e) /\ h \in DOMAIN e /\ e[h].free
        /\ Used(e) = Used(f) /\ CoalescedUpTo(e, h)
    BY <1>7, MergeNextOK
  <1> HIDE DEF e
  <1>9. /\ Typed(block') /\ TiledBy(block') /\ Used(block') = Used(e)
        /\ \A g \in DOMAIN block':
             block'[g].free /\ block'[g].next # NULL => ~block'[block'[g].next].free
    BY <1>6, <1>8, MergePrevOK
  <1>10. DOMAIN live' = DOMAIN live \ {p}
    BY <1>6
  <1>11. \A x \in Used(block): x \in Nat
    BY DEF Used, IInv, TypeOK, Addr
  <1>12. Used(block') = Used(block) \ {h}
    BY <1>7, <1>8, <1>9
  <1>13. DOMAIN live' = {x + HDR: x \in Used(block')}
    BY <1>1, <1>4, <1>10, <1>11, <1>12
  <1>14. LiveExact'
    BY <1>13 DEF LiveExact, Used
  <1>15. node = NULL
    BY <1>6 DEF IInv, WalkOK
  <1>16. DOMAIN live' \subseteq Nat /\ live' \in [DOMAIN live' -> Nat]
    BY <1>6 DEF IInv, TypeOK
  <1>17. TypeOK'
    BY <1>6, <1>9, <1>15, <1>16 DEF IInv, TypeOK, Typed
  <1>18. WalkOK'
    BY <1>6, <1>15 DEF WalkOK
  <1> QED
    BY <1>9, <1>14, <1>17, <1>18 DEF IInv, Tiled, Coalesced

(* Every step of the heap keeps the inductive invariant. *)
LEMMA NextIInv == IInv /\ [Next]_vars => IInv'
  <1> SUFFICES ASSUME IInv, [Next]_vars PROVE IInv'
    OBVIOUS
  <1>1. CASE UNCHANGED vars
    BY <1>1 DEF vars, IInv, TypeOK, Tiled, Coalesced, LiveExact, WalkOK, Fits
  <1>2. CASE Next
    BY <1>2, KmallocIInv, SkipIInv, TakeIInv, FailIInv, KfreeIInv DEF Next
  <1> QED
    BY <1>1, <1>2

(* For every heap and every sequence of kmalloc and kfree the inductive invariant *)
(* holds: the header list of heap.c stays well formed and first fit stays exact.   *)
THEOREM Invariance == Spec => []IInv
  BY InitIInv, NextIInv, PTL DEF Spec

(* The values of heap.c's list and locals keep to their types. *)
THEOREM TypeCorrect == Spec => []TypeOK
  <1>1. IInv => TypeOK
    BY DEF IInv
  <1> QED
    BY <1>1, Invariance, PTL

(* The headers always tile the heap, with prev and next inverse to each other. *)
THEOREM AlwaysTiled == Spec => []Tiled
  <1>1. IInv => Tiled
    BY DEF IInv
  <1> QED
    BY <1>1, Invariance, PTL

(* kfree never leaves two free neighbours. *)
THEOREM AlwaysCoalesced == Spec => []Coalesced
  <1>1. IInv => Coalesced
    BY DEF IInv
  <1> QED
    BY <1>1, Invariance, PTL

(* Callers hold exactly the payloads of the blocks in use. *)
THEOREM CallersHoldBlocksInUse == Spec => []LiveExact
  <1>1. IInv => LiveExact
    BY DEF IInv
  <1> QED
    BY <1>1, Invariance, PTL

(* When everything is freed the heap is one block again, whatever the order of    *)
(* the frees.                                                                     *)
THEOREM FreeingAllRestores == Spec => []NothingLost
  <1>1. IInv => NothingLost
    <2> SUFFICES ASSUME IInv, DOMAIN live = {}
                 PROVE  DOMAIN block = {0} /\ block[0].size = HEAP_SIZE - HDR
      BY DEF NothingLost
    <2> USE HeapAssumption
    <2>1. Typed(block) /\ TiledBy(block) /\ Coalesced
      BY DEF IInv, TypeOK, Typed, Tiled
    <2>2. \A b \in DOMAIN block: block[b].free
      BY DEF IInv, LiveExact
    <2>3. 0 \in DOMAIN block
      BY <2>1 DEF TiledBy
    <2>4. block[0].next = NULL
      BY <2>1, <2>2, <2>3 DEF TiledBy, Coalesced
    <2>5. End(block, 0) = HEAP_SIZE /\ block[0].size \in Nat
      BY <2>1, <2>3, <2>4, TiledFacts DEF TiledBy
    <2>6. ASSUME NEW g \in DOMAIN block, g # 0
          PROVE  FALSE
      <3>1. g \in Nat /\ g < HEAP_SIZE
        BY <2>1 DEF Typed, Addr
      <3>2. End(block, 0) <= g
        BY <2>1, <2>3, <2>6, <3>1 DEF TiledBy
      <3> QED
        BY <2>5, <3>1, <3>2
    <2>7. DOMAIN block = {0}
      BY <2>3, <2>6
    <2>8. 0 + HDR + block[0].size = HEAP_SIZE
      BY <2>5 DEF End
    <2> QED
      BY <2>5, <2>7, <2>8
  <1> QED
    BY <1>1, Invariance, PTL

(* kmalloc returns NULL only when no free block is large enough. *)
THEOREM FirstFitExact == Spec => FailsOnlyIfFull
  <1>1. IInv /\ [Next]_vars =>
          [Fail => \A h \in DOMAIN block: ~(block[h].free /\ block[h].size >= size)]_vars
    <2> SUFFICES ASSUME IInv, Fail, NEW h \in DOMAIN block
                 PROVE  ~(block[h].free /\ block[h].size >= size)
      OBVIOUS
    <2> QED
      BY DEF IInv, WalkOK, Fits, Fail
  <1> QED
    BY <1>1, Invariance, PTL DEF Spec, FailsOnlyIfFull

----------------------------------------------------------------------------------
(* That a pointer has the room asked for rests on one more invariant: the size     *)
(* kmalloc walks with is no smaller than its argument.                             *)
RoomOK == RequestHonoured /\ (pc = "walk" => size >= asked)

(* What a caller holds is the payload of a block in use. *)
LEMMA HeldBlock ==
  ASSUME IInv, NEW p \in DOMAIN live
  PROVE  /\ p - HDR \in Used(block) /\ p - HDR \in DOMAIN block
         /\ p - HDR \in Nat /\ p \in Nat
  <1>1. PICK b \in Used(block): p = b + HDR
    BY LiveUsed DEF IInv
  <1>2. b \in DOMAIN block /\ b \in Nat
    BY <1>1 DEF Used, IInv, TypeOK, Addr
  <1> QED
    BY <1>1, <1>2, HeapAssumption

(* A block kmalloc returns has room for the request, and the others keep theirs. *)
LEMMA TakeRoom ==
  ASSUME IInv, RoomOK, Take
  PROVE  RoomOK'
  <1> USE HeapAssumption
  <1>1. /\ node \in DOMAIN block /\ block[node].free /\ Typed(block) /\ TiledBy(block)
        /\ size \in Nat /\ asked \in Nat /\ node \in Nat /\ block[node].size \in Nat
    BY TakeBlock, TiledFacts DEF IInv, TypeOK, Typed, Tiled
  <1>2. size >= asked /\ block[node].size >= size /\ pc' = "idle"
    BY DEF RoomOK, Take, Fits, ReturnFromKmalloc
  <1>3. /\ block'[node].size \in Nat /\ block'[node].size >= size
        /\ \A b \in DOMAIN block: b # node => block'[b].size = block[b].size
    <2>1. CASE Splits(node)
      <3>1. block' = SplitAt(node)
        BY <2>1 DEF Take
      <3>2. Split(block, node, node + HDR + size, block[node].next, block')
        BY <1>1, <2>1, <3>1, SplitFields
      <3> QED
        BY <1>1, <3>2 DEF Split
    <2>2. CASE ~Splits(node)
      <3>1. block' = [block EXCEPT ![node].free = FALSE]
        BY <2>2 DEF Take
      <3>2. block[node] \in Header
        BY <1>1 DEF Typed
      <3>3. block'[node] = [block[node] EXCEPT !.free = FALSE]
        BY <1>1, <3>1
      <3>4. block'[node].size = block[node].size
        BY <3>2, <3>3 DEF Header
      <3> QED
        BY <1>1, <1>2, <3>1, <3>4
    <2> QED
      BY <2>1, <2>2
  <1>4. live' = [p \in DOMAIN live \cup {node + HDR} |->
                  IF p = node + HDR THEN asked ELSE live[p]]
    BY DEF Take
  <1>5. ASSUME NEW p \in DOMAIN live'
        PROVE  block'[p - HDR].size >= live'[p]
    <2>1. CASE p = node + HDR
      <3>1. p - HDR = node /\ live'[p] = asked
        BY <1>1, <1>4, <2>1
      <3> QED
        BY <1>1, <1>2, <1>3, <3>1
    <2>2. CASE p # node + HDR
      <3>1. p \in DOMAIN live /\ live'[p] = live[p]
        BY <1>4, <2>2
      <3>2. p - HDR \in DOMAIN block /\ p - HDR # node
        BY <1>1, <2>2, <3>1, HeldBlock
      <3>3. block[p - HDR].size >= live[p]
        BY <3>1 DEF RoomOK, RequestHonoured
      <3> QED
        BY <1>3, <3>1, <3>2, <3>3
    <2> QED
      BY <2>1, <2>2
  <1> QED
    BY <1>2, <1>5 DEF RoomOK, RequestHonoured

(* kfree leaves the size of every other block in use alone. *)
LEMMA KfreeRoom ==
  ASSUME IInv, RoomOK, NEW p \in DOMAIN live, Kfree(p)
  PROVE  RoomOK'
  <1> USE HeapAssumption
  <1> DEFINE h == p - HDR
             f == [block EXCEPT ![h].free = TRUE]
             e == MergeNext(f, h)
  <1>1. h \in Used(block) /\ h \in DOMAIN block /\ h \in Nat /\ p \in Nat
    BY HeldBlock
  <1>2. Typed(block) /\ TiledBy(block) /\ Coalesced
    BY DEF IInv, TypeOK, Typed, Tiled
  <1>3. /\ block' = MergePrev(e, h) /\ pc' = pc /\ pc = "idle"
        /\ live' = [q \in DOMAIN live \ {p} |-> live[q]]
    BY DEF Kfree
  <1>a. \A q \in DOMAIN live: q # p => q - HDR # h
    BY <1>1, HeldBlock
  <1> HIDE DEF h
  <1>4. /\ Typed(f) /\ TiledBy(f) /\ h \in DOMAIN f /\ f[h].free
        /\ Used(f) = Used(block) \ {h} /\ CoalescedAround(f, h)
    BY <1>1, <1>2, MarkFree
  <1>5. \A b \in DOMAIN block: b # h => f[b].size = block[b].size
    OBVIOUS
  <1> HIDE DEF f
  <1>6. /\ Typed(e) /\ TiledBy(e) /\ h \in DOMAIN e /\ e[h].free
        /\ Used(e) = Used(f)
    BY <1>4, MergeNextOK
  <1>7. \A b \in DOMAIN e: b # h => e[b].size = f[b].size
    <2>1. CASE f[h].next # NULL /\ f[f[h].next].free
      <3>1. Absorbed(f, h, f[h].next, Absorb(f, h))
        BY <1>4, <2>1, AbsorbFields
      <3>2. e = Absorb(f, h)
        BY <2>1 DEF MergeNext
      <3> QED
        BY <3>1, <3>2 DEF Absorbed
    <2>2. CASE ~(f[h].next # NULL /\ f[f[h].next].free)
      BY <2>2 DEF MergeNext
    <2> QED
      BY <2>1, <2>2
  <1>8. \A b \in Used(block): b # h => b \in Used(e) /\ e[b].size = block[b].size
    <2>1. \A b \in Used(block): b # h => b \in Used(e)
      BY <1>4, <1>6
    <2> QED
      BY <1>5, <1>7, <2>1 DEF Used
  <1> HIDE DEF e
  <1>9. \A b \in Used(e): block'[b].size = e[b].size
    <2>1. CASE e[h].prev # NULL /\ e[e[h].prev].free
      <3>1. e[h].prev \in DOMAIN e /\ e[e[h].prev].next = h /\ h # NULL
        BY <1>1, <1>6, <2>1 DEF TiledBy
      <3>2. Absorbed(e, e[h].prev, h, Absorb(e, e[h].prev))
        BY <1>6, <3>1, AbsorbFields
      <3>3. block' = Absorb(e, e[h].prev)
        BY <1>3, <2>1 DEF MergePrev
      <3>4. \A b \in Used(e): b \in DOMAIN e /\ b # h /\ b # e[h].prev
        BY <1>6, <2>1 DEF Used
      <3> QED
        BY <3>2, <3>3, <3>4 DEF Absorbed
    <2>2. CASE ~(e[h].prev # NULL /\ e[e[h].prev].free)
      BY <1>3, <2>2 DEF MergePrev
    <2> QED
      BY <2>1, <2>2
  <1>10. ASSUME NEW q \in DOMAIN live'
         PROVE  block'[q - HDR].size >= live'[q]
    <2>1. q \in DOMAIN live /\ q # p /\ live'[q] = live[q]
      BY <1>3
    <2>2. q - HDR \in Used(block) /\ q - HDR # h
      BY <1>a, <2>1, HeldBlock
    <2>3. block[q - HDR].size >= live[q]
      BY <2>1 DEF RoomOK, RequestHonoured
    <2> QED
      BY <1>8, <1>9, <2>1, <2>2, <2>3
  <1> QED
    BY <1>3, <1>10 DEF RoomOK, RequestHonoured

(* Where align_up does not wrap (no request within an alignment of 2^64), every    *)
(* pointer kmalloc returns has room for what was asked.                            *)
THEOREM EveryRequestHonoured ==
  ASSUME \A n \in Requests: n <= WORD - MIN_SPLIT_SIZE
  PROVE  Spec => []RequestHonoured
  <1> USE HeapAssumption
  <1>1. Init => RoomOK
    BY DEF Init, RoomOK, RequestHonoured
  <1>2. IInv /\ RoomOK /\ [Next]_vars => RoomOK'
    <2> SUFFICES ASSUME IInv, RoomOK, [Next]_vars PROVE RoomOK'
      OBVIOUS
    <2>1. CASE UNCHANGED vars
      BY <2>1 DEF vars, RoomOK, RequestHonoured
    <2>2. ASSUME NEW n \in Requests, Kmalloc(n)
          PROVE  RoomOK'
      <3>1. n \in Nat /\ n <= WORD - MIN_SPLIT_SIZE
        OBVIOUS
      <3>2. size' >= asked'
        BY <2>2, <3>1, AlignUpRounds DEF Kmalloc
      <3> QED
        BY <2>2, <3>2 DEF Kmalloc, RoomOK, RequestHonoured
    <2>3. CASE Skip
      BY <2>3 DEF Skip, RoomOK, RequestHonoured
    <2>4. CASE Fail
      BY <2>4 DEF Fail, ReturnFromKmalloc, RoomOK, RequestHonoured
    <2> QED
      BY <2>1, <2>2, <2>3, <2>4, TakeRoom, KfreeRoom DEF Next
  <1>3. RoomOK => RequestHonoured
    BY DEF RoomOK
  <1> QED
    BY <1>1, <1>2, <1>3, Invariance, PTL DEF Spec
================================================================================
