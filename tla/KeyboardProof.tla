------------------------------- MODULE KeyboardProof -------------------------------
(* Proofs about Keyboard for every buffer size, every set of keys and a wire of any *)
(* length: the ring is a bounded FIFO, a character is dropped only when the ring is *)
(* full, and it is shifted as the user typed it.                                    *)
EXTENDS Keyboard, SequenceTheorems, TLAPS

----------------------------------------------------------------------------------
(* Ring arithmetic *)

Slot == 0..(BUFFER_SIZE - 1)

(* One turn of the ring either way. *)
LEMMA Wrap ==
  ASSUME NEW a \in Int, 0 - BUFFER_SIZE <= a, a < 2 * BUFFER_SIZE
  PROVE  a % BUFFER_SIZE = IF a < 0 THEN a + BUFFER_SIZE
                           ELSE IF a < BUFFER_SIZE THEN a ELSE a - BUFFER_SIZE
  <1> USE KeyboardAssumption
  <1>1. CASE a < 0
    BY <1>1
  <1>2. CASE a >= 0 /\ a < BUFFER_SIZE
    BY <1>2
  <1>3. CASE a >= BUFFER_SIZE
    BY <1>3
  <1> QED
    BY <1>1, <1>2, <1>3

(* How many characters wait between tail and head, and where the i-th one is. *)
Waiting(head, tail) == IF head >= tail THEN head - tail ELSE head - tail + BUFFER_SIZE

Place(tail, i) == IF tail + i - 1 < BUFFER_SIZE THEN tail + i - 1 ELSE tail + i - 1 - BUFFER_SIZE

After(s) == IF s = BUFFER_SIZE - 1 THEN 0 ELSE s + 1

Before(s) == IF s = 0 THEN BUFFER_SIZE - 1 ELSE s - 1

(* Arithmetic of the ring's indices modulo its capacity. *)
LEMMA RingIndex ==
  ASSUME NEW h \in Slot, NEW t \in Slot
  PROVE  /\ (h - t) % BUFFER_SIZE = Waiting(h, t)
         /\ Waiting(h, t) \in Slot
         /\ (h + 1) % BUFFER_SIZE = After(h)
         /\ After(h) \in Slot
         /\ (h - 1) % BUFFER_SIZE = Before(h)
         /\ Before(h) \in Slot
         /\ \A i \in 1..BUFFER_SIZE: /\ (t + i - 1) % BUFFER_SIZE = Place(t, i)
                                     /\ Place(t, i) \in Slot
  <1> USE KeyboardAssumption DEF Slot
  <1>1. (h - t) % BUFFER_SIZE = Waiting(h, t) /\ Waiting(h, t) \in Slot
    BY Wrap DEF Waiting
  <1>2. (h + 1) % BUFFER_SIZE = After(h) /\ After(h) \in Slot
    BY Wrap DEF After
  <1>3. (h - 1) % BUFFER_SIZE = Before(h) /\ Before(h) \in Slot
    BY Wrap DEF Before
  <1>4. ASSUME NEW i \in 1..BUFFER_SIZE
        PROVE  (t + i - 1) % BUFFER_SIZE = Place(t, i) /\ Place(t, i) \in Slot
    BY Wrap DEF Place
  <1> QED
    BY <1>1, <1>2, <1>3, <1>4

(* A function on 1..n is a sequence of length n. *)
LEMMA FunctionIsSeq ==
  ASSUME NEW n \in Nat, NEW S, NEW f \in [1..n -> S]
  PROVE  f \in Seq(S) /\ Len(f) = n
  <1>1. f \in Seq(S)
    BY SeqDef
  <1>2. DOMAIN f = 1..Len(f) /\ Len(f) \in Nat
    BY <1>1, LenProperties
  <1>3. 1..n = 1..Len(f)
    BY <1>2
  <1>4. n <= Len(f)
    <2>1. CASE n = 0
      BY <1>2, <2>1
    <2>2. CASE n > 0
      BY <1>2, <1>3, <2>2
    <2> QED
      BY <2>1, <2>2
  <1>5. Len(f) <= n
    <2>1. CASE Len(f) = 0
      BY <2>1
    <2>2. CASE Len(f) > 0
      BY <1>2, <1>3, <2>2
    <2> QED
      BY <1>2, <2>1, <2>2
  <1> QED
    BY <1>1, <1>2, <1>4, <1>5

----------------------------------------------------------------------------------
(* The inductive invariant *)

(* What a slot of the buffer may hold. *)
Cell == Char \cup {NUL}

Ring == [Slot -> Cell]

Scan == [code: Code \cup {"E0"}, released: BOOLEAN, shift: {"up", "unclear", "down"}]

TypeOK ==
  /\ down \subseteq Key
  /\ overlap \in BOOLEAN
  /\ wire \in Seq(Scan)
  /\ shift_held \in BOOLEAN
  /\ buffer \in Ring
  /\ buffer_head \in Slot
  /\ buffer_tail \in Slot
  /\ pc \in {"call", "load", "advance", "late_load"}

(* What the reader found before it was interrupted still holds: the buffer is not   *)
(* empty, and the character loaded is the oldest one.                               *)
ReaderOK ==
  /\ pc \in {"load", "advance"} => buffer_tail # buffer_head
  /\ pc = "advance" => c = buffer[buffer_tail]

RingInv == TypeOK /\ ReaderOK

----------------------------------------------------------------------------------
(* The ring as a queue *)

Contents(b, h, t) == [i \in 1..Waiting(h, t) |-> b[Place(t, i)]]

(* The characters between tail and head form a sequence. *)
LEMMA ContentsSeq ==
  ASSUME NEW b \in Ring, NEW h \in Slot, NEW t \in Slot
  PROVE  /\ Waiting(h, t) \in Nat /\ Waiting(h, t) <= BUFFER_SIZE - 1
         /\ Contents(b, h, t) \in Seq(Cell)
         /\ Len(Contents(b, h, t)) = Waiting(h, t)
         /\ \A i \in 1..Waiting(h, t): Contents(b, h, t)[i] = b[Place(t, i)]
  <1>1. Waiting(h, t) \in Slot
    BY RingIndex
  <1>2. Waiting(h, t) \in Nat /\ Waiting(h, t) <= BUFFER_SIZE - 1
    BY <1>1, KeyboardAssumption DEF Slot
  <1>3. \A i \in 1..Waiting(h, t): Place(t, i) \in Slot
    BY <1>2, RingIndex, KeyboardAssumption
  <1>4. Contents(b, h, t) \in [1..Waiting(h, t) -> Cell]
    BY <1>3 DEF Contents, Ring
  <1>5. Contents(b, h, t) \in Seq(Cell) /\ Len(Contents(b, h, t)) = Waiting(h, t)
    BY <1>2, <1>4, FunctionIsSeq
  <1> QED
    BY <1>2, <1>5 DEF Contents

(* What Unread is in a typed state. *)
LEMMA UnreadContents ==
  TypeOK => Unread = Contents(buffer, buffer_head, buffer_tail)
  <1> SUFFICES ASSUME TypeOK PROVE Unread = Contents(buffer, buffer_head, buffer_tail)
    OBVIOUS
  <1>1. buffer_head \in Slot /\ buffer_tail \in Slot
    BY DEF TypeOK
  <1>2. /\ (buffer_head - buffer_tail) % BUFFER_SIZE = Waiting(buffer_head, buffer_tail)
        /\ Waiting(buffer_head, buffer_tail) \in Slot
    BY <1>1, RingIndex
  <1>3. \A i \in 1..Waiting(buffer_head, buffer_tail):
          (buffer_tail + i - 1) % BUFFER_SIZE = Place(buffer_tail, i)
    BY <1>1, <1>2, RingIndex, KeyboardAssumption DEF Slot
  <1> QED
    BY <1>2, <1>3 DEF Unread, Contents

(* Storing at head and moving it on appends, unless the ring is full. *)
LEMMA PushContents ==
  ASSUME NEW b \in Ring, NEW h \in Slot, NEW t \in Slot, NEW x \in Cell,
         NEW d \in Ring, d[h] = x, \A s \in Slot \ {h}: d[s] = b[s],
         After(h) # t
  PROVE  /\ Contents(d, After(h), t) = Append(Contents(b, h, t), x)
         /\ Len(Contents(b, h, t)) < BUFFER_SIZE - 1
  <1> DEFINE w == Waiting(h, t)
  <1>1. After(h) \in Slot
    BY RingIndex
  <1>2. w \in Nat /\ w < BUFFER_SIZE - 1 /\ Waiting(After(h), t) = w + 1
    BY KeyboardAssumption DEF Waiting, After, Slot
  <1>3. Place(t, w + 1) = h
    BY KeyboardAssumption DEF Waiting, Place, Slot
  <1>4. \A i \in 1..w: Place(t, i) # h /\ Place(t, i) \in Slot
    BY KeyboardAssumption DEF Waiting, Place, Slot
  <1> HIDE DEF w
  <1>5. /\ Contents(b, h, t) \in Seq(Cell) /\ Len(Contents(b, h, t)) = w
        /\ \A i \in 1..w: Contents(b, h, t)[i] = b[Place(t, i)]
    BY ContentsSeq DEF w
  <1>6. /\ Contents(d, After(h), t) \in Seq(Cell) /\ Len(Contents(d, After(h), t)) = w + 1
        /\ \A i \in 1..(w + 1): Contents(d, After(h), t)[i] = d[Place(t, i)]
    <2>1. /\ Contents(d, After(h), t) \in Seq(Cell)
          /\ Len(Contents(d, After(h), t)) = Waiting(After(h), t)
          /\ \A i \in 1..Waiting(After(h), t): Contents(d, After(h), t)[i] = d[Place(t, i)]
      BY <1>1, ContentsSeq
    <2> QED
      BY <1>2, <2>1
  <1>7. /\ Append(Contents(b, h, t), x) \in Seq(Cell)
        /\ Len(Append(Contents(b, h, t), x)) = w + 1
        /\ \A i \in 1..w: Append(Contents(b, h, t), x)[i] = b[Place(t, i)]
        /\ Append(Contents(b, h, t), x)[w + 1] = x
    BY <1>5, AppendProperties
  <1>8. ASSUME NEW i \in 1..(w + 1)
        PROVE  Contents(d, After(h), t)[i] = Append(Contents(b, h, t), x)[i]
    <2>1. CASE i = w + 1
      <3>1. d[h] = x
        OBVIOUS
      <3> QED
        BY <1>2, <1>3, <1>6, <1>7, <2>1, <3>1
    <2>2. CASE i \in 1..w
      <3>1. d[Place(t, i)] = b[Place(t, i)]
        BY <1>4, <2>2
      <3> QED
        BY <1>2, <1>6, <1>7, <2>2, <3>1
    <2>3. i = w + 1 \/ i \in 1..w
      BY <1>2
    <2> QED
      BY <2>1, <2>2, <2>3
  <1>9. Contents(d, After(h), t) = Append(Contents(b, h, t), x)
    BY <1>2, <1>6, <1>7, <1>8, SeqEqual
  <1> QED
    BY <1>2, <1>5, <1>9

(* Moving tail on takes the oldest character out. *)
LEMMA TakeContents ==
  ASSUME NEW b \in Ring, NEW h \in Slot, NEW t \in Slot, h # t
  PROVE  /\ Contents(b, h, t) # << >>
         /\ Head(Contents(b, h, t)) = b[t]
         /\ Contents(b, h, After(t)) = Tail(Contents(b, h, t))
  <1> DEFINE w == Waiting(h, t)
  <1>1. After(t) \in Slot
    BY RingIndex
  <1>2. w \in Nat \ {0} /\ Waiting(h, After(t)) = w - 1
    BY KeyboardAssumption DEF Waiting, After, Slot
  <1>3. Place(t, 1) = t
    BY KeyboardAssumption DEF Place, Slot
  <1>4. \A i \in 1..(w - 1): Place(After(t), i) = Place(t, i + 1)
    BY KeyboardAssumption DEF Waiting, Place, After, Slot
  <1> HIDE DEF w
  <1>5. /\ Contents(b, h, t) \in Seq(Cell) /\ Len(Contents(b, h, t)) = w
        /\ \A i \in 1..w: Contents(b, h, t)[i] = b[Place(t, i)]
    BY ContentsSeq DEF w
  <1>6. /\ Contents(b, h, After(t)) \in Seq(Cell) /\ Len(Contents(b, h, After(t))) = w - 1
        /\ \A i \in 1..(w - 1): Contents(b, h, After(t))[i] = b[Place(After(t), i)]
    <2>1. /\ Contents(b, h, After(t)) \in Seq(Cell)
          /\ Len(Contents(b, h, After(t))) = Waiting(h, After(t))
          /\ \A i \in 1..Waiting(h, After(t)):
               Contents(b, h, After(t))[i] = b[Place(After(t), i)]
      BY <1>1, ContentsSeq
    <2> QED
      BY <1>2, <2>1
  <1>7. Contents(b, h, t) # << >>
    BY <1>2, <1>5, EmptySeq
  <1>8. Head(Contents(b, h, t)) = b[t]
    BY <1>2, <1>3, <1>5
  <1>9. /\ Tail(Contents(b, h, t)) \in Seq(Cell) /\ Len(Tail(Contents(b, h, t))) = w - 1
        /\ \A i \in 1..(w - 1): Tail(Contents(b, h, t))[i] = Contents(b, h, t)[i + 1]
    BY <1>5, <1>7, HeadTailProperties
  <1>10. ASSUME NEW i \in 1..(w - 1)
         PROVE  Contents(b, h, After(t))[i] = Tail(Contents(b, h, t))[i]
    <2>1. i + 1 \in 1..w
      BY <1>2
    <2> QED
      BY <1>4, <1>5, <1>6, <1>9, <2>1
  <1> QED
    BY <1>6, <1>7, <1>8, <1>9, <1>10, SeqEqual

----------------------------------------------------------------------------------
(* The steps *)

(* A key's bytes go to the end of the wire, its code last. *)
LEMMA SendWire ==
  ASSUME TypeOK, NEW k \in Key, NEW r \in BOOLEAN, Send(k, r)
  PROVE  /\ wire' \in Seq(Scan) /\ Len(wire') > Len(wire)
         /\ wire'[Len(wire')] = [code |-> k.code, released |-> r, shift |-> ShiftState]
         /\ k.code \in Code
         /\ \A i \in 1..Len(wire): wire'[i] = wire[i]
         /\ \A i \in (Len(wire) + 1)..(Len(wire') - 1):
              wire'[i] = [code |-> "E0", released |-> TRUE, shift |-> ShiftState]
  <1> DEFINE e == [code |-> "E0", released |-> TRUE, shift |-> ShiftState]
             b == [code |-> k.code, released |-> r, shift |-> ShiftState]
             p == IF k.extended THEN <<e>> ELSE << >>
  <1>1. k.code \in Code
    BY KeyboardAssumption
  <1>2. e \in Scan /\ b \in Scan
    BY <1>1 DEF Scan, ShiftState
  <1>3. wire \in Seq(Scan) /\ Len(wire) \in Nat
    BY DEF TypeOK
  <1>4. wire' = wire \o p \o <<b>>
    BY DEF Send
  <1>5. p \in Seq(Scan) /\ <<b>> \in Seq(Scan) /\ Len(<<b>>) = 1 /\ <<b>>[1] = b
    <2> HIDE DEF e, b
    <2> QED
      BY <1>2
  <1>6. Len(p) \in Nat /\ \A i \in 1..Len(p): p[i] = e
    <2> HIDE DEF e
    <2> QED
      OBVIOUS
  <1> HIDE DEF p, b
  <1>7. /\ wire \o p \in Seq(Scan) /\ Len(wire \o p) = Len(wire) + Len(p)
        /\ \A i \in 1..(Len(wire) + Len(p)):
             (wire \o p)[i] = IF i <= Len(wire) THEN wire[i] ELSE p[i - Len(wire)]
    BY <1>3, <1>5, ConcatProperties
  <1>8. /\ wire' \in Seq(Scan) /\ Len(wire') = Len(wire) + Len(p) + 1
        /\ \A i \in 1..(Len(wire) + Len(p) + 1):
             wire'[i] = IF i <= Len(wire) + Len(p) THEN (wire \o p)[i]
                        ELSE <<b>>[i - (Len(wire) + Len(p))]
    BY <1>4, <1>5, <1>7, ConcatProperties
  <1>9. wire'[Len(wire')] = b
    <2> HIDE DEF e
    <2>1. Len(wire') \in 1..(Len(wire) + Len(p) + 1) /\ ~(Len(wire') <= Len(wire) + Len(p))
            /\ Len(wire') - (Len(wire) + Len(p)) = 1
      BY <1>3, <1>6, <1>8
    <2> QED
      BY <1>5, <1>8, <2>1
  <1>10. \A i \in 1..Len(wire): wire'[i] = wire[i]
    BY <1>3, <1>6, <1>7, <1>8
  <1>11. ASSUME NEW i \in (Len(wire) + 1)..(Len(wire') - 1) PROVE wire'[i] = e
    <2>1. wire'[i] = p[i - Len(wire)] /\ i - Len(wire) \in 1..Len(p)
      BY <1>3, <1>6, <1>7, <1>8
    <2> QED
      BY <1>6, <2>1
  <1>12. Len(wire') > Len(wire)
    <2> HIDE DEF e
    <2> QED
      BY <1>3, <1>6, <1>8
  <1>13. \A i \in (Len(wire) + 1)..(Len(wire') - 1): wire'[i] = e
    BY <1>11
  <1>14. b = [code |-> k.code, released |-> r, shift |-> ShiftState]
    BY DEF b
  <1> QED
    BY <1>1, <1>8, <1>9, <1>10, <1>12, <1>13, <1>14

(* The byte the handler reads. *)
LEMMA HeadScan ==
  ASSUME TypeOK, wire # << >>
  PROVE  /\ Head(wire) = wire[1] /\ Head(wire) \in Scan
         /\ Len(wire) \in Nat \ {0} /\ wire[1].released \in BOOLEAN
         /\ Tail(wire) \in Seq(Scan) /\ Len(Tail(wire)) = Len(wire) - 1
         /\ \A i \in 1..(Len(wire) - 1): Tail(wire)[i] = wire[i + 1]
  <1>1. wire \in Seq(Scan)
    BY DEF TypeOK
  <1>2. Len(wire) \in Nat \ {0}
    BY <1>1, EmptySeq
  <1>3. Head(wire) = wire[1] /\ Head(wire) \in Scan
    BY <1>1, <1>2
  <1>4. wire[1].released \in BOOLEAN
    BY <1>3 DEF Scan
  <1> QED
    BY <1>1, <1>2, <1>3, <1>4, HeadTailProperties

(* What keyboard_isr does to the ring: a character goes in, unless it is full. *)
LEMMA IsrRing ==
  ASSUME TypeOK, KeyboardIsr
  PROVE  /\ shift_held' \in BOOLEAN
         /\ \/ UNCHANGED <<buffer, buffer_head>>
            \/ /\ Types(Head(wire))
               /\ <<Head(wire).code, shift_held>> \in Char
               /\ After(buffer_head) # buffer_tail
               /\ buffer_head' = After(buffer_head)
               /\ buffer' = [buffer EXCEPT ![buffer_head] = <<Head(wire).code, shift_held>>]
         /\ UNCHANGED <<buffer, buffer_head>> /\ Types(Head(wire))
              => After(buffer_head) = buffer_tail
  <1>1. /\ wire # << >>
        /\ shift_held' = ShiftAfter(Head(wire))
        /\ IF Types(Head(wire)) THEN BufferPush(<<Head(wire).code, shift_held>>)
           ELSE UNCHANGED <<buffer, buffer_head>>
    BY DEF KeyboardIsr
  <1>2. shift_held' \in BOOLEAN
    BY <1>1, HeadScan DEF ShiftAfter, TypeOK
  <1>3. buffer_head \in Slot /\ After(buffer_head) \in Slot
          /\ (buffer_head + 1) % BUFFER_SIZE = After(buffer_head)
    BY RingIndex DEF TypeOK
  <1>4. After(buffer_head) # buffer_head
    BY <1>3, KeyboardAssumption DEF After, Slot
  <1>5. CASE ~Types(Head(wire))
    BY <1>1, <1>2, <1>5
  <1>6. CASE Types(Head(wire))
    <2>1. <<Head(wire).code, shift_held>> \in Char
      BY <1>6 DEF Types, Char, TypeOK
    <2>2. IF After(buffer_head) = buffer_tail THEN UNCHANGED <<buffer, buffer_head>>
          ELSE /\ buffer' = [buffer EXCEPT ![buffer_head] = <<Head(wire).code, shift_held>>]
               /\ buffer_head' = After(buffer_head)
      BY <1>1, <1>3, <1>6 DEF BufferPush, Full
    <2> QED
      BY <1>2, <1>4, <1>6, <2>1, <2>2
  <1> QED
    BY <1>5, <1>6

(* The empty ring satisfies the invariant. *)
LEMMA InitRing == Init => RingInv
  <1> SUFFICES ASSUME Init PROVE RingInv
    OBVIOUS
  <1>1. buffer \in Ring /\ 0 \in Slot
    BY KeyboardAssumption DEF Init, Ring, Cell, Slot
  <1>2. wire \in Seq(Scan)
    BY EmptySeq DEF Init
  <1> QED
    BY <1>1, <1>2 DEF Init, RingInv, TypeOK, ReaderOK

(* Neither the handler between two steps of the reader nor the reader itself breaks *)
(* what the reader relies on.                                                       *)
LEMMA NextRing == RingInv /\ [Next]_vars => RingInv'
  <1> SUFFICES ASSUME RingInv, [Next]_vars PROVE RingInv'
    OBVIOUS
  <1>0. TypeOK /\ ReaderOK
    BY DEF RingInv
  <1>t. buffer \in Ring /\ buffer_head \in Slot /\ buffer_tail \in Slot
    BY <1>0 DEF TypeOK
  <1>1. ASSUME NEW k \in Key, Press(k) \/ LetGo(k) PROVE RingInv'
    <2>1. wire' \in Seq(Scan)
      BY <1>0, <1>1, SendWire DEF Press, LetGo
    <2>2. down' \subseteq Key /\ overlap' \in BOOLEAN
      BY <1>0, <1>1 DEF Press, LetGo, Hold, TypeOK
    <2>3. UNCHANGED <<isr, buffer_tail, pc, c, got>>
      BY <1>1 DEF Press, LetGo, Send
    <2> QED
      BY <1>0, <2>1, <2>2, <2>3 DEF RingInv, TypeOK, ReaderOK, isr
  <1>2. CASE KeyboardIsr
    <2>0. UNCHANGED <<down, overlap, buffer_tail, pc, c, got>>
      BY <1>2 DEF KeyboardIsr, keys
    <2>1. wire' \in Seq(Scan)
      BY <1>0, <1>2, HeadScan DEF KeyboardIsr
    <2>2. CASE UNCHANGED <<buffer, buffer_head>>
      BY <1>0, <1>2, <2>0, <2>1, <2>2, IsrRing DEF RingInv, TypeOK, ReaderOK
    <2>3. CASE ~UNCHANGED <<buffer, buffer_head>>
      <3>1. /\ shift_held' \in BOOLEAN
            /\ <<Head(wire).code, shift_held>> \in Char
            /\ After(buffer_head) # buffer_tail
            /\ buffer_head' = After(buffer_head)
            /\ buffer' = [buffer EXCEPT ![buffer_head] = <<Head(wire).code, shift_held>>]
        BY <1>0, <1>2, <2>3, IsrRing
      <3>2. buffer' \in Ring
        BY <1>t, <3>1 DEF Ring, Cell
      <3>3. buffer_head' \in Slot
        BY <1>t, <3>1, RingIndex
      <3>4. TypeOK'
        BY <1>0, <2>0, <2>1, <3>1, <3>2, <3>3 DEF TypeOK
      <3>5. buffer_tail # buffer_head => buffer'[buffer_tail] = buffer[buffer_tail]
        BY <1>t, <3>1 DEF Ring
      <3> QED
        BY <1>0, <2>0, <3>1, <3>4, <3>5 DEF RingInv, ReaderOK
    <2> QED
      BY <2>2, <2>3
  <1>3. CASE CheckEmpty
    BY <1>0, <1>3 DEF CheckEmpty, RingInv, TypeOK, ReaderOK, isr, keys
  <1>4. CASE Load
    BY <1>0, <1>4 DEF Load, RingInv, TypeOK, ReaderOK, isr, keys
  <1>5. ASSUME Advance \/ AdvanceFirst PROVE RingInv'
    <2>1. buffer_tail' \in Slot
      BY <1>5, <1>t, RingIndex DEF Advance, AdvanceFirst
    <2> QED
      BY <1>0, <1>5, <2>1 DEF Advance, AdvanceFirst, RingInv, TypeOK, ReaderOK, isr, keys
  <1>6. CASE LateLoad
    BY <1>0, <1>6 DEF LateLoad, RingInv, TypeOK, ReaderOK, isr, keys
  <1>7. CASE UNCHANGED vars
    BY <1>0, <1>7 DEF vars, RingInv, TypeOK, ReaderOK, isr, keys
  <1> QED
    BY <1>1, <1>2, <1>3, <1>4, <1>5, <1>6, <1>7 DEF Next, KeyboardReadChar

(* The types hold and what the reader found stays true under interrupts. *)
THEOREM RingInvariance == Spec => []RingInv
  <1> QED
    BY InitRing, NextRing, PTL DEF Spec

----------------------------------------------------------------------------------
(* The refinement *)

(* What the abstract queue has given out last. *)
Out == IF pc = "late_load" THEN buffer[Behind] ELSE got

(* Every step of the driver puts one character, takes one, or is invisible. *)
LEMMA StepRefines == RingInv /\ RingInv' /\ [Next]_vars => [Fifo!Next]_<<Unread, Out>>
  <1> SUFFICES ASSUME RingInv, RingInv', [Next]_vars
               PROVE  Fifo!Next \/ UNCHANGED <<Unread, Out>>
    OBVIOUS
  <1>0. TypeOK /\ ReaderOK /\ TypeOK'
    BY DEF RingInv
  <1>t. /\ buffer \in Ring /\ buffer_head \in Slot /\ buffer_tail \in Slot
        /\ buffer' \in Ring /\ buffer_head' \in Slot /\ buffer_tail' \in Slot
    BY <1>0 DEF TypeOK
  <1>u. /\ Unread = Contents(buffer, buffer_head, buffer_tail)
        /\ Unread' = Contents(buffer', buffer_head', buffer_tail')
    <2>1. Unread = Contents(buffer, buffer_head, buffer_tail)
      BY <1>0, UnreadContents
    <2>2. (TypeOK => Unread = Contents(buffer, buffer_head, buffer_tail))'
      BY UnreadContents, PTL
    <2> QED
      BY <1>0, <2>1, <2>2 DEF Contents, Waiting, Place
  <1>b. Behind = Before(buffer_tail) /\ Behind' = Before(buffer_tail')
    BY <1>t, RingIndex DEF Behind
  <1>1. ASSUME UNCHANGED <<buffer, buffer_head, buffer_tail, pc, got>>
        PROVE  UNCHANGED <<Unread, Out>>
    BY <1>1 DEF Unread, Out, Behind
  <1>2. ASSUME NEW k \in Key, Press(k) \/ LetGo(k)
        PROVE  UNCHANGED <<Unread, Out>>
    BY <1>1, <1>2 DEF Press, LetGo, Send, isr
  <1>3. CASE KeyboardIsr
    <2>0. UNCHANGED <<buffer_tail, pc, got>>
      BY <1>3 DEF KeyboardIsr
    <2>1. CASE UNCHANGED <<buffer, buffer_head>>
      BY <1>1, <2>0, <2>1
    <2>2. CASE ~UNCHANGED <<buffer, buffer_head>>
      <3> DEFINE x == <<Head(wire).code, shift_held>>
      <3>1. /\ x \in Char
            /\ After(buffer_head) # buffer_tail
            /\ buffer_head' = After(buffer_head)
            /\ buffer' = [buffer EXCEPT ![buffer_head] = x]
        BY <1>0, <1>3, <2>2, IsrRing
      <3> HIDE DEF x
      <3>2. x \in Cell /\ buffer'[buffer_head] = x
              /\ \A s \in Slot \ {buffer_head}: buffer'[s] = buffer[s]
        BY <1>t, <3>1 DEF Cell, Ring
      <3>3. Unread' = Append(Unread, x) /\ Len(Unread) < BUFFER_SIZE - 1
        <4>1. After(buffer_head) # buffer_tail
          BY <3>1
        <4>2. /\ Contents(buffer', After(buffer_head), buffer_tail)
                   = Append(Contents(buffer, buffer_head, buffer_tail), x)
              /\ Len(Contents(buffer, buffer_head, buffer_tail)) < BUFFER_SIZE - 1
          BY <1>t, <3>2, <4>1, PushContents
        <4> QED
          BY <1>u, <2>0, <3>1, <4>2
      <3>4. Out' = Out
        <4>1. Before(buffer_tail) \in Slot /\ Before(buffer_tail) # buffer_head
          BY <1>t, <3>1, KeyboardAssumption DEF Before, After, Slot
        <4>2. buffer'[Behind'] = buffer[Behind]
          BY <1>b, <2>0, <3>2, <4>1
        <4> QED
          BY <2>0, <4>2 DEF Out
      <3>5. Fifo!Put(x)
        BY <3>3, <3>4 DEF Fifo!Put, Out
      <3> QED
        BY <3>1, <3>5 DEF Fifo!Next
    <2> QED
      BY <2>1, <2>2
  <1>4. CASE CheckEmpty \/ Load
    <2>1. UNCHANGED <<buffer, buffer_head, buffer_tail, got>> /\ pc # "late_load"
            /\ pc' # "late_load"
      BY <1>4 DEF CheckEmpty, Load, isr
    <2> QED
      BY <2>1 DEF Unread, Out
  <1>5. ASSUME buffer_tail # buffer_head, UNCHANGED <<buffer, buffer_head>>,
               buffer_tail' = After(buffer_tail), Out' = buffer[buffer_tail]
        PROVE  Fifo!Next
    <2>1. /\ Unread # << >> /\ Head(Unread) = buffer[buffer_tail]
          /\ Unread' = Tail(Unread)
      BY <1>t, <1>u, <1>5, TakeContents
    <2> QED
      BY <1>5, <2>1 DEF Fifo!Next, Fifo!Take, Out
  <1>6. CASE Advance
    <2>1. /\ buffer_tail # buffer_head /\ UNCHANGED <<buffer, buffer_head>>
          /\ buffer_tail' = After(buffer_tail)
          /\ got' = buffer[buffer_tail] /\ pc' = "call"
      BY <1>0, <1>t, <1>6, RingIndex DEF Advance, ReaderOK, isr
    <2> QED
      BY <1>5, <2>1 DEF Out
  <1>7. CASE AdvanceFirst
    <2>1. /\ buffer_tail # buffer_head /\ UNCHANGED <<buffer, buffer_head>>
          /\ buffer_tail' = After(buffer_tail) /\ pc' = "late_load"
      BY <1>0, <1>t, <1>7, RingIndex DEF AdvanceFirst, ReaderOK, isr
    <2>2. Before(After(buffer_tail)) = buffer_tail
      BY <1>t, KeyboardAssumption DEF Before, After, Slot
    <2>3. Out' = buffer[buffer_tail]
      BY <1>b, <2>1, <2>2 DEF Out
    <2> QED
      BY <1>5, <2>1, <2>3
  <1>8. CASE LateLoad
    <2>1. UNCHANGED <<buffer, buffer_head, buffer_tail>> /\ pc = "late_load"
            /\ got' = buffer[Behind] /\ pc' = "call"
      BY <1>8 DEF LateLoad, isr
    <2> QED
      BY <2>1 DEF Unread, Out
  <1>9. CASE UNCHANGED vars
    BY <1>1, <1>9 DEF vars, isr
  <1> QED
    BY <1>2, <1>3, <1>4, <1>6, <1>7, <1>8, <1>9 DEF Next, KeyboardReadChar

(* For every buffer size and every interleaving of handler and reader, with the     *)
(* reader's load before or after its store of buffer_tail: characters come out once *)
(* and in the order they went in, and never more than BUFFER_SIZE - 1 wait.         *)
THEOREM RingIsFifo == Spec => Fifo!Safety
  <1>1. Init => Fifo!Init
    <2> SUFFICES ASSUME Init PROVE Fifo!Init
      OBVIOUS
    <2>1. /\ TypeOK /\ buffer_head = 0 /\ buffer_tail = 0 /\ pc = "call" /\ got = NUL
          /\ 0 \in Slot
      BY InitRing, KeyboardAssumption DEF Init, RingInv, Slot
    <2>2. Unread = << >>
      <3>1. Waiting(0, 0) = 0
        BY DEF Waiting
      <3>2. Unread \in Seq(Cell) /\ Len(Unread) = 0
        BY <2>1, <3>1, UnreadContents, ContentsSeq DEF TypeOK
      <3> QED
        BY <3>2
    <2> QED
      BY <2>1, <2>2 DEF Fifo!Init
  <1>2. RingInv /\ RingInv' /\ [Next]_vars
          => [Fifo!Next]_<<Unread, IF pc = "late_load" THEN buffer[Behind] ELSE got>>
    BY StepRefines DEF Out
  <1> QED
    BY <1>1, <1>2, RingInvariance, PTL DEF Spec, Fifo!Safety

(* For every buffer size: buffer_push drops a character only when BUFFER_SIZE - 1   *)
(* wait to be read.                                                                 *)
THEOREM DropsExact == Spec => DropsOnlyWhenFull
  <1>1. RingInv /\ [Next]_vars =>
          (wire # << >> /\ wire' = Tail(wire) /\ Types(Head(wire))
             /\ buffer_head' = buffer_head => Len(Unread) = BUFFER_SIZE - 1)
    <2> SUFFICES ASSUME RingInv, [Next]_vars, wire # << >>, wire' = Tail(wire),
                        Types(Head(wire)), buffer_head' = buffer_head
                 PROVE  Len(Unread) = BUFFER_SIZE - 1
      OBVIOUS
    <2>0. TypeOK
      BY DEF RingInv
    <2>1. Len(wire') < Len(wire) /\ Len(wire) \in Nat
      BY <2>0, HeadScan
    <2>2. KeyboardIsr
      <3>1. ASSUME NEW k \in Key, Press(k) \/ LetGo(k) PROVE FALSE
        <4>1. Send(k, FALSE) \/ Send(k, TRUE)
          BY <3>1 DEF Press, LetGo
        <4>2. Len(wire') > Len(wire) /\ wire' \in Seq(Scan)
          BY <2>0, <4>1, SendWire
        <4> QED
          BY <2>1, <4>2
      <3>2. wire' # wire
        BY <2>1
      <3> QED
        BY <3>1, <3>2 DEF Next, KeyboardReadChar, CheckEmpty, Load, Advance, AdvanceFirst,
                          LateLoad, vars
    <2>3. buffer_head \in Slot /\ buffer_tail \in Slot /\ buffer \in Ring
      BY <2>0 DEF TypeOK
    <2>4. After(buffer_head) # buffer_head
      BY <2>3, KeyboardAssumption DEF After, Slot
    <2>5. After(buffer_head) = buffer_tail
      BY <2>0, <2>2, <2>4, IsrRing
    <2>6. Waiting(buffer_head, buffer_tail) = BUFFER_SIZE - 1
      BY <2>3, <2>5, KeyboardAssumption DEF Waiting, After, Slot
    <2> QED
      BY <2>0, <2>3, <2>6, UnreadContents, ContentsSeq
  <1> QED
    BY <1>1, RingInvariance, PTL DEF Spec, DropsOnlyWhenFull

----------------------------------------------------------------------------------
(* The Shift state *)

IsShift(i) == wire[i].code \in Shift

(* What the user meant when byte i was sent, or means now for the byte to come. *)
Meant(i) == IF i <= Len(wire) THEN wire[i].shift ELSE ShiftState

(* The flag is v when the handler comes to byte i: the last Shift byte before it    *)
(* says so, or shift_held if none is left.                                          *)
FlagAt(i, v) ==
  \/ (\A j \in 1..(i - 1): ~IsShift(j)) /\ v = shift_held
  \/ \E l \in 1..(i - 1): /\ IsShift(l) /\ v = ~wire[l].released
                          /\ \A j \in (l + 1)..(i - 1): ~IsShift(j)

ShiftInv ==
  /\ \A k, l \in ShiftKeys(down): k # l => overlap
  /\ \A i \in 1..(Len(wire) + 1), v \in BOOLEAN: FlagAt(i, v) => Agrees(v, Meant(i))

(* Bytes that are not Shift bytes leave the flag alone. *)
LEMMA FlagExtends ==
  ASSUME TypeOK, NEW n \in 0..Len(wire), NEW i \in Nat, n < i,
         wire' \in Seq(Scan), shift_held' = shift_held,
         \A j \in 1..n: wire'[j] = wire[j],
         \A j \in (n + 1)..(i - 1): wire'[j].code \notin Shift,
         NEW v, FlagAt(i, v)'
  PROVE  FlagAt(n + 1, v)
  <1>w. Len(wire) \in Nat
    BY DEF TypeOK
  <1>1. CASE (\A j \in 1..(i - 1): wire'[j].code \notin Shift) /\ v = shift_held
    <2>1. \A j \in 1..n: wire[j].code \notin Shift
      <3> SUFFICES ASSUME NEW j \in 1..n PROVE wire[j].code \notin Shift
        OBVIOUS
      <3>1. j \in 1..(i - 1)
        BY <1>w
      <3> QED
        BY <1>1, <3>1
    <2>2. n + 1 - 1 = n
      OBVIOUS
    <2> QED
      BY <1>1, <2>1, <2>2 DEF FlagAt, IsShift
  <1>2. ASSUME NEW l \in 1..(i - 1), wire'[l].code \in Shift, v = ~wire'[l].released,
               \A j \in (l + 1)..(i - 1): wire'[j].code \notin Shift
        PROVE  FlagAt(n + 1, v)
    <2>1. l \in 1..n
      <3>1. ~(l \in (n + 1)..(i - 1))
        BY <1>2
      <3> QED
        BY <1>w, <3>1
    <2>2. wire'[l] = wire[l]
      BY <2>1
    <2>3. ASSUME NEW j \in (l + 1)..n PROVE wire[j].code \notin Shift
      <3>1. j \in 1..n /\ j \in (l + 1)..(i - 1)
        BY <1>w, <2>1
      <3> QED
        BY <1>2, <3>1
    <2>4. n + 1 - 1 = n
      OBVIOUS
    <2> QED
      BY <1>2, <2>1, <2>2, <2>3, <2>4 DEF FlagAt, IsShift
  <1> QED
    BY <1>1, <1>2 DEF FlagAt, IsShift

(* Pressing or letting go of any key keeps the invariant. *)
LEMMA SendShift ==
  ASSUME TypeOK, ShiftInv, NEW k \in Key, NEW r \in BOOLEAN, Send(k, r),
         r => k \in down, Hold(IF r THEN down \ {k} ELSE down \cup {k})
  PROVE  ShiftInv'
  <1>1. /\ wire' \in Seq(Scan) /\ Len(wire') > Len(wire)
        /\ wire'[Len(wire')] = [code |-> k.code, released |-> r, shift |-> ShiftState]
        /\ k.code \in Code
        /\ \A i \in 1..Len(wire): wire'[i] = wire[i]
        /\ \A i \in (Len(wire) + 1)..(Len(wire') - 1):
             wire'[i] = [code |-> "E0", released |-> TRUE, shift |-> ShiftState]
    BY SendWire
  <1>2. /\ Len(wire) \in Nat /\ Len(wire') \in Nat /\ shift_held' = shift_held
        /\ overlap \in BOOLEAN
    BY <1>1 DEF Send, isr, TypeOK
  <1>3. "E0" \notin Shift
    BY KeyboardAssumption DEF Code
  <1>4. /\ down' = IF r THEN down \ {k} ELSE down \cup {k}
        /\ overlap' = /\ ShiftKeys(down') # {}
                      /\ overlap \/ \E x, y \in ShiftKeys(down'): x # y
    BY DEF Hold
  <1>5. \A x, y \in ShiftKeys(down'): x # y => overlap'
    <2> SUFFICES ASSUME NEW x \in ShiftKeys(down'), NEW y \in ShiftKeys(down'), x # y
                 PROVE  overlap'
      OBVIOUS
    <2> QED
      BY <1>4
  <1>6. ASSUME NEW i \in 1..(Len(wire') + 1), NEW v \in BOOLEAN, FlagAt(i, v)'
        PROVE  Agrees(v, Meant(i)')
    <2>1. CASE i <= Len(wire)
      <3>1. i - 1 \in 0..Len(wire) /\ i \in Nat /\ i - 1 + 1 = i /\ i \in 1..(Len(wire) + 1)
        BY <1>2, <2>1
      <3>2. \A j \in 1..(i - 1): wire'[j] = wire[j]
        BY <1>1, <1>2, <2>1
      <3>3. \A j \in (i - 1 + 1)..(i - 1): wire'[j].code \notin Shift
        BY <3>1
      <3>4. FlagAt(i - 1 + 1, v)
        <4> DEFINE n == i - 1
        <4>1. /\ n \in 0..Len(wire) /\ i \in Nat /\ n < i
              /\ \A j \in 1..n: wire'[j] = wire[j]
              /\ \A j \in (n + 1)..(i - 1): wire'[j].code \notin Shift
          BY <3>1, <3>2, <3>3
        <4> HIDE DEF n
        <4>2. wire' \in Seq(Scan) /\ shift_held' = shift_held /\ FlagAt(i, v)'
          BY <1>1, <1>2, <1>6
        <4>3. FlagAt(n + 1, v)
          BY <4>1, <4>2, FlagExtends
        <4> QED
          BY <4>3 DEF n
      <3>5. Meant(i)' = Meant(i)
        BY <1>1, <1>2, <2>1 DEF Meant
      <3> QED
        BY <3>1, <3>4, <3>5 DEF ShiftInv
    <2>2. ASSUME i > Len(wire), \A j \in (Len(wire) + 1)..(i - 1): wire'[j].code \notin Shift,
                 Meant(i)' = ShiftState
          PROVE  Agrees(v, Meant(i)')
      <3>1. Len(wire) \in 0..Len(wire) /\ i \in Nat /\ Len(wire) + 1 \in 1..(Len(wire) + 1)
        BY <1>2
      <3>2. FlagAt(Len(wire) + 1, v)
        BY <1>1, <1>2, <1>6, <2>2, <3>1, FlagExtends
      <3>3. Meant(Len(wire) + 1) = ShiftState
        BY <1>2 DEF Meant
      <3> QED
        BY <2>2, <3>1, <3>2, <3>3 DEF ShiftInv
    <2>3. CASE i > Len(wire) /\ i <= Len(wire')
      <3>1. ASSUME NEW j \in (Len(wire) + 1)..(i - 1) PROVE wire'[j].code \notin Shift
        <4>1. j \in (Len(wire) + 1)..(Len(wire') - 1)
          BY <1>2, <2>3
        <4> QED
          BY <1>1, <1>3, <4>1
      <3>2. wire'[i].shift = ShiftState
        <4>1. i = Len(wire') \/ i \in (Len(wire) + 1)..(Len(wire') - 1)
          BY <1>2, <2>3
        <4> QED
          BY <1>1, <4>1
      <3>3. Meant(i)' = ShiftState
        BY <2>3, <3>2 DEF Meant
      <3> QED
        BY <2>2, <2>3, <3>1, <3>3
    <2>4. CASE i = Len(wire') + 1
      <3>0. Meant(i)' = ShiftState'
        BY <1>2, <2>4 DEF Meant
      <3>1. CASE k.code \in Shift
        <4>0. wire'[Len(wire')].code = k.code /\ wire'[Len(wire')].released = r
          BY <1>1
        <4>1. v = ~r
          <5>1. Len(wire') \in 1..(i - 1)
            BY <1>1, <1>2, <2>4
          <5>2. ~ \A j \in 1..(i - 1): wire'[j].code \notin Shift
            BY <3>1, <4>0, <5>1
          <5>3. PICK l \in 1..(i - 1): /\ v = ~wire'[l].released
                                       /\ \A j \in (l + 1)..(i - 1): wire'[j].code \notin Shift
            BY <1>6, <5>2 DEF FlagAt, IsShift
          <5>4. l = Len(wire')
            <6>1. ~(Len(wire') \in (l + 1)..(i - 1))
              BY <3>1, <4>0, <5>3
            <6> QED
              BY <1>2, <2>4, <5>3, <6>1
          <5> QED
            BY <4>0, <5>3, <5>4
        <4>2. CASE r
          <5>1. k \in down /\ down' = down \ {k}
            BY <1>4, <4>2
          <5>2. CASE ShiftKeys(down') = {}
            <6>1. ShiftState' = "up"
              BY <5>2 DEF ShiftState, ShiftKeys
            <6> QED
              BY <3>0, <4>1, <4>2, <6>1 DEF Agrees
          <5>3. ASSUME NEW l \in ShiftKeys(down') PROVE Agrees(v, Meant(i)')
            <6>1. l \in ShiftKeys(down) /\ k \in ShiftKeys(down) /\ l # k
              BY <3>1, <5>1, <5>3 DEF ShiftKeys
            <6>2. overlap
              BY <6>1 DEF ShiftInv
            <6>3. overlap' /\ ShiftKeys(down') # {}
              BY <1>4, <5>3, <6>2
            <6>4. ShiftState' = "unclear"
              BY <6>3 DEF ShiftState, ShiftKeys
            <6> QED
              BY <3>0, <6>4 DEF Agrees
          <5> QED
            BY <5>2, <5>3
        <4>3. CASE ~r
          <5>1. k \in ShiftKeys(down')
            BY <1>4, <3>1, <4>3 DEF ShiftKeys
          <5>2. ShiftState' # "up"
            BY <5>1 DEF ShiftState, ShiftKeys
          <5> QED
            BY <3>0, <4>1, <4>3, <5>2 DEF Agrees
        <4> QED
          BY <4>2, <4>3
      <3>2. CASE k.code \notin Shift
        <4>1. ShiftKeys(down') = ShiftKeys(down)
          BY <1>4, <3>2 DEF ShiftKeys
        <4>2. ShiftKeys(down) # {} => overlap' = overlap
          <5> DEFINE S == ShiftKeys(down')
          <5>1. overlap' = (S # {} /\ (overlap \/ \E x, y \in S: x # y))
            BY <1>4
          <5>2. S = ShiftKeys(down)
            BY <4>1
          <5>3. (\E x, y \in S: x # y) => overlap
            BY <5>2 DEF ShiftInv
          <5> HIDE DEF S
          <5> QED
            BY <1>2, <5>1, <5>2, <5>3
        <4>3. ShiftState' = ShiftState
          <5>1. CASE ShiftKeys(down) = {}
            BY <4>1, <5>1 DEF ShiftState, ShiftKeys
          <5>2. CASE ShiftKeys(down) # {}
            <6>1. overlap' = overlap
              BY <4>2, <5>2
            <6> QED
              BY <4>1, <6>1 DEF ShiftState, ShiftKeys
          <5> QED
            BY <5>1, <5>2
        <4>4. ASSUME NEW j \in (Len(wire) + 1)..(i - 1) PROVE wire'[j].code \notin Shift
          <5>1. j = Len(wire') \/ j \in (Len(wire) + 1)..(Len(wire') - 1)
            BY <1>2, <2>4
          <5> QED
            BY <1>1, <1>3, <3>2, <5>1
        <4>5. i > Len(wire)
          BY <1>1, <1>2, <2>4
        <4> QED
          BY <2>2, <3>0, <4>3, <4>4, <4>5
      <3> QED
        BY <3>1, <3>2
    <2> QED
      BY <1>2, <2>1, <2>3, <2>4
  <1> QED
    BY <1>5, <1>6 DEF ShiftInv, ShiftKeys

(* Reading a byte keeps the invariant: the flag takes over what the byte said. *)
LEMMA IsrShift ==
  ASSUME TypeOK, ShiftInv, KeyboardIsr
  PROVE  ShiftInv'
  <1>1. /\ wire # << >> /\ wire' = Tail(wire) /\ UNCHANGED <<down, overlap>>
        /\ shift_held' = ShiftAfter(Head(wire))
    BY DEF KeyboardIsr, keys
  <1>2. /\ Head(wire) = wire[1] /\ Len(wire) \in Nat \ {0}
        /\ wire' \in Seq(Scan) /\ Len(wire') = Len(wire) - 1
        /\ \A i \in 1..(Len(wire) - 1): wire'[i] = wire[i + 1]
    BY <1>1, HeadScan
  <1>3. ASSUME NEW i \in 1..(Len(wire') + 1), NEW v \in BOOLEAN, FlagAt(i, v)'
        PROVE  Agrees(v, Meant(i)')
    <2>1. i + 1 \in 1..(Len(wire) + 1) /\ i + 1 - 1 = i /\ i \in Nat
      BY <1>2
    <2>2. ASSUME NEW m \in Nat, \A j \in m..(i - 1): wire'[j].code \notin Shift, m >= 1
          PROVE  \A j \in (m + 1)..i: wire[j].code \notin Shift
      <3> SUFFICES ASSUME NEW j \in (m + 1)..i PROVE wire[j].code \notin Shift
        OBVIOUS
      <3>1. j - 1 \in m..(i - 1) /\ wire'[j - 1] = wire[j]
        BY <1>2, <2>2
      <3> QED
        BY <2>2, <3>1
    <2>3. FlagAt(i + 1, v)
      <3>1. CASE (\A j \in 1..(i - 1): wire'[j].code \notin Shift) /\ v = shift_held'
        <4>1. \A j \in 2..i: wire[j].code \notin Shift
          <5> SUFFICES ASSUME NEW j \in 2..i PROVE wire[j].code \notin Shift
            OBVIOUS
          <5>1. j - 1 \in 1..(i - 1) /\ wire'[j - 1] = wire[j]
            BY <1>2
          <5> QED
            BY <3>1, <5>1
        <4>2. CASE wire[1].code \in Shift
          <5>1. v = ~wire[1].released /\ 1 \in 1..i /\ 1 + 1 = 2
            BY <1>1, <1>2, <2>1, <3>1, <4>2 DEF ShiftAfter
          <5> QED
            BY <2>1, <4>1, <4>2, <5>1 DEF FlagAt, IsShift
        <4>3. CASE wire[1].code \notin Shift
          <5>1. \A j \in 1..i: wire[j].code \notin Shift
            BY <2>1, <4>1, <4>3
          <5>2. v = shift_held
            BY <1>1, <1>2, <3>1, <4>3 DEF ShiftAfter
          <5> QED
            BY <2>1, <5>1, <5>2 DEF FlagAt, IsShift
        <4> QED
          BY <4>2, <4>3
      <3>2. ASSUME NEW l \in 1..(i - 1), wire'[l].code \in Shift, v = ~wire'[l].released,
                   \A j \in (l + 1)..(i - 1): wire'[j].code \notin Shift
            PROVE  FlagAt(i + 1, v)
        <4>1. l + 1 \in 1..i /\ wire'[l] = wire[l + 1] /\ l + 1 \in Nat /\ l + 1 >= 1
          BY <1>2, <2>1
        <4>2. \A j \in (l + 1 + 1)..i: wire[j].code \notin Shift
          BY <2>2, <3>2, <4>1
        <4> QED
          BY <2>1, <3>2, <4>1, <4>2 DEF FlagAt, IsShift
      <3> QED
        BY <1>3, <3>1, <3>2 DEF FlagAt, IsShift
    <2>4. Meant(i)' = Meant(i + 1)
      <3>1. CASE i <= Len(wire) - 1
        BY <1>2, <2>1, <3>1 DEF Meant
      <3>2. CASE i = Len(wire)
        <4>1. ShiftState' = ShiftState
          BY <1>1 DEF ShiftState, ShiftKeys
        <4> QED
          BY <1>2, <3>2, <4>1 DEF Meant
      <3> QED
        BY <1>2, <3>1, <3>2
    <2> QED
      BY <2>1, <2>3, <2>4 DEF ShiftInv
  <1>4. \A x, y \in ShiftKeys(down'): x # y => overlap'
    BY <1>1 DEF ShiftInv
  <1> QED
    BY <1>3, <1>4 DEF ShiftInv, ShiftKeys

(* Every step keeps the flag in agreement with what the bytes still waiting mean. *)
LEMMA NextShift == RingInv /\ ShiftInv /\ [Next]_vars => ShiftInv'
  <1> SUFFICES ASSUME RingInv, ShiftInv, [Next]_vars PROVE ShiftInv'
    OBVIOUS
  <1>0. TypeOK
    BY DEF RingInv
  <1>1. ASSUME NEW k \in Key, Press(k) PROVE ShiftInv'
    BY <1>0, <1>1, SendShift DEF Press
  <1>2. ASSUME NEW k \in Key, LetGo(k) PROVE ShiftInv'
    BY <1>0, <1>2, SendShift DEF LetGo
  <1>3. CASE KeyboardIsr
    BY <1>0, <1>3, IsrShift
  <1>4. CASE KeyboardReadChar \/ UNCHANGED vars
    <2>1. UNCHANGED <<wire, shift_held, down, overlap>>
      BY <1>4 DEF KeyboardReadChar, CheckEmpty, Load, Advance, AdvanceFirst, LateLoad,
                  vars, isr, keys
    <2> QED
      BY <2>1 DEF ShiftInv, FlagAt, IsShift, Meant, ShiftState, ShiftKeys
  <1> QED
    BY <1>1, <1>2, <1>3, <1>4 DEF Next

(* For every set of keys, however many Shift keys it has and however far the        *)
(* handler lags behind: a character goes into the ring shifted as the user typed    *)
(* it, unless two Shift keys overlap.                                               *)
THEOREM ShiftFollows == Spec => ShiftedAsTyped
  <1>1. Init => ShiftInv
    <2> SUFFICES ASSUME Init PROVE ShiftInv
      OBVIOUS
    <2>1. ShiftState = "up" /\ ShiftKeys(down) = {} /\ Len(wire) = 0 /\ shift_held = FALSE
      BY DEF Init, ShiftState, ShiftKeys
    <2>2. ASSUME NEW i \in 1..(Len(wire) + 1), NEW v \in BOOLEAN, FlagAt(i, v)
          PROVE  Agrees(v, Meant(i))
      <3>1. i = 1 /\ 1..(i - 1) = {}
        BY <2>1
      <3>2. v = FALSE
        BY <2>1, <2>2, <3>1 DEF FlagAt
      <3> QED
        BY <2>1, <3>1, <3>2 DEF Meant, Agrees
    <2> QED
      BY <2>1, <2>2 DEF ShiftInv
  <1>2. RingInv /\ ShiftInv /\ [Next]_vars =>
          (wire # << >> /\ wire' = Tail(wire) /\ buffer_head' # buffer_head
             => Agrees(buffer'[buffer_head][2], Head(wire).shift))
    <2> SUFFICES ASSUME RingInv, ShiftInv, [Next]_vars, wire # << >>,
                        buffer_head' # buffer_head
                 PROVE  Agrees(buffer'[buffer_head][2], Head(wire).shift)
      OBVIOUS
    <2>0. TypeOK
      BY DEF RingInv
    <2>1. KeyboardIsr
      BY DEF Next, Press, LetGo, Send, KeyboardReadChar, CheckEmpty, Load, Advance,
             AdvanceFirst, LateLoad, vars, isr
    <2>2. buffer' = [buffer EXCEPT ![buffer_head] = <<Head(wire).code, shift_held>>]
      BY <2>0, <2>1, IsrRing
    <2>3. buffer'[buffer_head][2] = shift_held
      BY <2>0, <2>2 DEF TypeOK, Ring
    <2>4. Head(wire) = wire[1] /\ Len(wire) \in Nat \ {0} /\ shift_held \in BOOLEAN
      BY <2>0, HeadScan DEF TypeOK
    <2>5. FlagAt(1, shift_held) /\ Meant(1) = wire[1].shift /\ 1 \in 1..(Len(wire) + 1)
      BY <2>4 DEF FlagAt, Meant
    <2> QED
      BY <2>3, <2>4, <2>5 DEF ShiftInv
  <1> QED
    BY <1>1, <1>2, NextShift, RingInvariance, PTL DEF Spec, ShiftedAsTyped
====
