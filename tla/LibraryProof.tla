------------------------------- MODULE LibraryProof -------------------------------
(* Proofs about Library for every input: what the loops of printf.c, string.c and   *)
(* madt.c compute, whatever the numbers, texts, memories and tables they are given. *)
EXTENDS Library, FiniteSetTheorems, NaturalsInduction, WellFoundedInduction, TLAPS

----------------------------------------------------------------------------------
(* Induction over the turns of a loop *)

(* A nonempty set of naturals has a least element. *)
LEMMA LeastNat ==
  ASSUME NEW T \in SUBSET Nat, T # {}
  PROVE  \E n \in T: \A k \in T: n <= k
  <1>1. PICK n \in T: \A k \in T: ~ (<<k, n>> \in OpToRel(<, Nat))
    BY NatLessThanWellFounded, WFMin
  <1>2. \A k \in T: ~ (k < n)
    BY <1>1 DEF OpToRel
  <1> QED
    BY <1>2

(* What holds before the first turn and is kept by each of n turns always holds. *)
LEMMA TurnByTurn ==
  ASSUME NEW n \in Nat, NEW T, 0 \in T, \A k \in 1..n: k - 1 \in T => k \in T
  PROVE  \A k \in 0..n: k \in T
  <1> DEFINE Bad == {k \in 0..n: k \notin T}
  <1> SUFFICES ASSUME Bad # {} PROVE FALSE
    OBVIOUS
  <1>1. PICK m \in Bad: \A k \in Bad: m <= k
    <2>1. Bad \subseteq Nat
      OBVIOUS
    <2> HIDE DEF Bad
    <2> QED
      BY <2>1, LeastNat
  <1>2. m \in 0..n /\ m \notin T
    OBVIOUS
  <1>3. m # 0
    BY <1>2
  <1>4. m - 1 \in 0..n /\ m - 1 \notin Bad
    <2> HIDE DEF Bad
    <2> QED
      BY <1>1, <1>2, <1>3
  <1> QED
    BY <1>2, <1>3, <1>4

(* The states a loop goes through: the first, and each got from the one before by   *)
(* the turn it takes.                                                               *)
Runs(g, n, X, x, f) ==
  /\ g \in [0..n -> X]
  /\ g[0] = x
  /\ \A k \in 1..n: g[k] = f[k][g[k - 1]]

(* A loop of n turns has a run. *)
LEMMA RunExists ==
  ASSUME NEW n \in Nat, NEW X, NEW x \in X, NEW f \in [1..n -> [X -> X]]
  PROVE  \E g: Runs(g, n, X, x, f)
  <1> DEFINE T == {k \in 0..n: \E g: Runs(g, k, X, x, f)}
  <1>1. 0 \in T
    <2>1. Runs([k \in 0..0 |-> x], 0, X, x, f)
      BY DEF Runs
    <2> QED
      BY <2>1
  <1>2. ASSUME NEW k \in 1..n, k - 1 \in T PROVE k \in T
    <2>1. PICK g: Runs(g, k - 1, X, x, f)
      BY <1>2
    <2> DEFINE y == f[k][g[k - 1]]
               h == [j \in 0..k |-> IF j = k THEN y ELSE g[j]]
    <2>2. g[k - 1] \in X
      BY <2>1 DEF Runs
    <2>3. y \in X
      BY <2>2
    <2> HIDE DEF y
    <2>4. h \in [0..k -> X]
      <3>1. \A j \in 0..k: j # k => j \in 0..(k - 1) /\ g[j] \in X
        BY <2>1 DEF Runs
      <3> QED
        BY <2>3, <3>1
    <2>5. h[0] = x
      BY <2>1 DEF Runs
    <2>6. ASSUME NEW j \in 1..k PROVE h[j] = f[j][h[j - 1]]
      <3>1. j - 1 \in 0..k /\ j - 1 # k /\ h[j - 1] = g[j - 1]
        OBVIOUS
      <3>2. CASE j = k
        BY <3>1, <3>2 DEF y
      <3>3. CASE j # k
        <4>1. j \in 1..(k - 1) /\ h[j] = g[j]
          BY <3>3
        <4>2. g[j] = f[j][g[j - 1]]
          BY <2>1, <4>1 DEF Runs
        <4> QED
          BY <3>1, <4>1, <4>2
      <3> QED
        BY <3>2, <3>3
    <2>7. Runs(h, k, X, x, f)
      <3> HIDE DEF h
      <3> QED
        BY <2>4, <2>5, <2>6 DEF Runs
    <2> QED
      BY <2>7
  <1>3. n \in T
    <2> HIDE DEF T
    <2>1. \A k \in 1..n: k - 1 \in T => k \in T
      BY <1>2
    <2>2. \A k \in 0..n: k \in T
      BY <1>1, <2>1, TurnByTurn
    <2> QED
      BY <2>2
  <1> QED
    BY <1>3

(* A function that takes the loop's turns from its first state is its run. *)
LEMMA RunIs ==
  ASSUME NEW n \in Nat, NEW X, NEW x \in X, NEW f \in [1..n -> [X -> X]], 
         NEW Y, NEW g \in [0..n -> Y], g[0] = x,
         \A k \in 1..n: g[k - 1] \in X => g[k] = f[k][g[k - 1]]
  PROVE  Runs(g, n, X, x, f)
  <1> DEFINE T == {k \in 0..n: g[k] \in X}
  <1>1. 0 \in T
    OBVIOUS
  <1>2. ASSUME NEW k \in 1..n, k - 1 \in T PROVE k \in T
    <2>1. g[k] = f[k][g[k - 1]] /\ g[k - 1] \in X
      BY <1>2
    <2>2. f[k] \in [X -> X]
      OBVIOUS
    <2> QED
      BY <2>1, <2>2
  <1>3. \A k \in 0..n: k \in T
    <2> HIDE DEF T
    <2> QED
      BY <1>1, <1>2, TurnByTurn
  <1>4. \A k \in 0..n: g[k] \in X
    BY <1>3
  <1>5. g \in [0..n -> X]
    BY <1>4
  <1>6. \A k \in 1..n: g[k] = f[k][g[k - 1]]
    BY <1>4
  <1> QED
    BY <1>5, <1>6 DEF Runs

----------------------------------------------------------------------------------
(* memcpy and memmove *)

(* The addresses A hold the bytes that the loop reads and writes. *)
Room(A, d, s, order, n) ==
  /\ Len(order) = n
  /\ \A k \in 1..n: d + order[k] \in A /\ s + order[k] \in A

(* Of the memory mem, the bytes from s on stand in c at lo..hi, counted from d. *)
Holds(c, A, mem, d, s, lo, hi) ==
  \A a \in A: c[a] = IF a \in lo..hi THEN mem[s + a - d] ELSE mem[a]

(* c is the memory turn by turn. *)
Copying(c, A, V, mem, d, s, order, n) ==
  /\ c \in [0..n -> [A -> V]]
  /\ c[0] = mem
  /\ \A k \in 1..n: c[k] = CopyByte(c[k - 1], d, s, order[k])

(* The loop's turns, and the memory they leave. *)
LEMMA CopiesRun ==
  ASSUME NEW A, NEW V, NEW mem \in [A -> V], NEW d \in Int, NEW s \in Int,
         NEW n \in Nat, NEW order, Room(A, d, s, order, n)
  PROVE  Copying(Copies(mem, d, s, order), A, V, mem, d, s, order, n)
  <1> DEFINE X == [A -> V]
             f == [k \in 1..n |-> [m \in X |-> CopyByte(m, d, s, order[k])]]
             B(h) == [k \in 0..n |-> IF k = 0 THEN mem ELSE CopyByte(h[k - 1], d, s, order[k])]
             c == Copies(mem, d, s, order)
  <1>1. \A k \in 1..n, m \in X: CopyByte(m, d, s, order[k]) \in X
    BY DEF CopyByte, Room
  <1>2. mem \in X /\ c = CHOOSE h: h = B(h)
    BY DEF Copies, Room
  <1> HIDE DEF c, X
  <1>3. f \in [1..n -> [X -> X]] /\ \A k \in 1..n, m \in X: f[k][m] = CopyByte(m, d, s, order[k])
    BY <1>1
  <1> HIDE DEF f
  <1>4. PICK g: Runs(g, n, X, mem, f)
    BY <1>2, <1>3, RunExists
  <1>5. g = B(g)
    <2>1. \A k \in 0..n: g[k] = IF k = 0 THEN mem ELSE CopyByte(g[k - 1], d, s, order[k])
      BY <1>3, <1>4 DEF Runs
    <2> QED
      BY <1>4, <2>1 DEF Runs
  <1>6. c = B(c)
    BY <1>2, <1>5
  <1>7. Runs(c, n, X, mem, f)
    <2> DEFINE e == B(c)
               Y == {e[k]: k \in 0..n}
    <2>1. e \in [0..n -> Y]
      OBVIOUS
    <2>2. c[0] = mem
      BY <1>6
    <2>3. \A k \in 1..n: c[k] = CopyByte(c[k - 1], d, s, order[k])
      BY <1>6
    <2>4. \A k \in 1..n: c[k - 1] \in X => c[k] = f[k][c[k - 1]]
      BY <1>3, <2>3
    <2>5. c = e
      BY <1>6
    <2> HIDE DEF e, Y
    <2>6. c \in [0..n -> Y]
      BY <2>1, <2>5
    <2>7. mem \in X /\ f \in [1..n -> [X -> X]]
      BY <1>2, <1>3
    <2> QED
      BY <2>2, <2>4, <2>6, <2>7, RunIs
  <1>8. /\ c \in [0..n -> X] /\ c[0] = mem
        /\ \A k \in 1..n: c[k] = CopyByte(c[k - 1], d, s, order[k])
    BY <1>3, <1>7 DEF Runs
  <1> QED
    BY <1>8 DEF Copying, c, X

(* What one turn changes. *)
LEMMA CopyByteAt ==
  ASSUME NEW A \in SUBSET Int, NEW V, NEW m \in [A -> V], NEW d, NEW s, NEW i,
         d + i \in A, s + i \in A
  PROVE  \A a \in A: CopyByte(m, d, s, i)[a] = IF a = d + i THEN m[s + i] ELSE m[a]
  BY DEF CopyByte

(* Copying upwards moves the bytes as if at once, unless the destination lies       *)
(* behind the source and overlaps it.                                               *)
LEMMA CopiesUp ==
  ASSUME NEW A \in SUBSET Int, NEW V, NEW mem \in [A -> V], NEW d \in Int, NEW s \in Int,
         NEW n \in Nat, Room(A, d, s, Upwards(n), n), d < s \/ s + n <= d
  PROVE  /\ CopyInOrder(mem, d, s, Upwards(n)) \in [A -> V]
         /\ Holds(CopyInOrder(mem, d, s, Upwards(n)), A, mem, d, s, d, d + n - 1)
  <1> DEFINE o == Upwards(n)
             c == Copies(mem, d, s, o)
             T == {k \in 0..n: Holds(c[k], A, mem, d, s, d, d + k - 1)}
  <1>1. \A k \in 1..n: o[k] = k - 1
    BY DEF Upwards
  <1> HIDE DEF o
  <1>2. Room(A, d, s, o, n)
    BY DEF o
  <1>3. /\ c \in [0..n -> [A -> V]] /\ c[0] = mem
        /\ \A k \in 1..n: c[k] = CopyByte(c[k - 1], d, s, o[k])
    <2>1. Copying(c, A, V, mem, d, s, o, n)
      BY <1>2, CopiesRun
    <2> HIDE DEF c
    <2> QED
      BY <2>1 DEF Copying
  <1> HIDE DEF c
  <1>4. 0 \in T
    BY <1>3 DEF Holds
  <1>5. ASSUME NEW k \in 1..n, k - 1 \in T PROVE k \in T
    <2> DEFINE m == c[k - 1]
               i == k - 1
    <2>1. m \in [A -> V] /\ c[k] = CopyByte(m, d, s, i)
      BY <1>1, <1>3
    <2>2. d + i \in A /\ s + i \in A
      BY <1>1, <1>2 DEF Room
    <2>3. Holds(m, A, mem, d, s, d, d + k - 2)
      <3>1. d = d /\ d + (k - 1) - 1 = d + k - 2
        OBVIOUS
      <3> QED
        BY <1>5, <3>1
    <2>4. i \in Int /\ s + i \notin (d)..(d + k - 2) /\ s + i = s + (d + i) - d
      OBVIOUS
    <2>5. \A a \in A: a # d + i => (a \in (d)..(d + k - 1) <=> a \in (d)..(d + k - 2))
      OBVIOUS
    <2>6. d + i \in (d)..(d + k - 1)
      OBVIOUS
    <2> HIDE DEF m, i
    <2>7. \A a \in A: c[k][a] = IF a = d + i THEN m[s + i] ELSE m[a]
      BY <2>1, <2>2, CopyByteAt
    <2>8. m[s + i] = mem[s + i]
      BY <2>2, <2>3, <2>4 DEF Holds
    <2>9. Holds(c[k], A, mem, d, s, d, d + k - 1)
      <3> SUFFICES ASSUME NEW a \in A
                   PROVE  c[k][a] = IF a \in (d)..(d + k - 1) THEN mem[s + a - d] ELSE mem[a]
        BY DEF Holds
      <3>1. CASE a = d + i
        BY <2>4, <2>6, <2>7, <2>8, <3>1
      <3>2. CASE a # d + i
        <4>1. c[k][a] = m[a]
          BY <2>7, <3>2
        <4>2. m[a] = IF a \in (d)..(d + k - 2) THEN mem[s + a - d] ELSE mem[a]
          BY <2>3 DEF Holds
        <4> QED
          BY <2>5, <3>2, <4>1, <4>2
      <3> QED
        BY <3>1, <3>2
    <2> QED
      BY <2>9
  <1>6. \A k \in 0..n: k \in T
    <2> HIDE DEF T
    <2> QED
      BY <1>4, <1>5, TurnByTurn
  <1>7. Holds(c[n], A, mem, d, s, d, d + n - 1)
    <2>1. n \in T /\ d = d /\ d + n - 1 = d + n - 1
      BY <1>6
    <2> QED
      BY <2>1
  <1>8. c[n] \in [A -> V] /\ CopyInOrder(mem, d, s, Upwards(n)) = c[n]
    BY <1>2, <1>3 DEF CopyInOrder, Room, c, o
  <1> QED
    BY <1>7, <1>8

(* Copying downwards does if the destination lies behind the source. *)
LEMMA CopiesDown ==
  ASSUME NEW A \in SUBSET Int, NEW V, NEW mem \in [A -> V], NEW d \in Int, NEW s \in Int,
         NEW n \in Nat, Room(A, d, s, Downwards(n), n), s < d
  PROVE  /\ CopyInOrder(mem, d, s, Downwards(n)) \in [A -> V]
         /\ Holds(CopyInOrder(mem, d, s, Downwards(n)), A, mem, d, s, d, d + n - 1)
  <1> DEFINE o == Downwards(n)
             c == Copies(mem, d, s, o)
             T == {k \in 0..n: Holds(c[k], A, mem, d, s, d + n - k, d + n - 1)}
  <1>1. \A k \in 1..n: o[k] = n - k
    BY DEF Downwards
  <1> HIDE DEF o
  <1>2. Room(A, d, s, o, n)
    BY DEF o
  <1>3. /\ c \in [0..n -> [A -> V]] /\ c[0] = mem
        /\ \A k \in 1..n: c[k] = CopyByte(c[k - 1], d, s, o[k])
    <2>1. Copying(c, A, V, mem, d, s, o, n)
      BY <1>2, CopiesRun
    <2> HIDE DEF c
    <2> QED
      BY <2>1 DEF Copying
  <1> HIDE DEF c
  <1>4. 0 \in T
    BY <1>3 DEF Holds
  <1>5. ASSUME NEW k \in 1..n, k - 1 \in T PROVE k \in T
    <2> DEFINE m == c[k - 1]
               i == n - k
    <2>1. m \in [A -> V] /\ c[k] = CopyByte(m, d, s, i)
      BY <1>1, <1>3
    <2>2. d + i \in A /\ s + i \in A
      BY <1>1, <1>2 DEF Room
    <2>3. Holds(m, A, mem, d, s, d + n - k + 1, d + n - 1)
      <3>1. d + n - (k - 1) = d + n - k + 1 /\ d + n - 1 = d + n - 1
        OBVIOUS
      <3> QED
        BY <1>5, <3>1
    <2>4. i \in Int /\ s + i \notin (d + n - k + 1)..(d + n - 1) /\ s + i = s + (d + i) - d
      OBVIOUS
    <2>5. \A a \in A: a # d + i => (a \in (d + n - k)..(d + n - 1) <=> a \in (d + n - k + 1)..(d + n - 1))
      OBVIOUS
    <2>6. d + i \in (d + n - k)..(d + n - 1)
      OBVIOUS
    <2> HIDE DEF m, i
    <2>7. \A a \in A: c[k][a] = IF a = d + i THEN m[s + i] ELSE m[a]
      BY <2>1, <2>2, CopyByteAt
    <2>8. m[s + i] = mem[s + i]
      BY <2>2, <2>3, <2>4 DEF Holds
    <2>9. Holds(c[k], A, mem, d, s, d + n - k, d + n - 1)
      <3> SUFFICES ASSUME NEW a \in A
                   PROVE  c[k][a] = IF a \in (d + n - k)..(d + n - 1) THEN mem[s + a - d] ELSE mem[a]
        BY DEF Holds
      <3>1. CASE a = d + i
        BY <2>4, <2>6, <2>7, <2>8, <3>1
      <3>2. CASE a # d + i
        <4>1. c[k][a] = m[a]
          BY <2>7, <3>2
        <4>2. m[a] = IF a \in (d + n - k + 1)..(d + n - 1) THEN mem[s + a - d] ELSE mem[a]
          BY <2>3 DEF Holds
        <4> QED
          BY <2>5, <3>2, <4>1, <4>2
      <3> QED
        BY <3>1, <3>2
    <2> QED
      BY <2>9
  <1>6. \A k \in 0..n: k \in T
    <2> HIDE DEF T
    <2> QED
      BY <1>4, <1>5, TurnByTurn
  <1>7. Holds(c[n], A, mem, d, s, d, d + n - 1)
    <2>1. n \in T /\ d + n - n = d /\ d + n - 1 = d + n - 1
      BY <1>6
    <2> QED
      BY <2>1
  <1>8. c[n] \in [A -> V] /\ CopyInOrder(mem, d, s, Downwards(n)) = c[n]
    BY <1>2, <1>3 DEF CopyInOrder, Room, c, o
  <1> QED
    BY <1>7, <1>8

(* The bytes memmove and memcpy are given lie in memory. *)
Inside(mem, d, s, n) ==
  /\ mem \in Seq(Byte)
  /\ d \in 1..Len(mem) /\ s \in 1..Len(mem) /\ n \in 0..Len(mem)
  /\ d + n <= Len(mem) + 1 /\ s + n <= Len(mem) + 1

(* Every way memmove goes about it gives what moving all bytes at once gives, and   *)
(* memcpy does where the ranges are apart.                                          *)
LEMMA MovesRight ==
  ASSUME NEW mem, NEW d, NEW s, NEW n, Inside(mem, d, s, n)
  PROVE  /\ Memmove(mem, d, s, n) = MovedAtOnce(mem, d, s, n)
         /\ d + n <= s \/ s + n <= d => Memcpy(mem, d, s, n) = MovedAtOnce(mem, d, s, n)
  <1> DEFINE A == 1..Len(mem)
             w == MovedAtOnce(mem, d, s, n)
  <1>1. /\ mem \in [A -> Byte] /\ DOMAIN mem = A /\ A \in SUBSET Int
        /\ d \in Int /\ s \in Int /\ n \in Nat
        /\ \A i \in 0..(n - 1): d + i \in A /\ s + i \in A
    BY DEF Inside
  <1>2. Room(A, d, s, Upwards(n), n) /\ Room(A, d, s, Downwards(n), n)
    BY DEF Inside, Room, Upwards, Downwards
  <1>3. \A a \in A: a \in d..(d + n - 1) => s + a - d \in A
    BY DEF Inside
  <1> HIDE DEF A
  <1>4. w \in [A -> Byte] /\ Holds(w, A, mem, d, s, d, d + n - 1)
    BY <1>1, <1>3 DEF MovedAtOnce, Holds
  <1> HIDE DEF w
  <1>5. ASSUME NEW c \in [A -> Byte], Holds(c, A, mem, d, s, d, d + n - 1)
        PROVE  c = w
    <2>1. \A a \in A: c[a] = w[a]
      BY <1>4, <1>5 DEF Holds
    <2> QED
      BY <1>4, <2>1
  <1>6. ASSUME d < s \/ s + n <= d
        PROVE  CopyInOrder(mem, d, s, Upwards(n)) = w
    <2>1. /\ CopyInOrder(mem, d, s, Upwards(n)) \in [A -> Byte]
          /\ Holds(CopyInOrder(mem, d, s, Upwards(n)), A, mem, d, s, d, d + n - 1)
      BY <1>1, <1>2, <1>6, CopiesUp, Zenon
    <2> QED
      BY <1>5, <2>1
  <1>7. ASSUME s < d
        PROVE  CopyInOrder(mem, d, s, Downwards(n)) = w
    <2>1. /\ CopyInOrder(mem, d, s, Downwards(n)) \in [A -> Byte]
          /\ Holds(CopyInOrder(mem, d, s, Downwards(n)), A, mem, d, s, d, d + n - 1)
      BY <1>1, <1>2, <1>7, CopiesDown, Zenon
    <2> QED
      BY <1>5, <2>1
  <1>8. ASSUME d = s \/ n = 0
        PROVE  mem = w
    <2>1. Holds(mem, A, mem, d, s, d, d + n - 1)
      <3> SUFFICES ASSUME NEW a \in A
                   PROVE  mem[a] = IF a \in d..(d + n - 1) THEN mem[s + a - d] ELSE mem[a]
        BY DEF Holds
      <3>1. CASE d = s
        <4>1. s + a - d = a
          BY <1>1, <3>1
        <4> QED
          BY <4>1
      <3>2. CASE n = 0
        <4>1. a \notin d..(d + n - 1)
          BY <1>1, <3>2
        <4> QED
          BY <4>1
      <3> QED
        BY <1>8, <3>1, <3>2
    <2> QED
      BY <1>1, <1>5, <2>1
  <1>9. Memmove(mem, d, s, n) = w
    BY <1>1, <1>6, <1>7, <1>8 DEF Memmove
  <1>10. ASSUME d + n <= s \/ s + n <= d
         PROVE  Memcpy(mem, d, s, n) = w
    <2>1. CASE d < s \/ s + n <= d
      BY <1>6, <2>1 DEF Memcpy
    <2>2. CASE ~ (d < s \/ s + n <= d)
      <3>1. FALSE
        BY <1>1, <1>10, <2>2
      <3> QED
        BY <3>1
    <2> QED
      BY <2>1, <2>2
  <1> QED
    BY <1>9, <1>10 DEF w

----------------------------------------------------------------------------------
(* The calls and what they return *)

(* The routine and the arguments Init chose. *)
Called ==
  \/ \E d \in Directives, w \in Words: call = [op |-> "kvprintf", d |-> d, w |-> w]
  \/ \E t \in Texts, n \in Sizes: call = [op |-> "ksnprintf", fmt |-> t, size |-> n]
  \/ \E m \in Contents: \E d, s \in DOMAIN m, n \in 0..Len(m):
       /\ d + n <= Len(m) + 1 /\ s + n <= Len(m) + 1
       /\ call = [op |-> "memmove", mem |-> m, d |-> d, s |-> s, n |-> n]
  \/ \E fw \in Firmwares: call = [op |-> "madt_parse", fw |-> fw]

(* What it returns. *)
Answered ==
  /\ call.op = "kvprintf" => result = Kvprintf(<<call.d>>, <<call.w>>)
  /\ call.op = "ksnprintf" =>
       result = Ksnprintf(call.size, Kvprintf(call.fmt.items, call.fmt.args))
  /\ call.op = "memmove" =>
       result = [moved |-> Memmove(call.mem, call.d, call.s, call.n),
                 copied |-> Memcpy(call.mem, call.d, call.s, call.n)]
  /\ call.op = "madt_parse" =>
       result = [root |-> AcpiInit(call.fw),
                 info |-> IF AcpiInit(call.fw) = Panic THEN Panic
                          ELSE MadtParse(call.fw, AcpiInit(call.fw))]

(* The inductive invariant: the call stays as it was made, and a result is the      *)
(* routine's answer to it.                                                          *)
IInv == Called /\ (result # None => Answered)

(* A routine's result is kept as the answer to the call it was made for. *)
THEOREM Invariance == Spec => []IInv
  <1>1. Init => IInv
    BY DEF Init, IInv, Called
  <1>2. ASSUME IInv, [Next]_vars PROVE IInv'
    <2>1. CASE UNCHANGED vars
      BY <1>2, <2>1 DEF IInv, Called, Answered, vars
    <2>2. ASSUME Next PROVE call' = call
      BY <2>2 DEF Next, PrintNumber, PrintToBuffer, Move, ParseMadt, Pending
    <2>3. ASSUME Next PROVE Called'
      BY <1>2, <2>2, <2>3 DEF IInv, Called
    <2>4. CASE PrintNumber
      <3>1. Answered'
        BY <2>4 DEF PrintNumber, Pending, Answered
      <3> QED
        BY <2>3, <2>4, <3>1 DEF IInv, Next
    <2>5. CASE PrintToBuffer
      <3>1. Answered'
        BY <2>5 DEF PrintToBuffer, Pending, Answered
      <3> QED
        BY <2>3, <2>5, <3>1 DEF IInv, Next
    <2>6. CASE Move
      <3>1. Answered'
        BY <2>6 DEF Move, Pending, Answered
      <3> QED
        BY <2>3, <2>6, <3>1 DEF IInv, Next
    <2>7. CASE ParseMadt
      <3>1. Answered'
        BY <2>7 DEF ParseMadt, Pending, Answered
      <3> QED
        BY <2>3, <2>7, <3>1 DEF IInv, Next
    <2> QED
      BY <1>2, <2>1, <2>4, <2>5, <2>6, <2>7 DEF Next
  <1> QED
    BY <1>1, <1>2, PTL DEF Spec

(* The arguments of a memmove lie in memory. *)
LEMMA MoveArguments ==
  ASSUME Called, call.op = "memmove"
  PROVE  Inside(call.mem, call.d, call.s, call.n)
  <1>1. PICK m \in Contents: \E d, s \in DOMAIN m, n \in 0..Len(m):
          /\ d + n <= Len(m) + 1 /\ s + n <= Len(m) + 1
          /\ call = [op |-> "memmove", mem |-> m, d |-> d, s |-> s, n |-> n]
    BY DEF Called
  <1>2. PICK d \in DOMAIN m, s \in DOMAIN m, n \in 0..Len(m):
          /\ d + n <= Len(m) + 1 /\ s + n <= Len(m) + 1
          /\ call = [op |-> "memmove", mem |-> m, d |-> d, s |-> s, n |-> n]
    BY <1>1
  <1>3. m \in Seq(Byte) /\ DOMAIN m = 1..Len(m)
    BY LibraryAssumption
  <1> QED
    BY <1>2, <1>3 DEF Inside

(* memmove moves its bytes as if all at once and memcpy does where the ranges are   *)
(* apart, for every memory, every length and every overlap.                         *)
THEOREM MovesRightly == Spec => []MovesWhole
  <1>1. IInv => MovesWhole
    <2> SUFFICES ASSUME IInv, call.op = "memmove", result # None
                 PROVE  LET whole == MovedAtOnce(call.mem, call.d, call.s, call.n)
                        IN  /\ result.moved = whole
                            /\ call.d + call.n <= call.s \/ call.s + call.n <= call.d =>
                                 result.copied = whole
      BY DEF MovesWhole, Returned
    <2>1. Inside(call.mem, call.d, call.s, call.n)
      BY MoveArguments DEF IInv
    <2>2. /\ result.moved = Memmove(call.mem, call.d, call.s, call.n)
          /\ result.copied = Memcpy(call.mem, call.d, call.s, call.n)
      BY DEF IInv, Answered
    <2> QED
      BY <2>1, <2>2, MovesRight
  <1> QED
    BY <1>1, Invariance, PTL

----------------------------------------------------------------------------------
(* Numbers *)

(* The least of a nonempty set of naturals. *)
LEMMA MinIs ==
  ASSUME NEW S \in SUBSET Nat, S # {}
  PROVE  Min(S) \in S /\ \A y \in S: Min(S) <= y
  <1>1. \E x \in S: \A y \in S: x <= y
    BY LeastNat
  <1> QED
    BY <1>1 DEF Min

(* The padding is what the text is short of the width. *)
LEMMA MaxWithZero ==
  ASSUME NEW x \in Int
  PROVE  Max({0, x}) = IF x > 0 THEN x ELSE 0
  <1> DEFINE m == IF x > 0 THEN x ELSE 0
  <1>1. m \in {0, x} /\ \A y \in {0, x}: m >= y
    OBVIOUS
  <1>2. \A a \in {0, x}: (\A y \in {0, x}: a >= y) => a = m
    OBVIOUS
  <1> HIDE DEF m
  <1>3. Max({0, x}) = m
    BY <1>1, <1>2 DEF Max
  <1> QED
    BY <1>3 DEF m

(* q are the values of emit_unsigned's loop. *)
Dividing(q, value, base) ==
  /\ q \in [0..DIGITS -> Nat]
  /\ q[0] = value
  /\ \A k \in 1..DIGITS: q[k] = q[k - 1] \div base

(* The loop divides by the base in every turn. *)
LEMMA QuotientsRun ==
  ASSUME NEW value \in Nat, NEW base \in {10, 16}
  PROVE  Dividing(Quotients(value, base), value, base)
  <1> DEFINE n == DIGITS
             X == Nat
             f == [k \in 1..n |-> [m \in X |-> m \div base]]
             B(h) == [k \in 0..n |-> IF k = 0 THEN value ELSE h[k - 1] \div base]
             c == Quotients(value, base)
  <1>0. n \in Nat
    BY PrintfAssumption
  <1>1. \A m \in X: m \div base \in X
    OBVIOUS
  <1>2. value \in X /\ c = CHOOSE h: h = B(h)
    BY DEF Quotients
  <1> HIDE DEF c, X, n
  <1>3. f \in [1..n -> [X -> X]] /\ \A k \in 1..n, m \in X: f[k][m] = m \div base
    BY <1>1
  <1> HIDE DEF f
  <1>4. PICK g: Runs(g, n, X, value, f)
    BY <1>0, <1>2, <1>3, RunExists
  <1>5. g = B(g)
    <2>1. \A k \in 0..n: g[k] = IF k = 0 THEN value ELSE g[k - 1] \div base
      BY <1>0, <1>3, <1>4 DEF Runs
    <2> QED
      BY <1>4, <2>1 DEF Runs
  <1>6. c = B(c)
    BY <1>2, <1>5
  <1>7. Runs(c, n, X, value, f)
    <2> DEFINE e == B(c)
               Y == {e[k]: k \in 0..n}
    <2>1. e \in [0..n -> Y]
      OBVIOUS
    <2>2. c[0] = value
      BY <1>0, <1>6
    <2>3. \A k \in 1..n: c[k] = c[k - 1] \div base
      BY <1>0, <1>6
    <2>4. \A k \in 1..n: c[k - 1] \in X => c[k] = f[k][c[k - 1]]
      BY <1>3, <2>3
    <2>5. c = e
      BY <1>6
    <2> HIDE DEF e, Y
    <2>6. c \in [0..n -> Y]
      BY <2>1, <2>5
    <2>7. value \in X /\ f \in [1..n -> [X -> X]]
      BY <1>2, <1>3
    <2> QED
      BY <1>0, <2>2, <2>4, <2>6, <2>7, RunIs
  <1>8. /\ c \in [0..n -> X] /\ c[0] = value
        /\ \A k \in 1..n: c[k] = c[k - 1] \div base
    BY <1>0, <1>3, <1>7 DEF Runs
  <1> QED
    BY <1>8 DEF Dividing, c, X, n

(* A value divided one turn more often is not larger. *)
LEMMA DividingMonotone ==
  ASSUME NEW v, NEW w, NEW base \in {10, 16}, NEW q, NEW r,
         Dividing(q, v, base), Dividing(r, w, base), v <= w
  PROVE  \A k \in 0..DIGITS: q[k] <= r[k]
  <1> DEFINE T == {k \in 0..DIGITS: q[k] <= r[k]}
  <1>0. DIGITS \in Nat
    BY PrintfAssumption
  <1>1. 0 \in T
    BY <1>0 DEF Dividing
  <1>2. ASSUME NEW k \in 1..DIGITS, k - 1 \in T PROVE k \in T
    <2>1. k \in 0..DIGITS /\ k - 1 \in 0..DIGITS /\ q[k - 1] <= r[k - 1]
      BY <1>0, <1>2
    <2>2. /\ q[k - 1] \in Nat /\ r[k - 1] \in Nat
          /\ q[k] = q[k - 1] \div base /\ r[k] = r[k - 1] \div base
      BY <2>1 DEF Dividing
    <2>3. \A a, b \in Nat: a <= b => a \div base <= b \div base
      OBVIOUS
    <2>4. q[k] <= r[k]
      BY <2>1, <2>2, <2>3
    <2> QED
      BY <2>1, <2>4
  <1>3. \A k \in 0..DIGITS: k \in T
    <2> HIDE DEF T
    <2> QED
      BY <1>0, <1>1, <1>2, TurnByTurn
  <1> QED
    BY <1>3

(* The loop ends when nothing is left, in at most DIGITS turns, and not before. *)
LEMMA TurnsSuffice ==
  ASSUME NEW value \in Nat, value < LONG_VALUES, NEW base \in {10, 16}
  PROVE  /\ Turns(value, base) \in 1..DIGITS
         /\ Quotients(value, base)[Turns(value, base)] = 0
         /\ \A k \in 1..(Turns(value, base) - 1): Quotients(value, base)[k] # 0
  <1> DEFINE q == Quotients(value, base)
             r == Quotients(LONG_VALUES - 1, base)
             S == {k \in 1..DIGITS: q[k] = 0} \cup {DIGITS}
  <1>1. DIGITS \in Nat \ {0} /\ LONG_VALUES - 1 \in Nat /\ value <= LONG_VALUES - 1
    BY PrintfAssumption
  <1>2. Dividing(q, value, base) /\ Dividing(r, LONG_VALUES - 1, base)
    BY <1>1, QuotientsRun
  <1>3. r[DIGITS] = 0
    BY PrintfAssumption
  <1>4. Turns(value, base) = Min(S)
    BY DEF Turns
  <1> HIDE DEF q, r
  <1>5. q[DIGITS] = 0
    <2>1. DIGITS \in 0..DIGITS
      BY <1>1
    <2>2. q[DIGITS] <= r[DIGITS]
      BY <1>1, <1>2, <2>1, DividingMonotone
    <2>3. q[DIGITS] \in Nat
      BY <1>2, <2>1 DEF Dividing
    <2> QED
      BY <1>3, <2>2, <2>3
  <1>6. S = {k \in 1..DIGITS: q[k] = 0} /\ S \in SUBSET Nat /\ S # {}
    BY <1>1, <1>5
  <1> HIDE DEF S
  <1>7. Min(S) \in S /\ \A y \in S: Min(S) <= y
    BY <1>6, MinIs
  <1>8. /\ Min(S) \in 1..DIGITS /\ q[Min(S)] = 0
        /\ \A k \in 1..(Min(S) - 1): q[k] # 0
    BY <1>1, <1>6, <1>7
  <1> QED
    BY <1>4, <1>8 DEF q

(* The characters that kvprintf prints of itself. *)
LEMMA OwnCharacters ==
  /\ "0" \in Char /\ "x" \in Char /\ "-" \in Char /\ " " \in Char /\ "%" \in Char
  /\ <<"(", "n", "u", "l", "l", ")">> \in Seq(Char)
  <1>1. lower[1] = "0"
    BY DEF lower
  <1>2. lower[1] \in Char
    <2>1. 1 \in 1..16
      OBVIOUS
    <2> QED
      BY <2>1, CharAssumption, Zenon
  <1>3. /\ "x" \in Char /\ "-" \in Char /\ " " \in Char /\ "%" \in Char
        /\ "(" \in Char /\ "n" \in Char /\ "u" \in Char /\ "l" \in Char /\ ")" \in Char
    BY CharAssumption, Zenon
  <1>4. "0" \in Char
    BY <1>1, <1>2, Zenon
  <1>5. ASSUME NEW a \in Char, NEW b \in Char, NEW c \in Char, NEW d \in Char, NEW e \in Char
        PROVE  <<a, b, c, d, d, e>> \in Seq(Char)
    OBVIOUS
  <1>6. <<"(", "n", "u", "l", "l", ")">> \in Seq(Char)
    BY <1>3, <1>5, Zenon
  <1> QED
    BY <1>3, <1>4, <1>6, Zenon

Pads(width, len) == IF width > len THEN width - len ELSE 0
PadWith(zero_pad) == IF zero_pad THEN "0" ELSE " "

(* r is chars behind p characters `pad`. *)
Padded(r, chars, p, pad) ==
  /\ r \in Seq(Char)
  /\ Len(r) = p + Len(chars)
  /\ \A i \in 1..p: r[i] = pad
  /\ \A i \in 1..Len(chars): r[p + i] = chars[i]

(* What emit_padded prints, character by character. *)
LEMMA EmitPaddedIs ==
  ASSUME NEW chars \in Seq(Char), NEW width \in Nat, NEW zero_pad \in BOOLEAN
  PROVE  Padded(EmitPadded(chars, width, zero_pad), chars, Pads(width, Len(chars)),
                PadWith(zero_pad))
  <1> DEFINE p == Pads(width, Len(chars))
  <1> DEFINE ch == IF zero_pad THEN "0" ELSE " "
             pad == [i \in 1..p |-> ch]
  <1>1. Len(chars) \in Nat /\ width - Len(chars) \in Int /\ p \in Nat
    BY DEF Pads
  <1>2. Max({0, width - Len(chars)}) = p
    BY <1>1, MaxWithZero DEF Pads
  <1> HIDE DEF p
  <1>3. EmitPadded(chars, width, zero_pad) = pad \o chars
    BY <1>2 DEF EmitPadded
  <1>4. ch \in Char
    BY OwnCharacters
  <1> HIDE DEF ch
  <1>5. pad \in Seq(Char) /\ Len(pad) = p /\ \A i \in 1..p: pad[i] = ch
    BY <1>1, <1>4
  <1> HIDE DEF pad
  <1>6. /\ pad \o chars \in Seq(Char)
        /\ Len(pad \o chars) = p + Len(chars)
        /\ \A i \in 1..p: (pad \o chars)[i] = ch
        /\ \A i \in 1..Len(chars): (pad \o chars)[p + i] = chars[i]
    BY <1>1, <1>5
  <1> QED
    BY <1>3, <1>6 DEF Padded, PadWith, ch, p

(* The table of digits. *)
Figures(upper) == IF upper THEN upper_digits ELSE lower

(* r shows the c digits that the loop's values q leave, behind p characters `pad`.   *)
Shows(r, q, c, base, table, p, pad) ==
  /\ r \in Seq(Char)
  /\ Len(r) = p + c
  /\ \A i \in 1..p: r[i] = pad
  /\ \A i \in 1..c: r[p + i] = table[1 + (q[c - i] % base)]

(* A digit has a figure in the table. *)
LEMMA FigureIs ==
  ASSUME NEW upper \in BOOLEAN, NEW v \in 0..15
  PROVE  Figures(upper)[1 + v] \in Char
  <1>1. 1 + v \in 1..16
    OBVIOUS
  <1> QED
    BY <1>1, CharAssumption DEF Figures

(* What emit_unsigned prints. *)
LEMMA EmitUnsignedShows ==
  ASSUME NEW value \in Nat, value < LONG_VALUES, NEW base \in {10, 16},
         NEW upper \in BOOLEAN, NEW width \in Nat, NEW zero_pad \in BOOLEAN
  PROVE  Shows(EmitUnsigned(value, base, upper, width, zero_pad),
               Quotients(value, base), Turns(value, base), base, Figures(upper),
               Pads(width, Turns(value, base)), PadWith(zero_pad))
  <1> DEFINE q == Quotients(value, base)
             c == Turns(value, base)
             table == Figures(upper)
             b == Backward(value, base)
             rev == [i \in DOMAIN b |-> table[1 + b[Len(b) + 1 - i]]]
             p == Pads(width, c)
             r == EmitUnsigned(value, base, upper, width, zero_pad)
  <1>1. DIGITS \in Nat /\ c \in 1..DIGITS
    BY PrintfAssumption, TurnsSuffice
  <1>2. Dividing(q, value, base)
    BY QuotientsRun
  <1>3. r = EmitPadded(rev, width, zero_pad)
    BY DEF EmitUnsigned, Figures
  <1>4. b = [i \in 1..c |-> q[i - 1] % base]
    BY DEF Backward
  <1> HIDE DEF q, c, b, table, r
  <1>5. \A i \in 0..DIGITS: q[i] \in Nat /\ q[i] % base \in 0..15
    <2>1. \A x \in Nat: x % base \in 0..15
      OBVIOUS
    <2> QED
      BY <1>2, <2>1 DEF Dividing
  <1>6. Len(b) = c /\ DOMAIN b = 1..c /\ \A i \in 1..c: b[i] = q[i - 1] % base
    BY <1>1, <1>4
  <1>7. \A i \in 1..c: rev[i] = table[1 + (q[c - i] % base)]
    <2> TAKE i \in 1..c
    <2>1. c + 1 - i \in 1..c /\ (c + 1 - i) - 1 = c - i
      BY <1>1
    <2> QED
      BY <1>6, <2>1
  <1>8. \A i \in 1..c: table[1 + (q[c - i] % base)] \in Char
    <2> TAKE i \in 1..c
    <2>1. c - i \in 0..DIGITS
      BY <1>1
    <2> QED
      BY <1>5, <2>1, FigureIs DEF table
  <1>9. rev \in Seq(Char) /\ Len(rev) = c
    <2>1. rev \in [1..c -> Char]
      <3>1. rev = [i \in 1..c |-> table[1 + b[Len(b) + 1 - i]]]
        BY <1>6
      <3>2. \A i \in 1..c: table[1 + b[Len(b) + 1 - i]] \in Char
        BY <1>6, <1>7, <1>8
      <3> QED
        BY <3>1, <3>2
    <2> HIDE DEF rev
    <2> QED
      BY <1>1, <2>1
  <1> HIDE DEF rev
  <1>10. Padded(r, rev, p, PadWith(zero_pad))
    BY <1>3, <1>9, EmitPaddedIs
  <1> HIDE DEF p
  <1>11. /\ r \in Seq(Char)
         /\ Len(r) = p + c
         /\ \A i \in 1..p: r[i] = PadWith(zero_pad)
         /\ \A i \in 1..c: r[p + i] = rev[i]
    BY <1>9, <1>10 DEF Padded
  <1>12. \A i \in 1..c: r[p + i] = table[1 + (q[c - i] % base)]
    BY <1>7, <1>11
  <1> QED
    BY <1>11, <1>12 DEF Shows, q, c, table, p, r

(* The values an argument can have: the magnitude of a negative one fits as well. *)
LEMMA WordRange ==
  ASSUME NEW word \in Nat, NEW length \in Nat
  PROVE  /\ Unsigned(word, length) \in Nat /\ Unsigned(word, length) < LONG_VALUES
         /\ Signed(word, length) \in Int
         /\ Signed(word, length) < LONG_VALUES
         /\ -Signed(word, length) < LONG_VALUES
  <1> DEFINE v == Values(length)
             u == word % v
             h == v \div 2
  <1>1. v \in Nat /\ LONG_VALUES \in Nat /\ 2 <= v /\ v <= LONG_VALUES
    BY PrintfAssumption DEF Values
  <1> HIDE DEF v
  <1>2. u \in Nat /\ u < v
    BY <1>1
  <1>3. h \in Nat /\ 1 <= h
    BY <1>1
  <1>4. Unsigned(word, length) = u
    BY DEF Unsigned, v
  <1>5. Signed(word, length) = IF u >= h THEN u - v ELSE u
    BY <1>4 DEF Signed, v
  <1> HIDE DEF u, h
  <1> QED
    BY <1>1, <1>2, <1>3, <1>4, <1>5

(* emit_unsigned and emit_signed print characters. *)
LEMMA NumberIsText ==
  ASSUME NEW width \in Nat, NEW zero_pad \in BOOLEAN
  PROVE  /\ \A value \in Nat, base \in {10, 16}, upper \in BOOLEAN:
              value < LONG_VALUES => EmitUnsigned(value, base, upper, width, zero_pad) \in Seq(Char)
         /\ \A value \in Int:
              value < LONG_VALUES => EmitSigned(value, width, zero_pad) \in Seq(Char)
  <1>1. ASSUME NEW value \in Nat, NEW base \in {10, 16}, NEW upper \in BOOLEAN, NEW w \in Nat,
               value < LONG_VALUES
        PROVE  EmitUnsigned(value, base, upper, w, zero_pad) \in Seq(Char)
    BY <1>1, EmitUnsignedShows DEF Shows
  <1>2. ASSUME NEW value \in Int, value < LONG_VALUES
        PROVE  EmitSigned(value, width, zero_pad) \in Seq(Char)
    <2>1. CASE value < 0
      <3> DEFINE m == (-(value + 1) + 1) % LONG_VALUES
                 w == IF width > 0 THEN width - 1 ELSE 0
                 e == EmitUnsigned(m, 10, FALSE, w, zero_pad)
      <3>1. LONG_VALUES \in Nat /\ 2 <= LONG_VALUES
        BY PrintfAssumption
      <3>2. m \in Nat /\ m < LONG_VALUES /\ w \in Nat
        BY <2>1, <3>1
      <3>3. e \in Seq(Char)
        <4> HIDE DEF m, w
        <4>1. 10 \in {10, 16} /\ FALSE \in BOOLEAN
          OBVIOUS
        <4> QED
          BY <1>1, <3>2, <4>1
      <3>4. EmitSigned(value, width, zero_pad) = <<"-">> \o e
        BY <2>1 DEF EmitSigned
      <3> HIDE DEF e
      <3>5. "-" \in Char
        BY OwnCharacters
      <3> QED
        BY <3>3, <3>4, <3>5
    <2>2. CASE ~ (value < 0)
      <3>1. value \in Nat /\ 10 \in {10, 16} /\ FALSE \in BOOLEAN
        BY <2>2
      <3>2. EmitSigned(value, width, zero_pad) = EmitUnsigned(value, 10, FALSE, width, zero_pad)
        BY <2>2 DEF EmitSigned
      <3> QED
        BY <1>1, <1>2, <3>1, <3>2
    <2> QED
      BY <2>1, <2>2
  <1> QED
    BY <1>1, <1>2

(* A conversion of an argument of its type prints characters. *)
LEMMA ConversionIsText ==
  ASSUME NEW d, NEW arg, Fits(d, arg)
  PROVE  Conversion(d, arg) \in Seq(Char)
  <1>1. CASE d \in Directive(Numeric) /\ arg \in Nat
    <2>1. d.width \in Nat /\ d.zero_pad \in BOOLEAN /\ d.length \in Nat /\ d.conv \in Numeric
      BY <1>1 DEF Directive
    <2>2. /\ Unsigned(arg, d.length) \in Nat /\ Unsigned(arg, d.length) < LONG_VALUES
          /\ Signed(arg, d.length) \in Int /\ Signed(arg, d.length) < LONG_VALUES
          /\ Unsigned(arg, 1) \in Nat /\ Unsigned(arg, 1) < LONG_VALUES
      BY <1>1, <2>1, WordRange
    <2>3. CASE d.conv \in {"d", "i"}
      <3>1. Conversion(d, arg) = EmitSigned(Signed(arg, d.length), d.width, d.zero_pad)
        BY <2>3 DEF Conversion
      <3> QED
        BY <2>1, <2>2, <3>1, NumberIsText
    <2>4. CASE d.conv = "u"
      <3>1. Conversion(d, arg) = EmitUnsigned(Unsigned(arg, d.length), 10, FALSE, d.width, d.zero_pad)
        BY <2>4 DEF Conversion
      <3>2. 10 \in {10, 16} /\ FALSE \in BOOLEAN
        OBVIOUS
      <3> QED
        BY <2>1, <2>2, <3>1, <3>2, NumberIsText
    <2>5. CASE d.conv \in {"x", "X"}
      <3> DEFINE up == d.conv = "X"
      <3>1. Conversion(d, arg) = EmitUnsigned(Unsigned(arg, d.length), 16, up, d.width, d.zero_pad)
        BY <2>5 DEF Conversion
      <3>2. 16 \in {10, 16} /\ up \in BOOLEAN
        OBVIOUS
      <3> HIDE DEF up
      <3> QED
        BY <2>1, <2>2, <3>1, <3>2, NumberIsText
    <2>6. CASE d.conv = "p"
      <3> DEFINE e == EmitUnsigned(Unsigned(arg, 1), 16, FALSE, POINTER_WIDTH, TRUE)
      <3>1. Conversion(d, arg) = <<"0", "x">> \o e
        BY <2>6 DEF Conversion
      <3>2. 16 \in {10, 16} /\ FALSE \in BOOLEAN /\ TRUE \in BOOLEAN /\ POINTER_WIDTH \in Nat
        BY PrintfAssumption
      <3>3. e \in Seq(Char)
        BY <2>2, <3>2, NumberIsText
      <3> HIDE DEF e
      <3>4. "0" \in Char /\ "x" \in Char
        BY OwnCharacters
      <3> QED
        BY <3>1, <3>3, <3>4
    <2> QED
      BY <2>1, <2>3, <2>4, <2>5, <2>6 DEF Numeric
  <1>2. CASE d \in Directive({"s"}) /\ (arg = NULL \/ arg \in Seq(Char))
    <2> DEFINE str == IF arg = NULL THEN <<"(", "n", "u", "l", "l", ")">> ELSE arg
    <2>1. d.width \in Nat /\ d.conv = "s" /\ FALSE \in BOOLEAN
      BY <1>2 DEF Directive
    <2>2. str \in Seq(Char)
      BY <1>2, OwnCharacters
    <2>3. Conversion(d, arg) = EmitPadded(str, d.width, FALSE)
      BY <2>1 DEF Conversion
    <2> HIDE DEF str
    <2> QED
      BY <2>1, <2>2, <2>3, EmitPaddedIs DEF Padded
  <1>3. CASE d \in Directive({"c"}) /\ arg \in Char
    <2>1. d.conv = "c"
      BY <1>3 DEF Directive
    <2>2. Conversion(d, arg) = <<arg>>
      BY <2>1 DEF Conversion
    <2> QED
      BY <1>3, <2>2
  <1> QED
    BY <1>1, <1>2, <1>3 DEF Fits

----------------------------------------------------------------------------------
(* Texts *)

(* Each of the n directives of fmt prints characters. *)
Printable(fmt, args, n) ==
  Len(fmt) = n /\ \A i \in 1..n: Piece(fmt, args, i) \in Seq(Char)

(* The directives of a well-typed format do. *)
LEMMA TextPrintable ==
  ASSUME NEW t, IsText(t)
  PROVE  Len(t.items) \in Nat /\ Printable(t.items, t.args, Len(t.items))
  <1> DEFINE fmt == t.items
             n == Len(fmt)
             taken(i) == Cardinality({j \in 1..i: fmt[j].conv \in Takes})
  <1>1. n \in Nat /\ DOMAIN fmt = 1..n
    BY DEF IsText
  <1>2. \A i \in 1..n:
          IF fmt[i].conv \in Takes THEN Fits(fmt[i], t.args[taken(i)])
          ELSE /\ fmt[i].conv \in Char \cup {"text", "end"}
               /\ fmt[i].conv = "text" => fmt[i].char \in Char
    BY <1>1 DEF IsText
  <1>3. \A i \in 1..n:
          Piece(fmt, t.args, i) = IF fmt[i].conv \in Takes
                                    THEN Conversion(fmt[i], t.args[taken(i)])
                                    ELSE Literal(fmt[i])
    BY DEF Piece
  <1> HIDE DEF fmt, n, taken
  <1>4. ASSUME NEW i \in 1..n PROVE Piece(fmt, t.args, i) \in Seq(Char)
    <2>1. CASE fmt[i].conv \in Takes
      BY <1>2, <1>3, <2>1, ConversionIsText
    <2>2. CASE fmt[i].conv \notin Takes
      <3> DEFINE d == fmt[i]
      <3>1. /\ d.conv \in Char \/ d.conv = "text" \/ d.conv = "end"
            /\ d.conv = "text" => d.char \in Char
        BY <1>2, <2>2
      <3>2. Piece(fmt, t.args, i) = Literal(d)
        BY <1>3, <2>2
      <3> HIDE DEF d
      <3>3. Literal(d) \in Seq(Char)
        <4>1. "%" \in Char
          BY OwnCharacters
        <4>2. CASE d.conv = "text"
          BY <3>1, <4>2 DEF Literal
        <4>3. CASE d.conv = "%"
          BY <4>1, <4>3 DEF Literal
        <4>4. CASE d.conv = "end"
          BY <4>4 DEF Literal
        <4>5. CASE d.conv \notin {"text", "%", "end"}
          BY <3>1, <4>1, <4>5 DEF Literal
        <4> QED
          BY <4>2, <4>3, <4>4, <4>5
      <3> QED
        BY <3>2, <3>3
    <2> QED
      BY <2>1, <2>2
  <1>5. Printable(fmt, t.args, n)
    BY <1>4 DEF Printable, n
  <1> QED
    BY <1>1, <1>5 DEF fmt, n

(* c is the text directive by directive. *)
Printing(c, fmt, args, n) ==
  /\ c \in [0..n -> Seq(Char)]
  /\ c[0] = << >>
  /\ \A k \in 1..n: c[k] = c[k - 1] \o Piece(fmt, args, k)

(* The text grows by what each directive prints. *)
LEMMA PrintedRun ==
  ASSUME NEW fmt, NEW args, NEW n \in Nat, Printable(fmt, args, n)
  PROVE  Printing(Printed(fmt, args), fmt, args, n)
  <1> DEFINE X == Seq(Char)
             J(m, k) == m \o Piece(fmt, args, k)
             f == [k \in 1..n |-> [m \in X |-> J(m, k)]]
             B(h) == [k \in 0..n |-> IF k = 0 THEN << >> ELSE J(h[k - 1], k)]
             c == Printed(fmt, args)
  <1>1. \A k \in 1..n, m \in X: J(m, k) \in X
    BY DEF Printable
  <1>2. << >> \in X /\ c = CHOOSE h: h = B(h)
    BY DEF Printed, Printable
  <1> HIDE DEF c, X, J
  <1>3. f \in [1..n -> [X -> X]] /\ \A k \in 1..n, m \in X: f[k][m] = J(m, k)
    BY <1>1
  <1> HIDE DEF f
  <1>4. PICK g: Runs(g, n, X, << >>, f)
    BY <1>2, <1>3, RunExists
  <1>5. g = B(g)
    <2>1. \A k \in 0..n: g[k] = IF k = 0 THEN << >> ELSE J(g[k - 1], k)
      BY <1>3, <1>4 DEF Runs
    <2> QED
      BY <1>4, <2>1 DEF Runs
  <1>6. c = B(c)
    BY <1>2, <1>5
  <1>7. Runs(c, n, X, << >>, f)
    <2> DEFINE e == B(c)
               Y == {e[k]: k \in 0..n}
    <2>1. e \in [0..n -> Y]
      OBVIOUS
    <2>2. c[0] = << >>
      BY <1>6
    <2>3. \A k \in 1..n: c[k] = J(c[k - 1], k)
      BY <1>6
    <2>4. \A k \in 1..n: c[k - 1] \in X => c[k] = f[k][c[k - 1]]
      BY <1>3, <2>3
    <2>5. c = e
      BY <1>6
    <2> HIDE DEF e, Y
    <2>6. c \in [0..n -> Y]
      BY <2>1, <2>5
    <2>7. << >> \in X /\ f \in [1..n -> [X -> X]]
      BY <1>2, <1>3
    <2> QED
      BY <2>2, <2>4, <2>6, <2>7, RunIs
  <1>8. /\ c \in [0..n -> X] /\ c[0] = << >>
        /\ \A k \in 1..n: c[k] = J(c[k - 1], k)
    BY <1>3, <1>7 DEF Runs
  <1> QED
    BY <1>8 DEF Printing, c, X, J

(* kvprintf prints characters. *)
LEMMA KvprintfIsText ==
  ASSUME NEW t, IsText(t)
  PROVE  Kvprintf(t.items, t.args) \in Seq(Char)
  <1> DEFINE n == Len(t.items)
  <1>1. n \in Nat /\ Printing(Printed(t.items, t.args), t.items, t.args, n)
    BY TextPrintable, PrintedRun
  <1>2. n \in 0..n
    BY <1>1
  <1> QED
    BY <1>1, <1>2 DEF Kvprintf, Printing

(* What ksnprintf leaves in a buffer, for any text. *)
LEMMA KsnprintfBounded ==
  ASSUME NEW size \in Nat, NEW text, Len(text) \in Nat
  PROVE  LET r == Ksnprintf(size, text)
             kept == Cardinality(DOMAIN r.buf) - 1
         IN  /\ DOMAIN r.buf = 0..kept
             /\ kept < size
             /\ size > 0 => r.buf[kept] = NUL
             /\ \A i \in 0..(kept - 1): r.buf[i] = text[i + 1]
             /\ size > 0 => (r.ret >= size <=> kept < Len(text))
  <1> DEFINE term == IF Len(text) < size - 1 THEN Len(text) ELSE size - 1
             S == Stored(text, size) \cup (IF size > 0 THEN {term} ELSE {})
             b == [i \in S |-> IF i = term THEN NUL ELSE text[i + 1]]
             r == Ksnprintf(size, text)
             last == IF size > 0 THEN term ELSE 0 - 1
  <1>1. r = [buf |-> b, ret |-> Len(text)]
    BY DEF Ksnprintf
  <1>2. r.buf = b /\ r.ret = Len(text)
    BY <1>1
  <1>3. S = 0..last
    BY DEF Stored
  <1>4. last \in Int /\ last >= 0 - 1 /\ (size > 0 => last = term)
    OBVIOUS
  <1>5. Cardinality(0..last) = last + 1
    <2>1. Cardinality(0..last) = IF 0 > last THEN 0 ELSE last - 0 + 1
      <3> HIDE DEF last
      <3> QED
        BY <1>4, FS_Interval
    <2> HIDE DEF last
    <2> QED
      BY <1>4, <2>1
  <1>6. DOMAIN b = 0..last /\ \A i \in 0..last: b[i] = IF i = term THEN NUL ELSE text[i + 1]
    <2> HIDE DEF last, term
    <2> QED
      BY <1>3
  <1> HIDE DEF S, b, r
  <1>7. Cardinality(DOMAIN r.buf) - 1 = last
    <2> HIDE DEF last
    <2> QED
      BY <1>2, <1>4, <1>5, <1>6
  <1>8. last < size /\ (size > 0 => (Len(text) >= size <=> last < Len(text)))
    OBVIOUS
  <1>9. size > 0 => r.buf[last] = NUL
    BY <1>2, <1>6
  <1>10. \A i \in 0..(last - 1): r.buf[i] = text[i + 1]
    <2>1. ASSUME NEW i \in 0..(last - 1) PROVE i \in 0..last /\ i # term
      OBVIOUS
    <2> QED
      BY <1>2, <1>6, <2>1
  <1> HIDE DEF last, term
  <1>11. DOMAIN r.buf = 0..last
    BY <1>2, <1>6
  <1> QED
    BY <1>2, <1>7, <1>8, <1>9, <1>10, <1>11 DEF r

(* ksnprintf stays inside its buffer, keeps a prefix and terminates it, and its      *)
(* result tells whether something was cut off, for every format and buffer size.     *)
THEOREM SnprintfIsBounded == Spec => []SnprintfBounded
  <1>1. IInv => SnprintfBounded
    <2> SUFFICES ASSUME IInv, call.op = "ksnprintf", result # None
                 PROVE  SnprintfBounded
      BY DEF SnprintfBounded, Returned
    <2> DEFINE text == Kvprintf(call.fmt.items, call.fmt.args)
    <2>1. PICK t \in Texts, n \in Sizes: call = [op |-> "ksnprintf", fmt |-> t, size |-> n]
      BY DEF IInv, Called
    <2>2. call.fmt = t /\ call.size = n /\ IsText(t) /\ n \in Nat
      BY <2>1, LibraryAssumption
    <2>3. text \in Seq(Char)
      BY <2>2, KvprintfIsText
    <2>4. result = Ksnprintf(call.size, text)
      BY DEF IInv, Answered
    <2>5. Len(text) \in Nat /\ call.size \in Nat
      BY <2>2, <2>3
    <2> HIDE DEF text
    <2>6. LET kept == Cardinality(DOMAIN result.buf) - 1
          IN  /\ DOMAIN result.buf = 0..kept
              /\ kept < call.size
              /\ call.size > 0 => result.buf[kept] = NUL
              /\ \A i \in 0..(kept - 1): result.buf[i] = text[i + 1]
              /\ call.size > 0 => (result.ret >= call.size <=> kept < Len(text))
      BY <2>4, <2>5, KsnprintfBounded
    <2> QED
      BY <2>6 DEF SnprintfBounded, text
  <1> QED
    BY <1>1, Invariance, PTL

----------------------------------------------------------------------------------
(* The MADT's entries *)

(* What one entry adds. *)
LEMMA WithEntryIs ==
  ASSUME NEW out \in Info, NEW e \in Entry
  PROVE  LET o == WithEntry(out, e)
             cpu == e.type = "local_apic" /\ e.enabled
             first == e.type = "ioapic" /\ ~out.have_ioapic
         IN  /\ o \in Info
             /\ o.enabled_cpu_count =
                  IF cpu THEN out.enabled_cpu_count + 1 ELSE out.enabled_cpu_count
             /\ o.have_ioapic <=> out.have_ioapic \/ e.type = "ioapic"
             /\ o.ioapic_address = IF first THEN e.address ELSE out.ioapic_address
             /\ o.ioapic_gsi_base = IF first THEN e.gsi_base ELSE out.ioapic_gsi_base
  <1> DEFINE o == WithEntry(out, e)
             cpu == e.type = "local_apic" /\ e.enabled
             first == e.type = "ioapic" /\ ~out.have_ioapic
  <1>1. /\ e.address \in Nat /\ e.gsi_base \in Nat
        /\ out.enabled_cpu_count \in Nat /\ out.have_ioapic \in BOOLEAN
        /\ out.ioapic_address \in Nat /\ out.ioapic_gsi_base \in Nat
    BY DEF Entry, Info
  <1>2. CASE cpu
    <2>1. o = [out EXCEPT !.enabled_cpu_count = @ + 1] /\ e.type # "ioapic"
      BY <1>2 DEF WithEntry
    <2> HIDE DEF o
    <2> QED
      BY <1>1, <1>2, <2>1 DEF Info, o
  <1>3. CASE first
    <2>1. /\ o = [out EXCEPT !.have_ioapic = TRUE, !.ioapic_address = e.address,
                            !.ioapic_gsi_base = e.gsi_base]
          /\ ~ cpu
      BY <1>3 DEF WithEntry
    <2> HIDE DEF o
    <2> QED
      BY <1>1, <1>3, <2>1 DEF Info, o
  <1>4. CASE ~ cpu /\ ~ first
    <2>1. o = out
      BY <1>4 DEF WithEntry
    <2> HIDE DEF o
    <2> QED
      BY <1>1, <1>4, <2>1 DEF o
  <1> QED
    BY <1>2, <1>3, <1>4

(* What the loop keeps. *)
Walked == [cursor: Nat, out: Info, open: BOOLEAN]

(* The loop goes on past its k-th entry. *)
GoesOn(p, madt, k) ==
  /\ p.open
  /\ p.cursor + ENTRY_HEADER <= madt.length
  /\ madt.stream[k].length # 0
  /\ p.cursor + madt.stream[k].length <= madt.length

(* Its k-th turn. *)
Visit(p, madt, k) ==
  IF GoesOn(p, madt, k)
    THEN [cursor |-> p.cursor + madt.stream[k].length, out |-> WithEntry(p.out, madt.stream[k]),
          open |-> TRUE]
    ELSE [p EXCEPT !.open = FALSE]

Begin == [cursor |-> MADT_HEADER, out |-> Cleared, open |-> TRUE]

(* c is the loop entry by entry. *)
Walking(c, madt, n) ==
  /\ c \in [0..n -> Walked]
  /\ c[0] = Begin
  /\ \A k \in 1..n: c[k] = Visit(c[k - 1], madt, k)

(* The entries of a MADT, one by one. *)
LEMMA EntryTyped ==
  ASSUME NEW madt \in Table
  PROVE  /\ Len(madt.stream) \in Nat /\ madt.length \in Nat
         /\ \A k \in 1..Len(madt.stream): madt.stream[k] \in Entry
  BY DEF Table

(* A turn keeps the types. *)
LEMMA VisitTyped ==
  ASSUME NEW madt \in Table, NEW k \in 1..Len(madt.stream), NEW p \in Walked
  PROVE  Visit(p, madt, k) \in Walked
  <1> DEFINE e == madt.stream[k]
             o == WithEntry(p.out, e)
  <1>1. e \in Entry /\ e.length \in Nat
    BY EntryTyped DEF Entry
  <1>2. p.cursor \in Nat /\ p.out \in Info
    BY DEF Walked
  <1>3. o \in Info
    BY <1>1, <1>2, WithEntryIs
  <1>4. Visit(p, madt, k) = IF GoesOn(p, madt, k)
                              THEN [cursor |-> p.cursor + e.length, out |-> o, open |-> TRUE]
                              ELSE [p EXCEPT !.open = FALSE]
    BY DEF Visit
  <1> HIDE DEF e, o
  <1>5. [cursor |-> p.cursor + e.length, out |-> o, open |-> TRUE] \in Walked
    BY <1>1, <1>2, <1>3 DEF Walked
  <1>6. [p EXCEPT !.open = FALSE] \in Walked
    BY DEF Walked
  <1> QED
    BY <1>4, <1>5, <1>6

(* The loop visits one entry per turn. *)
LEMMA WalkRun ==
  ASSUME NEW madt \in Table
  PROVE  Walking(Walk(madt), madt, Len(madt.stream))
  <1> DEFINE n == Len(madt.stream)
             X == Walked
             J(m, k) == Visit(m, madt, k)
             x == Begin
             f == [k \in 1..n |-> [m \in X |-> J(m, k)]]
             B(h) == [k \in 0..n |-> IF k = 0 THEN x ELSE J(h[k - 1], k)]
             c == Walk(madt)
  <1>1. n \in Nat
    BY EntryTyped
  <1>2. \A k \in 1..n, m \in X: J(m, k) \in X
    BY VisitTyped
  <1>3. c = CHOOSE h: h = B(h)
    BY DEF Walk, Visit, GoesOn, Begin
  <1>4. x \in X
    BY AcpiAssumption DEF Begin, Walked, Info, Cleared
  <1> HIDE DEF c, X, J, n, x
  <1>5. f \in [1..n -> [X -> X]] /\ \A k \in 1..n, m \in X: f[k][m] = J(m, k)
    BY <1>2
  <1> HIDE DEF f
  <1>6. PICK g: Runs(g, n, X, x, f)
    BY <1>1, <1>4, <1>5, RunExists
  <1>7. g = B(g)
    <2>1. \A k \in 0..n: g[k] = IF k = 0 THEN x ELSE J(g[k - 1], k)
      BY <1>1, <1>5, <1>6 DEF Runs
    <2> QED
      BY <1>6, <2>1 DEF Runs
  <1>8. c = B(c)
    BY <1>3, <1>7
  <1>9. Runs(c, n, X, x, f)
    <2> DEFINE e == B(c)
               Y == {e[k]: k \in 0..n}
    <2>1. e \in [0..n -> Y]
      OBVIOUS
    <2>2. c[0] = x
      BY <1>1, <1>8
    <2>3. \A k \in 1..n: c[k] = J(c[k - 1], k)
      BY <1>1, <1>8
    <2>4. \A k \in 1..n: c[k - 1] \in X => c[k] = f[k][c[k - 1]]
      BY <1>5, <2>3
    <2>5. c = e
      BY <1>8
    <2> HIDE DEF e, Y
    <2>6. c \in [0..n -> Y]
      BY <2>1, <2>5
    <2> QED
      BY <1>1, <1>5, <1>4, <2>2, <2>4, <2>6, RunIs
  <1>10. /\ c \in [0..n -> X] /\ c[0] = x
         /\ \A k \in 1..n: c[k] = J(c[k - 1], k)
    BY <1>1, <1>5, <1>9 DEF Runs
  <1> QED
    BY <1>10 DEF Walking, c, X, J, n, x

(* e are the places where the n entries end. *)
Ending(e, madt, n) ==
  /\ e \in [0..n -> Nat]
  /\ e[0] = MADT_HEADER
  /\ \A k \in 1..n: e[k] = e[k - 1] + madt.stream[k].length

(* Each entry ends its length behind the one before. *)
LEMMA EndsRun ==
  ASSUME NEW madt \in Table
  PROVE  Ending(Ends(madt), madt, Len(madt.stream))
  <1> DEFINE n == Len(madt.stream)
             X == Nat
             J(m, k) == m + madt.stream[k].length
             x == MADT_HEADER
             f == [k \in 1..n |-> [m \in X |-> J(m, k)]]
             B(h) == [k \in 0..n |-> IF k = 0 THEN x ELSE J(h[k - 1], k)]
             c == Ends(madt)
  <1>1. n \in Nat
    BY EntryTyped
  <1>2. \A k \in 1..n, m \in X: J(m, k) \in X
    BY EntryTyped DEF Entry
  <1>3. x \in X
    BY AcpiAssumption
  <1>4. c = CHOOSE h: h = B(h)
    BY DEF Ends
  <1> HIDE DEF c, X, J, n, x
  <1>5. f \in [1..n -> [X -> X]] /\ \A k \in 1..n, m \in X: f[k][m] = J(m, k)
    BY <1>2
  <1> HIDE DEF f
  <1>6. PICK g: Runs(g, n, X, x, f)
    BY <1>1, <1>3, <1>5, RunExists
  <1>7. g = B(g)
    <2>1. \A k \in 0..n: g[k] = IF k = 0 THEN x ELSE J(g[k - 1], k)
      BY <1>1, <1>5, <1>6 DEF Runs
    <2> QED
      BY <1>6, <2>1 DEF Runs
  <1>8. c = B(c)
    BY <1>4, <1>7
  <1>9. Runs(c, n, X, x, f)
    <2> DEFINE e == B(c)
               Y == {e[k]: k \in 0..n}
    <2>1. e \in [0..n -> Y]
      OBVIOUS
    <2>2. c[0] = x
      BY <1>1, <1>8
    <2>3. \A k \in 1..n: c[k] = J(c[k - 1], k)
      BY <1>1, <1>8
    <2>4. \A k \in 1..n: c[k - 1] \in X => c[k] = f[k][c[k - 1]]
      BY <1>5, <2>3
    <2>5. c = e
      BY <1>8
    <2> HIDE DEF e, Y
    <2>6. c \in [0..n -> Y]
      BY <2>1, <2>5
    <2> QED
      BY <1>1, <1>3, <1>5, <2>2, <2>4, <2>6, RunIs
  <1>10. /\ c \in [0..n -> X] /\ c[0] = x
         /\ \A k \in 1..n: c[k] = J(c[k - 1], k)
    BY <1>1, <1>5, <1>9 DEF Runs
  <1> QED
    BY <1>10 DEF Ending, c, X, J, n, x

(* The entry k lies in the table whole. *)
Lies(e, madt, k) ==
  /\ madt.stream[k].length # 0
  /\ e[k - 1] + ENTRY_HEADER <= madt.length
  /\ e[k] <= madt.length

(* An entry counts if it lies in the table and the one before it counts. *)
LEMMA WholeStep ==
  ASSUME NEW madt \in Table, NEW k \in 1..Len(madt.stream)
  PROVE  k \in Whole(madt) <=> (k = 1 \/ k - 1 \in Whole(madt)) /\ Lies(Ends(madt), madt, k)
  <1> DEFINE n == Len(madt.stream)
  <1>1. n \in Nat
    BY EntryTyped
  <1>2. Whole(madt) = {i \in 1..n: \A j \in 1..i: Lies(Ends(madt), madt, j)}
    BY DEF Whole, Lies
  <1> HIDE DEF n
  <1>3. k \in 1..n
    BY DEF n
  <1> QED
    BY <1>1, <1>2, <1>3

(* The CPUs and the I/O APICs among the first k entries that count. *)
Cpus(madt, k) ==
  {j \in Whole(madt): j <= k /\ madt.stream[j].type = "local_apic" /\ madt.stream[j].enabled}
Apics(madt, k) == {j \in Whole(madt): j <= k /\ madt.stream[j].type = "ioapic"}

(* out sums up the first k entries. *)
SumsUp(out, madt, k) ==
  /\ out \in Info
  /\ out.enabled_cpu_count = Cardinality(Cpus(madt, k))
  /\ out.have_ioapic <=> Apics(madt, k) # {}
  /\ out.have_ioapic =>
       \E j \in Apics(madt, k):
         /\ \A i \in Apics(madt, Len(madt.stream)): j <= i
         /\ out.ioapic_address = madt.stream[j].address
         /\ out.ioapic_gsi_base = madt.stream[j].gsi_base

(* The entries that count are numbered. *)
LEMMA WholeFinite ==
  ASSUME NEW madt \in Table
  PROVE  /\ Whole(madt) \subseteq 1..Len(madt.stream)
         /\ \A k: IsFiniteSet(Cpus(madt, k))
  <1>1. Len(madt.stream) \in Nat
    BY EntryTyped
  <1>2. Whole(madt) \subseteq 1..Len(madt.stream)
    BY DEF Whole
  <1>3. IsFiniteSet(1..Len(madt.stream))
    BY <1>1, FS_Interval
  <1>4. \A k: Cpus(madt, k) \subseteq 1..Len(madt.stream)
    BY <1>2 DEF Cpus
  <1> QED
    BY <1>2, <1>3, <1>4, FS_Subset

(* An entry that counts is added to the sum. *)
LEMMA SumsUpNext ==
  ASSUME NEW madt \in Table, NEW k \in 1..Len(madt.stream), k \in Whole(madt),
         NEW out, SumsUp(out, madt, k - 1)
  PROVE  SumsUp(WithEntry(out, madt.stream[k]), madt, k)
  <1> DEFINE e == madt.stream[k]
             o == WithEntry(out, e)
             n == Len(madt.stream)
             W == Whole(madt)
  <1>1. n \in Nat /\ k \in 1..n /\ e \in Entry /\ W \subseteq 1..n
    BY EntryTyped, WholeFinite
  <1>2. out \in Info
    BY DEF SumsUp
  <1>3. /\ o \in Info
        /\ o.enabled_cpu_count = IF e.type = "local_apic" /\ e.enabled
                                   THEN out.enabled_cpu_count + 1 ELSE out.enabled_cpu_count
        /\ o.have_ioapic <=> out.have_ioapic \/ e.type = "ioapic"
        /\ o.ioapic_address = IF e.type = "ioapic" /\ ~out.have_ioapic
                                THEN e.address ELSE out.ioapic_address
        /\ o.ioapic_gsi_base = IF e.type = "ioapic" /\ ~out.have_ioapic
                                 THEN e.gsi_base ELSE out.ioapic_gsi_base
    BY <1>1, <1>2, WithEntryIs
  <1> HIDE DEF o
  <1>4. \A j \in W: j <= k <=> j <= k - 1 \/ j = k
    BY <1>1
  <1>5. o.enabled_cpu_count = Cardinality(Cpus(madt, k))
    <2>1. CASE e.type = "local_apic" /\ e.enabled
      <3>1. Cpus(madt, k) = Cpus(madt, k - 1) \cup {k}
        BY <1>1, <1>4, <2>1 DEF Cpus
      <3>2. k \notin Cpus(madt, k - 1)
        BY <1>1 DEF Cpus
      <3>3. IsFiniteSet(Cpus(madt, k - 1))
        BY WholeFinite
      <3>4. Cardinality(Cpus(madt, k)) = Cardinality(Cpus(madt, k - 1)) + 1
        BY <3>1, <3>2, <3>3, FS_AddElement
      <3> QED
        BY <1>3, <2>1, <3>4 DEF SumsUp
    <2>2. CASE ~ (e.type = "local_apic" /\ e.enabled)
      <3>1. Cpus(madt, k) = Cpus(madt, k - 1)
        BY <1>1, <1>4, <2>2 DEF Cpus
      <3> QED
        BY <1>3, <2>2, <3>1 DEF SumsUp
    <2> QED
      BY <2>1, <2>2
  <1>6. Apics(madt, k) = IF e.type = "ioapic" THEN Apics(madt, k - 1) \cup {k} ELSE Apics(madt, k - 1)
    BY <1>1, <1>4 DEF Apics
  <1>7. o.have_ioapic <=> Apics(madt, k) # {}
    BY <1>3, <1>6 DEF SumsUp
  <1>8. ASSUME o.have_ioapic
        PROVE  \E j \in Apics(madt, k):
                 /\ \A i \in Apics(madt, n): j <= i
                 /\ o.ioapic_address = madt.stream[j].address
                 /\ o.ioapic_gsi_base = madt.stream[j].gsi_base
    <2>1. CASE out.have_ioapic
      <3>1. PICK j \in Apics(madt, k - 1):
              /\ \A i \in Apics(madt, n): j <= i
              /\ out.ioapic_address = madt.stream[j].address
              /\ out.ioapic_gsi_base = madt.stream[j].gsi_base
        BY <2>1 DEF SumsUp
      <3>2. j \in Apics(madt, k)
        BY <1>6
      <3> QED
        BY <1>3, <2>1, <3>1, <3>2
    <2>2. CASE ~ out.have_ioapic
      <3>1. e.type = "ioapic"
        BY <1>3, <1>8, <2>2
      <3>2. k \in Apics(madt, k) /\ Apics(madt, k - 1) = {}
        BY <1>6, <2>2, <3>1 DEF SumsUp
      <3>3. \A i \in Apics(madt, n): k <= i
        <4> SUFFICES ASSUME NEW i \in Apics(madt, n), ~ (k <= i) PROVE FALSE
          OBVIOUS
        <4>1. i \in W /\ i \in 1..n /\ madt.stream[i].type = "ioapic"
          BY <1>1 DEF Apics
        <4>2. i <= k - 1
          BY <1>1, <4>1
        <4>3. i \in Apics(madt, k - 1)
          BY <4>1, <4>2 DEF Apics
        <4> QED
          BY <3>2, <4>3
      <3> QED
        BY <1>3, <2>2, <3>1, <3>2, <3>3
    <2> QED
      BY <2>1, <2>2
  <1> QED
    BY <1>3, <1>5, <1>7, <1>8 DEF SumsUp, o, n

(* Where the loop stands after k entries. *)
Stands(p, madt, k) ==
  /\ p.open <=> k = 0 \/ k \in Whole(madt)
  /\ p.open => p.cursor = Ends(madt)[k]
  /\ SumsUp(p.out, madt, k)

(* One turn further. *)
LEMMA StandsNext ==
  ASSUME NEW madt \in Table, NEW k \in 1..Len(madt.stream), NEW p \in Walked,
         Stands(p, madt, k - 1)
  PROVE  Stands(Visit(p, madt, k), madt, k)
  <1> DEFINE e == madt.stream[k]
             E == Ends(madt)
             n == Len(madt.stream)
             W == Whole(madt)
             v == Visit(p, madt, k)
             o == WithEntry(p.out, e)
  <1>1. n \in Nat /\ k \in 1..n /\ W \subseteq 1..n /\ e.length \in Nat
    BY EntryTyped, WholeFinite DEF Entry
  <1>2. /\ E[k - 1] \in Nat /\ E[k] = E[k - 1] + e.length
    BY <1>1, EndsRun DEF Ending
  <1>3. k - 1 = 0 <=> k = 1
    BY <1>1
  <1>4. GoesOn(p, madt, k) <=> k \in W
    <2>1. p.open <=> k = 1 \/ k - 1 \in W
      BY <1>3 DEF Stands
    <2>2. p.open => p.cursor = E[k - 1]
      BY DEF Stands
    <2>3. p.open => (GoesOn(p, madt, k) <=> Lies(E, madt, k))
      <3> HIDE DEF E
      <3> QED
        BY <1>2, <2>2 DEF GoesOn, Lies
    <2>4. GoesOn(p, madt, k) => p.open
      BY DEF GoesOn
    <2>5. k \in W <=> (k = 1 \/ k - 1 \in W) /\ Lies(E, madt, k)
      BY WholeStep
    <2> QED
      BY <2>1, <2>3, <2>4, <2>5
  <1>5. CASE k \in W
    <2>1. v = [cursor |-> p.cursor + e.length, out |-> o, open |-> TRUE]
      BY <1>4, <1>5 DEF Visit
    <2>2. v.cursor = p.cursor + e.length /\ v.out = o /\ v.open = TRUE
      BY <2>1
    <2>3. p.cursor = E[k - 1]
      BY <1>4, <1>5 DEF GoesOn, Stands
    <2>4. SumsUp(o, madt, k)
      BY <1>5, SumsUpNext DEF Stands
    <2> HIDE DEF v, o
    <2>5. v.open <=> k = 0 \/ k \in Whole(madt)
      BY <1>5, <2>2
    <2>6. v.cursor = E[k]
      BY <1>2, <2>2, <2>3
    <2>7. Stands(v, madt, k)
      BY <2>2, <2>4, <2>5, <2>6 DEF Stands
    <2> QED
      BY <2>7 DEF v
  <1>6. CASE k \notin W
    <2>1. v = [p EXCEPT !.open = FALSE]
      BY <1>4, <1>6 DEF Visit
    <2>2. v.open = FALSE /\ v.out = p.out
      BY <2>1 DEF Walked
    <2>3. \A j \in W: j <= k <=> j <= k - 1
      BY <1>1, <1>6
    <2>4. Cpus(madt, k) = Cpus(madt, k - 1) /\ Apics(madt, k) = Apics(madt, k - 1)
      BY <2>3 DEF Cpus, Apics
    <2>5. SumsUp(p.out, madt, k)
      BY <2>4 DEF Stands, SumsUp
    <2> HIDE DEF v
    <2>6. v.open <=> k = 0 \/ k \in Whole(madt)
      BY <1>1, <1>6, <2>2
    <2>7. Stands(v, madt, k)
      BY <2>2, <2>5, <2>6 DEF Stands
    <2> QED
      BY <2>7 DEF v
  <1> QED
    BY <1>5, <1>6

(* madt_parse's loop sums up all entries that count. *)
LEMMA WalkSumsUp ==
  ASSUME NEW madt \in Table
  PROVE  SumsUp(WalkEntries(madt), madt, Len(madt.stream))
  <1> DEFINE n == Len(madt.stream)
             c == Walk(madt)
             T == {k \in 0..n: Stands(c[k], madt, k)}
  <1>1. n \in Nat
    BY EntryTyped
  <1>2. Walking(c, madt, n)
    BY WalkRun
  <1>3. WalkEntries(madt) = c[n].out
    BY DEF WalkEntries
  <1> HIDE DEF c
  <1>4. 0 \in T
    <2>1. c[0] = Begin
      BY <1>2 DEF Walking
    <2>2. Begin.open = TRUE /\ Begin.cursor = MADT_HEADER /\ Begin.out = Cleared
      BY DEF Begin
    <2>3. Ends(madt)[0] = MADT_HEADER
      BY EndsRun DEF Ending
    <2>4. Cpus(madt, 0) = {} /\ Apics(madt, 0) = {}
      BY <1>1, WholeFinite DEF Cpus, Apics
    <2>5. SumsUp(Cleared, madt, 0)
      <3>1. /\ Cleared \in Info /\ Cleared.enabled_cpu_count = 0
            /\ Cleared.have_ioapic = FALSE
        BY DEF Cleared, Info
      <3>2. Cardinality({}) = 0
        BY FS_EmptySet
      <3> QED
        BY <2>4, <3>1, <3>2 DEF SumsUp
    <2>6. Stands(Begin, madt, 0)
      BY <2>2, <2>3, <2>5 DEF Stands
    <2> QED
      BY <1>1, <2>1, <2>6
  <1>5. ASSUME NEW k \in 1..n, k - 1 \in T PROVE k \in T
    <2>1. c[k - 1] \in Walked /\ c[k] = Visit(c[k - 1], madt, k)
      BY <1>1, <1>2 DEF Walking
    <2>2. Stands(c[k - 1], madt, k - 1)
      BY <1>5
    <2>3. Stands(c[k], madt, k)
      BY <2>1, <2>2, StandsNext
    <2> QED
      BY <1>1, <2>3
  <1>6. \A k \in 0..n: k \in T
    <2> HIDE DEF T, n
    <2> QED
      BY <1>1, <1>4, <1>5, TurnByTurn
  <1>7. Stands(c[n], madt, n)
    BY <1>1, <1>6
  <1> QED
    BY <1>3, <1>7 DEF Stands

(* madt_parse reports what the first MADT listed says, from whole entries only, and  *)
(* uses no table whose checksum is bad, for every set of tables and every stream.    *)
THEOREM MadtIsExact == Spec => []MadtExact
  <1>1. IInv => MadtExact
    <2> SUFFICES ASSUME IInv, call.op = "madt_parse", result # None, result.root # Panic
                 PROVE  MadtExact
      BY DEF MadtExact, Returned
    <2> DEFINE fw == call.fw
               root == result.root
               info == result.info
               tables == [i \in DOMAIN root.lists |-> fw.table[root.lists[i]]]
               named == {i \in DOMAIN tables: tables[i].signature = "APIC"}
               madt == tables[Min(named)]
               apics(kind) == {k \in Whole(madt): madt.stream[k].type = kind}
               first == madt.stream[Min(apics("ioapic"))]
    <2>1. fw \in Firmwares /\ IsFirmware(fw)
      BY LibraryAssumption DEF IInv, Called
    <2>2. root = AcpiInit(fw) /\ info = MadtParse(fw, root)
      BY DEF IInv, Answered
    <2>3. root \in Table /\ root.sum /\ \A i \in DOMAIN root.lists: root.lists[i] \in DOMAIN fw.table
      <3> DEFINE r == fw.rsdp
                 ext == r.revision >= 2 /\ r.sum36
                 a == IF ext THEN r.xsdt ELSE r.rsdt
      <3>1. r # None /\ root = fw.table[a] /\ root.sum
        BY <2>2 DEF AcpiInit
      <3>2. a \in DOMAIN fw.table
        BY <2>1, <3>1 DEF IsFirmware
      <3> HIDE DEF a
      <3> QED
        BY <2>1, <3>1, <3>2 DEF IsFirmware
    <2> HIDE DEF root, info
    <2>4. \A i \in DOMAIN tables: tables[i] \in Table
      BY <2>1, <2>3 DEF IsFirmware
    <2>5. named \in SUBSET Nat
      BY <2>3 DEF Table
    <2>6. info = LET m == IF named = {} THEN None ELSE IF madt.sum THEN madt ELSE Panic
                 IN  IF m \in {None, Panic} THEN m ELSE WalkEntries(m)
      <3>1. named = {i \in DOMAIN root.lists: fw.table[root.lists[i]].signature = "APIC"}
        OBVIOUS
      <3>2. named # {} => madt = fw.table[root.lists[Min(named)]]
        BY <2>5, MinIs
      <3> HIDE DEF named, madt
      <3>3. AcpiFindTable(fw, root, "APIC") =
              IF named = {} THEN None ELSE IF madt.sum THEN madt ELSE Panic
        BY <3>1, <3>2 DEF AcpiFindTable
      <3> QED
        BY <2>2, <3>3 DEF MadtParse
    <2>7. named # {} => madt \in Table
      BY <2>4, <2>5, MinIs
    <2>8. named # {} => SumsUp(WalkEntries(madt), madt, Len(madt.stream))
      BY <2>7, WalkSumsUp
    <2> HIDE DEF named, madt
    <2>9. named = {} => info = None
      BY <2>6
    <2>10. None \notin Table /\ Panic \notin Table /\ None \notin Info /\ Panic \notin Info /\ None # Panic
      BY AcpiAssumption, Zenon
    <2>11. named # {} /\ ~madt.sum => info = Panic
      BY <2>6
    <2>12. named # {} /\ madt.sum => info = WalkEntries(madt) /\ info \in Info
      BY <2>6, <2>7, <2>8, <2>10 DEF SumsUp
    <2>13. info = None <=> named = {}
      BY <2>9, <2>10, <2>11, <2>12
    <2>14. named # {} => (info = Panic <=> ~madt.sum)
      BY <2>10, <2>11, <2>12
    <2>15. ASSUME info \notin {None, Panic}
           PROVE  /\ info.enabled_cpu_count =
                       Cardinality({k \in apics("local_apic"): madt.stream[k].enabled})
                  /\ info.have_ioapic <=> apics("ioapic") # {}
                  /\ info.have_ioapic => /\ info.ioapic_address = first.address
                                         /\ info.ioapic_gsi_base = first.gsi_base
      <3> DEFINE n == Len(madt.stream)
      <3>1. madt \in Table /\ SumsUp(info, madt, n)
        BY <2>7, <2>8, <2>9, <2>11, <2>12, <2>15
      <3>2. n \in Nat /\ Whole(madt) \subseteq 1..n
        BY <3>1, EntryTyped, WholeFinite
      <3>3. Cpus(madt, n) = {k \in apics("local_apic"): madt.stream[k].enabled}
        BY <3>2 DEF Cpus
      <3>4. Apics(madt, n) = apics("ioapic") /\ apics("ioapic") \in SUBSET Nat
        BY <3>2 DEF Apics
      <3> HIDE DEF n, apics
      <3>5. ASSUME info.have_ioapic
            PROVE  info.ioapic_address = first.address /\ info.ioapic_gsi_base = first.gsi_base
        <4>1. PICK j \in apics("ioapic"):
                /\ \A i \in apics("ioapic"): j <= i
                /\ info.ioapic_address = madt.stream[j].address
                /\ info.ioapic_gsi_base = madt.stream[j].gsi_base
          BY <3>1, <3>4, <3>5 DEF SumsUp, n
        <4>2. Min(apics("ioapic")) = j
          <5>1. /\ Min(apics("ioapic")) \in apics("ioapic")
                /\ \A y \in apics("ioapic"): Min(apics("ioapic")) <= y
            BY <3>4, <4>1, MinIs
          <5>2. j <= Min(apics("ioapic")) /\ Min(apics("ioapic")) <= j
            BY <4>1, <5>1
          <5>3. j \in Nat /\ Min(apics("ioapic")) \in Nat
            BY <3>4, <5>1
          <5> QED
            BY <5>2, <5>3
        <4> QED
          BY <4>1, <4>2
      <3> QED
        BY <3>1, <3>3, <3>4, <3>5 DEF SumsUp
    <2> QED
      BY <2>3, <2>13, <2>14, <2>15 DEF MadtExact, root, info, named, madt
  <1> QED
    BY <1>1, Invariance, PTL

----------------------------------------------------------------------------------
(* Reading a printed number back *)

(* The figures are distinct, and stand for the same digit in both tables. *)
LEMMA FiguresDistinct ==
  ASSUME NEW v \in 0..15, NEW w \in 0..15
  PROVE  /\ lower[v + 1] = lower[w + 1] => v = w
         /\ upper_digits[v + 1] = upper_digits[w + 1] => v = w
         /\ lower[v + 1] = upper_digits[w + 1] => v = w
  <1> DEFINE i == v + 1
             j == w + 1
  <1>1. i \in 1..16 /\ j \in 1..16 /\ (i = j => v = w)
    OBVIOUS
  <1> HIDE DEF i, j
  <1>2. lower[i] = lower[j] => i = j
    BY <1>1, SMT DEF lower
  <1>3. upper_digits[i] = upper_digits[j] => i = j
    BY <1>1, SMT DEF upper_digits
  <1>4. lower[i] = upper_digits[j] => i = j
    BY <1>1, SMT DEF lower, upper_digits
  <1> QED
    BY <1>1, <1>2, <1>3, <1>4 DEF i, j

(* A figure is read as the digit it was printed for. *)
LEMMA FigureReadBack ==
  ASSUME NEW upper \in BOOLEAN, NEW v \in 0..15
  PROVE  /\ DigitOf(Figures(upper)[1 + v]) = v
         /\ Figures(upper)[1 + v] # " "
         /\ Figures(upper)[1 + v] = "0" <=> v = 0
  <1> DEFINE ch == Figures(upper)[1 + v]
             R(w) == lower[w + 1] = ch \/ upper_digits[w + 1] = ch
  <1>1. 1 + v = v + 1
    OBVIOUS
  <1>2. ch = lower[v + 1] \/ ch = upper_digits[v + 1]
    BY <1>1 DEF Figures
  <1>3. \A w \in 0..15: R(w) => w = v
    BY <1>2, FiguresDistinct
  <1>4. R(v)
    BY <1>2
  <1>5. DigitOf(ch) = CHOOSE w \in 0..15: R(w)
    BY DEF DigitOf
  <1> HIDE DEF ch
  <1>6. DigitOf(ch) = v
    <2> HIDE DEF R
    <2> QED
      BY <1>3, <1>4, <1>5
  <1>7. ch # " "
    <2> DEFINE i == v + 1
    <2>1. i \in 1..16
      OBVIOUS
    <2> HIDE DEF i
    <2>2. lower[i] # " "
      <3>1. lower[i] \in {"0", "1", "2", "3", "4", "5", "6", "7", "8", "9",
                          "a", "b", "c", "d", "e", "f"}
        BY <2>1 DEF lower
      <3> QED
        BY <3>1, Zenon
    <2>3. upper_digits[i] # " "
      <3>1. upper_digits[i] \in {"0", "1", "2", "3", "4", "5", "6", "7", "8", "9",
                                 "A", "B", "C", "D", "E", "F"}
        BY <2>1 DEF upper_digits
      <3> QED
        BY <3>1, Zenon
    <2> QED
      BY <1>2, <2>2, <2>3 DEF i
  <1>8. ch = "0" <=> v = 0
    <2>1. 0 \in 0..15 /\ lower[0 + 1] = "0" /\ upper_digits[0 + 1] = "0"
      BY DEF lower, upper_digits
    <2>2. CASE ch = "0"
      <3>1. R(0)
        BY <2>1, <2>2
      <3> QED
        BY <1>3, <2>1, <2>2, <3>1
    <2>3. CASE v = 0
      BY <1>2, <2>1, <2>3
    <2> QED
      BY <2>2, <2>3
  <1> QED
    BY <1>6, <1>7, <1>8 DEF ch

(* s are digits. *)
Readable(s, n) == Len(s) = n /\ \A k \in 1..n: DigitOf(s[k]) \in Nat

(* c is the number read so far. *)
ReadingOf(c, s, base, n) ==
  /\ c \in [0..n -> Nat]
  /\ c[0] = 0
  /\ \A k \in 1..n: c[k] = c[k - 1] * base + DigitOf(s[k])

(* Digits are read one by one. *)
LEMMA ReadingRun ==
  ASSUME NEW base \in {10, 16}, NEW n \in Nat, NEW s, Readable(s, n)
  PROVE  ReadingOf(Reading(s, base), s, base, n)
  <1> DEFINE X == Nat
             J(m, k) == m * base + DigitOf(s[k])
             f == [k \in 1..n |-> [m \in X |-> J(m, k)]]
             B(h) == [k \in 0..n |-> IF k = 0 THEN 0 ELSE J(h[k - 1], k)]
             c == Reading(s, base)
  <1>1. \A k \in 1..n, m \in X: J(m, k) \in X
    BY DEF Readable
  <1>2. 0 \in X
    OBVIOUS
  <1>3. c = CHOOSE h: h = B(h)
    BY DEF Reading, Readable
  <1> HIDE DEF c, X, J
  <1>4. f \in [1..n -> [X -> X]] /\ \A k \in 1..n, m \in X: f[k][m] = J(m, k)
    BY <1>1
  <1> HIDE DEF f
  <1>5. PICK g: Runs(g, n, X, 0, f)
    BY <1>2, <1>4, RunExists
  <1>6. g = B(g)
    <2>1. \A k \in 0..n: g[k] = IF k = 0 THEN 0 ELSE J(g[k - 1], k)
      BY <1>4, <1>5 DEF Runs
    <2> QED
      BY <1>5, <2>1 DEF Runs
  <1>7. c = B(c)
    BY <1>3, <1>6
  <1>8. Runs(c, n, X, 0, f)
    <2> DEFINE e == B(c)
               Y == {e[k]: k \in 0..n}
    <2>1. e \in [0..n -> Y]
      OBVIOUS
    <2>2. c[0] = 0
      BY <1>7
    <2>3. \A k \in 1..n: c[k] = J(c[k - 1], k)
      BY <1>7
    <2>4. \A k \in 1..n: c[k - 1] \in X => c[k] = f[k][c[k - 1]]
      BY <1>4, <2>3
    <2>5. c = e
      BY <1>7
    <2> HIDE DEF e, Y
    <2>6. c \in [0..n -> Y]
      BY <2>1, <2>5
    <2> QED
      BY <1>2, <1>4, <2>2, <2>4, <2>6, RunIs
  <1>9. /\ c \in [0..n -> X] /\ c[0] = 0
        /\ \A k \in 1..n: c[k] = J(c[k - 1], k)
    BY <1>4, <1>8 DEF Runs
  <1> QED
    BY <1>9 DEF ReadingOf, c, X, J

(* Zeros and then the digits that the loop found spell its value. *)
LEMMA SpelledBack ==
  ASSUME NEW value \in Nat, NEW base \in {10, 16}, NEW upper \in BOOLEAN,
         NEW q, Dividing(q, value, base), NEW c \in 1..DIGITS, q[c] = 0,
         NEW z \in Nat, NEW s, Shows(s, q, c, base, Figures(upper), z, "0")
  PROVE  Spelled(s, base) = value
  <1> DEFINE n == z + c
             R == Reading(s, base)
             T == {k \in 0..n: R[k] = IF k <= z THEN 0 ELSE q[c - (k - z)]}
  <1>1. DIGITS \in Nat /\ n \in Nat /\ c \in Nat
    BY PrintfAssumption
  <1>2. \A i \in 0..DIGITS: q[i] \in Nat /\ q[i] % base \in 0..15
    <2>1. \A x \in Nat: x % base \in 0..15
      OBVIOUS
    <2> QED
      BY <2>1 DEF Dividing
  <1>3. Len(s) = n
    BY DEF Shows
  <1>4. ASSUME NEW k \in 1..z PROVE DigitOf(s[k]) = 0
    <2>1. 0 \in 0..15 /\ 1 + 0 = 1
      OBVIOUS
    <2>2. Figures(FALSE)[1] = "0" /\ FALSE \in BOOLEAN
      BY DEF Figures, lower
    <2>3. DigitOf("0") = 0
      <3>1. DigitOf(Figures(FALSE)[1 + 0]) = 0
        BY <2>1, <2>2, FigureReadBack
      <3> QED
        BY <2>1, <2>2, <3>1
    <2>4. s[k] = "0"
      BY DEF Shows
    <2> QED
      BY <2>3, <2>4
  <1>5. ASSUME NEW i \in 1..c PROVE DigitOf(s[z + i]) = q[c - i] % base
    <2>1. c - i \in 0..DIGITS
      BY <1>1
    <2>2. q[c - i] % base \in 0..15
      BY <1>2, <2>1
    <2>3. s[z + i] = Figures(upper)[1 + (q[c - i] % base)]
      BY DEF Shows
    <2> QED
      BY <2>2, <2>3, FigureReadBack
  <1>6. ASSUME NEW k \in 1..n, ~ (k <= z)
        PROVE  k - z \in 1..c /\ c - (k - z) \in 0..DIGITS /\ DigitOf(s[k]) = q[c - (k - z)] % base
    <2>1. k - z \in 1..c /\ z + (k - z) = k /\ c - (k - z) \in 0..DIGITS
      BY <1>1, <1>6
    <2> QED
      BY <1>5, <2>1
  <1>7. Readable(s, n)
    <2>1. ASSUME NEW k \in 1..n PROVE DigitOf(s[k]) \in Nat
      <3>1. CASE k <= z
        <4>1. k \in 1..z
          BY <3>1
        <4> QED
          BY <1>4, <4>1
      <3>2. CASE ~ (k <= z)
        <4>1. c - (k - z) \in 0..DIGITS /\ DigitOf(s[k]) = q[c - (k - z)] % base
          BY <1>6, <3>2
        <4> QED
          BY <1>2, <4>1
      <3> QED
        BY <3>1, <3>2
    <2> QED
      BY <1>3, <2>1 DEF Readable
  <1>8. ReadingOf(R, s, base, n)
    BY <1>1, <1>7, ReadingRun
  <1> HIDE DEF R
  <1>9. 0 \in T
    BY <1>1, <1>8 DEF ReadingOf
  <1>10. ASSUME NEW k \in 1..n, k - 1 \in T PROVE k \in T
    <2>1. R[k] = R[k - 1] * base + DigitOf(s[k])
      BY <1>8 DEF ReadingOf
    <2>2. R[k - 1] = IF k - 1 <= z THEN 0 ELSE q[c - (k - 1 - z)]
      BY <1>10
    <2>3. CASE k <= z
      <3>1. k \in 1..z /\ k - 1 <= z
        BY <2>3
      <3>2. DigitOf(s[k]) = 0 /\ R[k - 1] = 0
        BY <1>4, <2>2, <3>1
      <3>3. R[k] = 0
        BY <2>1, <3>2
      <3> QED
        BY <1>1, <2>3, <3>3
    <2>4. CASE ~ (k <= z)
      <3> DEFINE j == c - (k - z)
                 a == q[j]
      <3>1. j \in 0..DIGITS /\ j + 1 \in 1..c /\ j + 1 \in 1..DIGITS /\ DigitOf(s[k]) = a % base
        BY <1>1, <1>6, <2>4
      <3>2. a \in Nat /\ q[j + 1] = a \div base
        BY <1>2, <3>1 DEF Dividing
      <3>3. R[k - 1] = q[j + 1]
        <4>1. CASE k - 1 <= z
          <5>1. k = z + 1 /\ j + 1 = c
            BY <1>1, <2>4, <4>1
          <5> QED
            BY <2>2, <4>1, <5>1
        <4>2. CASE ~ (k - 1 <= z)
          <5>1. c - (k - 1 - z) = j + 1
            BY <1>1
          <5> QED
            BY <2>2, <4>2, <5>1
        <4> QED
          BY <4>1, <4>2
      <3> HIDE DEF a, j
      <3>4. R[k] = (a \div base) * base + (a % base)
        BY <2>1, <3>1, <3>2, <3>3
      <3>5. (a \div base) * base + (a % base) = a
        BY <3>2
      <3>6. R[k] = q[c - (k - z)]
        BY <3>4, <3>5 DEF a, j
      <3> QED
        BY <1>1, <2>4, <3>6
    <2> QED
      BY <2>3, <2>4
  <1>11. \A k \in 0..n: k \in T
    <2> HIDE DEF T, n
    <2> QED
      BY <1>1, <1>9, <1>10, TurnByTurn
  <1>12. R[n] = q[0]
    <2>1. n \in T /\ ~ (n <= z) /\ c - (n - z) = 0
      BY <1>1, <1>11
    <2> QED
      BY <2>1
  <1>13. Spelled(s, base) = R[n]
    BY <1>3 DEF Spelled, R
  <1> QED
    BY <1>12, <1>13 DEF Dividing

(* body is the number value in its base, padded to the width w. *)
ReadsBack(body, value, base, w, zero_pad) ==
  /\ body \in Seq(Char) /\ Len(body) > 0
  /\ Blanks(body) = 1..Cardinality(Blanks(body))
  /\ Digits(body) # << >>
  /\ Spelled(Digits(body), base) = value
  /\ Len(body) >= w
  /\ Len(body) > w => Blanks(body) = {} /\ Zeros(body) = {}
  /\ Blanks(body) # {} => ~zero_pad
  /\ Zeros(body) # {} => zero_pad

(* emit_unsigned's text reads back as its value. *)
LEMMA UnsignedReadsBack ==
  ASSUME NEW value \in Nat, value < LONG_VALUES, NEW base \in {10, 16},
         NEW upper \in BOOLEAN, NEW w \in Nat, NEW zero_pad \in BOOLEAN
  PROVE  ReadsBack(EmitUnsigned(value, base, upper, w, zero_pad), value, base, w, zero_pad)
  <1> DEFINE r == EmitUnsigned(value, base, upper, w, zero_pad)
             q == Quotients(value, base)
             c == Turns(value, base)
             p == Pads(w, c)
             b == IF zero_pad THEN 0 ELSE p
             z == p - b
             F(v) == Figures(upper)[1 + v]
             t == Digits(r)
  <1>1. /\ DIGITS \in Nat /\ c \in 1..DIGITS /\ c \in Nat /\ q[c] = 0
        /\ \A k \in 1..(c - 1): q[k] # 0
    BY PrintfAssumption, TurnsSuffice
  <1>2. Dividing(q, value, base)
    BY QuotientsRun
  <1>3. Shows(r, q, c, base, Figures(upper), p, PadWith(zero_pad))
    BY EmitUnsignedShows
  <1>4. p \in Nat /\ b \in Nat /\ z \in Nat /\ p = b + z /\ (~zero_pad => z = 0)
    BY <1>1 DEF Pads
  <1>5. \A i \in 0..DIGITS: q[i] \in Nat /\ q[i] % base \in 0..15
    <2>1. \A x \in Nat: x % base \in 0..15
      OBVIOUS
    <2> HIDE DEF q
    <2> QED
      BY <1>2, <2>1 DEF Dividing
  <1> HIDE DEF r, q, c, p
  <1>6. /\ r \in Seq(Char) /\ Len(r) = p + c
        /\ \A i \in 1..p: r[i] = PadWith(zero_pad)
        /\ \A i \in 1..c: r[p + i] = F(q[c - i] % base)
    BY <1>3 DEF Shows
  <1>7. \A i \in 1..c: r[p + i] # " "
    <2> TAKE i \in 1..c
    <2>1. q[c - i] % base \in 0..15
      <3>1. c - i \in 0..DIGITS
        BY <1>1
      <3> QED
        BY <1>5, <3>1
    <2> QED
      BY <1>6, <2>1, FigureReadBack
  <1>8. Blanks(r) = 1..b
    <2>1. DOMAIN r = 1..(p + c)
      BY <1>6
    <2>2. \A i \in 1..(p + c): i <= p \/ (i - p \in 1..c /\ p + (i - p) = i)
      BY <1>1, <1>4
    <2>3. CASE zero_pad
      <3>1. \A i \in 1..(p + c): r[i] # " "
        <4> TAKE i \in 1..(p + c)
        <4>1. CASE i <= p
          <5>1. r[i] = "0"
            BY <1>6, <2>3, <4>1 DEF PadWith
          <5> QED
            BY <5>1
        <4>2. CASE ~ (i <= p)
          BY <1>7, <2>2, <4>2
        <4> QED
          BY <4>1, <4>2
      <3>2. Blanks(r) = {}
        BY <2>1, <3>1 DEF Blanks
      <3>3. b = 0
        BY <2>3
      <3> HIDE DEF b
      <3> QED
        BY <3>2, <3>3
    <2>4. CASE ~ zero_pad
      <3>1. \A i \in 1..(p + c): r[i] = " " <=> i <= p
        <4> TAKE i \in 1..(p + c)
        <4>1. CASE i <= p
          <5>1. r[i] = PadWith(zero_pad)
            BY <1>4, <1>6, <4>1
          <5>2. PadWith(zero_pad) = " "
            BY <2>4 DEF PadWith
          <5> QED
            BY <4>1, <5>1, <5>2
        <4>2. CASE ~ (i <= p)
          BY <1>7, <2>2, <4>2
        <4> QED
          BY <4>1, <4>2
      <3>2. b = p
        BY <2>4
      <3> HIDE DEF b
      <3>3. Blanks(r) = {i \in 1..(p + c): i <= p}
        BY <2>1, <3>1 DEF Blanks
      <3> QED
        BY <1>1, <1>4, <3>2, <3>3
    <2> QED
      BY <2>3, <2>4
  <1> HIDE DEF b, z
  <1>9. Cardinality(Blanks(r)) = b
    <2>1. Cardinality(1..b) = IF 1 > b THEN 0 ELSE b - 1 + 1
      BY <1>4, FS_Interval
    <2> QED
      BY <1>4, <1>8, <2>1
  <1>10. t = [i \in 1..(z + c) |-> r[b + i]]
    <2>1. Len(r) - b = z + c
      BY <1>1, <1>4, <1>6
    <2> QED
      BY <1>9, <2>1 DEF Digits, Without
  <1> HIDE DEF t
  <1>11. Shows(t, q, c, base, Figures(upper), z, "0")
    <2>1. \A i \in 1..(z + c): t[i] = r[b + i] /\ b + i \in 1..Len(r)
      BY <1>1, <1>4, <1>6, <1>10
    <2>2. t \in Seq(Char) /\ Len(t) = z + c
      <3>1. \A i \in 1..(z + c): r[b + i] \in Char
        BY <1>6, <2>1
      <3> QED
        BY <1>1, <1>4, <1>10, <3>1
    <2>3. \A i \in 1..z: t[i] = "0"
      <3> TAKE i \in 1..z
      <3>1. i \in 1..(z + c) /\ b + i \in 1..p /\ zero_pad
        BY <1>1, <1>4
      <3> QED
        BY <1>6, <2>1, <3>1 DEF PadWith
    <2>4. \A i \in 1..c: t[z + i] = F(q[c - i] % base)
      <3> TAKE i \in 1..c
      <3>1. z + i \in 1..(z + c) /\ b + (z + i) = p + i
        BY <1>1, <1>4
      <3> QED
        BY <1>6, <2>1, <3>1
    <2> QED
      BY <2>2, <2>3, <2>4 DEF Shows
  <1>12. Spelled(t, base) = value
    BY <1>1, <1>2, <1>4, <1>11, SpelledBack
  <1>13. Len(t) = z + c /\ t # << >>
    <2>1. Len(t) = z + c
      BY <1>11 DEF Shows
    <2>2. Len(t) # 0
      BY <1>1, <1>4, <2>1
    <2>3. Len(<< >>) = 0
      OBVIOUS
    <2>4. t # << >>
      BY <2>2, <2>3, Zenon
    <2> QED
      BY <2>1, <2>4
  <1>14. ASSUME z = 0 PROVE Zeros(r) = {}
    <2>1. CASE c = 1
      <3>1. 1..(Len(t) - 1) = {}
        BY <1>13, <1>14, <2>1
      <3> QED
        BY <3>1 DEF Zeros, t
    <2>2. CASE c # 1
      <3>1. 1 \in 1..c /\ z + 1 = 1 /\ c - 1 \in 1..(c - 1) /\ c - 1 \in 0..DIGITS
        BY <1>1, <1>14, <2>2
      <3>2. t[1] = F(q[c - 1] % base)
        BY <1>11, <3>1 DEF Shows
      <3>3. q[c - 1] % base # 0
        <4> DEFINE a == q[c - 1]
        <4>1. a \in Nat /\ a # 0
          BY <1>1, <1>5, <3>1
        <4>2. q[c] = a \div base
          BY <1>1, <1>2 DEF Dividing
        <4>3. a \div base = 0
          BY <1>1, <4>2
        <4> HIDE DEF a
        <4>4. a % base # 0
          BY <4>1, <4>3
        <4> QED
          BY <4>4 DEF a
      <3>4. t[1] # "0"
        BY <1>5, <3>1, <3>2, <3>3, FigureReadBack
      <3>5. \A i \in 1..(Len(t) - 1): 1 \in 1..i
        BY <1>1, <1>4, <1>13
      <3>6. Zeros(r) = {i \in 1..(Len(t) - 1): \A j \in 1..i: t[j] = "0"}
        BY DEF Zeros, t
      <3> QED
        BY <3>4, <3>5, <3>6
    <2> QED
      BY <2>1, <2>2
  <1>15. Len(r) > 0 /\ Len(r) >= w
    BY <1>1, <1>4, <1>6 DEF p, Pads
  <1>16. ASSUME Len(r) > w PROVE Blanks(r) = {} /\ Zeros(r) = {}
    <2>1. p = 0
      BY <1>1, <1>6, <1>16 DEF p, Pads
    <2>2. b = 0 /\ z = 0
      BY <1>4, <2>1
    <2> QED
      BY <1>8, <1>14, <2>2
  <1>17. Blanks(r) # {} => ~zero_pad
    BY <1>8 DEF b
  <1>18. Zeros(r) # {} => zero_pad
    BY <1>4, <1>14
  <1>19. Blanks(r) = 1..Cardinality(Blanks(r))
    BY <1>8, <1>9
  <1> QED
    BY <1>6, <1>12, <1>13, <1>15, <1>16, <1>17, <1>18, <1>19 DEF ReadsBack, r, t

(* What follows the head of a text, and the head. *)
LEMMA WithoutHead ==
  ASSUME NEW h \in Seq(Char), NEW r \in Seq(Char)
  PROVE  /\ Without(h \o r, Len(h)) = r
         /\ \A i \in 1..Len(h): (h \o r)[i] = h[i]
         /\ Len(h \o r) = Len(h) + Len(r)
  <1> DEFINE m == Len(h)
             n == Len(r)
             s == h \o r
  <1>1. m \in Nat /\ n \in Nat /\ r \in [1..n -> Char]
    OBVIOUS
  <1>2. /\ Len(s) = m + n
        /\ \A i \in 1..m: s[i] = h[i]
        /\ \A i \in 1..n: s[m + i] = r[i]
    OBVIOUS
  <1> HIDE DEF m, n, s
  <1>3. Len(s) - m = n
    BY <1>1, <1>2
  <1>4. Without(s, m) = [i \in 1..n |-> s[m + i]]
    BY <1>3 DEF Without
  <1>5. Without(s, m) = r
    BY <1>1, <1>2, <1>4
  <1> QED
    BY <1>2, <1>5 DEF m, n, s

(* kvprintf of one directive prints its conversion. *)
LEMMA OneDirective ==
  ASSUME NEW d \in Directive(Numeric), NEW w \in Nat
  PROVE  Kvprintf(<<d>>, <<w>>) = Conversion(d, w) /\ Conversion(d, w) \in Seq(Char)
  <1> DEFINE fmt == <<d>>
             args == <<w>>
             x == Conversion(d, w)
             P == Printed(fmt, args)
  <1>1. x \in Seq(Char)
    BY ConversionIsText DEF Fits
  <1>2. d.conv \in Takes
    BY DEF Directive, Numeric, Takes
  <1>3. Len(fmt) = 1 /\ fmt[1] = d /\ args[1] = w
    OBVIOUS
  <1> HIDE DEF fmt, args, x
  <1>4. Cardinality({j \in 1..1: fmt[j].conv \in Takes}) = 1
    <2>1. {j \in 1..1: fmt[j].conv \in Takes} = {1}
      BY <1>2, <1>3
    <2>2. Cardinality({1}) = 1
      BY FS_Singleton
    <2> QED
      BY <2>1, <2>2
  <1>5. Piece(fmt, args, 1) = x
    BY <1>2, <1>3, <1>4 DEF Piece, x
  <1>6. Printable(fmt, args, 1)
    BY <1>1, <1>3, <1>5 DEF Printable
  <1>7. Printing(P, fmt, args, 1)
    BY <1>6, PrintedRun
  <1> HIDE DEF P
  <1>8. P[1] = P[0] \o Piece(fmt, args, 1) /\ P[0] = << >>
    <2>1. 1 \in 1..1 /\ 1 - 1 = 0
      OBVIOUS
    <2> QED
      BY <1>7, <2>1 DEF Printing
  <1>9. P[1] = x
    BY <1>1, <1>5, <1>8
  <1>10. Kvprintf(fmt, args) = x
    BY <1>3, <1>9 DEF Kvprintf, P
  <1> QED
    BY <1>1, <1>10 DEF fmt, args, x

(* text is the number value, printed for a width as NumbersReadBack asks. *)
Faithful(text, head, value, base, width, zero_pad, zero_ok) ==
  LET body == Without(text, Len(head))
  IN  /\ \A i \in 1..Len(head): text[i] = head[i]
      /\ Blanks(body) = 1..Cardinality(Blanks(body))
      /\ Digits(body) # << >>
      /\ Spelled(Digits(body), base) = value
      /\ Len(text) >= width
      /\ Len(text) > width => Blanks(body) = {} /\ Zeros(body) = {}
      /\ Blanks(body) # {} => ~zero_pad
      /\ Zeros(body) # {} => zero_ok

(* A head and a number behind it, printed for what the head leaves of the width. *)
LEMMA HeadAndNumber ==
  ASSUME NEW head \in Seq(Char), NEW body, NEW value, NEW base, NEW w \in Nat, NEW width \in Nat,
         NEW pad, ReadsBack(body, value, base, w, pad),
         width <= Len(head) + w,
         NEW zero_pad, NEW zero_ok, zero_pad => pad, pad => zero_ok,
         Len(head) + w <= width \/ w = 0
  PROVE  Faithful(head \o body, head, value, base, width, zero_pad, zero_ok)
  <1> DEFINE text == head \o body
  <1>1. body \in Seq(Char) /\ Len(body) \in Nat /\ Len(head) \in Nat
    BY DEF ReadsBack
  <1>2. /\ Without(text, Len(head)) = body
        /\ \A i \in 1..Len(head): text[i] = head[i]
        /\ Len(text) = Len(head) + Len(body)
    BY <1>1, WithoutHead
  <1> HIDE DEF text
  <1>3. Len(body) >= w /\ Len(body) > 0
    BY DEF ReadsBack
  <1>4. Len(text) >= width
    BY <1>1, <1>2, <1>3
  <1>5. Len(text) > width => Len(body) > w
    BY <1>1, <1>2, <1>3
  <1> QED
    BY <1>2, <1>4, <1>5 DEF Faithful, ReadsBack, text

(* emit_signed prints a sign and the magnitude, the most negative value's included. *)
LEMMA EmitSignedIs ==
  ASSUME NEW value \in Int, -value < LONG_VALUES, value < 0, NEW width, NEW zero_pad
  PROVE  EmitSigned(value, width, zero_pad) =
           <<"-">> \o EmitUnsigned(-value, 10, FALSE, IF width > 0 THEN width - 1 ELSE 0, zero_pad)
  <1>1. LONG_VALUES \in Nat /\ 2 <= LONG_VALUES
    BY PrintfAssumption
  <1>2. -(value + 1) + 1 = -value /\ -value \in Nat
    OBVIOUS
  <1>3. (-value) % LONG_VALUES = -value
    <2> DEFINE m == -value
    <2>1. m \in Nat /\ m < LONG_VALUES
      BY <1>2
    <2> HIDE DEF m
    <2>2. m % LONG_VALUES = m
      BY <1>1, <2>1
    <2> QED
      BY <2>2 DEF m
  <1> QED
    BY <1>2, <1>3 DEF EmitSigned

(* The heads that a number may have. *)
LEMMA Heads ==
  /\ <<"-">> \in Seq(Char) /\ Len(<<"-">>) = 1
  /\ <<"0", "x">> \in Seq(Char) /\ Len(<<"0", "x">>) = 2
  <1>1. "-" \in Char /\ "0" \in Char /\ "x" \in Char
    BY OwnCharacters, Zenon
  <1>2. <<"-">> \in Seq(Char) /\ <<"0", "x">> \in Seq(Char)
    BY <1>1
  <1>3. Len(<<"-">>) = 1 /\ Len(<<"0", "x">>) = 2
    OBVIOUS
  <1> QED
    BY <1>2, <1>3

(* A number with no head. *)
LEMMA PlainNumber ==
  ASSUME NEW value \in Nat, value < LONG_VALUES, NEW base \in {10, 16},
         NEW upper \in BOOLEAN, NEW width \in Nat, NEW zero_pad \in BOOLEAN, NEW p
  PROVE  Faithful(EmitUnsigned(value, base, upper, width, zero_pad), << >>, value, base, width,
                  zero_pad, zero_pad \/ p)
  <1> DEFINE body == EmitUnsigned(value, base, upper, width, zero_pad)
             ok == zero_pad \/ p
  <1>1. ReadsBack(body, value, base, width, zero_pad)
    BY UnsignedReadsBack
  <1> HIDE DEF body
  <1>2. << >> \in Seq(Char) /\ Len(<< >>) = 0
    OBVIOUS
  <1>3. << >> \o body = body
    BY <1>1 DEF ReadsBack
  <1>4. zero_pad => ok
    OBVIOUS
  <1> HIDE DEF ok
  <1>5. width <= Len(<< >>) + width /\ Len(<< >>) + width <= width
    BY <1>2
  <1>6. Faithful(<< >> \o body, << >>, value, base, width, zero_pad, ok)
    BY <1>1, <1>2, <1>4, <1>5, HeadAndNumber
  <1> QED
    BY <1>3, <1>6 DEF body, ok

(* What kvprintf prints for any number reads back as the number, has its width and   *)
(* is padded only up to it, for every word, width and directive.                     *)
THEOREM NumbersAreReadBack == Spec => []NumbersReadBack
  <1>1. IInv => NumbersReadBack
    <2> SUFFICES ASSUME IInv, call.op = "kvprintf", result # None
                 PROVE  NumbersReadBack
      BY DEF NumbersReadBack, Returned
    <2> DEFINE d == call.d
               w == call.w
               base == IF d.conv \in {"x", "X", "p"} THEN 16 ELSE 10
               value == IF d.conv \in {"d", "i"} THEN Signed(w, d.length)
                        ELSE Unsigned(w, IF d.conv = "p" THEN 1 ELSE d.length)
               head == CASE value < 0    -> <<"-">>
                         [] d.conv = "p" -> <<"0", "x">>
                         [] OTHER        -> << >>
               width == IF d.conv = "p" THEN POINTER_WIDTH + 2 ELSE d.width
               magnitude == IF value < 0 THEN -value ELSE value
               ok == d.zero_pad \/ d.conv = "p"
    <2>1. d \in Directive(Numeric) /\ w \in Nat
      <3>1. PICK x \in Directives, y \in Words: call = [op |-> "kvprintf", d |-> x, w |-> y]
        BY DEF IInv, Called
      <3>2. call.d = x /\ call.w = y
        BY <3>1
      <3> QED
        BY <3>2, LibraryAssumption
    <2>2. d.width \in Nat /\ d.zero_pad \in BOOLEAN /\ d.length \in Nat /\ d.conv \in Numeric
      BY <2>1 DEF Directive
    <2>3. result = Conversion(d, w)
      BY <2>1, OneDirective DEF IInv, Answered
    <2>4. /\ Unsigned(w, d.length) \in Nat /\ Unsigned(w, d.length) < LONG_VALUES
          /\ Unsigned(w, 1) \in Nat /\ Unsigned(w, 1) < LONG_VALUES
          /\ Signed(w, d.length) \in Int /\ Signed(w, d.length) < LONG_VALUES
          /\ -Signed(w, d.length) < LONG_VALUES
      BY <2>1, <2>2, WordRange
    <2>5. 10 \in {10, 16} /\ 16 \in {10, 16} /\ FALSE \in BOOLEAN /\ TRUE \in BOOLEAN
      OBVIOUS
    <2> HIDE DEF d, w
    <2>6. CASE d.conv \in {"d", "i"} /\ Signed(w, d.length) < 0
      <3> DEFINE n == -Signed(w, d.length)
                 left == IF d.width > 0 THEN d.width - 1 ELSE 0
                 body == EmitUnsigned(n, 10, FALSE, left, d.zero_pad)
      <3>1. value = Signed(w, d.length) /\ base = 10 /\ width = d.width
        BY <2>6
      <3>2. head = <<"-">> /\ magnitude = n
        BY <2>6, <3>1
      <3>3. n \in Nat /\ n < LONG_VALUES /\ left \in Nat
        BY <2>2, <2>4, <2>6
      <3>4. Conversion(d, w) = EmitSigned(Signed(w, d.length), d.width, d.zero_pad)
        BY <2>6 DEF Conversion
      <3>5. result = <<"-">> \o body
        BY <2>3, <2>4, <2>6, <3>4, EmitSignedIs
      <3>6. ReadsBack(body, n, 10, left, d.zero_pad)
        <4> HIDE DEF n, left
        <4> QED
          BY <2>2, <2>5, <3>3, UnsignedReadsBack
      <3>7. d.width <= 1 + left /\ (1 + left <= d.width \/ left = 0)
        BY <2>2
      <3>8. <<"-">> \in Seq(Char) /\ Len(<<"-">>) = 1
        BY Heads
      <3>9. d.zero_pad => ok
        OBVIOUS
      <3> HIDE DEF n, left, body, ok, head, value, base, width, magnitude
      <3>10. Faithful(<<"-">> \o body, <<"-">>, n, 10, d.width, d.zero_pad, ok)
        <4> DEFINE sign == <<"-">>
        <4>1. /\ sign \in Seq(Char) /\ d.width <= Len(sign) + left
              /\ Len(sign) + left <= d.width \/ left = 0
          BY <3>7, <3>8
        <4> HIDE DEF sign
        <4>2. Faithful(sign \o body, sign, n, 10, d.width, d.zero_pad, ok)
          BY <2>2, <3>3, <3>6, <3>9, <4>1, HeadAndNumber
        <4> QED
          BY <4>2 DEF sign
      <3>11. Faithful(result, head, magnitude, base, width, d.zero_pad, ok)
        BY <3>1, <3>2, <3>5, <3>10
      <3> QED
        BY <3>11 DEF NumbersReadBack, Faithful, d, w, ok, head, value, base, width, magnitude
    <2>7. CASE d.conv \in {"d", "i"} /\ ~ (Signed(w, d.length) < 0)
      <3> DEFINE n == Signed(w, d.length)
      <3>1. value = n /\ base = 10 /\ width = d.width /\ d.conv # "p"
        BY <2>7
      <3>2. head = << >> /\ magnitude = n
        BY <2>7, <3>1
      <3>3. n \in Nat /\ n < LONG_VALUES
        BY <2>4, <2>7
      <3>4. Conversion(d, w) = EmitSigned(n, d.width, d.zero_pad)
        BY <2>7 DEF Conversion
      <3>5. result = EmitUnsigned(n, 10, FALSE, d.width, d.zero_pad)
        BY <2>3, <2>7, <3>4 DEF EmitSigned
      <3> HIDE DEF n, head, value, base, width, magnitude
      <3>6. Faithful(result, << >>, n, 10, d.width, d.zero_pad, ok)
        BY <2>2, <2>5, <3>3, <3>5, PlainNumber
      <3> HIDE DEF ok
      <3>7. Faithful(result, head, magnitude, base, width, d.zero_pad, ok)
        BY <3>1, <3>2, <3>6
      <3> QED
        BY <3>7 DEF NumbersReadBack, Faithful, d, w, ok, head, value, base, width, magnitude
    <2>8. CASE d.conv \in {"u", "x", "X"}
      <3> DEFINE n == Unsigned(w, d.length)
                 b == IF d.conv = "u" THEN 10 ELSE 16
                 up == d.conv = "X"
      <3>1. value = n /\ base = b /\ width = d.width /\ d.conv # "p"
        BY <2>8
      <3>2. n \in Nat /\ n < LONG_VALUES /\ ~ (n < 0)
        BY <2>4
      <3>3. head = << >> /\ magnitude = n
        <4> HIDE DEF n
        <4> QED
          BY <3>1, <3>2
      <3>4. result = EmitUnsigned(n, b, up, d.width, d.zero_pad)
        BY <2>3, <2>8 DEF Conversion
      <3>5. b \in {10, 16} /\ up \in BOOLEAN
        OBVIOUS
      <3> HIDE DEF n, b, up, head, value, base, width, magnitude
      <3>6. Faithful(result, << >>, n, b, d.width, d.zero_pad, ok)
        BY <2>2, <3>2, <3>4, <3>5, PlainNumber
      <3> HIDE DEF ok
      <3>7. Faithful(result, head, magnitude, base, width, d.zero_pad, ok)
        BY <3>1, <3>3, <3>6
      <3> QED
        BY <3>7 DEF NumbersReadBack, Faithful, d, w, ok, head, value, base, width, magnitude
    <2>9. CASE d.conv = "p"
      <3> DEFINE n == Unsigned(w, 1)
                 body == EmitUnsigned(n, 16, FALSE, POINTER_WIDTH, TRUE)
                 ox == <<"0", "x">>
      <3>1. value = n /\ base = 16 /\ width = POINTER_WIDTH + 2
        BY <2>9
      <3>2. n \in Nat /\ n < LONG_VALUES /\ ~ (n < 0)
        BY <2>4
      <3>3. head = ox /\ magnitude = n
        <4> HIDE DEF n
        <4> QED
          BY <2>9, <3>1, <3>2
      <3>4. result = ox \o body
        BY <2>3, <2>9 DEF Conversion
      <3>5. POINTER_WIDTH \in Nat /\ POINTER_WIDTH + 2 \in Nat
        BY PrintfAssumption
      <3>6. ReadsBack(body, n, 16, POINTER_WIDTH, TRUE)
        <4> HIDE DEF n
        <4> QED
          BY <2>5, <3>2, <3>5, UnsignedReadsBack
      <3>7. ox \in Seq(Char) /\ Len(ox) = 2
        BY Heads
      <3>8. POINTER_WIDTH + 2 <= 2 + POINTER_WIDTH /\ 2 + POINTER_WIDTH <= POINTER_WIDTH + 2
        BY <3>5
      <3>9. ok
        BY <2>9
      <3> HIDE DEF n, body, ox, ok, head, value, base, width, magnitude
      <3>10. Faithful(ox \o body, ox, n, 16, POINTER_WIDTH + 2, d.zero_pad, ok)
        <4>1. /\ POINTER_WIDTH + 2 <= Len(ox) + POINTER_WIDTH
              /\ Len(ox) + POINTER_WIDTH <= POINTER_WIDTH + 2
          BY <3>7, <3>8
        <4>2. (d.zero_pad => TRUE) /\ (TRUE => ok)
          BY <3>9
        <4> QED
          BY <3>5, <3>6, <3>7, <4>1, <4>2, HeadAndNumber
      <3>11. Faithful(result, head, magnitude, base, width, d.zero_pad, ok)
        BY <3>1, <3>3, <3>4, <3>10
      <3> QED
        BY <3>11 DEF NumbersReadBack, Faithful, d, w, ok, head, value, base, width, magnitude
    <2> QED
      BY <2>2, <2>6, <2>7, <2>8, <2>9 DEF Numeric
  <1> QED
    BY <1>1, Invariance, PTL
====
