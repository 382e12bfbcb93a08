------------------------------- MODULE ConsoleProof -------------------------------
(* Proofs about Console for a screen of any size and any messages, written by one   *)
(* thread at a time: glyphs land inside the framebuffer, and the screen shows the   *)
(* last rows of what the serial port got.                                           *)
EXTENDS Console, FiniteSetTheorems, NaturalsInduction, WellFoundedInduction, TLAPS

----------------------------------------------------------------------------------
(* Numbers *)

(* A nonempty set of naturals has a least element. *)
LEMMA Smallest ==
  ASSUME NEW T \in SUBSET Nat, T # {}
  PROVE  \E n \in T: \A k \in T: n <= k
  <1>1. PICK n \in T: \A k \in T: ~ (<<k, n>> \in OpToRel(<, Nat))
    BY NatLessThanWellFounded, WFMin
  <1>2. \A k \in T: ~ (k < n)
    BY <1>1 DEF OpToRel
  <1> QED
    BY <1>2

(* A nonempty set of naturals with a bound has a greatest element. *)
LEMMA MaxOfBounded ==
  ASSUME NEW n \in Nat, NEW T \in SUBSET (0..n), T # {}
  PROVE  Max(T) \in T /\ \A k \in T: Max(T) >= k
  <1> DEFINE D == {n - k: k \in T}
  <1>1. D \in SUBSET Nat /\ D # {}
    <2>1. \A k \in T: n - k \in Nat
      OBVIOUS
    <2>2. PICK k \in T: TRUE
      OBVIOUS
    <2>3. n - k \in D
      OBVIOUS
    <2>4. D \in SUBSET Nat
      BY <2>1
    <2> QED
      BY <2>3, <2>4
  <1>2. PICK d \in D: \A k \in D: d <= k
    <2> HIDE DEF D
    <2> QED
      BY <1>1, Smallest
  <1>3. PICK g \in T: d = n - g
    OBVIOUS
  <1>4. \A k \in T: g >= k
    <2> TAKE k \in T
    <2>1. n - k \in D /\ n - g <= n - k
      BY <1>2, <1>3
    <2> QED
      BY <2>1
  <1> QED
    BY <1>3, <1>4 DEF Max

(* The remainder goes up by one, or back to zero. *)
LEMMA NextRemainder ==
  ASSUME NEW a \in Nat, NEW c \in Nat \ {0}
  PROVE  /\ a % c \in 0..(c - 1)
         /\ (a + 1) % c = IF (a % c) + 1 = c THEN 0 ELSE (a % c) + 1
  <1> DEFINE q == a \div c
             r == a % c
  <1>1. q \in Nat /\ r \in 0..(c - 1) /\ a = c * q + r
    OBVIOUS
  <1>2. ASSUME NEW b \in Nat, NEW m \in Nat, NEW z \in Nat, z < c, b = c * m + z
        PROVE  b % c = z
    BY <1>2
  <1> HIDE DEF q, r
  <1>3. CASE r + 1 = c
    <2>1. a + 1 = c * (q + 1) + 0
      BY <1>1, <1>3
    <2>2. (a + 1) % c = 0
      BY <1>1, <1>2, <2>1
    <2> QED
      BY <1>1, <1>3, <2>2 DEF r
  <1>4. CASE r + 1 # c
    <2>1. a + 1 = c * q + (r + 1) /\ r + 1 \in Nat /\ r + 1 < c
      BY <1>1, <1>4
    <2>2. (a + 1) % c = r + 1
      BY <1>1, <1>2, <2>1
    <2> QED
      BY <1>1, <1>4, <2>2 DEF r
  <1> QED
    BY <1>3, <1>4

----------------------------------------------------------------------------------
(* Where characters belong *)

(* A line starts after a newline at or before i, if there is one. *)
LEMMA LineStartType ==
  ASSUME NEW s, NEW i \in Nat
  PROVE  LineStart(s, i) \in 0..i
  <1> DEFINE T == {0} \cup {k \in 1..i: s[k][1] = NL}
  <1>1. T \in SUBSET (0..i) /\ T # {}
    OBVIOUS
  <1> HIDE DEF T
  <1>2. Max(T) \in T
    BY <1>1, MaxOfBounded
  <1> QED
    BY <1>1, <1>2 DEF LineStart, T

(* A newline starts a line, any other character stays in its line. *)
LEMMA LineStartStep ==
  ASSUME NEW s, NEW i \in Nat \ {0}
  PROVE  LineStart(s, i) = IF s[i][1] = NL THEN i ELSE LineStart(s, i - 1)
  <1>1. CASE s[i][1] = NL
    <2> DEFINE T == {0} \cup {k \in 1..i: s[k][1] = NL}
    <2>1. T \in SUBSET (0..i) /\ T # {} /\ i \in T
      BY <1>1
    <2> HIDE DEF T
    <2>2. Max(T) \in T /\ Max(T) >= i
      BY <2>1, MaxOfBounded
    <2>3. Max(T) \in 0..i
      BY <2>1, <2>2
    <2>4. Max(T) = i
      BY <2>2, <2>3
    <2> QED
      BY <1>1, <2>4 DEF LineStart, T
  <1>2. CASE s[i][1] # NL
    <2>1. {k \in 1..i: s[k][1] = NL} = {k \in 1..(i - 1): s[k][1] = NL}
      BY <1>2
    <2> QED
      BY <1>2, <2>1 DEF LineStart
  <1> QED
    BY <1>1, <1>2

(* The column of the cursor is one of the screen. *)
LEMMA ColumnType ==
  ASSUME NEW s, NEW i \in Nat
  PROVE  ColumnAfter(s, i) \in 0..(Cols - 1)
  <1>1. i - LineStart(s, i) \in Nat
    BY LineStartType
  <1> QED
    BY <1>1, NextRemainder, ConsoleAssumption DEF ColumnAfter

(* The rows are counted from 0. *)
LEMMA RowType ==
  ASSUME NEW s, NEW i \in Nat
  PROVE  RowAfter(s, i) \in Nat
  <1> DEFINE T == {k \in 1..i: ColumnAfter(s, k) = 0}
  <1>1. IsFiniteSet(1..i) /\ T \in SUBSET (1..i)
    BY FS_Interval
  <1> HIDE DEF T
  <1>2. IsFiniteSet(T)
    BY <1>1, FS_Subset
  <1>3. Cardinality(T) \in Nat
    BY <1>2, FS_CardinalityType
  <1> QED
    BY <1>3 DEF RowAfter, T

(* A character advances the cursor by one column, or to the start of the next row. *)
LEMMA CursorStep ==
  ASSUME NEW s, NEW i \in Nat \ {0}
  PROVE  IF s[i][1] = NL \/ ColumnAfter(s, i - 1) + 1 = Cols
           THEN ColumnAfter(s, i) = 0 /\ RowAfter(s, i) = RowAfter(s, i - 1) + 1
           ELSE /\ ColumnAfter(s, i) = ColumnAfter(s, i - 1) + 1
                /\ RowAfter(s, i) = RowAfter(s, i - 1)
  <1>0. Cols \in Nat \ {0} /\ i - 1 \in Nat
    BY ConsoleAssumption
  <1>1. ColumnAfter(s, i) = IF s[i][1] = NL \/ ColumnAfter(s, i - 1) + 1 = Cols
                              THEN 0 ELSE ColumnAfter(s, i - 1) + 1
    <2>1. CASE s[i][1] = NL
      <3>1. LineStart(s, i) = i /\ i - i = 0
        BY <2>1, LineStartStep
      <3>2. 0 % Cols = 0
        BY <1>0
      <3> QED
        BY <2>1, <3>1, <3>2 DEF ColumnAfter
    <2>2. CASE s[i][1] # NL
      <3> DEFINE a == (i - 1) - LineStart(s, i - 1)
      <3>1. LineStart(s, i) = LineStart(s, i - 1)
        BY <2>2, LineStartStep
      <3>2. a \in Nat /\ i - LineStart(s, i) = a + 1
        BY <1>0, <3>1, LineStartType
      <3>3. (a + 1) % Cols = IF (a % Cols) + 1 = Cols THEN 0 ELSE (a % Cols) + 1
        <4> HIDE DEF a
        <4> QED
          BY <1>0, <3>2, NextRemainder
      <3> QED
        BY <2>2, <3>2, <3>3 DEF ColumnAfter
    <2> QED
      BY <2>1, <2>2
  <1> DEFINE T == {k \in 1..(i - 1): ColumnAfter(s, k) = 0}
             U == {k \in 1..i: ColumnAfter(s, k) = 0}
  <1>2. IsFiniteSet(T) /\ i \notin T
    <2>1. IsFiniteSet(1..(i - 1)) /\ T \in SUBSET (1..(i - 1))
      BY <1>0, FS_Interval
    <2>2. i \notin T
      BY <1>0
    <2> HIDE DEF T
    <2> QED
      BY <2>1, <2>2, FS_Subset
  <1>3. RowAfter(s, i) = IF ColumnAfter(s, i) = 0 THEN RowAfter(s, i - 1) + 1
                         ELSE RowAfter(s, i - 1)
    <2>1. CASE ColumnAfter(s, i) = 0
      <3>1. U = T \cup {i}
        BY <1>0, <2>1
      <3> HIDE DEF T, U
      <3>2. Cardinality(U) = Cardinality(T) + 1
        BY <1>2, <3>1, FS_AddElement
      <3> QED
        BY <2>1, <3>2 DEF RowAfter, T, U
    <2>2. CASE ColumnAfter(s, i) # 0
      <3>1. U = T
        BY <1>0, <2>2
      <3> QED
        BY <2>2, <3>1 DEF RowAfter
    <2> QED
      BY <2>1, <2>2
  <1>4. ColumnAfter(s, i - 1) \in 0..(Cols - 1)
    BY <1>0, ColumnType
  <1> QED
    BY <1>0, <1>1, <1>3, <1>4

(* The cursor is further on after j characters than after i. *)
Before(s, i, j) ==
  \/ RowAfter(s, i) < RowAfter(s, j)
  \/ RowAfter(s, i) = RowAfter(s, j) /\ ColumnAfter(s, i) < ColumnAfter(s, j)

(* The cursor never comes back to a cell it has left. *)
LEMMA CursorAdvances ==
  ASSUME NEW s, NEW i \in Nat, NEW j \in Nat, i < j
  PROVE  Before(s, i, j)
  <1> DEFINE Bad == {n \in Nat: i < n /\ ~Before(s, i, n)}
  <1>1. Bad = {}
    <2> SUFFICES ASSUME Bad # {} PROVE FALSE
      OBVIOUS
    <2>1. PICK n \in Bad: \A k \in Bad: n <= k
      <3>1. Bad \in SUBSET Nat
        OBVIOUS
      <3> HIDE DEF Bad
      <3> QED
        BY <3>1, Smallest
    <2>2. n \in Nat \ {0} /\ i < n /\ ~Before(s, i, n) /\ n - 1 \in Nat
      OBVIOUS
    <2>3. n - 1 \notin Bad
      <3> HIDE DEF Bad
      <3> QED
        BY <2>1, <2>2
    <2>4. n - 1 = i \/ Before(s, i, n - 1)
      <3>1. i < n - 1 => Before(s, i, n - 1)
        <4> HIDE DEF Before
        <4> QED
          BY <2>2, <2>3
      <3> QED
        BY <2>2, <3>1
    <2> HIDE DEF Bad
    <2>5. /\ RowAfter(s, i) \in Nat /\ ColumnAfter(s, i) \in 0..(Cols - 1)
          /\ RowAfter(s, n) \in Nat /\ ColumnAfter(s, n) \in 0..(Cols - 1)
          /\ RowAfter(s, n - 1) \in Nat /\ ColumnAfter(s, n - 1) \in 0..(Cols - 1)
      BY <2>2, RowType, ColumnType
    <2>6. \/ ColumnAfter(s, n) = 0 /\ RowAfter(s, n) = RowAfter(s, n - 1) + 1
          \/ /\ ColumnAfter(s, n) = ColumnAfter(s, n - 1) + 1
             /\ RowAfter(s, n) = RowAfter(s, n - 1)
      BY <2>2, CursorStep
    <2> QED
      BY <2>2, <2>4, <2>5, <2>6, ConsoleAssumption DEF Before
  <1>2. j \notin Bad
    <2> HIDE DEF Bad
    <2> QED
      BY <1>1
  <1> HIDE DEF Before
  <1> QED
    BY <1>2

(* Both sequences begin with the same n characters. *)
SamePrefix(s, t, n) == \A k \in 1..n: s[k] = t[k]

(* Where the first characters belong does not depend on what is sent later. *)
LEMMA PrefixDecides ==
  ASSUME NEW s, NEW t, NEW n \in Nat, SamePrefix(s, t, n), NEW i \in 0..n
  PROVE  RowAfter(s, i) = RowAfter(t, i) /\ ColumnAfter(s, i) = ColumnAfter(t, i)
  <1>1. ASSUME NEW m \in 0..n PROVE ColumnAfter(s, m) = ColumnAfter(t, m)
    <2>1. {k \in 1..m: s[k][1] = NL} = {k \in 1..m: t[k][1] = NL}
      BY DEF SamePrefix
    <2> QED
      BY <2>1 DEF ColumnAfter, LineStart
  <1>2. {k \in 1..i: ColumnAfter(s, k) = 0} = {k \in 1..i: ColumnAfter(t, k) = 0}
    <2>1. \A k \in 1..i: k \in 0..n
      OBVIOUS
    <2> QED
      BY <1>1, <2>1
  <1> QED
    BY <1>1, <1>2 DEF RowAfter

Sent == Char \X Color

(* Sending c after s puts it where the cursor is after s, and nothing else anywhere. *)
LEMMA DrawnAppend ==
  ASSUME NEW s \in Seq(Sent), NEW c \in Sent, NEW y, NEW x
  PROVE  DrawnAt(Append(s, c), y, x) =
           DrawnAt(s, y, x) \cup
           (IF c[1] # NL /\ RowAfter(s, Len(s)) = y /\ ColumnAfter(s, Len(s)) = x
              THEN {Len(s) + 1} ELSE {})
  <1> DEFINE t == Append(s, c)
             n == Len(s)
  <1>1. n \in Nat /\ Len(t) = n + 1 /\ t[n + 1] = c /\ \A k \in 1..n: t[k] = s[k]
    OBVIOUS
  <1> HIDE DEF t, n
  <1>2. \A i \in 0..n: RowAfter(t, i) = RowAfter(s, i) /\ ColumnAfter(t, i) = ColumnAfter(s, i)
    <2>1. SamePrefix(t, s, n)
      BY <1>1 DEF SamePrefix
    <2> QED
      BY <1>1, <2>1, PrefixDecides
  <1>3. \A i \in 1..n: i \in DrawnAt(t, y, x) <=> i \in DrawnAt(s, y, x)
    <2> TAKE i \in 1..n
    <2>1. i - 1 \in 0..n /\ i \in 1..(n + 1) /\ t[i] = s[i]
      BY <1>1
    <2> QED
      BY <1>1, <1>2, <2>1 DEF DrawnAt, n
  <1>4. n + 1 \in DrawnAt(t, y, x) <=>
          c[1] # NL /\ RowAfter(s, n) = y /\ ColumnAfter(s, n) = x
    <2>1. (n + 1) - 1 = n /\ n \in 0..n /\ n + 1 \in 1..(n + 1)
      BY <1>1
    <2> QED
      BY <1>1, <1>2, <2>1 DEF DrawnAt
  <1>5. DrawnAt(s, y, x) \subseteq 1..n
    BY DEF DrawnAt, n
  <1>6. DrawnAt(t, y, x) \subseteq 1..(n + 1)
    BY <1>1 DEF DrawnAt
  <1> QED
    BY <1>1, <1>3, <1>4, <1>5, <1>6 DEF t, n

(* A cell other than the one under the cursor keeps its glyph. *)
LEMMA GlyphElsewhere ==
  ASSUME NEW s \in Seq(Sent), NEW c \in Sent, NEW y, NEW x,
         ~ (c[1] # NL /\ RowAfter(s, Len(s)) = y /\ ColumnAfter(s, Len(s)) = x)
  PROVE  Glyph(Append(s, c), y, x) = Glyph(s, y, x)
  <1> DEFINE Here == c[1] # NL /\ RowAfter(s, Len(s)) = y /\ ColumnAfter(s, Len(s)) = x
  <1>1. DrawnAt(Append(s, c), y, x) = DrawnAt(s, y, x)
    <2>1. DrawnAt(Append(s, c), y, x) =
            DrawnAt(s, y, x) \cup (IF Here THEN {Len(s) + 1} ELSE {})
      BY DrawnAppend
    <2>2. ~Here
      OBVIOUS
    <2> HIDE DEF Here
    <2> QED
      BY <2>1, <2>2
  <1>2. \A i \in DrawnAt(s, y, x): Append(s, c)[i] = s[i]
    BY DEF DrawnAt
  <1> QED
    BY <1>1, <1>2 DEF Glyph

(* The last character sent is to be seen where the cursor was before it. *)
LEMMA GlyphLast ==
  ASSUME NEW s \in Seq(Sent), s # << >>, s[Len(s)][1] # NL
  PROVE  Glyph(s, RowAfter(s, Len(s) - 1), ColumnAfter(s, Len(s) - 1)) = s[Len(s)]
  <1> DEFINE n == Len(s)
             y == RowAfter(s, n - 1)
             x == ColumnAfter(s, n - 1)
  <1>1. n \in Nat \ {0} /\ n - 1 \in Nat
    OBVIOUS
  <1>2. y \in Nat /\ x \in 0..(Cols - 1)
    <2> HIDE DEF n
    <2> QED
      BY <1>1, RowType, ColumnType
  <1>3. n \in DrawnAt(s, y, x)
    BY <1>1 DEF DrawnAt
  <1>4. ASSUME NEW i \in DrawnAt(s, y, x), i # n PROVE FALSE
    <2>1. i - 1 \in Nat /\ i - 1 < n - 1 /\ RowAfter(s, i - 1) = y /\ ColumnAfter(s, i - 1) = x
      BY <1>1, <1>4 DEF DrawnAt
    <2>2. Before(s, i - 1, n - 1)
      <3> HIDE DEF n, y, x
      <3> QED
        BY <1>1, <2>1, CursorAdvances
    <2>3. y < y \/ x < x
      BY <2>1, <2>2 DEF Before
    <2> HIDE DEF y, x
    <2> QED
      BY <1>2, <2>3, ConsoleAssumption
  <1>5. DrawnAt(s, y, x) = {n}
    BY <1>3, <1>4
  <1> QED
    BY <1>5 DEF Glyph

(* Nothing belongs in a row the cursor has just entered. *)
LEMMA FreshRowBlank ==
  ASSUME NEW s \in Seq(Sent), ColumnAfter(s, Len(s)) = 0, NEW x \in Col
  PROVE  Glyph(s, RowAfter(s, Len(s)), x) = Blank
  <1> DEFINE n == Len(s)
             y == RowAfter(s, n)
  <1>1. n \in Nat /\ y \in Nat
    BY RowType
  <1>2. DrawnAt(s, y, x) = {}
    <2> SUFFICES ASSUME NEW i \in DrawnAt(s, y, x) PROVE FALSE
      OBVIOUS
    <2>1. i - 1 \in Nat /\ i - 1 < n /\ RowAfter(s, i - 1) = y
      BY <1>1 DEF DrawnAt
    <2>2. Before(s, i - 1, n) /\ ColumnAfter(s, i - 1) \in 0..(Cols - 1)
      <3> HIDE DEF n, y
      <3> QED
        BY <1>1, <2>1, CursorAdvances, ColumnType
    <2>3. y < y \/ ColumnAfter(s, i - 1) < 0
      BY <2>1, <2>2 DEF Before
    <2> HIDE DEF y
    <2> QED
      BY <1>1, <2>2, <2>3, ConsoleAssumption
  <1> QED
    BY <1>2 DEF Glyph

----------------------------------------------------------------------------------
(* The invariant *)

(* The first row on the screen once the cursor has settled after i characters. *)
TopAfter(s, i) == IF RowAfter(s, i) < Rows THEN 0 ELSE RowAfter(s, i) - Rows + 1

CursorAt(s, i, x, y) == x = ColumnAfter(s, i) /\ y = RowAfter(s, i) - TopAfter(s, i)

(* The cells cs show s, in the rows that were on the screen after i characters. *)
Shows(s, i, cs) == \A r \in Row, x \in Col: cs[r][x] = Glyph(s, TopAfter(s, i) + r, x)

(* The same but for the cell under the cursor after i characters. *)
ShowsElsewhere(s, i, cs) ==
  \A r \in Row, x \in Col:
    TopAfter(s, i) + r # RowAfter(s, i) \/ x # ColumnAfter(s, i) =>
      cs[r][x] = Glyph(s, TopAfter(s, i) + r, x)

PC == {"idle", "emit", "draw", "forward", "wrap", "newline", "scroll", "clamp", "next"}

ConsoleType ==
  /\ fb_ready \in BOOLEAN
  /\ cells \in [Row -> [Col -> Sent \cup {Blank}]]
  /\ sent \in Seq(Sent)
  /\ pc \in [Writer -> PC]
  /\ todo \in [Writer -> Seq(Char)]
  /\ color \in [Writer -> Color \cup {Blank}]

(* What the writer w is about, from log_write's first character to its last. *)
WriterOK(w) ==
  /\ pc[w] # "idle" => /\ todo[w] # << >> /\ color[w] \in Color
                       /\ current_fb_color = color[w]
  /\ pc[w] \notin {"idle", "emit"} => /\ sent # << >>
                                      /\ sent[Len(sent)] = <<Head(todo[w]), color[w]>>
  /\ pc[w] \in {"draw", "forward", "wrap"} => Head(todo[w]) # NL
  /\ pc[w] = "newline" => Head(todo[w]) = NL
  /\ pc[w] \notin {"idle", "emit", "next"} => fb_ready

(* The screen and the cursor when the writer is at p and s was sent: before, within *)
(* and after the statements of fb_console_putc.                                     *)
ScreenOK(p, s, cs, x, y) ==
  /\ p \in {"idle", "emit", "next"} => CursorAt(s, Len(s), x, y) /\ Shows(s, Len(s), cs)
  /\ p \in {"draw", "newline", "forward"} => CursorAt(s, Len(s) - 1, x, y)
  /\ p = "draw" => ShowsElsewhere(s, Len(s) - 1, cs)
  /\ p \in {"newline", "forward", "wrap", "scroll"} => Shows(s, Len(s) - 1, cs)
  /\ p = "wrap" => CursorAt(s, Len(s) - 1, x - 1, y) /\ x \in Nat
  /\ p = "scroll" => /\ x = ColumnAfter(s, Len(s))
                     /\ y = RowAfter(s, Len(s)) - TopAfter(s, Len(s) - 1)
  /\ p = "clamp" => /\ CursorAt(s, Len(s), x, Rows - 1)
                    /\ Shows(s, Len(s), cs)

ConsoleInv(w) ==
  /\ ConsoleType
  /\ WriterOK(w)
  /\ fb_ready => ScreenOK(pc[w], sent, cells, cursor_col, cursor_row)
  /\ ~outside

(* The settled cursor is on the screen. *)
LEMMA CursorOnScreen ==
  ASSUME NEW s, NEW i \in Nat
  PROVE  /\ RowAfter(s, i) \in Nat /\ TopAfter(s, i) \in Nat
         /\ RowAfter(s, i) - TopAfter(s, i) \in Row
         /\ ColumnAfter(s, i) \in Col
  BY RowType, ColumnType, ConsoleAssumption DEF TopAfter, Row, Col

(* The console starts with an empty screen and the cursor in its corner. *)
LEMMA InitConsole ==
  ASSUME NEW w, Writer = {w}, Init
  PROVE  ConsoleInv(w)
  <1>1. Len(sent) = 0 /\ sent = << >> /\ sent \in Seq(Sent)
    BY DEF Init
  <1>2. RowAfter(sent, 0) = 0 /\ ColumnAfter(sent, 0) = 0
    <2>1. {k \in 1..0: ColumnAfter(sent, k) = 0} = {}
      OBVIOUS
    <2>2. RowAfter(sent, 0) = 0
      BY <2>1, FS_EmptySet DEF RowAfter
    <2>3. LineStart(sent, 0) = 0
      BY LineStartType
    <2>4. 0 - 0 = 0 /\ 0 % Cols = 0
      BY ConsoleAssumption
    <2> QED
      BY <2>2, <2>3, <2>4 DEF ColumnAfter
  <1>3. TopAfter(sent, 0) = 0
    BY <1>2, ConsoleAssumption DEF TopAfter
  <1>4. \A r \in Row, x \in Col: Glyph(sent, 0 + r, x) = Blank
    <2> TAKE r \in Row, x \in Col
    <2>1. DrawnAt(sent, 0 + r, x) = {}
      BY <1>1 DEF DrawnAt
    <2> QED
      BY <2>1 DEF Glyph
  <1>5. ConsoleType
    BY <1>1 DEF Init, ConsoleType, PC
  <1>6. pc[w] = "idle" /\ WriterOK(w)
    BY DEF Init, WriterOK
  <1>7. CursorAt(sent, 0, cursor_col, cursor_row)
    BY <1>2, <1>3 DEF Init, CursorAt
  <1>8. Shows(sent, 0, cells)
    BY <1>3, <1>4 DEF Init, Shows
  <1>9. ScreenOK("idle", sent, cells, cursor_col, cursor_row)
    BY <1>1, <1>7, <1>8 DEF ScreenOK
  <1> QED
    BY <1>5, <1>6, <1>9 DEF ConsoleInv, Init

(* log_write leaves the screen to log_emit. *)
LEMMA LogWriteConsole ==
  ASSUME NEW w, Writer = {w}, NEW m \in Messages, ConsoleInv(w), LogWrite(w, m)
  PROVE  ConsoleInv(w)'
  <1>1. m.text \in Seq(Char) /\ m.text # << >> /\ m.color \in Color
    BY ConsoleAssumption
  <1>2. ConsoleType'
    BY <1>1 DEF ConsoleInv, ConsoleType, LogWrite, Goto, PC, screen, cursor
  <1>3. pc'[w] = "emit" /\ todo'[w] = m.text /\ color'[w] = m.color /\ pc[w] = "idle"
    BY DEF ConsoleInv, ConsoleType, LogWrite, Goto
  <1>4. WriterOK(w)'
    BY <1>1, <1>3 DEF LogWrite, WriterOK
  <1>5. ScreenOK("idle", sent, cells, cursor_col, cursor_row) =>
          ScreenOK("emit", sent, cells, cursor_col, cursor_row)
    BY DEF ScreenOK
  <1> QED
    BY <1>2, <1>3, <1>4, <1>5 DEF ConsoleInv, LogWrite, screen, cursor

(* log_emit: what was shown stays right, but for the cell about to be drawn. *)
LEMMA EmitConsole ==
  ASSUME NEW w, Writer = {w}, ConsoleInv(w), Emit(w)
  PROVE  ConsoleInv(w)'
  <1> DEFINE c == <<Head(todo[w]), color[w]>>
             n == Len(sent)
  <1>1. /\ pc[w] = "emit" /\ sent \in Seq(Sent) /\ c \in Sent /\ c[1] = Head(todo[w])
        /\ fb_ready \in BOOLEAN
        /\ sent' = Append(sent, c)
        /\ UNCHANGED <<fb_ready, cells, outside, cursor_col, cursor_row, current_fb_color, todo, color>>
    BY DEF ConsoleInv, ConsoleType, WriterOK, Emit, Sent, screen, cursor
  <1>2. pc'[w] = IF ~fb_ready THEN "next" ELSE IF c[1] = NL THEN "newline" ELSE "draw"
    BY DEF ConsoleInv, ConsoleType, Emit, Goto
  <1>3. ConsoleType'
    BY <1>1 DEF ConsoleInv, ConsoleType, Emit, Goto, PC
  <1>4. n \in Nat /\ Len(sent') = n + 1 /\ sent'[n + 1] = c /\ sent' # << >>
        /\ SamePrefix(sent', sent, n)
    BY <1>1 DEF SamePrefix
  <1>5. WriterOK(w)'
    <2>1. todo[w] # << >> /\ color[w] \in Color /\ current_fb_color = color[w]
      BY <1>1 DEF ConsoleInv, WriterOK
    <2>2. c[1] = NL => Head(todo[w]) = NL
      BY <1>1
    <2> HIDE DEF n
    <2> QED
      BY <1>1, <1>2, <1>4, <2>1, <2>2 DEF WriterOK
  <1>6. ASSUME fb_ready PROVE ScreenOK(pc'[w], sent', cells, cursor_col, cursor_row)
    <2>1. CursorAt(sent, n, cursor_col, cursor_row) /\ Shows(sent, n, cells)
      BY <1>1, <1>6 DEF ConsoleInv, ScreenOK
    <2>2. /\ RowAfter(sent', n) = RowAfter(sent, n) /\ ColumnAfter(sent', n) = ColumnAfter(sent, n)
          /\ TopAfter(sent', n) = TopAfter(sent, n)
      <3>1. n \in 0..n
        BY <1>4
      <3> HIDE DEF n
      <3> QED
        BY <1>4, <3>1, PrefixDecides DEF TopAfter
    <2>3. CursorAt(sent', n, cursor_col, cursor_row)
      BY <2>1, <2>2 DEF CursorAt
    <2>4. ASSUME NEW r \in Row, NEW x \in Col,
                 ~ (c[1] # NL /\ RowAfter(sent, n) = TopAfter(sent, n) + r
                              /\ ColumnAfter(sent, n) = x)
          PROVE  cells[r][x] = Glyph(sent', TopAfter(sent', n) + r, x)
      <3>1. Glyph(Append(sent, c), TopAfter(sent, n) + r, x) = Glyph(sent, TopAfter(sent, n) + r, x)
        <4> HIDE DEF c
        <4> QED
          BY <1>1, <2>4, GlyphElsewhere
      <3> QED
        BY <1>1, <2>1, <2>2, <3>1 DEF Shows
    <2>5. CASE c[1] = NL
      <3>1. Shows(sent', n, cells)
        BY <2>4, <2>5 DEF Shows
      <3>2. pc'[w] = "newline" /\ Len(sent') - 1 = n
        BY <1>2, <1>4, <1>6, <2>5
      <3> HIDE DEF c, n
      <3> QED
        BY <2>3, <3>1, <3>2 DEF ScreenOK
    <2>6. CASE c[1] # NL
      <3>1. ShowsElsewhere(sent', n, cells)
        BY <2>2, <2>4 DEF ShowsElsewhere
      <3>2. pc'[w] = "draw" /\ Len(sent') - 1 = n
        BY <1>2, <1>4, <1>6, <2>6
      <3> HIDE DEF c, n
      <3> QED
        BY <2>3, <3>1, <3>2 DEF ScreenOK
    <2> QED
      BY <2>5, <2>6
  <1> QED
    BY <1>1, <1>3, <1>5, <1>6 DEF ConsoleInv

(* draw_glyph draws inside the framebuffer, where the character belongs. *)
LEMMA DrawConsole ==
  ASSUME NEW w, Writer = {w}, ConsoleInv(w), Draw(w)
  PROVE  ConsoleInv(w)'
  <1> DEFINE n == Len(sent)
             c == <<Head(todo[w]), current_fb_color>>
  <1>1. /\ pc[w] = "draw" /\ fb_ready /\ sent \in Seq(Sent) /\ sent # << >>
        /\ sent[n] = c /\ c[1] # NL /\ c \in Sent
        /\ CursorAt(sent, n - 1, cursor_col, cursor_row)
        /\ ShowsElsewhere(sent, n - 1, cells)
        /\ cells \in [Row -> [Col -> Sent \cup {Blank}]]
    BY DEF ConsoleInv, ConsoleType, WriterOK, ScreenOK, Draw, Sent
  <1>2. n \in Nat \ {0} /\ n - 1 \in Nat
    BY <1>1
  <1>3. /\ RowAfter(sent, n - 1) \in Nat /\ TopAfter(sent, n - 1) \in Nat
        /\ cursor_row \in Row /\ cursor_col \in Col
        /\ TopAfter(sent, n - 1) + cursor_row = RowAfter(sent, n - 1)
        /\ cursor_col = ColumnAfter(sent, n - 1)
    <2>1. /\ RowAfter(sent, n - 1) \in Nat /\ TopAfter(sent, n - 1) \in Nat
          /\ RowAfter(sent, n - 1) - TopAfter(sent, n - 1) \in Row
          /\ ColumnAfter(sent, n - 1) \in Col
      <3> HIDE DEF n
      <3> QED
        BY <1>2, CursorOnScreen
    <2> QED
      BY <1>1, <2>1 DEF CursorAt
  <1>4. /\ cells' = [cells EXCEPT ![cursor_row][cursor_col] = c] /\ outside' = outside
        /\ UNCHANGED <<fb_ready, cursor_col, cursor_row, current_fb_color, todo, color, sent>>
    BY <1>3 DEF Draw, cursor, message
  <1>5. pc'[w] = "forward"
    BY DEF ConsoleInv, ConsoleType, Draw, Goto
  <1>6. ConsoleType'
    <2>1. cells' \in [Row -> [Col -> Sent \cup {Blank}]]
      <3> HIDE DEF c
      <3> QED
        BY <1>1, <1>3, <1>4
    <2> QED
      BY <1>4, <2>1 DEF ConsoleInv, ConsoleType, Draw, Goto, PC
  <1>7. WriterOK(w)'
    BY <1>1, <1>4, <1>5 DEF ConsoleInv, WriterOK
  <1>8. Shows(sent, n - 1, cells')
    <2> SUFFICES ASSUME NEW r \in Row, NEW x \in Col
                 PROVE  cells'[r][x] = Glyph(sent, TopAfter(sent, n - 1) + r, x)
      BY DEF Shows
    <2>1. cells'[r][x] = IF r = cursor_row /\ x = cursor_col THEN c ELSE cells[r][x]
      <3> HIDE DEF c
      <3> QED
        BY <1>1, <1>3, <1>4
    <2>2. CASE r = cursor_row /\ x = cursor_col
      <3>1. Glyph(sent, RowAfter(sent, n - 1), ColumnAfter(sent, n - 1)) = c
        BY <1>1, GlyphLast
      <3> HIDE DEF c, n
      <3> QED
        BY <1>3, <2>1, <2>2, <3>1
    <2>3. CASE ~ (r = cursor_row /\ x = cursor_col)
      <3>1. TopAfter(sent, n - 1) + r # RowAfter(sent, n - 1) \/ x # ColumnAfter(sent, n - 1)
        <4>1. r \in Int /\ cursor_row \in Int
          BY <1>3, ConsoleAssumption DEF Row
        <4> QED
          BY <1>3, <2>3, <4>1
      <3> HIDE DEF c, n
      <3> QED
        BY <1>1, <2>1, <2>3, <3>1 DEF ShowsElsewhere
    <2> QED
      BY <2>2, <2>3
  <1>9. ScreenOK("forward", sent, cells', cursor_col, cursor_row)
    BY <1>1, <1>8 DEF ScreenOK
  <1> QED
    BY <1>4, <1>5, <1>6, <1>7, <1>9 DEF ConsoleInv

(* The statements that move the cursor leave the cells alone. *)
LEMMA ForwardConsole ==
  ASSUME NEW w, Writer = {w}, ConsoleInv(w), Forward(w)
  PROVE  ConsoleInv(w)'
  <1>1. /\ pc[w] = "forward" /\ fb_ready /\ sent \in Seq(Sent) /\ sent # << >>
        /\ CursorAt(sent, Len(sent) - 1, cursor_col, cursor_row)
        /\ Shows(sent, Len(sent) - 1, cells)
    BY DEF ConsoleInv, ConsoleType, WriterOK, ScreenOK, Forward
  <1>2. /\ pc'[w] = "wrap" /\ cursor_col' = cursor_col + 1
        /\ UNCHANGED <<fb_ready, cells, outside, cursor_row, current_fb_color, todo, color, sent>>
    BY DEF ConsoleInv, ConsoleType, Forward, Goto, screen, message
  <1>3. ConsoleType'
    BY <1>2 DEF ConsoleInv, ConsoleType, Forward, Goto, PC
  <1>4. WriterOK(w)'
    BY <1>1, <1>2 DEF ConsoleInv, WriterOK
  <1>5. cursor_col \in Nat
    <2>1. Len(sent) - 1 \in Nat
      BY <1>1
    <2>2. ColumnAfter(sent, Len(sent) - 1) \in Col
      BY <2>1, CursorOnScreen
    <2> QED
      BY <1>1, <2>2, ConsoleAssumption DEF CursorAt, Col
  <1>6. ScreenOK("wrap", sent, cells, cursor_col + 1, cursor_row)
    BY <1>1, <1>5 DEF ScreenOK, CursorAt
  <1> QED
    BY <1>2, <1>3, <1>4, <1>6 DEF ConsoleInv

(* A full line: the cursor is where one more character puts it, before scrolling. *)
LEMMA WrapConsole ==
  ASSUME NEW w, Writer = {w}, ConsoleInv(w), Wrap(w)
  PROVE  ConsoleInv(w)'
  <1> DEFINE n == Len(sent)
  <1>1. /\ pc[w] = "wrap" /\ fb_ready /\ sent \in Seq(Sent) /\ sent # << >>
        /\ sent[n][1] # NL
        /\ CursorAt(sent, n - 1, cursor_col - 1, cursor_row) /\ cursor_col \in Nat
        /\ Shows(sent, n - 1, cells)
    BY DEF ConsoleInv, ConsoleType, WriterOK, ScreenOK, Wrap
  <1>2. /\ pc'[w] = "scroll"
        /\ UNCHANGED <<fb_ready, cells, outside, current_fb_color, todo, color, sent>>
    BY DEF ConsoleInv, ConsoleType, Wrap, Goto, screen, message
  <1>3. ConsoleType'
    BY <1>2 DEF ConsoleInv, ConsoleType, Wrap, Goto, PC
  <1>4. WriterOK(w)'
    BY <1>1, <1>2 DEF ConsoleInv, WriterOK
  <1>5. n \in Nat \ {0} /\ n - 1 \in Nat
    BY <1>1
  <1>6. /\ RowAfter(sent, n - 1) \in Nat /\ TopAfter(sent, n - 1) \in Nat
        /\ ColumnAfter(sent, n - 1) \in 0..(Cols - 1)
        /\ IF ColumnAfter(sent, n - 1) + 1 = Cols
             THEN ColumnAfter(sent, n) = 0 /\ RowAfter(sent, n) = RowAfter(sent, n - 1) + 1
             ELSE /\ ColumnAfter(sent, n) = ColumnAfter(sent, n - 1) + 1
                  /\ RowAfter(sent, n) = RowAfter(sent, n - 1)
    <2> HIDE DEF n
    <2> QED
      BY <1>1, <1>5, CursorOnScreen, CursorStep DEF Col
  <1>7. /\ cursor_col' = ColumnAfter(sent, n)
        /\ cursor_row' = RowAfter(sent, n) - TopAfter(sent, n - 1)
    BY <1>1, <1>6, ConsoleAssumption DEF Wrap, CursorAt, cursor
  <1>8. ScreenOK("scroll", sent, cells, cursor_col', cursor_row')
    BY <1>1, <1>7 DEF ScreenOK
  <1> QED
    BY <1>2, <1>3, <1>4, <1>8 DEF ConsoleInv

(* A newline: likewise. *)
LEMMA NewLineConsole ==
  ASSUME NEW w, Writer = {w}, ConsoleInv(w), NewLine(w)
  PROVE  ConsoleInv(w)'
  <1> DEFINE n == Len(sent)
  <1>1. /\ pc[w] = "newline" /\ fb_ready /\ sent \in Seq(Sent) /\ sent # << >>
        /\ sent[n][1] = NL
        /\ CursorAt(sent, n - 1, cursor_col, cursor_row)
        /\ Shows(sent, n - 1, cells)
    BY DEF ConsoleInv, ConsoleType, WriterOK, ScreenOK, NewLine
  <1>2. /\ pc'[w] = "scroll" /\ cursor_col' = 0 /\ cursor_row' = cursor_row + 1
        /\ UNCHANGED <<fb_ready, cells, outside, current_fb_color, todo, color, sent>>
    BY DEF ConsoleInv, ConsoleType, NewLine, Goto, screen, message
  <1>3. ConsoleType'
    BY <1>2 DEF ConsoleInv, ConsoleType, NewLine, Goto, PC
  <1>4. WriterOK(w)'
    BY <1>1, <1>2 DEF ConsoleInv, WriterOK
  <1>5. n \in Nat \ {0} /\ n - 1 \in Nat
    BY <1>1
  <1>6. /\ RowAfter(sent, n - 1) \in Nat /\ TopAfter(sent, n - 1) \in Nat
        /\ ColumnAfter(sent, n) = 0 /\ RowAfter(sent, n) = RowAfter(sent, n - 1) + 1
    <2> HIDE DEF n
    <2> QED
      BY <1>1, <1>5, CursorOnScreen, CursorStep
  <1>7. /\ cursor_col' = ColumnAfter(sent, n)
        /\ cursor_row' = RowAfter(sent, n) - TopAfter(sent, n - 1)
    BY <1>1, <1>2, <1>6 DEF CursorAt
  <1>8. ScreenOK("scroll", sent, cells, cursor_col', cursor_row')
    BY <1>1, <1>7 DEF ScreenOK
  <1> QED
    BY <1>2, <1>3, <1>4, <1>8 DEF ConsoleInv

(* A character moves the first row on the screen only if the cursor leaves the last. *)
LEMMA TopStep ==
  ASSUME NEW s, NEW i \in Nat \ {0}
  PROVE  IF RowAfter(s, i) - TopAfter(s, i - 1) >= Rows
           THEN /\ TopAfter(s, i) = TopAfter(s, i - 1) + 1 /\ ColumnAfter(s, i) = 0
                /\ RowAfter(s, i) - TopAfter(s, i) = Rows - 1
           ELSE TopAfter(s, i) = TopAfter(s, i - 1)
  <1>1. i - 1 \in Nat
    OBVIOUS
  <1>2. RowAfter(s, i - 1) \in Nat /\ RowAfter(s, i) \in Nat
    BY <1>1, RowType
  <1>3. \/ ColumnAfter(s, i) = 0 /\ RowAfter(s, i) = RowAfter(s, i - 1) + 1
        \/ RowAfter(s, i) = RowAfter(s, i - 1)
    BY CursorStep
  <1> QED
    BY <1>2, <1>3, ConsoleAssumption DEF TopAfter

(* scroll_one_row: the rows move up by one and the last one is empty. *)
LEMMA ScrollConsole ==
  ASSUME NEW w, Writer = {w}, ConsoleInv(w), Scroll(w)
  PROVE  ConsoleInv(w)'
  <1> DEFINE n == Len(sent)
  <1>1. /\ pc[w] = "scroll" /\ fb_ready /\ sent \in Seq(Sent) /\ sent # << >>
        /\ cursor_col = ColumnAfter(sent, n)
        /\ cursor_row = RowAfter(sent, n) - TopAfter(sent, n - 1)
        /\ Shows(sent, n - 1, cells)
        /\ cells \in [Row -> [Col -> Sent \cup {Blank}]]
    BY DEF ConsoleInv, ConsoleType, WriterOK, ScreenOK, Scroll
  <1>2. UNCHANGED <<fb_ready, outside, cursor_col, cursor_row, current_fb_color, todo, color, sent>>
    BY DEF Scroll, cursor, message
  <1>3. n \in Nat \ {0} /\ n - 1 \in Nat
    BY <1>1
  <1>4. /\ RowAfter(sent, n) \in Nat /\ TopAfter(sent, n - 1) \in Nat /\ TopAfter(sent, n) \in Nat
        /\ IF cursor_row >= Rows
             THEN /\ TopAfter(sent, n) = TopAfter(sent, n - 1) + 1 /\ ColumnAfter(sent, n) = 0
                  /\ RowAfter(sent, n) - TopAfter(sent, n) = Rows - 1
             ELSE TopAfter(sent, n) = TopAfter(sent, n - 1)
    <2> HIDE DEF n
    <2> QED
      BY <1>1, <1>3, CursorOnScreen, TopStep
  <1>5. CASE cursor_row >= Rows
    <2>1. cells' = Scrolled /\ pc'[w] = "clamp"
      BY <1>5 DEF ConsoleInv, ConsoleType, Scroll, Goto
    <2>2. Shows(sent, n, Scrolled)
      <3> SUFFICES ASSUME NEW r \in Row, NEW x \in Col
                   PROVE  Scrolled[r][x] = Glyph(sent, TopAfter(sent, n) + r, x)
        BY DEF Shows
      <3>1. CASE r = Rows - 1
        <4>1. TopAfter(sent, n) + r = RowAfter(sent, n)
          BY <1>4, <1>5, <3>1, ConsoleAssumption
        <4>2. Glyph(sent, RowAfter(sent, n), x) = Blank
          BY <1>1, <1>4, <1>5, FreshRowBlank
        <4> QED
          BY <3>1, <4>1, <4>2 DEF Scrolled
      <3>2. CASE r # Rows - 1
        <4>1. r + 1 \in Row
          BY <3>2, ConsoleAssumption DEF Row
        <4>2. TopAfter(sent, n - 1) + (r + 1) = TopAfter(sent, n) + r
          BY <1>4, <1>5, ConsoleAssumption DEF Row
        <4>3. Scrolled[r][x] = cells[r + 1][x]
          BY <3>2 DEF Scrolled
        <4>4. cells[r + 1][x] = Glyph(sent, TopAfter(sent, n - 1) + (r + 1), x)
          <5> HIDE DEF n
          <5> QED
            BY <1>1, <4>1 DEF Shows
        <4> QED
          BY <4>2, <4>3, <4>4
      <3> QED
        BY <3>1, <3>2
    <2>3. ScreenOK("clamp", sent, Scrolled, cursor_col, cursor_row)
      BY <1>1, <1>4, <1>5, <2>2 DEF ScreenOK, CursorAt
    <2>4. ConsoleType'
      <3>1. Scrolled \in [Row -> [Col -> Sent \cup {Blank}]]
        <4>1. \A r \in Row: r # Rows - 1 => r + 1 \in Row
          BY ConsoleAssumption DEF Row
        <4> QED
          BY <1>1, <4>1 DEF Scrolled
      <3> QED
        BY <1>2, <1>5, <2>1, <3>1 DEF ConsoleInv, ConsoleType, Scroll, Goto, PC
    <2>5. WriterOK(w)'
      BY <1>1, <1>2, <2>1 DEF ConsoleInv, WriterOK
    <2> QED
      BY <1>2, <2>1, <2>3, <2>4, <2>5 DEF ConsoleInv
  <1>6. CASE ~ (cursor_row >= Rows)
    <2>1. cells' = cells /\ pc'[w] = "next"
      BY <1>6 DEF ConsoleInv, ConsoleType, Scroll, Goto
    <2>2. ScreenOK("next", sent, cells, cursor_col, cursor_row)
      <3>1. CursorAt(sent, n, cursor_col, cursor_row) /\ Shows(sent, n, cells)
        BY <1>1, <1>4, <1>6 DEF CursorAt, Shows
      <3> QED
        BY <3>1 DEF ScreenOK
    <2>3. ConsoleType'
      BY <1>2, <1>6, <2>1 DEF ConsoleInv, ConsoleType, Scroll, Goto, PC
    <2>4. WriterOK(w)'
      BY <1>1, <1>2, <2>1 DEF ConsoleInv, WriterOK
    <2> QED
      BY <1>2, <2>1, <2>2, <2>3, <2>4 DEF ConsoleInv
  <1> QED
    BY <1>5, <1>6

(* The cursor comes back to the last row. *)
LEMMA ClampConsole ==
  ASSUME NEW w, Writer = {w}, ConsoleInv(w), Clamp(w)
  PROVE  ConsoleInv(w)'
  <1>1. /\ pc[w] = "clamp" /\ fb_ready
        /\ CursorAt(sent, Len(sent), cursor_col, Rows - 1) /\ Shows(sent, Len(sent), cells)
    BY DEF ConsoleInv, WriterOK, ScreenOK, Clamp
  <1>2. /\ pc'[w] = "next" /\ cursor_row' = Rows - 1
        /\ UNCHANGED <<fb_ready, cells, outside, cursor_col, current_fb_color, todo, color, sent>>
    BY DEF ConsoleInv, ConsoleType, Clamp, LastRow, Goto, screen, message
  <1>3. ConsoleType'
    BY <1>2 DEF ConsoleInv, ConsoleType, Clamp, Goto, PC
  <1>4. WriterOK(w)'
    BY <1>1, <1>2 DEF ConsoleInv, WriterOK
  <1>5. ScreenOK("next", sent, cells, cursor_col, Rows - 1)
    BY <1>1 DEF ScreenOK
  <1> QED
    BY <1>2, <1>3, <1>4, <1>5 DEF ConsoleInv

(* Back in log_write nothing is under way. *)
LEMMA NextCharConsole ==
  ASSUME NEW w, Writer = {w}, ConsoleInv(w), NextChar(w)
  PROVE  ConsoleInv(w)'
  <1> DEFINE p == IF Len(todo[w]) > 1 THEN "emit" ELSE "idle"
  <1>1. /\ pc[w] = "next" /\ todo[w] \in Seq(Char) /\ todo[w] # << >>
        /\ color[w] \in Color /\ current_fb_color = color[w]
    BY DEF ConsoleInv, ConsoleType, WriterOK, NextChar
  <1>2. /\ pc'[w] = p /\ todo'[w] = Tail(todo[w])
        /\ UNCHANGED <<fb_ready, cells, outside, cursor_col, cursor_row, current_fb_color, color, sent>>
    BY DEF ConsoleInv, ConsoleType, NextChar, Goto, screen, cursor
  <1>3. Tail(todo[w]) \in Seq(Char) /\ (p = "emit" => Tail(todo[w]) # << >>)
    <2>1. ASSUME NEW q \in Seq(Char), q # << >>
          PROVE  Tail(q) \in Seq(Char) /\ (Len(q) > 1 => Tail(q) # << >>)
      <3>1. Tail(q) \in Seq(Char) /\ Len(Tail(q)) = Len(q) - 1 /\ Len(q) \in Nat
        BY <2>1
      <3>2. Len(q) > 1 => Len(Tail(q)) # 0
        <4>1. \A n, m \in Int: m = n - 1 /\ n > 1 => m # 0
          OBVIOUS
        <4>2. Len(q) \in Int /\ Len(Tail(q)) \in Int
          BY <3>1
        <4> QED
          BY Zenon, <3>1, <4>1, <4>2
      <3>3. Len(<< >>) = 0
        OBVIOUS
      <3>4. Len(Tail(q)) # 0 => Tail(q) # << >>
        BY <3>3, Zenon
      <3> QED
        BY <3>1, <3>2, <3>4
    <2>2. p = "emit" => Len(todo[w]) > 1
      OBVIOUS
    <2> HIDE DEF p
    <2> QED
      BY <1>1, <2>1, <2>2
  <1>4. ConsoleType'
    BY <1>2, <1>3 DEF ConsoleInv, ConsoleType, NextChar, Goto, PC
  <1>5. WriterOK(w)'
    BY <1>1, <1>2, <1>3 DEF WriterOK
  <1>6. ScreenOK("next", sent, cells, cursor_col, cursor_row) =>
          ScreenOK(p, sent, cells, cursor_col, cursor_row)
    BY DEF ScreenOK
  <1> QED
    BY <1>1, <1>2, <1>4, <1>5, <1>6 DEF ConsoleInv

(* One writer: the invariant holds in every reachable state. *)
THEOREM ConsoleInvariance ==
  ASSUME NEW w, Writer = {w}
  PROVE  Spec => []ConsoleInv(w)
  <1>1. Init => ConsoleInv(w)
    BY InitConsole
  <1>2. ConsoleInv(w) /\ [Next]_vars => ConsoleInv(w)'
    <2> SUFFICES ASSUME ConsoleInv(w), [Next]_vars PROVE ConsoleInv(w)'
      OBVIOUS
    <2>1. ASSUME NEW m \in Messages, LogWrite(w, m) PROVE ConsoleInv(w)'
      BY <2>1, LogWriteConsole
    <2>2. CASE Emit(w)
      BY <2>2, EmitConsole
    <2>3. CASE Putc(w)
      BY <2>3, DrawConsole, ForwardConsole, WrapConsole, NewLineConsole, ScrollConsole,
         ClampConsole DEF Putc
    <2>4. CASE NextChar(w)
      BY <2>4, NextCharConsole
    <2>5. CASE UNCHANGED vars
      BY <2>5 DEF vars, screen, cursor, message, ConsoleInv, ConsoleType, WriterOK
    <2> QED
      BY <2>1, <2>2, <2>3, <2>4, <2>5 DEF Next
  <1> QED
    BY <1>1, <1>2, PTL DEF Spec

(* For a screen of any size and any messages of one writer: draw_glyph is never      *)
(* called with a cell outside the framebuffer.                                      *)
THEOREM NeverOutside ==
  ASSUME NEW w, Writer = {w}
  PROVE  Spec => []DrawsInside
  <1>1. ConsoleInv(w) => DrawsInside
    BY DEF ConsoleInv, DrawsInside
  <1> QED
    BY <1>1, ConsoleInvariance, PTL

(* Under the same conditions the screen shows, between messages, exactly the last   *)
(* rows of what the serial port got, each character in its place and colour: wrap,  *)
(* newline and scroll together implement the layout.                                *)
THEOREM ScreenExact ==
  ASSUME NEW w, Writer = {w}
  PROVE  Spec => []ScreenShowsTail
  <1>1. ConsoleInv(w) => ScreenShowsTail
    <2> SUFFICES ASSUME ConsoleInv(w), fb_ready, \A v \in Writer: pc[v] = "idle"
                 PROVE  /\ cursor_col = ColumnAfter(sent, Len(sent))
                        /\ cursor_row = RowAfter(sent, Len(sent)) - TopRow(sent)
                        /\ \A r \in Row, x \in Col:
                             cells[r][x] = Glyph(sent, TopRow(sent) + r, x)
      BY DEF ScreenShowsTail
    <2>1. CursorAt(sent, Len(sent), cursor_col, cursor_row) /\ Shows(sent, Len(sent), cells)
      BY DEF ConsoleInv, ScreenOK
    <2>2. TopRow(sent) = TopAfter(sent, Len(sent))
      BY DEF TopRow, TopAfter
    <2> QED
      BY <2>1, <2>2 DEF CursorAt, Shows
  <1> QED
    BY <1>1, ConsoleInvariance, PTL
====
