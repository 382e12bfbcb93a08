--------------------------------- MODULE VmmProof ---------------------------------
(* Proofs about Vmm for every number of levels, every tree of boot tables and every *)
(* memory map: the tables stay a tree that shares no frame, no frame is lost, the   *)
(* guard pages stay unmapped, and the tables implement a flat address space. First  *)
(* come lemmas about page tables alone: what an address's indices determine, what   *)
(* the CPU's walk finds in a tree of tables, what entering a table or a leaf does.  *)
EXTENDS Vmm, NaturalsInduction, WellFoundedInduction, TLAPS

----------------------------------------------------------------------------------
(* Indices *)

(* A nonempty set of naturals has a least element. *)
LEMMA LeastNat ==
  ASSUME NEW T \in SUBSET Nat, T # {}
  PROVE  \E n \in T: \A k \in T: n <= k
  <1>1. PICK n \in T: \A k \in T: ~ (<<k, n>> \in OpToRel(<, Nat))
    BY NatLessThanWellFounded, WFMin
  <1>2. \A k \in T: ~ (k < n)
    BY <1>1 DEF OpToRel
  <1> QED
    BY <1>2

Powers(s, k) ==
  /\ s \in [0..k -> Nat \ {0}]
  /\ s[0] = 1
  /\ \A l \in 1..k: s[l] = ENTRIES * s[l - 1]

(* The spans up to any level exist. *)
LEMMA PowersExist == \A k \in Nat: \E s: Powers(s, k)
  <1> DEFINE Bad == {k \in Nat: ~ \E s: Powers(s, k)}
  <1> SUFFICES ASSUME Bad # {} PROVE FALSE
    OBVIOUS
  <1>1. PICK n \in Bad: \A k \in Bad: n <= k
    <2>1. Bad \subseteq Nat
      OBVIOUS
    <2> HIDE DEF Bad
    <2> QED
      BY <2>1, LeastNat
  <1>2. n \in Nat /\ ~ \E s: Powers(s, n)
    OBVIOUS
  <1>3. CASE n = 0
    <2>1. Powers([l \in 0..0 |-> 1], 0)
      BY DEF Powers
    <2> QED
      BY <1>2, <1>3, <2>1
  <1>4. CASE n # 0
    <2>1. n - 1 \in Nat /\ n - 1 \notin Bad
      <3> HIDE DEF Bad
      <3> QED
        BY <1>1, <1>2, <1>4
    <2>2. PICK s: Powers(s, n - 1)
      BY <2>1
    <2> DEFINE t == [l \in 0..n |-> IF l = n THEN ENTRIES * s[n - 1] ELSE s[l]]
    <2>3. n - 1 \in 0..(n - 1) /\ s[n - 1] \in Nat \ {0}
      BY <2>1, <2>2 DEF Powers
    <2>4. ENTRIES * s[n - 1] \in Nat \ {0}
      <3>1. ENTRIES \in Nat \ {0}
        BY VmmAssumption
      <3> QED
        BY <2>3, <3>1
    <2>5. \A l \in 0..n: l # n => l \in 0..(n - 1) /\ s[l] \in Nat \ {0}
      BY <1>2, <2>2 DEF Powers
    <2>6. t \in [0..n -> Nat \ {0}]
      BY <2>4, <2>5
    <2>7. t[0] = 1
      BY <1>2, <1>4, <2>2 DEF Powers
    <2>8. ASSUME NEW l \in 1..n PROVE t[l] = ENTRIES * t[l - 1]
      <3>1. l - 1 \in 0..n /\ l - 1 # n /\ t[l - 1] = s[l - 1]
        BY <1>2
      <3>2. CASE l = n
        BY <3>1, <3>2
      <3>3. CASE l # n
        <4>1. l \in 1..(n - 1) /\ t[l] = s[l]
          BY <1>2, <3>3
        <4> QED
          BY <2>2, <3>1, <4>1 DEF Powers
      <3> QED
        BY <3>2, <3>3
    <2>9. Powers(t, n)
      <3> HIDE DEF t
      <3> QED
        BY <2>6, <2>7, <2>8 DEF Powers
    <2> QED
      BY <1>2, <2>9
  <1> QED
    BY <1>3, <1>4

(* Span is the function its definition describes. *)
LEMMA SpanFacts == Powers(Span, LEVELS)
  <1>0. LEVELS \in Nat \ {0}
    BY VmmAssumption
  <1>1. PICK s: Powers(s, LEVELS)
    BY <1>0, PowersExist
  <1>2. s = [l \in 0..LEVELS |-> IF l = 0 THEN 1 ELSE ENTRIES * s[l - 1]]
    <2>1. \A l \in 0..LEVELS: s[l] = IF l = 0 THEN 1 ELSE ENTRIES * s[l - 1]
      BY <1>0, <1>1 DEF Powers
    <2> QED
      BY <1>1, <2>1 DEF Powers
  <1>3. Span = [l \in 0..LEVELS |-> IF l = 0 THEN 1 ELSE ENTRIES * Span[l - 1]]
    BY <1>2 DEF Span
  <1>4. \A l \in 0..LEVELS: Span[l] = s[l]
    <2> DEFINE Bad == {l \in 0..LEVELS: Span[l] # s[l]}
    <2> SUFFICES ASSUME Bad # {} PROVE FALSE
      OBVIOUS
    <2>1. PICK n \in Bad: \A k \in Bad: n <= k
      <3>1. Bad \subseteq Nat
        BY <1>0
      <3> HIDE DEF Bad
      <3> QED
        BY <3>1, LeastNat
    <2>2. n \in 0..LEVELS /\ Span[n] # s[n]
      OBVIOUS
    <2>3. n # 0
      BY <1>1, <1>3, <2>2 DEF Powers
    <2>4. n - 1 \in 0..LEVELS /\ n - 1 \notin Bad
      <3> HIDE DEF Bad
      <3> QED
        BY <1>0, <2>1, <2>2, <2>3
    <2>5. Span[n - 1] = s[n - 1]
      BY <2>4
    <2>6. Span[n] = ENTRIES * Span[n - 1]
      BY <1>3, <2>2, <2>3
    <2>7. s[n] = ENTRIES * s[n - 1]
      BY <1>0, <1>1, <2>2, <2>3 DEF Powers
    <2> QED
      BY <2>2, <2>5, <2>6, <2>7
  <1>5. Span = s
    <2>1. DOMAIN Span = 0..LEVELS /\ DOMAIN s = 0..LEVELS
      BY <1>2, <1>3
    <2> QED
      BY <1>2, <1>3, <1>4
  <1> QED
    BY <1>1, <1>5

(* Dividing twice is dividing by the product. *)
LEMMA DivTwice ==
  ASSUME NEW v \in Nat, NEW p \in Nat \ {0}, NEW e \in Nat \ {0}
  PROVE  (v \div p) \div e = v \div (e * p)
  <1> DEFINE q == v \div p
             r == v % p
             a == q \div e
             b == q % e
  <1>1. q \in Nat /\ r \in 0..(p - 1) /\ v = p * q + r
    OBVIOUS
  <1>2. a \in Nat /\ b \in 0..(e - 1) /\ q = e * a + b
    BY <1>1
  <1> HIDE DEF q, r, a, b
  <1>3. e * p \in Nat \ {0}
    OBVIOUS
  <1>4. v = (e * p) * a + (p * b + r)
    BY <1>1, <1>2
  <1>5. p * b + r \in Nat /\ p * b + r < e * p
    <2>1. p * b <= p * (e - 1)
      BY <1>2
    <2>2. p * (e - 1) = e * p - p
      OBVIOUS
    <2>3. p * b \in Nat
      BY <1>2
    <2> QED
      BY <1>1, <1>3, <2>1, <2>2, <2>3
  <1>6. ASSUME NEW m \in Nat \ {0}, NEW s \in Nat, s < m, v = m * a + s
        PROVE  v \div m = a
    BY <1>2, <1>6
  <1>7. v \div (e * p) = a
    BY <1>3, <1>4, <1>5, <1>6
  <1> QED
    BY <1>7 DEF a, q

(* An index is a slot of a table. *)
LEMMA IndexType ==
  ASSUME NEW v \in Page, NEW l \in 1..LEVELS
  PROVE  Index(v, l) \in Slot
  <1>1. Span[l - 1] \in Nat \ {0} /\ ENTRIES \in Nat \ {0}
    BY SpanFacts, VmmAssumption DEF Powers
  <1>2. v \in Nat
    BY SpanFacts, VmmAssumption DEF Page, Powers
  <1>3. v \div Span[l - 1] \in Nat
    BY <1>1, <1>2
  <1> QED
    BY <1>1, <1>3 DEF Index, Slot

(* The indices of a page at all levels determine the page. *)
LEMMA IndexInjective ==
  ASSUME NEW v \in Page, NEW w \in Page, Agree(v, w, 0)
  PROVE  v = w
  <1>0. LEVELS \in Nat \ {0} /\ ENTRIES \in Nat \ {0} /\ Powers(Span, LEVELS)
    BY SpanFacts, VmmAssumption
  <1>1. v \in Nat /\ w \in Nat /\ v < Span[LEVELS] /\ w < Span[LEVELS]
    <2>1. LEVELS \in 0..LEVELS
      BY <1>0
    <2>2. Span[LEVELS] \in Nat
      BY <1>0, <2>1 DEF Powers
    <2> QED
      BY <2>2 DEF Page
  <1> DEFINE Same(l) == v \div Span[l] = w \div Span[l]
             Bad == {k \in 0..LEVELS: ~Same(LEVELS - k)}
  <1>2. Same(LEVELS)
    <2>1. Span[LEVELS] \in Nat \ {0}
      BY <1>0 DEF Powers
    <2>2. v \div Span[LEVELS] = 0 /\ w \div Span[LEVELS] = 0
      BY <1>1, <2>1
    <2> QED
      BY <2>2
  <1>3. ASSUME NEW l \in 1..LEVELS, Same(l) PROVE Same(l - 1)
    <2>1. Span[l - 1] \in Nat \ {0} /\ Span[l] = ENTRIES * Span[l - 1]
      BY <1>0 DEF Powers
    <2> DEFINE a == v \div Span[l - 1]
               b == w \div Span[l - 1]
    <2>2. a \in Nat /\ b \in Nat
      BY <1>1, <2>1
    <2>3. a \div ENTRIES = b \div ENTRIES
      <3>1. a \div ENTRIES = v \div (ENTRIES * Span[l - 1])
        BY <1>0, <1>1, <2>1, DivTwice
      <3>2. b \div ENTRIES = w \div (ENTRIES * Span[l - 1])
        BY <1>0, <1>1, <2>1, DivTwice
      <3>3. v \div Span[l] = w \div Span[l]
        BY <1>3
      <3> QED
        BY <2>1, <3>1, <3>2, <3>3
    <2>4. a % ENTRIES = b % ENTRIES
      <3>1. Index(v, l) = Index(w, l)
        BY <1>0 DEF Agree
      <3> QED
        BY <3>1 DEF Index
    <2> HIDE DEF a, b
    <2>5. /\ a = ENTRIES * (a \div ENTRIES) + (a % ENTRIES)
          /\ b = ENTRIES * (b \div ENTRIES) + (b % ENTRIES)
      BY <1>0, <2>2
    <2>6. a = b
      BY <2>3, <2>4, <2>5
    <2> QED
      BY <2>6 DEF a, b
  <1>4. Bad = {}
    <2> SUFFICES ASSUME Bad # {} PROVE FALSE
      OBVIOUS
    <2>1. PICK n \in Bad: \A k \in Bad: n <= k
      <3>1. Bad \subseteq Nat
        BY <1>0
      <3> HIDE DEF Bad
      <3> QED
        BY <3>1, LeastNat
    <2>2. n \in 0..LEVELS /\ ~Same(LEVELS - n)
      OBVIOUS
    <2>3. n # 0
      <3> HIDE DEF Same
      <3> QED
        BY <1>0, <1>2, <2>2
    <2>4. n - 1 \in 0..LEVELS /\ n - 1 \notin Bad
      <3> HIDE DEF Bad
      <3> QED
        BY <1>0, <2>1, <2>2, <2>3
    <2>5. Same(LEVELS - (n - 1))
      <3> HIDE DEF Same
      <3> QED
        BY <2>4
    <2>6. LEVELS - (n - 1) \in 1..LEVELS /\ (LEVELS - (n - 1)) - 1 = LEVELS - n
      BY <1>0, <2>2, <2>3
    <2> HIDE DEF Same
    <2> QED
      BY <1>3, <2>2, <2>5, <2>6
  <1>5. Same(0)
    <2>1. LEVELS \in 0..LEVELS /\ LEVELS - LEVELS = 0
      BY <1>0
    <2> HIDE DEF Same
    <2> QED
      BY <1>4, <2>1
  <1>6. Span[0] = 1
    BY <1>0 DEF Powers
  <1> QED
    BY <1>1, <1>5, <1>6

----------------------------------------------------------------------------------
(* The walk *)

TablesType(t) ==
  /\ DOMAIN t \subseteq Nat
  /\ \A f \in DOMAIN t: t[f] \in [Slot -> Mapping \cup {Absent}]

(* Table g is the one at level l on the way to page v. *)
Serves(t, pos, g, v, l) ==
  g \in DOMAIN t /\ pos[g].level = l /\ Agree(pos[g].page, v, l)

Server(t, pos, v, l) ==
  IF \E g \in DOMAIN t: Serves(t, pos, g, v, l)
  THEN CHOOSE g \in DOMAIN t: Serves(t, pos, g, v, l)
  ELSE Absent

(* Pages agree below a table if they agree there and in its index. *)
LEMMA AgreeBelow ==
  ASSUME NEW v, NEW w, NEW l \in 1..LEVELS
  PROVE  Agree(v, w, l - 1) <=> Agree(v, w, l) /\ Index(v, l) = Index(w, l)
  <1>1. LEVELS \in Nat
    BY VmmAssumption
  <1>2. (l - 1) + 1 = l /\ l..LEVELS = {l} \cup (l + 1)..LEVELS
    BY <1>1
  <1> QED
    BY <1>2 DEF Agree

(* Agreement is an equivalence. *)
LEMMA AgreeEquiv ==
  ASSUME NEW u, NEW v, NEW w, NEW l
  PROVE  /\ Agree(u, u, l)
         /\ Agree(u, v, l) => Agree(v, u, l)
         /\ Agree(u, v, l) /\ Agree(v, w, l) => Agree(u, w, l)
  BY DEF Agree

(* One table at most serves a page at a level. *)
LEMMA OneServer ==
  ASSUME NEW t, NEW pos, Tree(t, pos), NEW v, NEW l, NEW g, NEW h,
         Serves(t, pos, g, v, l), Serves(t, pos, h, v, l)
  PROVE  g = h
  <1>1. Agree(pos[g].page, pos[h].page, l)
    BY AgreeEquiv DEF Serves
  <1> QED
    BY <1>1 DEF Tree, Serves

(* The table that serves a page is Server. *)
LEMMA ServerIs ==
  ASSUME NEW t, NEW pos, Tree(t, pos), NEW v, NEW l, NEW g, Serves(t, pos, g, v, l)
  PROVE  Server(t, pos, v, l) = g
  <1>1. g \in DOMAIN t
    BY DEF Serves
  <1>2. Serves(t, pos, Server(t, pos, v, l), v, l)
    BY <1>1 DEF Server
  <1> QED
    BY <1>2, OneServer

(* Server is a table, or Absent if none serves the page. *)
LEMMA ServerType ==
  ASSUME NEW t, NEW pos, TablesType(t), NEW v, NEW l
  PROVE  \/ Server(t, pos, v, l) \in DOMAIN t /\ Server(t, pos, v, l) # Absent
            /\ Serves(t, pos, Server(t, pos, v, l), v, l)
         \/ Server(t, pos, v, l) = Absent /\ \A g: ~Serves(t, pos, g, v, l)
  <1>1. Absent \notin DOMAIN t
    BY VmmAssumption DEF TablesType
  <1>2. CASE \E g \in DOMAIN t: Serves(t, pos, g, v, l)
    <2>1. Server(t, pos, v, l) \in DOMAIN t /\ Serves(t, pos, Server(t, pos, v, l), v, l)
      BY <1>2 DEF Server
    <2> QED
      BY <1>1, <2>1
  <1>3. CASE ~ \E g \in DOMAIN t: Serves(t, pos, g, v, l)
    BY <1>3 DEF Server, Serves
  <1> QED
    BY <1>2, <1>3

(* The parent of a table that serves a page serves it too, through a present entry. *)
LEMMA ParentServes ==
  ASSUME NEW t, NEW pos, Tree(t, pos), NEW v, NEW l \in 1..LEVELS, l < LEVELS,
         NEW h, Serves(t, pos, h, v, l)
  PROVE  \E g: Serves(t, pos, g, v, l + 1) /\ t[g][Index(v, l + 1)] # Absent
  <1>0. LEVELS \in Nat /\ l + 1 \in 1..LEVELS /\ (l + 1) - 1 = l
    BY VmmAssumption
  <1>1. h \in DOMAIN t /\ pos[h].level = l /\ Agree(pos[h].page, v, l)
    BY DEF Serves
  <1>2. PICK g \in DOMAIN t: /\ pos[g].level = l + 1
                             /\ Agree(pos[g].page, pos[h].page, l + 1)
                             /\ t[g][Index(pos[h].page, l + 1)] # Absent
    BY <1>1 DEF Tree
  <1>3. Agree(pos[h].page, v, l + 1) /\ Index(pos[h].page, l + 1) = Index(v, l + 1)
    BY <1>0, <1>1, AgreeBelow
  <1>4. Agree(pos[g].page, v, l + 1)
    BY <1>2, <1>3, AgreeEquiv
  <1> QED
    BY <1>2, <1>3, <1>4 DEF Serves

(* A present entry leads to the table that serves the page one level down. *)
LEMMA ChildServes ==
  ASSUME NEW t, NEW pos, Tree(t, pos), NEW v \in Page, NEW l \in 1..LEVELS, l < LEVELS,
         NEW g, Serves(t, pos, g, v, l + 1), t[g][Index(v, l + 1)] # Absent
  PROVE  /\ Serves(t, pos, t[g][Index(v, l + 1)].frame, v, l)
         /\ {"W", "U"} \subseteq t[g][Index(v, l + 1)].flags
  <1>0. LEVELS \in Nat /\ l + 1 \in 1..LEVELS /\ (l + 1) - 1 = l /\ l + 1 > 1
    BY VmmAssumption
  <1>1. g \in DOMAIN t /\ pos[g].level = l + 1 /\ Agree(pos[g].page, v, l + 1)
    BY DEF Serves
  <1> DEFINE i == Index(v, l + 1)
             h == t[g][i].frame
  <1>2. i \in Slot
    BY <1>0, IndexType
  <1> HIDE DEF i
  <1>3. /\ h \in DOMAIN t /\ pos[h].level = l
        /\ Agree(pos[h].page, pos[g].page, l + 1)
        /\ Index(pos[h].page, l + 1) = i
        /\ {"W", "U"} \subseteq t[g][i].flags
    <2>1. t[g][i] # Absent /\ pos[g].level > 1
      BY <1>0, <1>1 DEF i
    <2> QED
      BY <1>0, <1>1, <1>2, <2>1 DEF Tree
  <1>4. Agree(pos[h].page, v, l + 1)
    BY <1>1, <1>3, AgreeEquiv
  <1>5. Index(pos[h].page, l + 1) = Index(v, l + 1)
    BY <1>3 DEF i
  <1>6. Agree(pos[h].page, v, l)
    BY <1>0, <1>4, <1>5, AgreeBelow
  <1> QED
    BY <1>3, <1>6 DEF Serves, i

(* One step of the walk finds the next server. *)
Step(t, v, at, l) ==
  IF l = LEVELS THEN Cr3
  ELSE IF at[l + 1] = Absent THEN Absent
  ELSE LET e == t[at[l + 1]][Index(v, l + 1)]
       IN  IF e = Absent THEN Absent ELSE e.frame

(* The servers satisfy the recursion of the walk. *)
LEMMA ServersWalk ==
  ASSUME NEW t, NEW pos, Tree(t, pos), TablesType(t), NEW v \in Page,
         NEW at, at = [l \in 1..LEVELS |-> Server(t, pos, v, l)], NEW l \in 1..LEVELS
  PROVE  at[l] = Step(t, v, at, l)
  <1>0. LEVELS \in Nat \ {0}
    BY VmmAssumption
  <1>1. at[l] = Server(t, pos, v, l)
    OBVIOUS
  <1>2. CASE l = LEVELS
    <2>1. Agree(pos[Cr3].page, v, LEVELS)
      BY <1>0 DEF Agree
    <2>2. Serves(t, pos, Cr3, v, LEVELS)
      BY <2>1 DEF Serves, Tree
    <2> QED
      BY <1>1, <1>2, <2>2, ServerIs DEF Step
  <1>3. CASE l # LEVELS
    <2>1. l < LEVELS /\ l + 1 \in 1..LEVELS /\ at[l + 1] = Server(t, pos, v, l + 1)
      BY <1>0, <1>3
    <2> DEFINE g == Server(t, pos, v, l + 1)
               e == t[g][Index(v, l + 1)]
    <2>2. CASE g = Absent
      <3>1. \A h: ~Serves(t, pos, h, v, l + 1)
        BY <2>2, ServerType
      <3>2. \A h: ~Serves(t, pos, h, v, l)
        BY <2>1, <3>1, ParentServes
      <3>3. Server(t, pos, v, l) = Absent
        BY <3>2, ServerType
      <3> QED
        BY <1>1, <1>3, <2>1, <2>2, <3>3 DEF Step
    <2>3. CASE g # Absent /\ e = Absent
      <3>1. Serves(t, pos, g, v, l + 1)
        BY <2>3, ServerType
      <3>2. ASSUME NEW h, Serves(t, pos, h, v, l) PROVE FALSE
        <4>1. PICK k: Serves(t, pos, k, v, l + 1) /\ t[k][Index(v, l + 1)] # Absent
          BY <2>1, <3>2, ParentServes
        <4>2. k = g
          BY <3>1, <4>1, OneServer
        <4> QED
          BY <2>3, <4>1, <4>2
      <3>3. Server(t, pos, v, l) = Absent
        BY <3>2, ServerType
      <3> QED
        BY <1>1, <1>3, <2>1, <2>3, <3>3 DEF Step
    <2>4. CASE g # Absent /\ e # Absent
      <3>1. Serves(t, pos, g, v, l + 1)
        BY <2>4, ServerType
      <3>2. Serves(t, pos, e.frame, v, l)
        BY <2>1, <2>4, <3>1, ChildServes
      <3>3. Server(t, pos, v, l) = e.frame
        BY <3>2, ServerIs
      <3> QED
        BY <1>1, <1>3, <2>1, <2>4, <3>3 DEF Step
    <2> QED
      BY <2>2, <2>3, <2>4
  <1> QED
    BY <1>2, <1>3

(* PathIn is the function its definition describes. *)
LEMMA PathUnfold ==
  ASSUME NEW t, NEW pos, Tree(t, pos), TablesType(t), NEW v \in Page
  PROVE  PathIn(t, v) = [l \in 1..LEVELS |-> Step(t, v, PathIn(t, v), l)]
  <1> DEFINE at == [l \in 1..LEVELS |-> Server(t, pos, v, l)]
  <1>1. \A l \in 1..LEVELS: at[l] = Step(t, v, at, l)
    <2>1. at = [l \in 1..LEVELS |-> Server(t, pos, v, l)]
      OBVIOUS
    <2> HIDE DEF at
    <2> QED
      BY <2>1, ServersWalk
  <1>2. at = [l \in 1..LEVELS |-> Step(t, v, at, l)]
    <2>1. DOMAIN at = 1..LEVELS /\ at = [l \in 1..LEVELS |-> at[l]]
      OBVIOUS
    <2> HIDE DEF at
    <2> QED
      BY <1>1, <2>1
  <1> HIDE DEF at
  <1> QED
    BY <1>2 DEF PathIn, Step

(* The walk finds the servers. *)
LEMMA PathServes ==
  ASSUME NEW t, NEW pos, Tree(t, pos), TablesType(t), NEW v \in Page, NEW l \in 1..LEVELS
  PROVE  PathIn(t, v)[l] = Server(t, pos, v, l)
  <1>0. LEVELS \in Nat \ {0}
    BY VmmAssumption
  <1> DEFINE p == PathIn(t, v)
             at == [k \in 1..LEVELS |-> Server(t, pos, v, k)]
             Bad == {k \in Nat: LEVELS - k \in 1..LEVELS /\ p[LEVELS - k] # at[LEVELS - k]}
  <1>1. \A k \in 1..LEVELS: p[k] = Step(t, v, p, k)
    BY PathUnfold
  <1>2. \A k \in 1..LEVELS: at[k] = Step(t, v, at, k)
    <2>1. at = [k \in 1..LEVELS |-> Server(t, pos, v, k)]
      OBVIOUS
    <2> HIDE DEF at
    <2> QED
      BY <2>1, ServersWalk
  <1>3. at[l] = Server(t, pos, v, l)
    OBVIOUS
  <1> HIDE DEF p, at
  <1>4. Bad = {}
    <2> SUFFICES ASSUME Bad # {} PROVE FALSE
      OBVIOUS
    <2>1. PICK n \in Bad: \A k \in Bad: n <= k
      <3>1. Bad \subseteq Nat
        OBVIOUS
      <3> HIDE DEF Bad
      <3> QED
        BY <3>1, LeastNat
    <2> DEFINE m == LEVELS - n
    <2>2. n \in Nat /\ m \in 1..LEVELS /\ p[m] # at[m]
      OBVIOUS
    <2>3. m # LEVELS
      <3>1. p[LEVELS] = Cr3 /\ at[LEVELS] = Cr3
        BY <1>0, <1>1, <1>2 DEF Step
      <3> QED
        BY <2>2, <3>1
    <2>4. n - 1 \in Nat /\ LEVELS - (n - 1) = m + 1 /\ m + 1 \in 1..LEVELS
      BY <1>0, <2>2, <2>3
    <2>5. n - 1 \notin Bad
      <3> HIDE DEF Bad
      <3> QED
        BY <2>1, <2>2, <2>4
    <2>6. p[m + 1] = at[m + 1]
      BY <2>4, <2>5
    <2> HIDE DEF m
    <2>7. Step(t, v, p, m) = Step(t, v, at, m)
      BY <2>6 DEF Step
    <2> QED
      BY <1>1, <1>2, <2>2, <2>7
  <1>5. LEVELS - l \in Nat /\ LEVELS - (LEVELS - l) = l
    BY <1>0
  <1>6. p[l] = at[l]
    BY <1>4, <1>5
  <1> QED
    BY <1>3, <1>6 DEF p

(* The leaf entry of page v, and what the CPU makes of it and of the entries above. *)
LeafIn(t, v) ==
  IF PathIn(t, v)[1] = Absent THEN Absent ELSE t[PathIn(t, v)[1]][Index(v, 1)]

Withheld(t, v) ==
  {x \in {"W", "U"}: \E l \in 2..LEVELS: x \notin t[PathIn(t, v)[l]][Index(v, l)].flags}

(* The leaf entry is that of the table that serves the page. *)
LEMMA LeafServed ==
  ASSUME NEW t, NEW pos, Tree(t, pos), TablesType(t), NEW v \in Page,
         NEW g, Serves(t, pos, g, v, 1)
  PROVE  PathIn(t, v)[1] = g /\ LeafIn(t, v) = t[g][Index(v, 1)]
  <1>1. 1 \in 1..LEVELS
    BY VmmAssumption
  <1>2. PathIn(t, v)[1] = g
    BY <1>1, PathServes, ServerIs
  <1>3. g # Absent
    BY VmmAssumption DEF Serves, TablesType
  <1> QED
    BY <1>2, <1>3 DEF LeafIn

(* Without such a table there is none. *)
LEMMA LeafUnserved ==
  ASSUME NEW t, NEW pos, Tree(t, pos), TablesType(t), NEW v \in Page,
         \A g: ~Serves(t, pos, g, v, 1)
  PROVE  PathIn(t, v)[1] = Absent /\ LeafIn(t, v) = Absent
  <1>1. 1 \in 1..LEVELS
    BY VmmAssumption
  <1>2. Server(t, pos, v, 1) = Absent
    BY ServerType
  <1>3. PathIn(t, v)[1] = Absent
    BY <1>1, <1>2, PathServes
  <1> QED
    BY <1>3 DEF LeafIn

(* A leaf entry is an entry. *)
LEMMA LeafType ==
  ASSUME NEW t, NEW pos, Tree(t, pos), TablesType(t), NEW v \in Page
  PROVE  LeafIn(t, v) \in Mapping \cup {Absent}
  <1>1. CASE \E g: Serves(t, pos, g, v, 1)
    <2>1. PICK g: Serves(t, pos, g, v, 1)
      BY <1>1
    <2>2. Index(v, 1) \in Slot
      <3>1. 1 \in 1..LEVELS
        BY VmmAssumption
      <3> QED
        BY <3>1, IndexType
    <2>3. t[g][Index(v, 1)] \in Mapping \cup {Absent}
      BY <2>1, <2>2 DEF Serves, TablesType
    <2> QED
      BY <2>1, <2>3, LeafServed
  <1>2. CASE \A g: ~Serves(t, pos, g, v, 1)
    BY <1>2, LeafUnserved
  <1> QED
    BY <1>1, <1>2

(* A page that a leaf table serves is served at every level. *)
LEMMA ServedAbove ==
  ASSUME NEW t, NEW pos, Tree(t, pos), TablesType(t), NEW v \in Page,
         NEW h, Serves(t, pos, h, v, 1), NEW l \in 1..LEVELS
  PROVE  \E g: Serves(t, pos, g, v, l)
  <1> DEFINE Bad == {k \in 1..LEVELS: \A g: ~Serves(t, pos, g, v, k)}
  <1>1. Bad = {}
    <2> SUFFICES ASSUME Bad # {} PROVE FALSE
      OBVIOUS
    <2>1. PICK n \in Bad: \A k \in Bad: n <= k
      <3>1. Bad \subseteq Nat
        OBVIOUS
      <3> HIDE DEF Bad
      <3> QED
        BY <3>1, LeastNat
    <2>2. n \in 1..LEVELS /\ \A g: ~Serves(t, pos, g, v, n)
      OBVIOUS
    <2>3. n # 1
      BY <2>2
    <2>4. n - 1 \in 1..LEVELS /\ n - 1 < LEVELS /\ (n - 1) + 1 = n /\ n - 1 \notin Bad
      <3>1. LEVELS \in Nat
        BY VmmAssumption
      <3> HIDE DEF Bad
      <3> QED
        BY <2>1, <2>2, <2>3, <3>1
    <2>5. PICK g: Serves(t, pos, g, v, n - 1)
      BY <2>4
    <2> QED
      BY <2>2, <2>4, <2>5, ParentServes
  <1> QED
    BY <1>1

(* On the way to a leaf table nothing is withheld. *)
LEMMA NothingWithheld ==
  ASSUME NEW t, NEW pos, Tree(t, pos), TablesType(t), NEW v \in Page,
         PathIn(t, v)[1] # Absent
  PROVE  Withheld(t, v) = {}
  <1>0. LEVELS \in Nat \ {0} /\ 1 \in 1..LEVELS
    BY VmmAssumption
  <1>1. PICK h: Serves(t, pos, h, v, 1)
    BY LeafUnserved
  <1>2. ASSUME NEW l \in 2..LEVELS
        PROVE  {"W", "U"} \subseteq t[PathIn(t, v)[l]][Index(v, l)].flags
    <2> DEFINE m == l - 1
    <2>1. l \in 1..LEVELS /\ m \in 1..LEVELS /\ m < LEVELS /\ m + 1 = l
      BY <1>0
    <2> HIDE DEF m
    <2>2. PICK k: Serves(t, pos, k, v, m)
      BY <1>1, <2>1, ServedAbove
    <2>3. PICK g: Serves(t, pos, g, v, l) /\ t[g][Index(v, l)] # Absent
      BY <2>1, <2>2, ParentServes
    <2>4. PathIn(t, v)[l] = g
      BY <2>1, <2>3, PathServes, ServerIs
    <2>5. {"W", "U"} \subseteq t[g][Index(v, l)].flags
      <3>1. Serves(t, pos, g, v, m + 1) /\ t[g][Index(v, m + 1)] # Absent
        BY <2>1, <2>3
      <3>2. {"W", "U"} \subseteq t[g][Index(v, m + 1)].flags
        BY <2>1, <3>1, ChildServes
      <3> QED
        BY <2>1, <3>2
    <2> QED
      BY <2>4, <2>5
  <1> QED
    BY <1>2 DEF Withheld

----------------------------------------------------------------------------------
(* Changing the tables *)

(* If one entry of one leaf table differs, so does the leaf entry of one page. *)
LEMMA OneLeafChanges ==
  ASSUME NEW t, NEW t2, NEW pos, Tree(t, pos), TablesType(t), Tree(t2, pos), TablesType(t2),
         DOMAIN t2 = DOMAIN t, NEW v \in Page, NEW g, Serves(t, pos, g, v, 1), NEW e,
         \A h \in DOMAIN t, j \in Slot:
           t2[h][j] = IF h = g /\ j = Index(v, 1) THEN e ELSE t[h][j]
  PROVE  \A w \in Page: LeafIn(t2, w) = IF w = v THEN e ELSE LeafIn(t, w)
  <1>0. LEVELS \in Nat \ {0} /\ 1 \in 1..LEVELS /\ 1 - 1 = 0
    BY VmmAssumption
  <1>1. ASSUME NEW w \in Page
        PROVE  LeafIn(t2, w) = IF w = v THEN e ELSE LeafIn(t, w)
    <2>1. \A h: Serves(t2, pos, h, w, 1) <=> Serves(t, pos, h, w, 1)
      BY DEF Serves
    <2>2. Index(w, 1) \in Slot
      BY <1>0, IndexType
    <2>3. CASE \E h: Serves(t, pos, h, w, 1)
      <3>1. PICK h: Serves(t, pos, h, w, 1)
        BY <2>3
      <3>2. h \in DOMAIN t /\ LeafIn(t, w) = t[h][Index(w, 1)]
        BY <3>1, LeafServed DEF Serves
      <3>3. Serves(t2, pos, h, w, 1)
        BY <2>1, <3>1
      <3>4. LeafIn(t2, w) = t2[h][Index(w, 1)]
        BY <3>3, LeafServed
      <3>5. h = g /\ Index(w, 1) = Index(v, 1) <=> w = v
        <4>1. CASE w = v
          BY <3>1, <4>1, OneServer
        <4>2. ASSUME h = g, Index(w, 1) = Index(v, 1) PROVE w = v
          <5>1. Agree(w, v, 1)
            BY <3>1, <4>2, AgreeEquiv DEF Serves
          <5>2. Agree(w, v, 0)
            BY <1>0, <4>2, <5>1, AgreeBelow
          <5> QED
            BY <5>2, IndexInjective
        <4> QED
          BY <4>1, <4>2
      <3>6. t2[h][Index(w, 1)] = IF w = v THEN e ELSE t[h][Index(w, 1)]
        BY <2>2, <3>2, <3>5
      <3> QED
        BY <3>2, <3>4, <3>6
    <2>4. CASE \A h: ~Serves(t, pos, h, w, 1)
      <3>1. w # v
        BY <2>4
      <3>2. LeafIn(t, w) = Absent
        BY <2>4, LeafUnserved
      <3>3. LeafIn(t2, w) = Absent
        BY <2>1, <2>4, LeafUnserved
      <3> QED
        BY <3>1, <3>2, <3>3
    <2> QED
      BY <2>3, <2>4
  <1> QED
    BY <1>1

(* A leaf entry changes: one page changes with it, and the tables stay a tree. *)
LEMMA LeafEntered ==
  ASSUME NEW t, NEW pos, Tree(t, pos), TablesType(t), NEW v \in Page,
         NEW g, Serves(t, pos, g, v, 1),
         NEW e \in Mapping \cup {Absent}, e # Absent => e.frame \notin DOMAIN t,
         NEW t2, DOMAIN t2 = DOMAIN t,
         \A h \in DOMAIN t:
           t2[h] = IF h = g THEN [t[h] EXCEPT ![Index(v, 1)] = e] ELSE t[h]
  PROVE  /\ Tree(t2, pos) /\ TablesType(t2)
         /\ \A w \in Page: LeafIn(t2, w) = IF w = v THEN e ELSE LeafIn(t, w)
  <1>0. LEVELS \in Nat \ {0} /\ 1 \in 1..LEVELS /\ 1 - 1 = 0
    BY VmmAssumption
  <1> DEFINE i == Index(v, 1)
  <1>1. i \in Slot
    BY <1>0, IndexType
  <1>2. g \in DOMAIN t /\ pos[g].level = 1 /\ Agree(pos[g].page, v, 1)
    BY DEF Serves
  <1> HIDE DEF i
  <1>3. DOMAIN t2 = DOMAIN t
    OBVIOUS
  <1>4. \A h \in DOMAIN t: t[h] \in [Slot -> Mapping \cup {Absent}]
    BY DEF TablesType
  <1>5. ASSUME NEW h \in DOMAIN t, NEW j \in Slot
        PROVE  t2[h][j] = IF h = g /\ j = i THEN e ELSE t[h][j]
    BY <1>1, <1>2, <1>4 DEF i
  <1>6. TablesType(t2)
    <2>1. \A h \in DOMAIN t: t2[h] \in [Slot -> Mapping \cup {Absent}]
      BY <1>1, <1>2, <1>4 DEF i
    <2> QED
      BY <1>3, <2>1 DEF TablesType
  <1>7. Tree(t2, pos)
    <2>1. /\ pos \in [DOMAIN t2 -> [level: 1..LEVELS, page: Page]]
          /\ Cr3 \in DOMAIN t2 /\ pos[Cr3].level = LEVELS
      BY <1>3 DEF Tree
    <2>2. \A h \in DOMAIN t2, j \in Slot: t2[h][j] # Absent /\ pos[h].level = 1 =>
            t2[h][j].frame \notin DOMAIN t2
      BY <1>3, <1>5 DEF Tree
    <2>3. \A h \in DOMAIN t, j \in Slot: pos[h].level > 1 => t2[h][j] = t[h][j]
      BY <1>2, <1>5
    <2>4. ASSUME NEW h \in DOMAIN t2, NEW j \in Slot, t2[h][j] # Absent, pos[h].level > 1
          PROVE  LET k == t2[h][j].frame
                 IN  /\ k \in DOMAIN t2 /\ pos[k].level = pos[h].level - 1
                     /\ Agree(pos[k].page, pos[h].page, pos[h].level)
                     /\ Index(pos[k].page, pos[h].level) = j
                     /\ {"W", "U"} \subseteq t2[h][j].flags
      <3>1. h \in DOMAIN t /\ t2[h][j] = t[h][j] /\ t[h][j] # Absent
        BY <1>3, <2>3, <2>4
      <3> QED
        BY <1>3, <2>4, <3>1 DEF Tree
    <2>5. ASSUME NEW h \in DOMAIN t2, pos[h].level < LEVELS
          PROVE  \E k \in DOMAIN t2: /\ pos[k].level = pos[h].level + 1
                                     /\ Agree(pos[k].page, pos[h].page, pos[k].level)
                                     /\ t2[k][Index(pos[h].page, pos[k].level)] # Absent
      <3>1. pos[h].level \in 1..LEVELS /\ pos[h].page \in Page
        BY <1>3, <2>5 DEF Tree
      <3>2. PICK k \in DOMAIN t: /\ pos[k].level = pos[h].level + 1
                                 /\ Agree(pos[k].page, pos[h].page, pos[k].level)
                                 /\ t[k][Index(pos[h].page, pos[k].level)] # Absent
        BY <1>3, <2>5 DEF Tree
      <3>3. pos[k].level \in 1..LEVELS /\ pos[k].level > 1
        BY <1>0, <2>5, <3>1, <3>2
      <3>4. Index(pos[h].page, pos[k].level) \in Slot
        BY <3>1, <3>3, IndexType
      <3>5. t2[k][Index(pos[h].page, pos[k].level)] # Absent
        BY <2>3, <3>2, <3>3, <3>4
      <3> QED
        BY <1>3, <3>2, <3>5
    <2>6. \A h, k \in DOMAIN t2:
            pos[h].level = pos[k].level /\ Agree(pos[h].page, pos[k].page, pos[h].level) => h = k
      BY <1>3 DEF Tree
    <2> QED
      BY <2>1, <2>2, <2>4, <2>5, <2>6 DEF Tree
  <1>8. \A w \in Page: LeafIn(t2, w) = IF w = v THEN e ELSE LeafIn(t, w)
    <2>1. \A h \in DOMAIN t, j \in Slot:
            t2[h][j] = IF h = g /\ j = Index(v, 1) THEN e ELSE t[h][j]
      BY <1>5 DEF i
    <2> QED
      BY <1>3, <1>6, <1>7, <2>1, OneLeafChanges
  <1> QED
    BY <1>3, <1>6, <1>7, <1>8

(* The tables after ensure_next_level entered a new one, f. *)
Extended(t, t2, g, i, f) ==
  /\ DOMAIN t2 = DOMAIN t \cup {f} /\ t2[f] = EmptyTable
  /\ \A h \in DOMAIN t:
       t2[h] = IF h = g THEN [t[h] EXCEPT ![i] = Entry(f, TableRights)] ELSE t[h]

(* A new, empty table is entered where none was: no page changes, and the tables *)
(* stay a tree.                                                                  *)
LEMMA TableEntered ==
  ASSUME NEW t, NEW pos, Tree(t, pos), TablesType(t), NEW v \in Page, NEW l \in 2..LEVELS,
         NEW g, Serves(t, pos, g, v, l), t[g][Index(v, l)] = Absent,
         NEW f \in Nat, f \notin DOMAIN t,
         \A h \in DOMAIN t, j \in Slot: t[h][j] # Absent => t[h][j].frame # f,
         NEW t2, Extended(t, t2, g, Index(v, l), f),
         NEW pos2 \in [DOMAIN t2 -> [level: 1..LEVELS, page: Page]],
         pos2[f] = [level |-> l - 1, page |-> v],
         \A h \in DOMAIN t: pos2[h] = pos[h]
  PROVE  /\ Tree(t2, pos2) /\ TablesType(t2) /\ Serves(t2, pos2, f, v, l - 1)
         /\ \A w \in Page: LeafIn(t2, w) = LeafIn(t, w)
  <1>0. LEVELS \in Nat \ {0} /\ l \in 1..LEVELS /\ 1 \in 1..LEVELS /\ l > 1
    BY VmmAssumption
  <1>a. /\ DOMAIN t2 = DOMAIN t \cup {f} /\ t2[f] = EmptyTable
        /\ \A h \in DOMAIN t:
             t2[h] = IF h = g THEN [t[h] EXCEPT ![Index(v, l)] = Entry(f, TableRights)]
                     ELSE t[h]
    BY DEF Extended
  <1> USE <1>a
  <1> DEFINE i == Index(v, l)
             e == Entry(f, TableRights)
  <1>1. i \in Slot
    BY <1>0, IndexType
  <1>2. g \in DOMAIN t /\ pos[g].level = l /\ Agree(pos[g].page, v, l)
    BY DEF Serves
  <1>3. e \in Mapping /\ e # Absent /\ e.frame = f /\ {"W", "U"} \subseteq e.flags
    <2>1. e \in Mapping
      BY DEF Entry, Mapping, TableRights, Flag
    <2>2. e.frame = f /\ e.flags = {"W", "U"}
      BY DEF Entry, TableRights
    <2> QED
      BY <2>1, <2>2, VmmAssumption
  <1> HIDE DEF i, e
  <1>4. \A h \in DOMAIN t: t[h] \in [Slot -> Mapping \cup {Absent}]
    BY DEF TablesType
  <1>5. ASSUME NEW h \in DOMAIN t, NEW j \in Slot
        PROVE  t2[h][j] = IF h = g /\ j = i THEN e ELSE t[h][j]
    BY <1>1, <1>2, <1>4 DEF i, e
  <1>6. \A j \in Slot: t2[f][j] = Absent
    BY DEF EmptyTable
  <1>7. TablesType(t2)
    <2>1. \A h \in DOMAIN t: t2[h] \in [Slot -> Mapping \cup {Absent}]
      BY <1>1, <1>2, <1>3, <1>4 DEF i, e
    <2>2. t2[f] \in [Slot -> Mapping \cup {Absent}]
      BY DEF EmptyTable
    <2> QED
      BY <2>1, <2>2 DEF TablesType
  <1>8. pos2[f].level = l - 1 /\ pos2[f].page = v
    OBVIOUS
  <1>9. \A h \in DOMAIN t2: h = f \/ (h \in DOMAIN t /\ pos2[h] = pos[h])
    OBVIOUS
  <1>10. Tree(t2, pos2)
    <2>1. Cr3 \in DOMAIN t2 /\ pos2[Cr3].level = LEVELS
      BY DEF Tree
    <2>2. ASSUME NEW h \in DOMAIN t2, NEW j \in Slot, t2[h][j] # Absent, pos2[h].level = 1
          PROVE  t2[h][j].frame \notin DOMAIN t2
      <3>1. h \in DOMAIN t /\ pos[h].level = 1
        BY <1>6, <1>9, <2>2
      <3>2. h # g
        BY <1>0, <1>2, <3>1
      <3>3. t2[h][j] = t[h][j]
        BY <1>5, <3>1, <3>2
      <3>4. t[h][j].frame \notin DOMAIN t
        BY <2>2, <3>1, <3>3 DEF Tree
      <3> QED
        BY <2>2, <3>1, <3>3, <3>4
    <2>3. ASSUME NEW h \in DOMAIN t2, NEW j \in Slot, t2[h][j] # Absent, pos2[h].level > 1
          PROVE  LET k == t2[h][j].frame
                 IN  /\ k \in DOMAIN t2 /\ pos2[k].level = pos2[h].level - 1
                     /\ Agree(pos2[k].page, pos2[h].page, pos2[h].level)
                     /\ Index(pos2[k].page, pos2[h].level) = j
                     /\ {"W", "U"} \subseteq t2[h][j].flags
      <3>1. h \in DOMAIN t /\ pos2[h] = pos[h]
        BY <1>6, <1>9, <2>3
      <3>2. CASE h = g /\ j = i
        <4>1. t2[h][j] = e
          BY <1>5, <3>1, <3>2
        <4>2. Agree(v, pos[g].page, l)
          BY <1>2, AgreeEquiv
        <4>3. Index(v, l) = j
          BY <3>2 DEF i
        <4> QED
          BY <1>2, <1>3, <1>8, <3>1, <3>2, <4>1, <4>2, <4>3
      <3>3. CASE ~(h = g /\ j = i)
        <4>1. t2[h][j] = t[h][j]
          BY <1>5, <3>1, <3>3
        <4> DEFINE k == t[h][j].frame
        <4>2. /\ k \in DOMAIN t /\ pos[k].level = pos[h].level - 1
              /\ Agree(pos[k].page, pos[h].page, pos[h].level)
              /\ Index(pos[k].page, pos[h].level) = j
              /\ {"W", "U"} \subseteq t[h][j].flags
          BY <2>3, <3>1, <4>1 DEF Tree
        <4>3. pos2[k] = pos[k] /\ k \in DOMAIN t2
          BY <4>2
        <4> QED
          BY <3>1, <4>1, <4>2, <4>3
      <3> QED
        BY <3>2, <3>3
    <2>4. ASSUME NEW h \in DOMAIN t2, pos2[h].level < LEVELS
          PROVE  \E k \in DOMAIN t2: /\ pos2[k].level = pos2[h].level + 1
                                     /\ Agree(pos2[k].page, pos2[h].page, pos2[k].level)
                                     /\ t2[k][Index(pos2[h].page, pos2[k].level)] # Absent
      <3>1. CASE h = f
        <4>1. g \in DOMAIN t2 /\ pos2[g].level = pos2[h].level + 1
          BY <1>0, <1>2, <1>8, <3>1
        <4>2. Agree(pos2[g].page, pos2[h].page, pos2[g].level)
          BY <1>2, <1>8, <3>1
        <4>3. t2[g][i] # Absent
          BY <1>1, <1>2, <1>3, <1>5
        <4>4. Index(pos2[h].page, pos2[g].level) = i
          BY <1>2, <1>8, <3>1 DEF i
        <4> QED
          BY <4>1, <4>2, <4>3, <4>4
      <3>2. CASE h # f
        <4>1. h \in DOMAIN t /\ pos2[h] = pos[h] /\ pos[h] \in [level: 1..LEVELS, page: Page]
          BY <1>9, <3>2
        <4>2. PICK k \in DOMAIN t: /\ pos[k].level = pos[h].level + 1
                                   /\ Agree(pos[k].page, pos[h].page, pos[k].level)
                                   /\ t[k][Index(pos[h].page, pos[k].level)] # Absent
          BY <2>4, <4>1 DEF Tree
        <4>3. pos[k].level \in 1..LEVELS /\ pos[h].page \in Page
          BY <1>0, <2>4, <4>1, <4>2
        <4>4. Index(pos[h].page, pos[k].level) \in Slot
          BY <4>3, IndexType
        <4>5. t2[k][Index(pos[h].page, pos[k].level)] # Absent
          BY <1>3, <1>5, <4>2, <4>4
        <4>6. k \in DOMAIN t2 /\ pos2[k] = pos[k]
          BY <4>2
        <4> QED
          BY <4>1, <4>2, <4>5, <4>6
      <3> QED
        BY <3>1, <3>2
    <2>5. ASSUME NEW h \in DOMAIN t,
                 pos[h].level = l - 1, Agree(pos[h].page, v, l - 1)
          PROVE  FALSE
      <3> DEFINE m == l - 1
      <3>1. Serves(t, pos, h, v, m)
        BY <2>5 DEF Serves
      <3>2. m \in 1..LEVELS /\ m < LEVELS /\ m + 1 = l
        BY <1>0
      <3> HIDE DEF m
      <3>3. PICK k: Serves(t, pos, k, v, m + 1) /\ t[k][Index(v, m + 1)] # Absent
        BY <3>1, <3>2, ParentServes
      <3>4. k = g
        BY <3>2, <3>3, OneServer
      <3> QED
        BY <3>2, <3>3, <3>4
    <2>6. ASSUME NEW h \in DOMAIN t2, NEW k \in DOMAIN t2, pos2[h].level = pos2[k].level,
                 Agree(pos2[h].page, pos2[k].page, pos2[h].level)
          PROVE  h = k
      <3>1. CASE h = f /\ k # f
        <4>1. k \in DOMAIN t /\ pos[k].level = l - 1 /\ Agree(v, pos[k].page, l - 1)
          BY <1>8, <1>9, <2>6, <3>1
        <4>2. Agree(pos[k].page, v, l - 1)
          BY <4>1, AgreeEquiv
        <4> QED
          BY <2>5, <4>1, <4>2
      <3>2. CASE h # f /\ k = f
        <4>1. h \in DOMAIN t /\ pos[h].level = l - 1 /\ Agree(pos[h].page, v, l - 1)
          BY <1>8, <1>9, <2>6, <3>2
        <4> QED
          BY <2>5, <4>1
      <3>3. CASE h # f /\ k # f
        <4>1. h \in DOMAIN t /\ k \in DOMAIN t /\ pos2[h] = pos[h] /\ pos2[k] = pos[k]
          BY <1>9, <3>3
        <4>2. pos[h].level = pos[k].level /\ Agree(pos[h].page, pos[k].page, pos[h].level)
          BY <2>6, <4>1
        <4> QED
          BY <4>1, <4>2 DEF Tree
      <3> QED
        BY <3>1, <3>2, <3>3
    <2>7. \A h, k \in DOMAIN t2: pos2[h].level = pos2[k].level
            /\ Agree(pos2[h].page, pos2[k].page, pos2[h].level) => h = k
      BY <2>6
    <2> QED
      BY <2>1, <2>2, <2>3, <2>4, <2>7 DEF Tree
  <1>11. Serves(t2, pos2, f, v, l - 1)
    BY <1>8, AgreeEquiv DEF Serves
  <1>12. ASSUME NEW w \in Page PROVE LeafIn(t2, w) = LeafIn(t, w)
    <2>1. Index(w, 1) \in Slot
      BY <1>0, IndexType
    <2>2. CASE \E h: Serves(t, pos, h, w, 1)
      <3>1. PICK h: Serves(t, pos, h, w, 1)
        BY <2>2
      <3>2. h \in DOMAIN t /\ h # g
        BY <1>0, <1>2, <3>1 DEF Serves
      <3>3. Serves(t2, pos2, h, w, 1)
        BY <3>1, <3>2 DEF Serves
      <3>4. LeafIn(t, w) = t[h][Index(w, 1)]
        BY <3>1, LeafServed
      <3>5. LeafIn(t2, w) = t2[h][Index(w, 1)]
        BY <1>7, <1>10, <3>3, LeafServed
      <3> QED
        BY <1>5, <2>1, <3>2, <3>4, <3>5
    <2>3. CASE \A h: ~Serves(t, pos, h, w, 1)
      <3>1. LeafIn(t, w) = Absent
        BY <2>3, LeafUnserved
      <3>2. \A h: Serves(t2, pos2, h, w, 1) => h = f
        BY <1>9, <2>3 DEF Serves
      <3>3. CASE Serves(t2, pos2, f, w, 1)
        <4>1. LeafIn(t2, w) = t2[f][Index(w, 1)]
          BY <1>7, <1>10, <3>3, LeafServed
        <4> QED
          BY <1>6, <2>1, <3>1, <4>1
      <3>4. CASE ~Serves(t2, pos2, f, w, 1)
        <4>1. LeafIn(t2, w) = Absent
          BY <1>7, <1>10, <3>2, <3>4, LeafUnserved
        <4> QED
          BY <3>1, <4>1
      <3> QED
        BY <3>3, <3>4
    <2> QED
      BY <2>2, <2>3
  <1> QED
    BY <1>7, <1>10, <1>11, <1>12

PP == INSTANCE PmmProof

----------------------------------------------------------------------------------
(* The frame allocator of Vmm is the one PmmProof is about *)

(* Its cardinalities. *)
LEMMA SameCardinality ==
  ASSUME NEW S
  PROVE  PP!Cardinality(S) = PM!Cardinality(S)
  BY DEF PP!Cardinality, PM!Cardinality

(* What pmm_init computes from a memory map. *)
LEMMA SameMap ==
  ASSUME NEW m
  PROVE  /\ PP!FrameCount(m) = PM!FrameCount(m)
         /\ PP!BitmapBytes(m) = PM!BitmapBytes(m)
         /\ PP!BitmapPhys(m) = PM!BitmapPhys(m)
         /\ PP!BitmapFrames(m) = PM!BitmapFrames(m)
         /\ PP!Cleared(m) = PM!Cleared(m)
         /\ PP!ClearedCount(m) = PM!ClearedCount(m)
  <1>1. PP!HighestAddr(m) = PM!HighestAddr(m)
    BY DEF PP!HighestAddr, PM!HighestAddr, PP!Max, PM!Max
  <1>2. PP!FrameCount(m) = PM!FrameCount(m)
    BY <1>1 DEF PP!FrameCount, PM!FrameCount
  <1>3. \A n, k: PP!CeilDiv(n, k) = PM!CeilDiv(n, k)
    BY DEF PP!CeilDiv, PM!CeilDiv
  <1>4. PP!BitmapBytes(m) = PM!BitmapBytes(m)
    BY <1>2, <1>3 DEF PP!BitmapBytes, PM!BitmapBytes
  <1>5. PP!Usable(m) = PM!Usable(m)
    BY DEF PP!Usable, PM!Usable
  <1>6. PP!BitmapPhys(m) = PM!BitmapPhys(m)
    <2>1. {i \in PP!Usable(m): m[i].length >= PP!BitmapBytes(m)}
            = {i \in PM!Usable(m): m[i].length >= PM!BitmapBytes(m)}
      BY <1>4, <1>5
    <2>2. \A S: PP!Min(S) = PM!Min(S)
      BY DEF PP!Min, PM!Min
    <2> QED
      BY <2>1, <2>2 DEF PP!BitmapPhys, PM!BitmapPhys
  <1>7. PP!BitmapFrames(m) = PM!BitmapFrames(m)
    BY <1>3, <1>4, <1>6 DEF PP!BitmapFrames, PM!BitmapFrames
  <1>8. \A e: PP!Frames(e) = PM!Frames(e)
    BY DEF PP!Frames, PM!Frames
  <1>9. PP!Cleared(m) = PM!Cleared(m)
    BY <1>5, <1>8 DEF PP!Cleared, PM!Cleared
  <1>10. PP!ClearedCount(m) = PM!ClearedCount(m)
    <2>1. UNION {{i} \X PP!Frames(m[i]): i \in PP!Usable(m)}
            = UNION {{i} \X PM!Frames(m[i]): i \in PM!Usable(m)}
      BY <1>5, <1>8
    <2> QED
      BY <2>1, SameCardinality DEF PP!ClearedCount, PM!ClearedCount
  <1> QED
    BY <1>2, <1>4, <1>6, <1>7, <1>9, <1>10

(* Its steps. *)
LEMMA SamePmm ==
  /\ PM!Init => PP!Init
  /\ PM!PmmInit => PP!PmmInit
  /\ \A f: PM!AllocFrame(f) => PP!AllocFrame(f)
  /\ \A f: PM!FreeFrame(f) => PP!FreeFrame(f)
  /\ PP!TypeOK => PM!TypeOK
  /\ PP!Allocatable = PM!Allocatable
  <1>1. PM!Init => PP!Init
    BY DEF PM!Init, PP!Init
  <1>2. ASSUME PM!PmmInit PROVE PP!PmmInit
    <2>1. CASE memmap = << >> \/ PM!BitmapPhys(memmap) = 0
      BY <1>2, <2>1, SameMap DEF PM!PmmInit, PP!PmmInit, PM!Panic, PP!Panic
    <2>2. CASE ~(memmap = << >> \/ PM!BitmapPhys(memmap) = 0)
      <3>1. PM!Reserved(memmap) = PP!Reserved(memmap)
        BY SameMap DEF PM!Reserved, PP!Reserved
      <3> DEFINE kept == PM!Reserved(memmap)
      <3>2. /\ phase = "boot" /\ phase' = "ready"
            /\ frame_count' = PP!FrameCount(memmap)
            /\ UNCHANGED <<memmap, next_search_index, held>>
        BY <1>2, <2>2, SameMap DEF PM!PmmInit
      <3>3. bitmap' = (0..(8 * PM!BitmapBytes(memmap) - 1) \ PM!Cleared(memmap)) \cup kept
        BY <1>2, <2>2 DEF PM!PmmInit
      <3>4. free_frames' = PM!ClearedCount(memmap) - PM!Cardinality(kept \cap PM!Cleared(memmap))
        BY <1>2, <2>2 DEF PM!PmmInit
      <3>5. bitmap' = (0..(8 * PP!BitmapBytes(memmap) - 1) \ PP!Cleared(memmap)) \cup kept
        BY <3>3, SameMap
      <3>6. free_frames' = PP!ClearedCount(memmap) - PP!Cardinality(kept \cap PP!Cleared(memmap))
        BY <3>4, SameMap, SameCardinality
      <3>7. ~(memmap = << >> \/ PP!BitmapPhys(memmap) = 0)
        BY <2>2, SameMap
      <3> HIDE DEF kept
      <3>8. kept = PP!Reserved(memmap)
        BY <3>1 DEF kept
      <3> QED
        BY <3>2, <3>5, <3>6, <3>7, <3>8 DEF PP!PmmInit
    <2> QED
      BY <2>1, <2>2
  <1>3. \A f: PM!AllocFrame(f) => PP!AllocFrame(f)
    <2>1. \A f: PM!FirstClear(f) => PP!FirstClear(f)
      BY DEF PM!FirstClear, PP!FirstClear
    <2> QED
      BY <2>1 DEF PM!AllocFrame, PP!AllocFrame
  <1>4. \A f: PM!FreeFrame(f) => PP!FreeFrame(f)
    BY DEF PM!FreeFrame, PP!FreeFrame, PM!Panic, PP!Panic, PM!CountedBack, PP!CountedBack
  <1>5. PP!TypeOK => PM!TypeOK
    BY DEF PP!TypeOK, PM!TypeOK, PP!CeilDiv, PM!CeilDiv
  <1>6. PP!Allocatable = PM!Allocatable
    BY SameMap DEF PP!Allocatable, PM!Allocatable
  <1> QED
    BY <1>1, <1>2, <1>3, <1>4, <1>5, <1>6

(* PmmProof's assumption holds of the memory maps Vmm is given. *)
LEMMA MapsWellFormed == PAGE_SIZE \in Nat \ {0} /\ \A m \in MemMaps: PP!WellFormed(m)
  <1>1. \A m: PM!WellFormed(m) => PP!WellFormed(m)
    BY DEF PM!WellFormed, PP!WellFormed, PM!Entry, PP!Entry, PM!Kind, PP!Kind,
           PM!Usable, PP!Usable, PM!Frames, PP!Frames
  <1> QED
    BY <1>1, BootAssumption

(* A frame from the allocator is nobody's, the bootloader's and a device's neither. *)
LEMMA AllocGives ==
  ASSUME PP!IInv, NEW f, AllocFrame(f)
  PROVE  /\ PP!IInv'
         /\ f \in Nat /\ f \notin held /\ f \notin Bootloader \cup Devices
         /\ held' = held \cup {f}
         /\ phase = "ready" /\ phase' = "ready" /\ frame_count \in Nat /\ f < frame_count
  <1>1. f \in 0..(frame_count - 1) /\ PP!AllocFrame(f)
    BY SamePmm DEF AllocFrame
  <1>2. PP!IInv'
    BY <1>1, MapsWellFormed, PP!AllocFrameIInv
  <1>3. /\ phase = "ready" /\ phase' = "ready" /\ held' = held \cup {f}
        /\ f \notin bitmap
    BY <1>1 DEF PP!AllocFrame, PP!FirstClear
  <1>4. memmap \in MemMaps /\ frame_count \in Nat
    BY DEF PP!IInv, PP!TypeOK
  <1>5. f \in PP!Allocatable \ held
    BY <1>1, <1>3 DEF PP!IInv, PP!Partition, PP!FreeFrames
  <1>6. f \in PM!Cleared(memmap)
    BY <1>5, SameMap DEF PP!Allocatable
  <1>7. f \notin Bootloader \cup Devices
    BY <1>4, <1>6, BootAssumption
  <1> QED
    BY <1>1, <1>2, <1>3, <1>4, <1>5, <1>7

(* Freeing a frame that is held gives it back, without a panic. *)
LEMMA FreeTakes ==
  ASSUME PP!IInv, NEW f \in held, PM!FreeFrame(f)
  PROVE  /\ PP!IInv' /\ held' = held \ {f} /\ phase = "ready" /\ phase' = "ready"
         /\ f \in 0..frame_count
  <1>1. PP!FreeFrame(f) /\ phase = "ready"
    BY SamePmm DEF PM!FreeFrame
  <1>2. /\ frame_count \in Nat /\ f \in PP!Allocatable
        /\ PP!Allocatable \subseteq 0..(frame_count - 1)
        /\ PP!FreeFrames = PP!Allocatable \ held
    BY <1>1, MapsWellFormed, PP!ReadyFacts
  <1>3. f \in 0..(frame_count - 1) /\ f \in bitmap
    BY <1>2 DEF PP!FreeFrames
  <1>4. PP!IInv'
    <2>1. f \in 0..frame_count
      BY <1>2, <1>3
    <2> QED
      BY <1>1, <2>1, MapsWellFormed, PP!FreeFrameIInv
  <1>5. ~(f >= frame_count \/ f \notin bitmap)
    BY <1>2, <1>3
  <1> QED
    BY <1>1, <1>2, <1>3, <1>4, <1>5 DEF PP!FreeFrame

(* Between calls of the allocator nothing about it changes. *)
LEMMA PmmRests ==
  ASSUME PP!IInv, UNCHANGED pmmVars
  PROVE  PP!IInv' /\ held' = held /\ phase' = phase
  <1>1. UNCHANGED PP!pmmVars
    BY DEF pmmVars, PP!pmmVars
  <1> QED
    BY <1>1, MapsWellFormed, PP!NextIInv DEF pmmVars

----------------------------------------------------------------------------------
(* The inductive invariant *)

(* An entry of the tables t leads to frame f. *)
Leads(t, f) == \E g \in DOMAIN t, i \in Slot: t[g][i] # Absent /\ t[g][i].frame = f

(* At most one does, devices apart. *)
Once(t) ==
  \A g, h \in DOMAIN t, i, j \in Slot:
    /\ t[g][i] # Absent /\ t[h][j] # Absent
    /\ t[g][i].frame = t[h][j].frame /\ t[g][i].frame \notin Devices
    => g = h /\ i = j

(* The tables are a tree, and the cursor of a call has come down the right branch. *)
Cursor(t, c) ==
  \E pos: Tree(t, pos) /\ (c.level # 0 => Serves(t, pos, c.at, c.virt, c.level))

TreeOK ==
  /\ TablesType(table) /\ Cursor(table, call)
  /\ DOMAIN table \cap (Devices \cup mine) = {}
  /\ Once(table)

Call == [op: {"idle", "map", "fault", "guarded", "mmio"}, virt: Page, frame: Nat,
         flags: SUBSET Flag, level: 0..LEVELS, at: Nat, start: Nat, left: Nat]

(* What a call maps is not mapped yet, and is its caller's to map. *)
CallOK ==
  /\ call \in Call /\ call.at \in DOMAIN table
  /\ call.op = "idle" => call.level = 0
  /\ call.level = 0 => call.op \in {"idle", "guarded"}
  /\ call.op = "map" => call.frame \in mine /\ call.virt \in UserPages
  /\ call.op = "fault" => call.virt \in LazyPage /\ LeafIn(table, call.virt) = Absent
  /\ call.op = "mmio" => call.frame \in Devices /\ call.virt >= VMM_MMIO_VBASE
  /\ call.op \in {"fault", "guarded"} /\ call.level # 0 => call.frame \in held \ mine
  /\ call.level # 0 => /\ call.frame \notin DOMAIN table
                       /\ call.frame \in Devices \/ ~Leads(table, call.frame)

InUse(f) == f \in DOMAIN table \/ f \in mine \/ Leads(table, f) \/ f \in InFlight

(* The frames held are the ones in use that the allocator gave. *)
HeldOK ==
  /\ PP!IInv /\ halted \in BOOLEAN /\ (halted => phase = "ready")
  /\ mine \subseteq held
  /\ ~halted => \A f: f \in held <=> InUse(f) /\ f \notin Bootloader \cup Devices

(* Where the frames come from that pages lead to. *)
LeafOK ==
  \A v \in Page: LeafIn(table, v) # Absent =>
    LeafIn(table, v).frame \in mine \cup Bootloader \cup Devices \/ v \in LazyPage \cup Dynamic

(* Ranges lie one behind the other, guard pages between them; what is not allocated *)
(* is not mapped.                                                                   *)
RangesOK ==
  /\ dynamic_next_vaddr \in Page /\ VMM_DYNAMIC_VBASE <= dynamic_next_vaddr
  /\ \A v \in Dynamic: v >= dynamic_next_vaddr => LeafIn(table, v) = Absent
  /\ \A r \in guarded:
       /\ r.start \in Nat /\ r.end \in Nat
       /\ VMM_DYNAMIC_VBASE < r.start /\ r.start <= r.end
       /\ r.end < dynamic_next_vaddr /\ r.end < VMM_MMIO_VBASE
       /\ LeafIn(table, r.start - 1) = Absent /\ LeafIn(table, r.end) = Absent
       /\ \A v \in r.start..(r.end - 1): LeafIn(table, v) # Absent

(* The range vmm_alloc_guarded is working on: mapped up to the cursor, not beyond. *)
PendingOK ==
  call.op = "guarded" =>
    /\ call.left > 0 /\ call.virt + call.left + 1 = dynamic_next_vaddr
    /\ dynamic_next_vaddr <= VMM_MMIO_VBASE
    /\ VMM_DYNAMIC_VBASE < call.start /\ call.start <= call.virt
    /\ \A r \in guarded: r.end < call.start
    /\ LeafIn(table, call.start - 1) = Absent
    /\ \A v \in call.start..(call.virt - 1): LeafIn(table, v) # Absent
    /\ \A v \in call.virt..(dynamic_next_vaddr - 1): LeafIn(table, v) = Absent

StaticsOK ==
  /\ lazy_regions \in Seq(Regions) /\ Len(lazy_regions) <= MAX_LAZY_REGIONS
  /\ mmio_next_vaddr \in Nat /\ VMM_MMIO_VBASE <= mmio_next_vaddr

Inv == TreeOK /\ CallOK /\ HeldOK /\ LeafOK /\ RangesOK /\ PendingOK /\ StaticsOK

----------------------------------------------------------------------------------
(* Entries and frames *)

(* A mapped page's frame is one an entry leads to. *)
LEMMA LeafLeads ==
  ASSUME NEW t, NEW pos, Tree(t, pos), TablesType(t), NEW v \in Page, LeafIn(t, v) # Absent
  PROVE  Leads(t, LeafIn(t, v).frame)
  <1>1. PICK g: Serves(t, pos, g, v, 1)
    BY LeafUnserved
  <1>2. g \in DOMAIN t /\ LeafIn(t, v) = t[g][Index(v, 1)]
    BY <1>1, LeafServed DEF Serves
  <1>3. Index(v, 1) \in Slot
    BY IndexType, VmmAssumption
  <1> QED
    BY <1>2, <1>3 DEF Leads

(* One entry changes. *)
OneEntry(t, t2, g, i, e) ==
  \A h \in DOMAIN t, j \in Slot: t2[h][j] = IF h = g /\ j = i THEN e ELSE t[h][j]

(* Overwriting an entry of a table changes that entry alone. *)
LEMMA EntrySet ==
  ASSUME NEW t, TablesType(t), NEW t2, NEW g \in DOMAIN t, NEW i \in Slot, NEW e,
         \A h \in DOMAIN t: t2[h] = IF h = g THEN [t[h] EXCEPT ![i] = e] ELSE t[h]
  PROVE  OneEntry(t, t2, g, i, e)
  <1>1. \A h \in DOMAIN t: t[h] \in [Slot -> Mapping \cup {Absent}]
    BY DEF TablesType
  <1> QED
    BY <1>1 DEF OneEntry

(* What leads where after one entry of the same tables changed. *)
LEMMA LeadsEntry ==
  ASSUME NEW t, NEW t2, NEW g \in DOMAIN t, NEW i \in Slot, NEW e,
         DOMAIN t2 = DOMAIN t, OneEntry(t, t2, g, i, e)
  PROVE  /\ e # Absent => Leads(t2, e.frame)
         /\ \A f: Leads(t2, f) => Leads(t, f) \/ (e # Absent /\ f = e.frame)
         /\ \A f: Leads(t, f) => Leads(t2, f) \/ (t[g][i] # Absent /\ f = t[g][i].frame)
  <1>1. e # Absent => Leads(t2, e.frame)
    BY DEF OneEntry, Leads
  <1>2. ASSUME NEW f, Leads(t2, f) PROVE Leads(t, f) \/ (e # Absent /\ f = e.frame)
    <2>1. PICK h \in DOMAIN t, j \in Slot: t2[h][j] # Absent /\ t2[h][j].frame = f
      BY <1>2 DEF Leads
    <2>2. CASE h = g /\ j = i
      BY <2>1, <2>2 DEF OneEntry
    <2>3. CASE ~(h = g /\ j = i)
      BY <2>1, <2>3 DEF OneEntry, Leads
    <2> QED
      BY <2>2, <2>3
  <1>3. ASSUME NEW f, Leads(t, f)
        PROVE  Leads(t2, f) \/ (t[g][i] # Absent /\ f = t[g][i].frame)
    <2>1. PICK h \in DOMAIN t, j \in Slot: t[h][j] # Absent /\ t[h][j].frame = f
      BY <1>3 DEF Leads
    <2>2. CASE h = g /\ j = i
      BY <2>1, <2>2
    <2>3. CASE ~(h = g /\ j = i)
      BY <2>1, <2>3 DEF OneEntry, Leads
    <2> QED
      BY <2>2, <2>3
  <1> QED
    BY <1>1, <1>2, <1>3

(* No frame becomes shared when the new entry leads nowhere, to a device, or where *)
(* no entry led.                                                                   *)
LEMMA OnceEntry ==
  ASSUME NEW t, NEW t2, NEW g \in DOMAIN t, NEW i \in Slot, NEW e,
         DOMAIN t2 = DOMAIN t, OneEntry(t, t2, g, i, e), Once(t),
         e # Absent => e.frame \in Devices \/ ~Leads(t, e.frame)
  PROVE  Once(t2)
  <1> SUFFICES ASSUME NEW h \in DOMAIN t, NEW k \in DOMAIN t, NEW a \in Slot, NEW b \in Slot,
                      t2[h][a] # Absent, t2[k][b] # Absent,
                      t2[h][a].frame = t2[k][b].frame, t2[h][a].frame \notin Devices
               PROVE  h = k /\ a = b
    BY DEF Once
  <1>1. CASE h = g /\ a = i
    <2>1. t2[h][a] = e
      BY <1>1 DEF OneEntry
    <2>2. CASE k = g /\ b = i
      BY <1>1, <2>2
    <2>3. CASE ~(k = g /\ b = i)
      <3>1. t2[k][b] = t[k][b]
        BY <2>3 DEF OneEntry
      <3> QED
        BY <2>1, <3>1 DEF Leads
    <2> QED
      BY <2>2, <2>3
  <1>2. CASE ~(h = g /\ a = i)
    <2>1. t2[h][a] = t[h][a]
      BY <1>2 DEF OneEntry
    <2>2. CASE k = g /\ b = i
      <3>1. t2[k][b] = e
        BY <2>2 DEF OneEntry
      <3> QED
        BY <2>1, <3>1 DEF Leads
    <2>3. CASE ~(k = g /\ b = i)
      <3>1. t2[k][b] = t[k][b]
        BY <2>3 DEF OneEntry
      <3> QED
        BY <2>1, <3>1 DEF Once
    <2> QED
      BY <2>2, <2>3
  <1> QED
    BY <1>1, <1>2

(* What leads where after a new empty table f was entered in place of nothing. *)
LEMMA LeadsTable ==
  ASSUME NEW t, NEW t2, NEW g \in DOMAIN t, NEW i \in Slot, NEW f, f \notin DOMAIN t,
         DOMAIN t2 = DOMAIN t \cup {f}, t2[f] = EmptyTable, t[g][i] = Absent,
         NEW e, e # Absent, e.frame = f, OneEntry(t, t2, g, i, e)
  PROVE  \A k: Leads(t2, k) <=> Leads(t, k) \/ k = f
  <1>0. \A j \in Slot: t2[f][j] = Absent
    BY DEF EmptyTable
  <1>1. Leads(t2, f)
    BY DEF OneEntry, Leads
  <1>2. ASSUME NEW k, Leads(t2, k) PROVE Leads(t, k) \/ k = f
    <2>1. PICK h \in DOMAIN t2, j \in Slot: t2[h][j] # Absent /\ t2[h][j].frame = k
      BY <1>2 DEF Leads
    <2>2. h \in DOMAIN t
      BY <1>0, <2>1
    <2> QED
      BY <2>1, <2>2 DEF OneEntry, Leads
  <1>3. ASSUME NEW k, Leads(t, k) PROVE Leads(t2, k)
    <2>1. PICK h \in DOMAIN t, j \in Slot: t[h][j] # Absent /\ t[h][j].frame = k
      BY <1>3 DEF Leads
    <2>2. t2[h][j] = t[h][j] /\ h \in DOMAIN t2
      BY <2>1 DEF OneEntry
    <2> QED
      BY <2>1, <2>2 DEF Leads
  <1> QED
    BY <1>1, <1>2, <1>3

(* Nor does a frame become shared that no entry led to. *)
LEMMA OnceTable ==
  ASSUME NEW t, NEW t2, NEW g \in DOMAIN t, NEW i \in Slot, NEW f, f \notin DOMAIN t,
         DOMAIN t2 = DOMAIN t \cup {f}, t2[f] = EmptyTable,
         NEW e, e # Absent, e.frame = f, OneEntry(t, t2, g, i, e), Once(t), ~Leads(t, f)
  PROVE  Once(t2)
  <1>0. \A j \in Slot: t2[f][j] = Absent
    BY DEF EmptyTable
  <1> SUFFICES ASSUME NEW h \in DOMAIN t2, NEW k \in DOMAIN t2, NEW a \in Slot, NEW b \in Slot,
                      t2[h][a] # Absent, t2[k][b] # Absent,
                      t2[h][a].frame = t2[k][b].frame, t2[h][a].frame \notin Devices
               PROVE  h = k /\ a = b
    BY DEF Once
  <1>1. h \in DOMAIN t /\ k \in DOMAIN t
    BY <1>0
  <1>2. /\ t2[h][a] = IF h = g /\ a = i THEN e ELSE t[h][a]
        /\ t2[k][b] = IF k = g /\ b = i THEN e ELSE t[k][b]
    BY <1>1 DEF OneEntry
  <1>3. CASE h = g /\ a = i
    <2>1. CASE k = g /\ b = i
      BY <1>3, <2>1
    <2>2. CASE ~(k = g /\ b = i)
      BY <1>1, <1>2, <1>3, <2>2 DEF Leads
    <2> QED
      BY <2>1, <2>2
  <1>4. CASE ~(h = g /\ a = i)
    <2>1. CASE k = g /\ b = i
      BY <1>1, <1>2, <1>4, <2>1 DEF Leads
    <2>2. CASE ~(k = g /\ b = i)
      BY <1>1, <1>2, <1>4, <2>2 DEF Once
    <2> QED
      BY <2>1, <2>2
  <1> QED
    BY <1>3, <1>4

----------------------------------------------------------------------------------
(* Calls *)

(* Pages are numbers, from 0 on. *)
LEMMA PageIs ==
  /\ Page \subseteq Nat /\ 0 \in Page
  /\ \A v \in Page, u \in Nat: u <= v => u \in Page
  <1>1. Span[LEVELS] \in Nat \ {0}
    BY SpanFacts, VmmAssumption DEF Powers
  <1> QED
    BY <1>1 DEF Page

(* So are those between the bases. *)
LEMMA DynamicPages == Dynamic \subseteq Page
  BY PageIs, VmmAssumption DEF Dynamic

(* The top-level table is a frame. *)
LEMMA RootIs == Cr3 \in Nat
  BY BootAssumption DEF Tree

(* The top-level table serves every page. *)
LEMMA RootServes ==
  ASSUME NEW t, NEW pos, Tree(t, pos), NEW v
  PROVE  Serves(t, pos, Cr3, v, LEVELS)
  <1>1. Agree(pos[Cr3].page, v, LEVELS)
    BY VmmAssumption DEF Agree
  <1> QED
    BY <1>1 DEF Serves, Tree

(* Between calls of vmm_map the cursor rests on the top-level table. *)
LEMMA IdleFields ==
  Idle \in Call /\ Idle.op = "idle" /\ Idle.level = 0 /\ Idle.at = Cr3
  <1>1. LEVELS \in Nat
    BY VmmAssumption
  <1> QED
    BY <1>1, PageIs, RootIs DEF Idle, Call

(* vmm_map starts there. *)
LEMMA MapCallFields ==
  ASSUME NEW op \in {"map", "fault", "guarded", "mmio"}, NEW v \in Page, NEW f \in Nat,
         NEW flags \in SUBSET Flag, NEW start \in Nat, NEW left \in Nat,
         NEW c, c = MapCall(op, v, f, flags, start, left)
  PROVE  /\ c \in Call /\ c.op = op /\ c.virt = v /\ c.frame = f /\ c.flags = flags
         /\ c.level = LEVELS /\ c.at = Cr3 /\ c.start = start /\ c.left = left
  <1>1. LEVELS \in Nat /\ LEVELS \in 0..LEVELS
    BY VmmAssumption
  <1> QED
    BY <1>1, RootIs DEF MapCall, Call

(* A page of vmm_alloc_guarded is next. *)
Turn(v, start, flags, left) ==
  [Idle EXCEPT !.op = "guarded", !.virt = v, !.start = start, !.flags = flags, !.left = left]

(* Between its pages the cursor rests as well. *)
LEMMA TurnFields ==
  ASSUME NEW v \in Page, NEW flags \in SUBSET Flag, NEW start \in Nat, NEW left \in Nat,
         NEW c, c = Turn(v, start, flags, left)
  PROVE  /\ c \in Call /\ c.op = "guarded" /\ c.virt = v /\ c.flags = flags
         /\ c.level = 0 /\ c.at = Cr3 /\ c.start = start /\ c.left = left
  <1>1. LEVELS \in Nat
    BY VmmAssumption
  <1>2. c = [op |-> "guarded", virt |-> v, frame |-> 0, flags |-> flags, level |-> 0,
             at |-> Cr3, start |-> start, left |-> left]
    BY DEF Idle, Turn
  <1> QED
    BY <1>1, <1>2, RootIs DEF Call

(* vmm_map looks at the next table. *)
Lower(b, g) == [b EXCEPT !.level = @ - 1, !.at = g]

(* The rest of the call stays. *)
LEMMA DescendFields ==
  ASSUME NEW b \in Call, b.level > 1, NEW g \in Nat, NEW c, c = Lower(b, g)
  PROVE  /\ c \in Call /\ c.op = b.op /\ c.virt = b.virt /\ c.frame = b.frame
         /\ c.flags = b.flags /\ c.level = b.level - 1 /\ c.at = g
         /\ c.start = b.start /\ c.left = b.left
  <1>1. LEVELS \in Nat /\ b.level \in 0..LEVELS /\ b.level - 1 \in 0..LEVELS
    BY VmmAssumption DEF Call
  <1> QED
    BY <1>1 DEF Call, Lower

(* The invariant's facts in a state where the kernel runs. *)
LEMMA RunningFacts ==
  ASSUME Inv, Ready
  PROVE  /\ ~halted /\ phase = "ready" /\ PP!IInv
         /\ \A f: f \in held <=> InUse(f) /\ f \notin Bootloader \cup Devices
         /\ call \in Call /\ call.level \in 0..LEVELS /\ call.virt \in Page /\ call.frame \in Nat
         /\ call.flags \in SUBSET Flag /\ call.at \in DOMAIN table
         /\ call.start \in Nat /\ call.left \in Nat
  <1>1. ~halted /\ phase = "ready"
    BY DEF Ready
  <1>2. /\ PP!IInv /\ \A f: f \in held <=> InUse(f) /\ f \notin Bootloader \cup Devices
    BY <1>1 DEF Inv, HeldOK
  <1>3. call \in Call /\ call.at \in DOMAIN table
    BY DEF Inv, CallOK
  <1> QED
    BY <1>1, <1>2, <1>3 DEF Call

(* The tables stay a tree while a call starts at the top, or none is under way. *)
LEMMA TreeRests ==
  ASSUME TreeOK, table' = table, call'.level # 0 => call'.level = LEVELS /\ call'.at = Cr3,
         DOMAIN table \cap mine' = {}
  PROVE  TreeOK'
  <1>1. PICK pos: Tree(table, pos)
    BY DEF TreeOK, Cursor
  <1>2. call'.level # 0 => Serves(table, pos, call'.at, call'.virt, call'.level)
    BY <1>1, RootServes
  <1>3. Cursor(table, call')
    BY <1>1, <1>2 DEF Cursor
  <1> QED
    BY <1>3 DEF TreeOK, Cursor

(* The tables' root is a table. *)
LEMMA RootIn ==
  ASSUME TreeOK
  PROVE  Cr3 \in DOMAIN table
  BY DEF TreeOK, Cursor, Tree

(* Nothing changes for the ranges while no page of their zone does. *)
LEMMA RangesKept ==
  ASSUME RangesOK, UNCHANGED <<dynamic_next_vaddr, guarded>>,
         \A w \in Dynamic: LeafIn(table', w) = LeafIn(table, w)
  PROVE  RangesOK'
  <1>0. VMM_DYNAMIC_VBASE \in Nat /\ VMM_MMIO_VBASE \in Nat
    BY VmmAssumption, PageIs
  <1>1. ASSUME NEW r \in guarded
        PROVE  /\ LeafIn(table', r.start - 1) = Absent /\ LeafIn(table', r.end) = Absent
               /\ \A v \in r.start..(r.end - 1): LeafIn(table', v) # Absent
    <2>1. /\ r.start - 1 \in Dynamic /\ r.end \in Dynamic
          /\ \A v \in r.start..(r.end - 1): v \in Dynamic
      BY <1>0 DEF RangesOK, Dynamic
    <2> QED
      BY <2>1 DEF RangesOK
  <1> QED
    BY <1>1 DEF RangesOK

(* Nor for the range in the making. *)
LEMMA PendingKept ==
  ASSUME PendingOK, call \in Call, UNCHANGED <<dynamic_next_vaddr, guarded>>,
         call'.op = call.op, call'.virt = call.virt, call'.start = call.start,
         call'.left = call.left, dynamic_next_vaddr \in Page,
         \A w \in Dynamic: LeafIn(table', w) = LeafIn(table, w)
  PROVE  PendingOK'
  <1> SUFFICES ASSUME call.op = "guarded" PROVE PendingOK'
    BY DEF PendingOK
  <1>0. /\ VMM_DYNAMIC_VBASE \in Nat /\ VMM_MMIO_VBASE \in Nat /\ dynamic_next_vaddr \in Nat
        /\ call.start \in Nat /\ call.virt \in Nat /\ call.left \in Nat
    BY VmmAssumption, PageIs DEF Call
  <1>1. /\ call.start - 1 \in Dynamic
        /\ \A v \in call.start..(call.virt - 1): v \in Dynamic
        /\ \A v \in call.virt..(dynamic_next_vaddr - 1): v \in Dynamic
    BY <1>0 DEF PendingOK, Dynamic
  <1> QED
    BY <1>1 DEF PendingOK

(* Ranges rest while the tables and the ranges do. *)
LEMMA RangesRest ==
  ASSUME RangesOK, LeafOK, UNCHANGED <<table, dynamic_next_vaddr, guarded>>, mine \subseteq mine'
  PROVE  RangesOK' /\ LeafOK'
  BY DEF RangesOK, LeafOK

----------------------------------------------------------------------------------
(* The invariant is inductive: steps that leave the tables alone *)

(* pmm_init holds nothing back. *)
LEMMA BootInv == ASSUME Inv, Boot PROVE Inv'
  <1>1. PM!PmmInit /\ UNCHANGED <<table, statics, call, callers, halted>>
    BY DEF Boot
  <1>2. phase = "boot" /\ held' = held
    BY <1>1 DEF PM!PmmInit
  <1>3. PP!IInv'
    BY <1>1, SamePmm, MapsWellFormed, PP!PmmInitIInv DEF Inv, HeldOK
  <1>4. HeldOK'
    BY <1>1, <1>2, <1>3 DEF Inv, HeldOK, InUse, InFlight, callers, Leads
  <1>5. (TreeOK /\ CallOK /\ LeafOK /\ RangesOK /\ PendingOK /\ StaticsOK)'
    BY <1>1, <1>2 DEF Inv, TreeOK, CallOK, LeafOK, RangesOK, PendingOK, StaticsOK,
                      statics, callers
  <1> QED
    BY <1>4, <1>5 DEF Inv

(* Nothing happens. *)
LEMMA StutterInv == ASSUME Inv, UNCHANGED vars PROVE Inv'
  <1>1. UNCHANGED <<table, statics, call, callers, halted>> /\ UNCHANGED pmmVars
    BY DEF vars
  <1>2. PP!IInv' /\ held' = held /\ phase' = phase
    BY <1>1, PmmRests DEF Inv, HeldOK
  <1>4. HeldOK'
    BY <1>1, <1>2 DEF Inv, HeldOK, InUse, InFlight, callers, Leads
  <1>5. (TreeOK /\ CallOK /\ LeafOK /\ RangesOK /\ PendingOK /\ StaticsOK)'
    BY <1>1, <1>2 DEF Inv, TreeOK, CallOK, LeafOK, RangesOK, PendingOK, StaticsOK,
                      statics, callers
  <1> QED
    BY <1>4, <1>5 DEF Inv

(* A present entry leads down the branch of the page that is being mapped. *)
LEMMA DescendServes ==
  ASSUME NEW t, NEW pos, Tree(t, pos), NEW v \in Page, NEW l \in 0..LEVELS, l > 1,
         NEW g, Serves(t, pos, g, v, l), t[g][Index(v, l)] # Absent
  PROVE  Serves(t, pos, t[g][Index(v, l)].frame, v, l - 1)
  <1> DEFINE m == l - 1
  <1>1. m \in 1..LEVELS /\ m < LEVELS /\ m + 1 = l
    BY VmmAssumption
  <1> HIDE DEF m
  <1>2. Serves(t, pos, g, v, m + 1) /\ t[g][Index(v, m + 1)] # Absent
    BY <1>1
  <1>3. Serves(t, pos, t[g][Index(v, m + 1)].frame, v, m)
    BY <1>1, <1>2, ChildServes
  <1> QED
    BY <1>1, <1>3 DEF m

(* ensure_next_level finds a table. *)
LEMMA DescendInv ==
  ASSUME Inv, Descend
  PROVE  /\ Inv'
         /\ call.level # 0 /\ call'.level # 0
         /\ UNCHANGED <<call.virt, call.frame, call.flags>>
  <1>0. /\ Ready /\ call.level > 1 /\ Here # Absent
        /\ call' = [call EXCEPT !.level = @ - 1, !.at = Here.frame]
        /\ UNCHANGED pmmVars /\ UNCHANGED <<table, statics, callers, halted>>
    BY DEF Descend
  <1>1. /\ call \in Call /\ call.level \in 0..LEVELS /\ call.virt \in Page
    BY <1>0, RunningFacts
  <1>2. PICK pos: Tree(table, pos) /\ Serves(table, pos, call.at, call.virt, call.level)
    BY <1>0, <1>1 DEF Inv, TreeOK, Cursor
  <1>3. Serves(table, pos, Here.frame, call.virt, call.level - 1)
    BY <1>0, <1>1, <1>2, DescendServes DEF Here
  <1>4. Here.frame \in DOMAIN table /\ Here.frame \in Nat
    BY <1>3 DEF Serves, Inv, TreeOK, TablesType
  <1> DEFINE g == Here.frame
  <1>a. call' = Lower(call, g) /\ g \in Nat /\ call.level > 1
    BY <1>0, <1>4 DEF Lower
  <1> HIDE DEF g
  <1>5. /\ call' \in Call /\ call'.op = call.op /\ call'.virt = call.virt
        /\ call'.frame = call.frame /\ call'.flags = call.flags
        /\ call'.level = call.level - 1 /\ call'.at = g
        /\ call'.start = call.start /\ call'.left = call.left
    BY <1>1, <1>a, DescendFields
  <1>6. call'.level # 0 /\ call.level # 0
    BY <1>0, <1>1, <1>5
  <1>7. TreeOK'
    <2>1. Serves(table, pos, call'.at, call'.virt, call'.level)
      BY <1>3, <1>5 DEF g
    <2>2. Cursor(table, call')
      BY <1>2, <2>1 DEF Cursor
    <2> QED
      BY <1>0, <2>2 DEF Inv, TreeOK, callers
  <1>8. PP!IInv' /\ held' = held /\ phase' = phase
    BY <1>0, PmmRests DEF Inv, HeldOK
  <1>9. InFlight' = InFlight
    BY <1>5, <1>6 DEF InFlight
  <1>10. HeldOK'
    BY <1>0, <1>8, <1>9 DEF Inv, HeldOK, InUse, callers
  <1>11. CallOK'
    BY <1>0, <1>4, <1>5, <1>6, <1>8 DEF Inv, CallOK, callers, g
  <1>12. (LeafOK /\ RangesOK /\ PendingOK /\ StaticsOK)'
    BY <1>0, <1>5 DEF Inv, LeafOK, RangesOK, PendingOK, StaticsOK, statics, callers
  <1> QED
    BY <1>5, <1>6, <1>7, <1>10, <1>11, <1>12 DEF Inv

(* A call of vmm_map that fails leaves no trace but vmm_alloc_guarded's frame freed. *)
LEMMA MapFailsInv == ASSUME Inv, MapFails PROVE Inv'
  <1>0. /\ Ready /\ call.level > 1
        /\ (halted' = (call.op \in {"fault", "mmio"})) /\ call' = Idle
        /\ UNCHANGED <<table, statics, mine, guarded>>
    BY DEF MapFails
  <1>1. /\ IF GivesBack = {} THEN UNCHANGED pmmVars ELSE \E f \in GivesBack: PM!FreeFrame(f)
    BY DEF MapFails
  <1>2. /\ ~halted /\ phase = "ready" /\ PP!IInv
        /\ \A f: f \in held <=> InUse(f) /\ f \notin Bootloader \cup Devices
        /\ call.level \in 0..LEVELS
    BY <1>0, RunningFacts
  <1>3. Idle \in Call /\ call'.op = "idle" /\ call'.level = 0 /\ call'.at = Cr3
    BY <1>0, IdleFields
  <1>4. TreeOK'
    BY <1>0, <1>3, TreeRests DEF Inv, TreeOK, callers
  <1>5. CallOK'
    BY <1>0, <1>3, RootIn DEF Inv, CallOK
  <1>6. (LeafOK /\ RangesOK /\ StaticsOK)'
    BY <1>0, RangesRest DEF Inv, StaticsOK, statics, callers
  <1>7. PendingOK'
    BY <1>3 DEF PendingOK
  <1>8. InFlight' = {}
    BY <1>3 DEF InFlight
  <1>9. HeldOK'
    <2>1. CASE call.op = "guarded"
      <3>1. GivesBack = {call.frame}
        BY <2>1 DEF GivesBack
      <3>2. PM!FreeFrame(call.frame)
        BY <1>1, <3>1
      <3>3. /\ call.frame \in held /\ call.frame \notin mine /\ call.frame \notin DOMAIN table
            /\ call.frame \in Devices \/ ~Leads(table, call.frame)
        BY <1>0, <1>2, <2>1 DEF Inv, CallOK
      <3>4. ~Leads(table, call.frame)
        BY <1>2, <3>3
      <3>5. PP!IInv' /\ held' = held \ {call.frame} /\ phase' = "ready"
        BY <1>2, <3>2, <3>3, FreeTakes
      <3>6. InFlight = {call.frame}
        BY <1>0, <1>2, <2>1 DEF InFlight
      <3>7. \A f: InUse(f)' <=> InUse(f) /\ f # call.frame
        BY <1>0, <1>8, <3>3, <3>4, <3>6 DEF InUse, callers
      <3>8. mine' \subseteq held'
        BY <1>0, <3>3, <3>5 DEF Inv, HeldOK, callers
      <3>9. halted' \in BOOLEAN
        BY <1>0
      <3> QED
        BY <1>2, <3>5, <3>7, <3>8, <3>9 DEF HeldOK
    <2>2. CASE call.op # "guarded"
      <3>1. UNCHANGED pmmVars
        BY <1>1, <2>2 DEF GivesBack
      <3>2. PP!IInv' /\ held' = held /\ phase' = phase
        BY <1>2, <3>1, PmmRests
      <3>3. halted' \in BOOLEAN /\ mine' \subseteq held'
        BY <1>0, <3>2 DEF Inv, HeldOK, callers
      <3>4. ASSUME ~halted' PROVE \A f: InUse(f)' <=> InUse(f)
        <4>1. InFlight = {}
          BY <1>0, <2>2, <3>4 DEF InFlight
        <4> QED
          BY <1>0, <1>8, <4>1 DEF InUse, callers
      <3> QED
        BY <1>2, <3>2, <3>3, <3>4 DEF HeldOK
    <2> QED
      BY <2>1, <2>2
  <1> QED
    BY <1>4, <1>5, <1>6, <1>7, <1>9 DEF Inv

(* A caller's new frame is in no table and no entry leads to it. *)
LEMMA CallerAllocsInv == ASSUME Inv, NEW f, CallerAllocs(f) PROVE Inv'
  <1>0. /\ Ready /\ call.op = "idle" /\ AllocFrame(f) /\ mine' = mine \cup {f}
        /\ UNCHANGED <<table, statics, call, guarded, halted>>
    BY DEF CallerAllocs, Free
  <1>1. /\ ~halted /\ phase = "ready" /\ PP!IInv
        /\ \A k: k \in held <=> InUse(k) /\ k \notin Bootloader \cup Devices
    BY <1>0, RunningFacts
  <1>2. /\ PP!IInv' /\ f \in Nat /\ f \notin held /\ f \notin Bootloader \cup Devices
        /\ held' = held \cup {f} /\ phase' = "ready"
    BY <1>0, <1>1, AllocGives
  <1>3. f \notin DOMAIN table /\ ~Leads(table, f)
    BY <1>1, <1>2 DEF InUse
  <1>4. call.level = 0
    BY <1>0 DEF Inv, CallOK
  <1>5. TreeOK'
    BY <1>0, <1>3, <1>4, TreeRests DEF Inv, TreeOK
  <1>6. CallOK'
    BY <1>0, <1>4 DEF Inv, CallOK
  <1>7. (LeafOK /\ RangesOK /\ StaticsOK /\ PendingOK)'
    BY <1>0, RangesRest DEF Inv, StaticsOK, PendingOK, statics
  <1>8. \A k: InUse(k)' <=> InUse(k) \/ k = f
    BY <1>0 DEF InUse, InFlight
  <1>9. HeldOK'
    BY <1>0, <1>1, <1>2, <1>8 DEF Inv, HeldOK
  <1> QED
    BY <1>5, <1>6, <1>7, <1>9 DEF Inv

(* Targets of present entries. *)
LEMMA TargetsLead == ASSUME NEW f PROVE f \in {Target(x): x \in Present} <=> Leads(table, f)
  <1>1. ASSUME NEW x \in Present PROVE Leads(table, Target(x))
    <2>1. x[1] \in DOMAIN table /\ x[2] \in Slot /\ table[x[1]][x[2]] # Absent
      BY <1>1 DEF Present
    <2> QED
      BY <2>1 DEF Leads, Target
  <1>2. ASSUME Leads(table, f) PROVE f \in {Target(x): x \in Present}
    <2>1. PICK g \in DOMAIN table, i \in Slot: table[g][i] # Absent /\ table[g][i].frame = f
      BY <1>2 DEF Leads
    <2>2. <<g, i>> \in Present /\ Target(<<g, i>>) = f
      BY <2>1 DEF Present, Target
    <2> QED
      BY <2>2
  <1> QED
    BY <1>1, <1>2

(* A caller maps a frame of its own that no page leads to. *)
LEMMA CallerMapsInv ==
  ASSUME Inv, NEW v \in UserPages, NEW f, NEW flags \in FlagSets, CallerMaps(v, f, flags)
  PROVE  Inv'
  <1>0. /\ Ready /\ call.op = "idle" /\ f \in mine
        /\ call' = MapCall("map", v, f, flags, 0, 0)
        /\ UNCHANGED pmmVars /\ UNCHANGED <<table, statics, callers, halted>>
    BY DEF CallerMaps, Free
  <1>1. /\ ~halted /\ phase = "ready" /\ PP!IInv
        /\ \A k: k \in held <=> InUse(k) /\ k \notin Bootloader \cup Devices
    BY <1>0, RunningFacts
  <1>2. PP!IInv' /\ held' = held /\ phase' = phase
    BY <1>0, <1>1, PmmRests
  <1>3. ~Leads(table, f)
    BY TargetsLead DEF CallerMaps
  <1>4. f \in held /\ held \subseteq Nat /\ f \notin DOMAIN table
    BY <1>0, <1>1 DEF Inv, HeldOK, TreeOK, PP!IInv, PP!TypeOK
  <1>5. v \in Page /\ flags \in SUBSET Flag
    BY VmmAssumption
  <1>6. /\ call' \in Call /\ call'.op = "map" /\ call'.virt = v /\ call'.frame = f
        /\ call'.level = LEVELS /\ call'.at = Cr3
    BY <1>0, <1>4, <1>5, MapCallFields
  <1>7. TreeOK'
    BY <1>0, <1>6, TreeRests DEF Inv, TreeOK, callers
  <1>8. CallOK'
    <2>1. LEVELS # 0
      BY VmmAssumption
    <2> QED
      BY <1>0, <1>3, <1>4, <1>6, <2>1, RootIn DEF Inv, CallOK, callers
  <1>9. (LeafOK /\ RangesOK /\ StaticsOK)'
    BY <1>0, RangesRest DEF Inv, StaticsOK, statics, callers
  <1>10. PendingOK'
    BY <1>6 DEF PendingOK
  <1>11. InFlight = {} /\ InFlight' = {}
    BY <1>0, <1>6 DEF InFlight
  <1>12. HeldOK'
    BY <1>0, <1>1, <1>2, <1>11 DEF Inv, HeldOK, InUse, callers
  <1> QED
    BY <1>7, <1>8, <1>9, <1>10, <1>12 DEF Inv

(* A caller frees a frame of its own that no page leads to any more. *)
LEMMA CallerFreesInv == ASSUME Inv, NEW f, CallerFrees(f) PROVE Inv'
  <1>0. /\ Ready /\ call.op = "idle" /\ f \in mine /\ PM!FreeFrame(f) /\ mine' = mine \ {f}
        /\ UNCHANGED <<table, statics, call, guarded, halted>>
    BY DEF CallerFrees, Free
  <1>1. /\ ~halted /\ phase = "ready" /\ PP!IInv
        /\ \A k: k \in held <=> InUse(k) /\ k \notin Bootloader \cup Devices
    BY <1>0, RunningFacts
  <1>2. f \in held
    BY <1>0 DEF Inv, HeldOK
  <1>3. PP!IInv' /\ held' = held \ {f} /\ phase' = "ready"
    BY <1>0, <1>1, <1>2, FreeTakes
  <1>4. ~Leads(table, f) /\ f \notin DOMAIN table
    BY <1>0, TargetsLead DEF CallerFrees, Inv, TreeOK
  <1>5. call.level = 0
    BY <1>0 DEF Inv, CallOK
  <1>6. TreeOK'
    BY <1>0, <1>5, TreeRests DEF Inv, TreeOK
  <1>7. CallOK'
    BY <1>0, <1>5 DEF Inv, CallOK
  <1>8. (RangesOK /\ StaticsOK /\ PendingOK)'
    BY <1>0 DEF Inv, RangesOK, StaticsOK, PendingOK, statics
  <1>9. LeafOK'
    <2>1. PICK pos: Tree(table, pos)
      BY DEF Inv, TreeOK, Cursor
    <2>2. \A v \in Page: LeafIn(table, v) # Absent => LeafIn(table, v).frame # f
      BY <1>4, <2>1, LeafLeads DEF Inv, TreeOK
    <2> QED
      BY <1>0, <2>2 DEF Inv, LeafOK
  <1>10. \A k: InUse(k)' <=> InUse(k) /\ k # f
    <2>1. InFlight = {} /\ InFlight' = {}
      BY <1>0 DEF InFlight
    <2> QED
      BY <1>0, <1>4, <2>1 DEF InUse
  <1>11. HeldOK'
    BY <1>0, <1>1, <1>3, <1>10 DEF Inv, HeldOK
  <1> QED
    BY <1>6, <1>7, <1>8, <1>9, <1>11 DEF Inv

(* A registered region fits the table of regions. *)
LEMMA RegisterLazyRegionInv ==
  ASSUME Inv, NEW r \in Regions, RegisterLazyRegion(r)
  PROVE  Inv'
  <1>0. /\ lazy_regions' = IF SlotUnused THEN Append(lazy_regions, r) ELSE lazy_regions
        /\ UNCHANGED pmmVars
        /\ UNCHANGED <<table, dynamic_next_vaddr, mmio_next_vaddr, call, callers, halted>>
    BY DEF RegisterLazyRegion
  <1>1. PP!IInv' /\ held' = held /\ phase' = phase
    BY <1>0, PmmRests DEF Inv, HeldOK
  <1>2. HeldOK'
    BY <1>0, <1>1 DEF Inv, HeldOK, InUse, InFlight, callers
  <1>3. (TreeOK /\ CallOK /\ LeafOK /\ RangesOK /\ PendingOK)'
    BY <1>0, <1>1 DEF Inv, TreeOK, CallOK, LeafOK, RangesOK, PendingOK, callers
  <1>4. StaticsOK'
    <2>1. MAX_LAZY_REGIONS \in Nat
      BY VmmAssumption
    <2> QED
      BY <1>0, <2>1 DEF Inv, StaticsOK, SlotUnused
  <1> QED
    BY <1>2, <1>3, <1>4 DEF Inv

(* What the CPU finds for page v in the tables t. *)
WalkIn(t, v) ==
  IF LeafIn(t, v) = Absent THEN Absent
  ELSE Entry(LeafIn(t, v).frame, LeafIn(t, v).flags \ Withheld(t, v))

(* It is the leaf entry: the tables above it withhold nothing. *)
LEMMA WalkInIs ==
  ASSUME NEW t, TablesType(t), NEW pos, Tree(t, pos), NEW v \in Page
  PROVE  WalkIn(t, v) = LeafIn(t, v)
  <1>1. CASE LeafIn(t, v) = Absent
    BY <1>1 DEF WalkIn
  <1>2. CASE LeafIn(t, v) # Absent
    <2>1. PathIn(t, v)[1] # Absent
      BY <1>2 DEF LeafIn
    <2>2. Withheld(t, v) = {}
      BY <2>1, NothingWithheld
    <2> DEFINE e == LeafIn(t, v)
    <2>3. e \in Mapping
      BY <1>2, LeafType
    <2>4. WalkIn(t, v) = Entry(e.frame, e.flags \ {})
      BY <1>2, <2>2 DEF WalkIn
    <2> HIDE DEF e
    <2>5. Entry(e.frame, e.flags \ {}) = e
      BY <2>3 DEF Entry, Mapping
    <2> QED
      BY <2>4, <2>5 DEF e
  <1> QED
    BY <1>1, <1>2

(* So it is in every state. *)
LEMMA WalkIs ==
  ASSUME TreeOK, NEW v \in Page
  PROVE  Walk(v) = LeafIn(table, v)
  <1>1. PICK pos: Tree(table, pos)
    BY DEF TreeOK, Cursor
  <1>2. Walk(v) = WalkIn(table, v)
    BY DEF Walk, WalkIn, Path, LeafIn, Withheld
  <1> QED
    BY <1>1, <1>2, WalkInIs DEF TreeOK

(* A page fault that is handled starts to map a fresh frame in a lazy region. *)
LEMMA PageFaultInv == ASSUME Inv, NEW v \in Page, PageFault(v) PROVE Inv'
  <1>0. Ready /\ call.op = "idle" /\ UNCHANGED <<table, statics, callers>>
    BY DEF PageFault, Free
  <1>1. /\ ~halted /\ phase = "ready" /\ PP!IInv
        /\ \A k: k \in held <=> InUse(k) /\ k \notin Bootloader \cup Devices
    BY <1>0, RunningFacts
  <1>2. InFlight = {} /\ call.level = 0
    BY <1>0 DEF InFlight, Inv, CallOK
  <1>3. CASE halted' = TRUE /\ UNCHANGED pmmVars /\ UNCHANGED call
    <2>1. PP!IInv' /\ held' = held /\ phase' = phase
      BY <1>1, <1>3, PmmRests
    <2>2. HeldOK'
      BY <1>0, <1>1, <1>3, <2>1 DEF Inv, HeldOK, callers
    <2>3. (TreeOK /\ CallOK /\ LeafOK /\ RangesOK /\ PendingOK /\ StaticsOK)'
      BY <1>0, <1>3, <2>1 DEF Inv, TreeOK, CallOK, LeafOK, RangesOK, PendingOK, StaticsOK,
                              statics, callers
    <2> QED
      BY <2>2, <2>3 DEF Inv
  <1>4. CASE /\ Walk(v) = Absent /\ UNCHANGED halted
             /\ \E i \in DOMAIN lazy_regions:
                  /\ Covers(i, v)
                  /\ \E f \in 0..(frame_count - 1):
                       /\ AllocFrame(f)
                       /\ call' = MapCall("fault", v, f, lazy_regions[i].flags, 0, 0)
    <2>1. PICK i \in DOMAIN lazy_regions, f \in 0..(frame_count - 1):
            Covers(i, v) /\ AllocFrame(f)
            /\ call' = MapCall("fault", v, f, lazy_regions[i].flags, 0, 0)
      BY <1>4
    <2>2. /\ PP!IInv' /\ f \in Nat /\ f \notin held /\ f \notin Bootloader \cup Devices
          /\ held' = held \cup {f} /\ phase' = "ready"
      BY <1>1, <2>1, AllocGives
    <2>3. f \notin DOMAIN table /\ ~Leads(table, f) /\ f \notin mine
      BY <1>1, <2>2 DEF InUse
    <2>4. lazy_regions[i] \in Regions
      BY DEF Inv, StaticsOK
    <2>5. v \in LazyPage /\ lazy_regions[i].flags \in SUBSET Flag
      BY <2>1, <2>4, VmmAssumption DEF LazyPage, Covers, Region
    <2>6. /\ call' \in Call /\ call'.op = "fault" /\ call'.virt = v /\ call'.frame = f
          /\ call'.level = LEVELS /\ call'.at = Cr3
      BY <2>1, <2>2, <2>5, MapCallFields
    <2>7. LeafIn(table, v) = Absent
      BY <1>4, WalkIs DEF Inv
    <2>8. LEVELS # 0
      BY VmmAssumption
    <2>9. TreeOK'
      BY <1>0, <2>6, TreeRests DEF Inv, TreeOK, callers
    <2>10. CallOK'
      BY <1>0, <2>2, <2>3, <2>5, <2>6, <2>7, <2>8, RootIn DEF Inv, CallOK, callers
    <2>11. (LeafOK /\ RangesOK /\ StaticsOK)'
      BY <1>0, RangesRest DEF Inv, StaticsOK, statics, callers
    <2>12. PendingOK'
      BY <2>6 DEF PendingOK
    <2>13. InFlight' = {f}
      BY <2>6, <2>8 DEF InFlight
    <2>14. \A k: InUse(k)' <=> InUse(k) \/ k = f
      BY <1>0, <1>2, <2>13 DEF InUse, callers
    <2>15. HeldOK'
      BY <1>0, <1>1, <1>4, <2>2, <2>14 DEF Inv, HeldOK, callers
    <2> QED
      BY <2>9, <2>10, <2>11, <2>12, <2>15 DEF Inv
  <1> QED
    BY <1>3, <1>4 DEF PageFault

(* vmm_alloc_guarded takes address space that is not mapped. *)
LEMMA AllocGuardedInv ==
  ASSUME Inv, NEW n \in PageCounts, NEW flags \in FlagSets, AllocGuarded(n, flags)
  PROVE  Inv'
  <1> DEFINE first == dynamic_next_vaddr + 1
  <1>1. call' = Turn(first, first, flags, n)
    BY DEF AllocGuarded, Turn, FirstPage
  <1>2. /\ n \in Nat \ {0} /\ flags \in SUBSET Flag
        /\ VMM_MMIO_VBASE \in Page /\ VMM_MMIO_VBASE \in Nat
        /\ VMM_DYNAMIC_VBASE \in Nat
    BY VmmAssumption, PageIs
  <1>3. /\ dynamic_next_vaddr \in Nat /\ VMM_DYNAMIC_VBASE <= dynamic_next_vaddr
    BY PageIs DEF Inv, RangesOK
  <1>a. AfterRange(n) = dynamic_next_vaddr + n + 2
    BY <1>2, <1>3 DEF AfterRange, FirstPage
  <1>0. /\ Ready /\ call.op = "idle"
        /\ dynamic_next_vaddr + n + 2 <= VMM_MMIO_VBASE
        /\ dynamic_next_vaddr' = dynamic_next_vaddr + n + 2
        /\ UNCHANGED pmmVars
        /\ UNCHANGED <<table, lazy_regions, mmio_next_vaddr, callers, halted>>
    BY <1>a DEF AllocGuarded, Free
  <1>4. first \in Nat /\ first \in Page /\ dynamic_next_vaddr' \in Page
    BY <1>0, <1>2, <1>3, PageIs
  <1> HIDE DEF first
  <1>5. /\ call' \in Call /\ call'.op = "guarded" /\ call'.virt = first
        /\ call'.level = 0 /\ call'.at = Cr3 /\ call'.start = first /\ call'.left = n
    BY <1>1, <1>2, <1>4, TurnFields
  <1>6. PP!IInv' /\ held' = held /\ phase' = phase
    BY <1>0, PmmRests DEF Inv, HeldOK
  <1>7. TreeOK'
    BY <1>0, <1>5, TreeRests DEF Inv, TreeOK, callers
  <1>8. CallOK'
    BY <1>0, <1>5, RootIn DEF Inv, CallOK
  <1>9. (LeafOK /\ StaticsOK)'
    BY <1>0 DEF Inv, LeafOK, StaticsOK, callers
  <1>10. RangesOK'
    BY <1>0, <1>2, <1>3, <1>4 DEF Inv, RangesOK, callers, Dynamic
  <1>11. PendingOK'
    <2>1. /\ n > 0 /\ first + n + 1 = dynamic_next_vaddr' /\ dynamic_next_vaddr' <= VMM_MMIO_VBASE
          /\ VMM_DYNAMIC_VBASE < first
      BY <1>0, <1>2, <1>3 DEF first
    <2>2. \A r \in guarded: r.end < first
      BY <1>3 DEF Inv, RangesOK, first
    <2>3. \A v \in (first - 1)..(dynamic_next_vaddr' - 1): LeafIn(table, v) = Absent
      BY <1>0, <1>2, <1>3 DEF Inv, RangesOK, Dynamic, first
    <2>4. first - 1 \in (first - 1)..(dynamic_next_vaddr' - 1)
      BY <1>0, <1>2, <1>3, <1>4 DEF first
    <2>5. /\ \A v \in first..(first - 1): LeafIn(table, v) # Absent
          /\ \A v \in first..(dynamic_next_vaddr' - 1): LeafIn(table, v) = Absent
      BY <1>0, <1>2, <1>3, <1>4, <2>3
    <2> QED
      BY <1>0, <1>4, <1>5, <2>1, <2>2, <2>3, <2>4, <2>5 DEF PendingOK, callers
  <1>12. InFlight = {} /\ InFlight' = {}
    BY <1>0, <1>5 DEF InFlight
  <1>13. HeldOK'
    BY <1>0, <1>6, <1>12 DEF Inv, HeldOK, InUse, callers
  <1> QED
    BY <1>7, <1>8, <1>9, <1>10, <1>11, <1>13 DEF Inv

(* Its next page gets a fresh frame, or it gives up. *)
LEMMA GuardedPageInv == ASSUME Inv, GuardedPage PROVE Inv'
  <1>0. /\ Ready /\ call.op = "guarded" /\ call.level = 0
        /\ UNCHANGED <<table, statics, mine, guarded, halted>>
    BY DEF GuardedPage
  <1>1. /\ ~halted /\ phase = "ready" /\ PP!IInv
        /\ \A k: k \in held <=> InUse(k) /\ k \notin Bootloader \cup Devices
        /\ call.virt \in Page /\ call.flags \in SUBSET Flag
        /\ call.start \in Nat /\ call.left \in Nat
    BY <1>0, RunningFacts
  <1>2. InFlight = {}
    BY <1>0 DEF InFlight
  <1>3. CASE call' = Idle /\ UNCHANGED pmmVars
    <2>1. PP!IInv' /\ held' = held /\ phase' = phase
      BY <1>1, <1>3, PmmRests
    <2>2. Idle \in Call /\ call'.op = "idle" /\ call'.level = 0 /\ call'.at = Cr3
      BY <1>3, IdleFields
    <2>3. TreeOK'
      BY <1>0, <2>2, TreeRests DEF Inv, TreeOK, callers
    <2>4. CallOK'
      BY <1>0, <1>3, <2>2, RootIn DEF Inv, CallOK
    <2>5. (LeafOK /\ RangesOK /\ StaticsOK)'
      BY <1>0, RangesRest DEF Inv, StaticsOK, statics, callers
    <2>6. PendingOK' /\ InFlight' = {}
      BY <2>2 DEF PendingOK, InFlight
    <2>7. HeldOK'
      BY <1>0, <1>1, <1>2, <2>1, <2>6 DEF Inv, HeldOK, InUse, callers
    <2> QED
      BY <2>3, <2>4, <2>5, <2>6, <2>7 DEF Inv
  <1>4. CASE \E f \in 0..(frame_count - 1):
               /\ AllocFrame(f)
               /\ call' = MapCall("guarded", call.virt, f, call.flags, call.start, call.left)
    <2>1. PICK f: /\ AllocFrame(f)
                  /\ call' = MapCall("guarded", call.virt, f, call.flags, call.start, call.left)
      BY <1>4
    <2>2. /\ PP!IInv' /\ f \in Nat /\ f \notin held /\ f \notin Bootloader \cup Devices
          /\ held' = held \cup {f} /\ phase' = "ready"
      BY <1>1, <2>1, AllocGives
    <2>3. f \notin DOMAIN table /\ ~Leads(table, f) /\ f \notin mine
      BY <1>1, <2>2 DEF InUse
    <2>4. /\ call' \in Call /\ call'.op = "guarded" /\ call'.virt = call.virt /\ call'.frame = f
          /\ call'.level = LEVELS /\ call'.at = Cr3
          /\ call'.start = call.start /\ call'.left = call.left
      BY <1>1, <2>1, <2>2, MapCallFields
    <2>5. LEVELS # 0
      BY VmmAssumption
    <2>6. TreeOK'
      BY <1>0, <2>4, TreeRests DEF Inv, TreeOK, callers
    <2>7. CallOK'
      BY <1>0, <2>2, <2>3, <2>4, <2>5, RootIn DEF Inv, CallOK, callers
    <2>8. (LeafOK /\ RangesOK /\ StaticsOK)'
      BY <1>0, RangesRest DEF Inv, StaticsOK, statics, callers
    <2>9. PendingOK'
      BY <1>0, <2>4 DEF Inv, PendingOK, statics, callers
    <2>10. InFlight' = {f}
      BY <2>4, <2>5 DEF InFlight
    <2>11. \A k: InUse(k)' <=> InUse(k) \/ k = f
      BY <1>0, <1>2, <2>10 DEF InUse, callers
    <2>12. HeldOK'
      BY <1>0, <1>1, <2>2, <2>11 DEF Inv, HeldOK, callers
    <2> QED
      BY <2>6, <2>7, <2>8, <2>9, <2>12 DEF Inv
  <1> QED
    BY <1>3, <1>4 DEF GuardedPage

(* vmm_map_mmio takes the next page behind the windows. *)
LEMMA MapMmioInv == ASSUME Inv, NEW f \in Devices, MapMmio(f) PROVE Inv'
  <1>0. /\ Ready /\ call.op = "idle" /\ mmio_next_vaddr \in Page
        /\ mmio_next_vaddr' = mmio_next_vaddr + 1
        /\ call' = MapCall("mmio", mmio_next_vaddr, f, {"W", "NC", "NX"}, 0, 0)
        /\ UNCHANGED pmmVars
        /\ UNCHANGED <<table, lazy_regions, dynamic_next_vaddr, callers, halted>>
    BY DEF MapMmio, Free
  <1>1. f \in Nat /\ {"W", "NC", "NX"} \in SUBSET Flag /\ LEVELS # 0 /\ VMM_MMIO_VBASE \in Nat
    BY VmmAssumption, PageIs DEF Flag
  <1>2. /\ call' \in Call /\ call'.op = "mmio" /\ call'.virt = mmio_next_vaddr
        /\ call'.frame = f /\ call'.level = LEVELS /\ call'.at = Cr3
    BY <1>0, <1>1, MapCallFields
  <1>3. PP!IInv' /\ held' = held /\ phase' = phase
    BY <1>0, PmmRests DEF Inv, HeldOK
  <1>4. f \notin DOMAIN table
    BY DEF Inv, TreeOK
  <1>5. TreeOK'
    BY <1>0, <1>2, TreeRests DEF Inv, TreeOK, callers
  <1>6. CallOK'
    BY <1>0, <1>1, <1>2, <1>4, RootIn DEF Inv, CallOK, StaticsOK
  <1>7. (LeafOK /\ RangesOK)'
    BY <1>0, RangesRest DEF Inv, callers
  <1>8. StaticsOK'
    BY <1>0, <1>1 DEF Inv, StaticsOK
  <1>9. PendingOK' /\ InFlight = {} /\ InFlight' = {}
    BY <1>0, <1>2 DEF PendingOK, InFlight
  <1>10. HeldOK'
    BY <1>0, <1>3, <1>9 DEF Inv, HeldOK, InUse, callers
  <1> QED
    BY <1>5, <1>6, <1>7, <1>8, <1>9, <1>10 DEF Inv

----------------------------------------------------------------------------------
(* The invariant is inductive: steps that change the tables *)

(* They are a tree still, the cursor has come down to f, and no page has changed. *)
LEMMA ExtendedTree ==
  ASSUME NEW t, NEW t2, NEW pos, Tree(t, pos), TablesType(t), NEW v \in Page,
         NEW l \in 0..LEVELS, l > 1, NEW g, Serves(t, pos, g, v, l),
         t[g][Index(v, l)] = Absent, NEW f \in Nat, f \notin DOMAIN t, ~Leads(t, f),
         Extended(t, t2, g, Index(v, l), f)
  PROVE  /\ TablesType(t2)
         /\ \E pos2: Tree(t2, pos2) /\ Serves(t2, pos2, f, v, l - 1)
         /\ \A w \in Page: LeafIn(t2, w) = LeafIn(t, w)
  <1>0. LEVELS \in Nat /\ l \in 2..LEVELS /\ l - 1 \in 1..LEVELS
    BY VmmAssumption
  <1>1. pos \in [DOMAIN t -> [level: 1..LEVELS, page: Page]]
    BY DEF Tree
  <1> DEFINE pos2 == [h \in DOMAIN t2 |-> IF h = f THEN [level |-> l - 1, page |-> v] ELSE pos[h]]
  <1>2. DOMAIN t2 = DOMAIN t \cup {f} /\ t2[f] = EmptyTable
    BY DEF Extended
  <1>3. pos2 \in [DOMAIN t2 -> [level: 1..LEVELS, page: Page]]
    BY <1>0, <1>1, <1>2
  <1>4. pos2[f] = [level |-> l - 1, page |-> v] /\ \A h \in DOMAIN t: pos2[h] = pos[h]
    BY <1>2
  <1> HIDE DEF pos2
  <1>5. \A h \in DOMAIN t, j \in Slot: t[h][j] # Absent => t[h][j].frame # f
    BY DEF Leads
  <1>6. /\ Tree(t2, pos2) /\ TablesType(t2) /\ Serves(t2, pos2, f, v, l - 1)
        /\ \A w \in Page: LeafIn(t2, w) = LeafIn(t, w)
    BY <1>0, <1>3, <1>4, <1>5, TableEntered
  <1> QED
    BY <1>6

(* Its parent leads to the new table, and nothing else changes. *)
LEMMA ExtendedLeads ==
  ASSUME NEW t, NEW t2, TablesType(t), NEW g \in DOMAIN t, NEW i \in Slot, t[g][i] = Absent,
         NEW f \in Nat, f \notin DOMAIN t, Extended(t, t2, g, i, f), Once(t), ~Leads(t, f)
  PROVE  /\ \A k: Leads(t2, k) <=> Leads(t, k) \/ k = f
         /\ Once(t2)
  <1> DEFINE e == Entry(f, TableRights)
  <1>1. e # Absent /\ e.frame = f
    <2>1. e \in Mapping
      BY DEF Entry, Mapping, TableRights, Flag
    <2> QED
      BY <2>1, VmmAssumption DEF Entry
  <1>2. \A h \in DOMAIN t: t2[h] = IF h = g THEN [t[h] EXCEPT ![i] = e] ELSE t[h]
    BY DEF Extended
  <1> HIDE DEF e
  <1>3. OneEntry(t, t2, g, i, e)
    BY <1>2, EntrySet
  <1>4. DOMAIN t2 = DOMAIN t \cup {f} /\ t2[f] = EmptyTable
    BY DEF Extended
  <1> QED
    BY <1>1, <1>3, <1>4, LeadsTable, OnceTable

(* ensure_next_level allocates a table. *)
LEMMA ExtendInv ==
  ASSUME Inv, Extend
  PROVE  /\ Inv'
         /\ call.level # 0 /\ call'.level # 0
         /\ UNCHANGED <<call.virt, call.frame, call.flags>>
         /\ \A w \in Page: LeafIn(table', w) = LeafIn(table, w)
  <1>0. /\ Ready /\ call.level > 1 /\ Here = Absent /\ UNCHANGED <<statics, callers, halted>>
    BY DEF Extend
  <1>1. PICK f \in 0..(frame_count - 1):
          /\ AllocFrame(f)
          /\ table' = [g \in DOMAIN table \cup {f} |->
                         IF g = f THEN EmptyTable
                         ELSE IF g = call.at
                                THEN [table[g] EXCEPT ![Index(call.virt, call.level)] =
                                        Entry(f, TableRights)]
                                ELSE table[g]]
          /\ call' = [call EXCEPT !.level = @ - 1, !.at = f]
    BY DEF Extend
  <1>2. /\ ~halted /\ phase = "ready" /\ PP!IInv
        /\ \A k: k \in held <=> InUse(k) /\ k \notin Bootloader \cup Devices
        /\ call \in Call /\ call.level \in 0..LEVELS /\ call.virt \in Page
        /\ call.frame \in Nat /\ call.at \in DOMAIN table
    BY <1>0, RunningFacts
  <1>3. /\ PP!IInv' /\ f \in Nat /\ f \notin held /\ f \notin Bootloader \cup Devices
        /\ held' = held \cup {f} /\ phase' = "ready"
    BY <1>1, <1>2, AllocGives
  <1>4. f \notin DOMAIN table /\ ~Leads(table, f) /\ f \notin mine
    BY <1>2, <1>3 DEF InUse
  <1> DEFINE i == Index(call.virt, call.level)
  <1>5. i \in Slot /\ table[call.at][i] = Absent
    <2>1. call.level \in 1..LEVELS
      BY <1>0, <1>2, VmmAssumption
    <2> QED
      BY <1>0, <1>2, <2>1, IndexType DEF Here
  <1>6. Extended(table, table', call.at, i, f)
    BY <1>1, <1>2, <1>4 DEF Extended
  <1>7. call' = Lower(call, f) /\ call.level > 1
    BY <1>0, <1>1 DEF Lower
  <1>8. /\ call' \in Call /\ call'.op = call.op /\ call'.virt = call.virt
        /\ call'.frame = call.frame /\ call'.flags = call.flags
        /\ call'.level = call.level - 1 /\ call'.at = f
        /\ call'.start = call.start /\ call'.left = call.left
    BY <1>2, <1>3, <1>7, DescendFields
  <1>9. call'.level # 0 /\ call.level # 0
    BY <1>2, <1>7, <1>8
  <1>10. TablesType(table) /\ Once(table)
    BY DEF Inv, TreeOK
  <1>11. PICK pos: Tree(table, pos) /\ Serves(table, pos, call.at, call.virt, call.level)
    BY <1>9 DEF Inv, TreeOK, Cursor
  <1>12. /\ TablesType(table')
         /\ \E pos2: Tree(table', pos2) /\ Serves(table', pos2, f, call.virt, call.level - 1)
         /\ \A w \in Page: LeafIn(table', w) = LeafIn(table, w)
    BY <1>2, <1>3, <1>4, <1>5, <1>6, <1>7, <1>10, <1>11, ExtendedTree
  <1> HIDE DEF i
  <1>13. /\ \A k: Leads(table', k) <=> Leads(table, k) \/ k = f
         /\ Once(table')
    BY <1>2, <1>3, <1>4, <1>5, <1>6, <1>10, ExtendedLeads
  <1>14. DOMAIN table' = DOMAIN table \cup {f}
    BY <1>6 DEF Extended
  <1>15. TreeOK'
    <2>1. Cursor(table', call')
      BY <1>8, <1>12 DEF Cursor
    <2>2. DOMAIN table' \cap (Devices \cup mine) = {}
      BY <1>3, <1>4, <1>14 DEF Inv, TreeOK
    <2> QED
      BY <1>0, <1>12, <1>13, <2>1, <2>2 DEF TreeOK, callers
  <1>16. call.frame # f
    BY <1>2, <1>3, <1>4, <1>9 DEF Inv, CallOK, Call, HeldOK
  <1>17. CallOK'
    <2>1. /\ call'.op = "fault" => LeafIn(table', call'.virt) = Absent
          /\ call'.op \in {"fault", "guarded"} => call'.frame \in held' \ mine'
      BY <1>0, <1>2, <1>3, <1>8, <1>9, <1>12 DEF Inv, CallOK, callers
    <2>2. /\ call'.frame \notin DOMAIN table'
          /\ call'.frame \in Devices \/ ~Leads(table', call'.frame)
      BY <1>8, <1>9, <1>13, <1>14, <1>16 DEF Inv, CallOK
    <2>3. call'.at \in DOMAIN table'
      BY <1>8, <1>14
    <2> QED
      BY <1>0, <1>8, <1>9, <2>1, <2>2, <2>3 DEF Inv, CallOK, callers
  <1>18. InFlight' = InFlight
    BY <1>8, <1>9 DEF InFlight
  <1>19. \A k: InUse(k)' <=> InUse(k) \/ k = f
    BY <1>0, <1>13, <1>14, <1>18 DEF InUse, callers
  <1>20. HeldOK'
    BY <1>0, <1>2, <1>3, <1>19 DEF Inv, HeldOK, callers
  <1>21. \A w \in Dynamic: LeafIn(table', w) = LeafIn(table, w)
    BY <1>12, DynamicPages
  <1>22. LeafOK' /\ StaticsOK'
    BY <1>0, <1>12 DEF Inv, LeafOK, StaticsOK, statics, callers
  <1>23. RangesOK' /\ PendingOK'
    BY <1>0, <1>2, <1>8, <1>21, RangesKept, PendingKept DEF Inv, RangesOK, statics, callers
  <1> QED
    BY <1>8, <1>9, <1>12, <1>15, <1>17, <1>20, <1>22, <1>23 DEF Inv

(* The tables after one entry of table g was overwritten. *)
Overwritten(t, t2, g, i, e) ==
  /\ DOMAIN t2 = DOMAIN t
  /\ \A h \in DOMAIN t: t2[h] = IF h = g THEN [t[h] EXCEPT ![i] = e] ELSE t[h]

(* Overwriting the leaf entry of page v changes that page and shares no frame. *)
LEMMA LeafOverwritten ==
  ASSUME NEW t, NEW t2, NEW pos, Tree(t, pos), TablesType(t), Once(t), NEW v \in Page,
         NEW g, Serves(t, pos, g, v, 1), NEW e \in Mapping \cup {Absent},
         e # Absent => e.frame \notin DOMAIN t /\ (e.frame \in Devices \/ ~Leads(t, e.frame)),
         Overwritten(t, t2, g, Index(v, 1), e)
  PROVE  /\ Tree(t2, pos) /\ TablesType(t2) /\ Once(t2) /\ DOMAIN t2 = DOMAIN t
         /\ \A w \in Page: LeafIn(t2, w) = IF w = v THEN e ELSE LeafIn(t, w)
         /\ e # Absent => Leads(t2, e.frame)
         /\ \A f: Leads(t2, f) => Leads(t, f) \/ (e # Absent /\ f = e.frame)
         /\ \A f: Leads(t, f) =>
              Leads(t2, f) \/ (LeafIn(t, v) # Absent /\ f = LeafIn(t, v).frame)
  <1> DEFINE i == Index(v, 1)
  <1>1. i \in Slot /\ g \in DOMAIN t
    BY IndexType, VmmAssumption DEF Serves
  <1>2. /\ DOMAIN t2 = DOMAIN t
        /\ \A h \in DOMAIN t: t2[h] = IF h = g THEN [t[h] EXCEPT ![Index(v, 1)] = e] ELSE t[h]
    BY DEF Overwritten
  <1>3. /\ Tree(t2, pos) /\ TablesType(t2)
        /\ \A w \in Page: LeafIn(t2, w) = IF w = v THEN e ELSE LeafIn(t, w)
    BY <1>2, LeafEntered
  <1>4. LeafIn(t, v) = t[g][i]
    BY LeafServed
  <1>5. \A h \in DOMAIN t: t2[h] = IF h = g THEN [t[h] EXCEPT ![i] = e] ELSE t[h]
    BY <1>2
  <1> HIDE DEF i
  <1>6. OneEntry(t, t2, g, i, e)
    BY <1>1, <1>5, EntrySet
  <1>7. Once(t2)
    BY <1>1, <1>2, <1>6, OnceEntry
  <1>8. /\ e # Absent => Leads(t2, e.frame)
        /\ \A f: Leads(t2, f) => Leads(t, f) \/ (e # Absent /\ f = e.frame)
        /\ \A f: Leads(t, f) => Leads(t2, f) \/ (t[g][i] # Absent /\ f = t[g][i].frame)
    BY <1>1, <1>2, <1>6, LeadsEntry
  <1> QED
    BY <1>2, <1>3, <1>4, <1>7, <1>8

(* vmm_unmap takes a page of the user's away; its frame is the caller's, the        *)
(* bootloader's or a device's.                                                      *)
LEMMA VmmUnmapInv ==
  ASSUME Inv, NEW v \in UserPages, VmmUnmap(v)
  PROVE  /\ Inv'
         /\ \A w \in Page: LeafIn(table', w) = IF w = v THEN Absent ELSE LeafIn(table, w)
  <1>0. /\ Ready /\ call.op = "idle" /\ UNCHANGED pmmVars
        /\ UNCHANGED <<statics, call, callers, halted>>
        /\ table' = IF Path(v)[1] = Absent THEN table
                    ELSE [table EXCEPT ![Path(v)[1]][Index(v, 1)] = Absent]
    BY DEF VmmUnmap, Free, UnmapKeeps
  <1>1. /\ ~halted /\ phase = "ready" /\ PP!IInv
        /\ \A k: k \in held <=> InUse(k) /\ k \notin Bootloader \cup Devices
    BY <1>0, RunningFacts
  <1>2. v \in Page /\ v \notin Dynamic /\ v \notin LazyPage
    BY VmmAssumption, ZoneAssumption
  <1>3. CASE Path(v)[1] = Absent
    <2>1. UNCHANGED vars
      BY <1>0, <1>3 DEF vars
    <2>2. table' = table /\ LeafIn(table, v) = Absent
      BY <1>0, <1>3 DEF LeafIn, Path
    <2> QED
      BY <2>1, <2>2, StutterInv
  <1>4. CASE Path(v)[1] # Absent
    <2>1. TablesType(table) /\ Once(table)
      BY DEF Inv, TreeOK
    <2>2. PICK pos: Tree(table, pos)
      BY DEF Inv, TreeOK, Cursor
    <2>3. PICK g: Serves(table, pos, g, v, 1)
      BY <1>2, <1>4, <2>1, <2>2, LeafUnserved DEF Path
    <2>4. Path(v)[1] = g /\ g \in DOMAIN table
      BY <1>2, <2>1, <2>2, <2>3, LeafServed DEF Path, Serves
    <2>5. Overwritten(table, table', g, Index(v, 1), Absent)
      BY <1>0, <1>4, <2>4 DEF Overwritten
    <2>6. /\ Tree(table', pos) /\ TablesType(table') /\ Once(table')
          /\ DOMAIN table' = DOMAIN table
          /\ \A w \in Page: LeafIn(table', w) = IF w = v THEN Absent ELSE LeafIn(table, w)
          /\ \A f: Leads(table', f) => Leads(table, f)
          /\ \A f: Leads(table, f) => Leads(table', f)
               \/ (LeafIn(table, v) # Absent /\ f = LeafIn(table, v).frame)
      BY <1>2, <2>1, <2>2, <2>3, <2>5, LeafOverwritten
    <2>7. PP!IInv' /\ held' = held /\ phase' = phase
      BY <1>0, <1>1, PmmRests
    <2>8. call.level = 0 /\ InFlight = {} /\ InFlight' = {}
      BY <1>0 DEF Inv, CallOK, InFlight
    <2>9. TreeOK'
      <3>1. Cursor(table', call')
        BY <1>0, <2>6, <2>8 DEF Cursor
      <3> QED
        BY <1>0, <2>6, <3>1 DEF Inv, TreeOK, callers
    <2>10. CallOK'
      BY <1>0, <2>6, <2>8 DEF Inv, CallOK
    <2>11. HeldOK'
      <3>1. \A k: k \notin Bootloader \cup Devices => (InUse(k)' <=> InUse(k))
        <4>1. LeafIn(table, v) # Absent =>
                LeafIn(table, v).frame \in mine \cup Bootloader \cup Devices
          BY <1>2 DEF Inv, LeafOK
        <4>2. \A k: k \notin Bootloader \cup Devices /\ k \notin mine =>
                (Leads(table', k) <=> Leads(table, k))
          BY <2>6, <4>1
        <4>3. mine' = mine /\ DOMAIN table' = DOMAIN table
          BY <1>0, <2>6 DEF callers
        <4> QED
          BY <2>8, <4>2, <4>3 DEF InUse
      <3> QED
        BY <1>0, <1>1, <2>7, <3>1 DEF Inv, HeldOK, callers
    <2>12. LeafOK' /\ StaticsOK'
      BY <1>0, <2>6 DEF Inv, LeafOK, StaticsOK, statics, callers
    <2>13. \A w \in Dynamic: LeafIn(table', w) = LeafIn(table, w)
      BY <1>2, <2>6, DynamicPages
    <2>14. RangesOK' /\ PendingOK'
      BY <1>0, <2>13, RangesKept DEF Inv, PendingOK, statics, callers
    <2> QED
      BY <2>6, <2>9, <2>10, <2>11, <2>12, <2>14 DEF Inv
  <1> QED
    BY <1>3, <1>4

(* A page that is about to be mapped leads nowhere, or to what is not lost with it. *)
LEMMA OldLeaf ==
  ASSUME Inv, call.level # 0, LeafIn(table, call.virt) # Absent
  PROVE  /\ call.op \in {"map", "mmio"} /\ call.virt \notin Dynamic \cup LazyPage
         /\ LeafIn(table, call.virt).frame \in mine \cup Bootloader \cup Devices
  <1>0. /\ call.op \in {"map", "fault", "guarded", "mmio"} /\ call.virt \in Page
        /\ call.virt \in Nat /\ call.left \in Nat
    BY PageIs DEF Inv, CallOK, Call
  <1>1. call.op # "fault"
    BY DEF Inv, CallOK
  <1>2. call.op # "guarded"
    <2> SUFFICES ASSUME call.op = "guarded" PROVE FALSE
      OBVIOUS
    <2>1. dynamic_next_vaddr \in Nat
      BY PageIs DEF Inv, RangesOK
    <2>2. call.left > 0 /\ call.virt + call.left + 1 = dynamic_next_vaddr
      BY DEF Inv, PendingOK
    <2>3. call.virt \in call.virt..(dynamic_next_vaddr - 1)
      BY <1>0, <2>1, <2>2
    <2> QED
      BY <2>3 DEF Inv, PendingOK
  <1>3. call.virt \notin Dynamic \cup LazyPage
    <2>1. CASE call.op = "map"
      BY <2>1, ZoneAssumption DEF Inv, CallOK
    <2>2. CASE call.op = "mmio"
      <3>1. call.virt >= VMM_MMIO_VBASE /\ VMM_MMIO_VBASE \in Nat /\ VMM_DYNAMIC_VBASE \in Nat
        BY <2>2, VmmAssumption, PageIs DEF Inv, CallOK
      <3>2. call.virt \notin LazyPage
        BY <1>0, <3>1, ZoneAssumption
      <3>3. call.virt \notin Dynamic
        BY <1>0, <3>1 DEF Dynamic
      <3> QED
        BY <3>2, <3>3
    <2> QED
      BY <1>0, <1>1, <1>2, <2>1, <2>2
  <1> QED
    BY <1>0, <1>1, <1>2, <1>3 DEF Inv, LeafOK

(* Where calls map their pages. *)
LEMMA VirtZone ==
  ASSUME Inv, call.level # 0
  PROVE  /\ call.op = "guarded" => call.virt \in Dynamic
         /\ call.op = "fault" => call.virt \in LazyPage
         /\ call.op # "guarded" => call.virt \notin Dynamic
  <1>0. /\ VMM_DYNAMIC_VBASE \in Nat /\ VMM_MMIO_VBASE \in Nat /\ dynamic_next_vaddr \in Nat
        /\ call.virt \in Nat /\ call.left \in Nat /\ call.start \in Nat
        /\ call.op \in {"map", "fault", "guarded", "mmio"}
    BY VmmAssumption, PageIs DEF Inv, RangesOK, CallOK, Call
  <1>1. call.op = "guarded" => call.virt \in Dynamic
    BY <1>0 DEF Inv, PendingOK, Dynamic
  <1>2. call.op = "fault" => call.virt \in LazyPage
    BY DEF Inv, CallOK
  <1>3. call.op = "mmio" => call.virt \notin Dynamic
    BY <1>0 DEF Inv, CallOK, Dynamic
  <1>4. call.op = "map" => call.virt \notin Dynamic
    BY ZoneAssumption DEF Inv, CallOK
  <1> QED
    BY <1>0, <1>1, <1>2, <1>3, <1>4, ZoneAssumption

(* The leaf entry is written. *)
LEMMA SetLeafInv ==
  ASSUME Inv, SetLeaf
  PROVE  /\ Inv'
         /\ call.level # 0 /\ call'.level = 0 /\ call.virt \in Page
         /\ \A w \in Page: LeafIn(table', w) =
              IF w = call.virt THEN Entry(call.frame, call.flags) ELSE LeafIn(table, w)
  <1>0. /\ Ready /\ call.level = 1
        /\ table' = [table EXCEPT ![call.at][Index(call.virt, 1)] = Entry(call.frame, call.flags)]
        /\ UNCHANGED pmmVars /\ UNCHANGED <<statics, mine, halted>>
    BY DEF SetLeaf
  <1>1. /\ IF call.op = "guarded" /\ call.left > 1
             THEN call' = Turn(call.virt + 1, call.start, call.flags, call.left - 1)
             ELSE call' = Idle
        /\ guarded' = IF call.op = "guarded" /\ call.left = 1
                        THEN guarded \cup {[start |-> call.start, end |-> call.virt + 1]}
                        ELSE guarded
    BY DEF SetLeaf, Turn
  <1>2. /\ ~halted /\ phase = "ready" /\ PP!IInv
        /\ \A k: k \in held <=> InUse(k) /\ k \notin Bootloader \cup Devices
        /\ call \in Call /\ call.virt \in Page /\ call.frame \in Nat
        /\ call.flags \in SUBSET Flag /\ call.at \in DOMAIN table
        /\ call.start \in Nat /\ call.left \in Nat
    BY <1>0, RunningFacts
  <1>3. call.op \in {"map", "fault", "guarded", "mmio"} /\ call.level # 0
    BY <1>0, <1>2 DEF Inv, CallOK, Call
  <1> DEFINE e == Entry(call.frame, call.flags)
  <1>4. e \in Mapping /\ e # Absent /\ e.frame = call.frame
    <2>1. e \in Mapping /\ e.frame = call.frame
      BY <1>2 DEF Entry, Mapping
    <2> QED
      BY <2>1, VmmAssumption
  <1>5. e.frame \notin DOMAIN table /\ (e.frame \in Devices \/ ~Leads(table, e.frame))
    BY <1>3, <1>4 DEF Inv, CallOK
  <1>6. TablesType(table) /\ Once(table)
    BY DEF Inv, TreeOK
  <1>7. PICK pos: Tree(table, pos) /\ Serves(table, pos, call.at, call.virt, 1)
    BY <1>0, <1>3 DEF Inv, TreeOK, Cursor
  <1>8. /\ Overwritten(table, table', call.at, Index(call.virt, 1), e)
        /\ call.virt \in Page /\ e \in Mapping \cup {Absent}
    BY <1>0, <1>2, <1>4 DEF Overwritten
  <1> HIDE DEF e
  <1>9. /\ Tree(table', pos) /\ TablesType(table') /\ Once(table')
        /\ DOMAIN table' = DOMAIN table
        /\ \A w \in Page: LeafIn(table', w) = IF w = call.virt THEN e ELSE LeafIn(table, w)
        /\ Leads(table', e.frame)
        /\ \A f: Leads(table', f) => Leads(table, f) \/ f = e.frame
        /\ \A f: Leads(table, f) => Leads(table', f)
             \/ (LeafIn(table, call.virt) # Absent /\ f = LeafIn(table, call.virt).frame)
    BY <1>4, <1>5, <1>6, <1>7, <1>8, LeafOverwritten
  <1>10. PP!IInv' /\ held' = held /\ phase' = phase
    BY <1>0, <1>2, PmmRests
  <1>11. dynamic_next_vaddr \in Nat /\ VMM_MMIO_VBASE \in Nat /\ VMM_DYNAMIC_VBASE \in Nat
         /\ call.virt \in Nat
    BY <1>2, VmmAssumption, PageIs DEF Inv, RangesOK
  <1>12. call.op = "guarded" => /\ call.left > 0 /\ call.virt + call.left + 1 = dynamic_next_vaddr
                                /\ call.start <= call.virt
    BY DEF Inv, PendingOK
  <1>13. call.op = "guarded" => call.virt + 1 \in Page
    BY <1>2, <1>11, <1>12, PageIs DEF Inv, RangesOK
  <1>14. /\ call' \in Call /\ call'.level = 0 /\ call'.at = Cr3 /\ call'.op \in {"idle", "guarded"}
         /\ call'.op = "guarded" => /\ call.op = "guarded" /\ call.left > 1
                                    /\ call'.virt = call.virt + 1 /\ call'.start = call.start
                                    /\ call'.left = call.left - 1
    <2>1. CASE call.op = "guarded" /\ call.left > 1
      <3>1. call' = Turn(call.virt + 1, call.start, call.flags, call.left - 1)
        BY <1>1, <2>1
      <3>2. call.left - 1 \in Nat /\ call.virt + 1 \in Page
        BY <1>2, <1>13, <2>1
      <3> QED
        BY <1>2, <2>1, <3>1, <3>2, TurnFields
    <2>2. CASE ~(call.op = "guarded" /\ call.left > 1)
      <3>1. call' = Idle
        BY <1>1, <2>2
      <3> QED
        BY <3>1, IdleFields
    <2> QED
      BY <2>1, <2>2
  <1>15. TreeOK'
    <2>1. Cursor(table', call')
      BY <1>9, <1>14 DEF Cursor
    <2> QED
      BY <1>0, <1>9, <2>1 DEF Inv, TreeOK
  <1>16. CallOK'
    <2>1. Cr3 \in DOMAIN table'
      BY <1>9 DEF Tree
    <2> QED
      BY <1>14, <2>1 DEF CallOK
  <1>17. HeldOK'
    <2>1. InFlight' = {}
      BY <1>14 DEF InFlight
    <2>2. InFlight = IF call.op \in {"fault", "guarded"} THEN {call.frame} ELSE {}
      BY <1>3 DEF InFlight
    <2>3. ASSUME NEW k, k \notin Bootloader \cup Devices, InUse(k) PROVE InUse(k)'
      <3>1. CASE k \in DOMAIN table \/ k \in mine
        BY <1>0, <1>9, <3>1 DEF InUse
      <3>2. CASE k \in InFlight
        BY <1>4, <1>9, <2>2, <3>2 DEF InUse
      <3>3. CASE Leads(table, k)
        <4>1. CASE Leads(table', k)
          BY <4>1 DEF InUse
        <4>2. CASE LeafIn(table, call.virt) # Absent /\ k = LeafIn(table, call.virt).frame
          <5>1. k \in mine
            BY <1>3, <2>3, <4>2, OldLeaf
          <5> QED
            BY <1>0, <5>1 DEF InUse
        <4> QED
          BY <1>9, <3>3, <4>1, <4>2
      <3> QED
        BY <2>3, <3>1, <3>2, <3>3 DEF InUse
    <2>4. ASSUME NEW k, k \notin Bootloader \cup Devices, InUse(k)' PROVE InUse(k)
      <3>1. CASE k \in DOMAIN table' \/ k \in mine'
        BY <1>0, <1>9, <3>1 DEF InUse
      <3>2. CASE Leads(table', k)
        <4>1. CASE Leads(table, k)
          BY <4>1 DEF InUse
        <4>2. CASE k = call.frame
          BY <1>3, <2>2, <2>4, <4>2 DEF InUse, Inv, CallOK
        <4> QED
          BY <1>4, <1>9, <3>2, <4>1, <4>2
      <3> QED
        BY <2>1, <2>4, <3>1, <3>2 DEF InUse
    <2>5. \A k: k \in held' <=> InUse(k)' /\ k \notin Bootloader \cup Devices
      BY <1>2, <1>10, <2>3, <2>4
    <2> QED
      BY <1>0, <1>2, <1>10, <2>5 DEF Inv, HeldOK
  <1>18. LeafOK'
    <2>1. e.frame \in mine \cup Devices \/ call.virt \in LazyPage \cup Dynamic
      BY <1>3, <1>4, VirtZone DEF Inv, CallOK
    <2> QED
      BY <1>0, <1>9, <2>1 DEF Inv, LeafOK
  <1>19. StaticsOK'
    BY <1>0 DEF Inv, StaticsOK, statics
  <1>20. RangesOK' /\ PendingOK'
    <2>1. CASE call.op # "guarded"
      <3>1. \A w \in Dynamic: LeafIn(table', w) = LeafIn(table, w)
        BY <1>3, <1>9, <2>1, VirtZone, DynamicPages
      <3>2. guarded' = guarded /\ dynamic_next_vaddr' = dynamic_next_vaddr
        BY <1>0, <1>1, <2>1 DEF statics
      <3>3. RangesOK'
        BY <3>1, <3>2, RangesKept DEF Inv
      <3>4. PendingOK'
        BY <1>14, <2>1 DEF PendingOK
      <3> QED
        BY <3>3, <3>4
    <2>2. CASE call.op = "guarded"
      <3>0. /\ \A w \in Dynamic: w # call.virt => LeafIn(table', w) = LeafIn(table, w)
            /\ call.virt \in Dynamic /\ LeafIn(table', call.virt) # Absent
            /\ dynamic_next_vaddr' = dynamic_next_vaddr
        BY <1>0, <1>2, <1>3, <1>4, <1>9, <2>2, VirtZone, DynamicPages DEF statics
      <3>1. /\ call.left > 0 /\ call.virt + call.left + 1 = dynamic_next_vaddr
            /\ dynamic_next_vaddr <= VMM_MMIO_VBASE
            /\ VMM_DYNAMIC_VBASE < call.start /\ call.start <= call.virt
            /\ \A r \in guarded: r.end < call.start
            /\ LeafIn(table, call.start - 1) = Absent
            /\ \A v \in call.start..(call.virt - 1): LeafIn(table, v) # Absent
            /\ \A v \in call.virt..(dynamic_next_vaddr - 1): LeafIn(table, v) = Absent
        BY <2>2 DEF Inv, PendingOK
      <3>2. /\ LeafIn(table', call.start - 1) = Absent
            /\ \A v \in call.start..call.virt: LeafIn(table', v) # Absent
            /\ \A v \in (call.virt + 1)..(dynamic_next_vaddr - 1): LeafIn(table', v) = Absent
        <4>1. call.start - 1 \in Dynamic /\ call.start - 1 # call.virt
          BY <1>2, <1>11, <3>1 DEF Dynamic
        <4>2. ASSUME NEW v \in call.start..call.virt, v # call.virt
              PROVE  v \in Dynamic /\ v \in call.start..(call.virt - 1)
          BY <1>2, <1>11, <3>1, <4>2 DEF Dynamic
        <4>3. ASSUME NEW v \in (call.virt + 1)..(dynamic_next_vaddr - 1)
              PROVE  v \in Dynamic /\ v # call.virt /\ v \in call.virt..(dynamic_next_vaddr - 1)
          BY <1>2, <1>11, <3>1, <4>3 DEF Dynamic
        <4> QED
          BY <3>0, <3>1, <4>1, <4>2, <4>3
      <3>3. ASSUME NEW r \in guarded
            PROVE  /\ LeafIn(table', r.start - 1) = Absent /\ LeafIn(table', r.end) = Absent
                   /\ \A v \in r.start..(r.end - 1): LeafIn(table', v) # Absent
        <4>1. /\ r.start \in Nat /\ r.end \in Nat /\ VMM_DYNAMIC_VBASE < r.start
              /\ r.start <= r.end /\ r.end < VMM_MMIO_VBASE /\ r.end < call.start
          BY <3>1 DEF Inv, RangesOK
        <4>2. /\ r.start - 1 \in Dynamic /\ r.end \in Dynamic
              /\ r.start - 1 # call.virt /\ r.end # call.virt
              /\ \A v \in r.start..(r.end - 1): v \in Dynamic /\ v # call.virt
          BY <1>2, <1>11, <3>1, <4>1 DEF Dynamic
        <4>3. /\ LeafIn(table, r.start - 1) = Absent /\ LeafIn(table, r.end) = Absent
              /\ \A v \in r.start..(r.end - 1): LeafIn(table, v) # Absent
          BY DEF Inv, RangesOK
        <4> QED
          BY <3>0, <4>2, <4>3
      <3>4. \A v \in Dynamic: v >= dynamic_next_vaddr => LeafIn(table', v) = Absent
        <4>1. call.virt < dynamic_next_vaddr
          BY <1>2, <1>11, <3>1
        <4>2. \A v \in Dynamic: v >= dynamic_next_vaddr => v # call.virt
          BY <1>11, <4>1 DEF Dynamic
        <4> QED
          BY <3>0, <4>2 DEF Inv, RangesOK
      <3>5. CASE call.left > 1
        <4>1. guarded' = guarded /\ call'.op \in {"idle", "guarded"}
          BY <1>1, <1>14, <3>5
        <4>2. RangesOK'
          BY <3>0, <3>3, <3>4, <4>1 DEF Inv, RangesOK
        <4>3. call'.op = "guarded" => /\ call'.virt = call.virt + 1 /\ call'.start = call.start
                                      /\ call'.left = call.left - 1
          BY <1>14
        <4>4. call.virt + 1 - 1 = call.virt
          BY <1>11
        <4>5. PendingOK'
          BY <1>2, <1>11, <3>0, <3>1, <3>2, <3>5, <4>1, <4>3, <4>4 DEF PendingOK
        <4> QED
          BY <4>2, <4>5
      <3>6. CASE call.left = 1
        <4> DEFINE r == [start |-> call.start, end |-> call.virt + 1]
        <4>1. guarded' = guarded \cup {r} /\ call'.op # "guarded"
          BY <1>1, <1>14, <2>2, <3>6
        <4>2. r.start = call.start /\ r.end = call.virt + 1
          OBVIOUS
        <4>3. /\ call.virt + 1 \in (call.virt + 1)..(dynamic_next_vaddr - 1)
              /\ call.virt + 1 < dynamic_next_vaddr /\ call.virt + 1 < VMM_MMIO_VBASE
              /\ call.start <= call.virt + 1 /\ call.virt + 1 \in Nat
              /\ (call.virt + 1) - 1 = call.virt
          BY <1>2, <1>11, <3>1, <3>6
        <4> HIDE DEF r
        <4>4. /\ r.start \in Nat /\ r.end \in Nat
              /\ VMM_DYNAMIC_VBASE < r.start /\ r.start <= r.end
              /\ r.end < dynamic_next_vaddr /\ r.end < VMM_MMIO_VBASE
              /\ LeafIn(table', r.start - 1) = Absent /\ LeafIn(table', r.end) = Absent
              /\ \A v \in r.start..(r.end - 1): LeafIn(table', v) # Absent
          BY <1>2, <3>1, <3>2, <4>2, <4>3
        <4>5. RangesOK'
          BY <3>0, <3>3, <3>4, <4>1, <4>4 DEF Inv, RangesOK
        <4> QED
          BY <4>1, <4>5 DEF PendingOK
      <3> QED
        BY <1>2, <3>1, <3>5, <3>6
    <2> QED
      BY <2>1, <2>2
  <1> QED
    BY <1>2, <1>3, <1>9, <1>14, <1>15, <1>16, <1>17, <1>18, <1>19, <1>20 DEF Inv, e

----------------------------------------------------------------------------------
(* The invariant holds *)

(* What the bootloader's entries lead to is the bootloader's. *)
LEMMA BootLeads ==
  /\ \A f: Leads(BootTables, f) => f \in Bootloader
  /\ Once(BootTables)
  <1>1. ASSUME NEW f, Leads(BootTables, f) PROVE f \in Bootloader
    <2>1. PICK g \in DOMAIN BootTables, i \in Slot:
            BootTables[g][i] # Absent /\ BootTables[g][i].frame = f
      BY <1>1 DEF Leads
    <2>2. <<g, i>> \in BootPresent
      BY <2>1 DEF BootPresent
    <2> QED
      BY <2>1, <2>2 DEF Bootloader
  <1>2. ASSUME NEW g \in DOMAIN BootTables, NEW h \in DOMAIN BootTables,
               NEW i \in Slot, NEW j \in Slot,
               BootTables[g][i] # Absent, BootTables[h][j] # Absent,
               BootTables[g][i].frame = BootTables[h][j].frame
        PROVE  g = h /\ i = j
    <2>1. <<g, i>> \in BootPresent /\ <<h, j>> \in BootPresent
      BY <1>2 DEF BootPresent
    <2>2. <<g, i>> = <<h, j>>
      BY <1>2, <2>1, BootAssumption
    <2> QED
      BY <2>2
  <1> QED
    BY <1>1, <1>2 DEF Once

(* The tables the bootloader leaves satisfy the invariant. *)
LEMMA InitInv == ASSUME Init PROVE Inv
  <1>0. /\ PM!Init /\ table = BootTables /\ lazy_regions = << >>
        /\ dynamic_next_vaddr = VMM_DYNAMIC_VBASE /\ mmio_next_vaddr = VMM_MMIO_VBASE
        /\ call = Idle /\ mine = {} /\ guarded = {} /\ halted = FALSE
    BY DEF Init
  <1>1. held = {} /\ PP!IInv
    BY <1>0, SamePmm, MapsWellFormed, PP!InitIInv DEF PM!Init
  <1>2. Idle \in Call /\ call.op = "idle" /\ call.level = 0 /\ call.at = Cr3
    BY <1>0, IdleFields
  <1>3. PICK pos: /\ Tree(BootTables, pos)
                  /\ \A g \in DOMAIN BootTables, v \in Dynamic:
                       pos[g].level = 1 /\ Agree(pos[g].page, v, 1) =>
                         BootTables[g][Index(v, 1)] = Absent
    BY BootAssumption
  <1>4. /\ TablesType(table) /\ DOMAIN table \cap Devices = {}
        /\ DOMAIN table \subseteq Bootloader
    BY <1>0, BootAssumption DEF TablesType, Bootloader
  <1>5. TreeOK
    <2>1. Cursor(table, call)
      BY <1>0, <1>2, <1>3 DEF Cursor
    <2> QED
      BY <1>0, <1>4, <2>1, BootLeads DEF TreeOK
  <1>6. CallOK
    BY <1>0, <1>2, <1>5, RootIn DEF CallOK
  <1>7. HeldOK
    BY <1>0, <1>1, <1>2, <1>4, BootLeads DEF HeldOK, InUse, InFlight
  <1>8. LeafOK
    BY <1>0, <1>3, <1>4, LeafLeads, BootLeads DEF LeafOK
  <1>9. RangesOK
    <2>1. ASSUME NEW v \in Dynamic PROVE LeafIn(table, v) = Absent
      <3>1. v \in Page
        BY DynamicPages
      <3>2. CASE \E g: Serves(table, pos, g, v, 1)
        <4>1. PICK g: Serves(table, pos, g, v, 1)
          BY <3>2
        <4>2. LeafIn(table, v) = table[g][Index(v, 1)]
          BY <1>0, <1>3, <1>4, <3>1, <4>1, LeafServed
        <4> QED
          BY <1>0, <1>3, <4>1, <4>2 DEF Serves
      <3>3. CASE \A g: ~Serves(table, pos, g, v, 1)
        BY <1>0, <1>3, <1>4, <3>1, <3>3, LeafUnserved
      <3> QED
        BY <3>2, <3>3
    <2> QED
      BY <1>0, <2>1, VmmAssumption, PageIs DEF RangesOK
  <1>10. PendingOK
    BY <1>2 DEF PendingOK
  <1>11. StaticsOK
    BY <1>0, VmmAssumption, PageIs DEF StaticsOK
  <1> QED
    BY <1>5, <1>6, <1>7, <1>8, <1>9, <1>10, <1>11 DEF Inv

(* Every step keeps the invariant. *)
LEMMA NextInv == ASSUME Inv, [Next]_vars PROVE Inv'
  <1>1. CASE Boot
    BY <1>1, BootInv
  <1>2. CASE Descend
    BY <1>2, DescendInv
  <1>3. CASE Extend
    BY <1>3, ExtendInv
  <1>4. CASE MapFails
    BY <1>4, MapFailsInv
  <1>5. CASE SetLeaf
    BY <1>5, SetLeafInv
  <1>6. CASE \E f \in 0..(frame_count - 1): CallerAllocs(f)
    BY <1>6, CallerAllocsInv
  <1>7. CASE \E v \in UserPages, f \in mine, flags \in FlagSets: CallerMaps(v, f, flags)
    BY <1>7, CallerMapsInv
  <1>8. CASE \E f \in mine: CallerFrees(f)
    BY <1>8, CallerFreesInv
  <1>9. CASE \E v \in UserPages: VmmUnmap(v)
    BY <1>9, VmmUnmapInv
  <1>10. CASE \E r \in Regions: RegisterLazyRegion(r)
    BY <1>10, RegisterLazyRegionInv
  <1>11. CASE \E v \in Page: PageFault(v)
    BY <1>11, PageFaultInv
  <1>12. CASE \E n \in PageCounts, flags \in FlagSets: AllocGuarded(n, flags)
    BY <1>12, AllocGuardedInv
  <1>13. CASE GuardedPage
    BY <1>13, GuardedPageInv
  <1>14. CASE \E f \in Devices: MapMmio(f)
    BY <1>14, MapMmioInv
  <1>15. CASE UNCHANGED vars
    BY <1>15, StutterInv
  <1> QED
    BY <1>1, <1>2, <1>3, <1>4, <1>5, <1>6, <1>7, <1>8, <1>9, <1>10, <1>11, <1>12, <1>13,
       <1>14, <1>15 DEF Next

(* The invariant holds in every reachable state. *)
THEOREM Invariance == Spec => []Inv
  <1>1. Init => Inv
    BY InitInv
  <1>2. Inv /\ [Next]_vars => Inv'
    BY NextInv
  <1> QED
    BY <1>1, <1>2, PTL DEF Spec

----------------------------------------------------------------------------------
(* The theorems *)

(* For every number of levels and entries: the values keep to their types, the next *)
(* address of vmm_alloc_guarded stays a page, the table of regions does not         *)
(* overflow, and the walk of vmm_map stands on a table at every step.               *)
THEOREM TypeCorrect == Spec => []TypeOK
  <1>1. Inv => TypeOK
    <2> SUFFICES ASSUME Inv PROVE TypeOK
      OBVIOUS
    <2>1. PM!TypeOK /\ mine \subseteq Nat /\ halted \in BOOLEAN
      BY SamePmm DEF Inv, HeldOK, PP!IInv, PP!TypeOK
    <2>2. /\ call.op \in {"idle", "map", "fault", "guarded", "mmio"}
          /\ call.level \in 0..LEVELS /\ call.at \in DOMAIN table /\ call.virt \in Page
      BY DEF Inv, CallOK, Call
    <2> QED
      BY <2>1, <2>2 DEF TypeOK, Inv, TreeOK, TablesType, StaticsOK, RangesOK
  <1> QED
    BY Invariance, <1>1, PTL

(* No two entries of the page tables lead to the same frame of RAM: no table is in  *)
(* the tree twice or mapped as memory, and no frame backs two pages.                *)
THEOREM TablesNeverShared == Spec => []NoSharing
  <1>1. Inv => NoSharing
    <2> SUFFICES ASSUME Inv, NEW x \in Present, NEW y \in Present,
                        Target(x) \notin Devices, Target(x) = Target(y)
                 PROVE  x = y
      BY DEF NoSharing
    <2>1. /\ x[1] \in DOMAIN table /\ x[2] \in Slot /\ x = <<x[1], x[2]>>
          /\ y[1] \in DOMAIN table /\ y[2] \in Slot /\ y = <<y[1], y[2]>>
          /\ table[x[1]][x[2]] # Absent /\ table[y[1]][y[2]] # Absent
      BY DEF Present
    <2>2. x[1] = y[1] /\ x[2] = y[2]
      BY <2>1 DEF Inv, TreeOK, Once, Target
    <2> QED
      BY <2>1, <2>2
  <1> QED
    BY Invariance, <1>1, PTL

(* A range from vmm_alloc_guarded stays mapped, and the pages on either side of it  *)
(* stay unmapped, whatever is mapped, backed or allocated later.                    *)
THEOREM GuardPages == Spec => []GuardsHold
  <1>1. Inv => GuardsHold
    <2> SUFFICES ASSUME Inv, NEW r \in guarded
                 PROVE  /\ \A v \in r.start..(r.end - 1): Walk(v) # Absent
                        /\ Walk(r.start - 1) = Absent /\ Walk(r.end) = Absent
      BY DEF GuardsHold
    <2>1. /\ r.start \in Nat /\ r.end \in Nat /\ VMM_DYNAMIC_VBASE < r.start
          /\ r.start <= r.end /\ r.end < VMM_MMIO_VBASE
      BY DEF Inv, RangesOK
    <2>2. VMM_DYNAMIC_VBASE \in Nat /\ VMM_MMIO_VBASE \in Page
      BY VmmAssumption, PageIs
    <2>3. /\ r.start - 1 \in Page /\ r.end \in Page
          /\ \A v \in r.start..(r.end - 1): v \in Page
      BY <2>1, <2>2, PageIs
    <2>4. \A v \in Page: Walk(v) = LeafIn(table, v)
      BY WalkIs DEF Inv
    <2> QED
      BY <2>3, <2>4 DEF Inv, RangesOK
  <1> QED
    BY Invariance, <1>1, PTL

----------------------------------------------------------------------------------
(* Vmm uses the frame allocator as Pmm allows *)

(* Every step is one of the allocator's or leaves it alone. *)
LEMMA PmmStep == ASSUME Inv, [Next]_vars PROVE [PM!Next]_pmmVars
  <1>1. ASSUME NEW f, AllocFrame(f) PROVE PM!Next
    BY <1>1 DEF AllocFrame, PM!Next
  <1>2. ASSUME NEW f \in held, PM!FreeFrame(f) PROVE PM!Next
    <2>1. f \in 0..frame_count
      BY <1>2, FreeTakes DEF Inv, HeldOK
    <2> QED
      BY <1>2, <2>1 DEF PM!Next
  <1>3. CASE Boot
    BY <1>3 DEF Boot, PM!Next
  <1>4. CASE Extend
    BY <1>1, <1>4 DEF Extend
  <1>5. CASE MapFails
    <2>1. CASE call.op = "guarded"
      <3>1. PM!FreeFrame(call.frame)
        BY <1>5, <2>1 DEF MapFails, GivesBack
      <3>2. call.level # 0
        BY <1>5, RunningFacts DEF MapFails
      <3>3. call.frame \in held
        BY <2>1, <3>2 DEF Inv, CallOK
      <3> QED
        BY <1>2, <3>1, <3>3
    <2>2. CASE call.op # "guarded"
      BY <1>5, <2>2 DEF MapFails, GivesBack
    <2> QED
      BY <2>1, <2>2
  <1>6. CASE \E f \in 0..(frame_count - 1): CallerAllocs(f)
    BY <1>1, <1>6 DEF CallerAllocs
  <1>7. CASE \E f \in mine: CallerFrees(f)
    <2>1. PICK f \in mine: CallerFrees(f)
      BY <1>7
    <2>2. f \in held /\ PM!FreeFrame(f)
      BY <2>1 DEF CallerFrees, Inv, HeldOK
    <2> QED
      BY <1>2, <2>2
  <1>8. CASE \E v \in Page: PageFault(v)
    BY <1>1, <1>8 DEF PageFault
  <1>9. CASE GuardedPage
    BY <1>1, <1>9 DEF GuardedPage
  <1>10. CASE Descend \/ SetLeaf \/ UNCHANGED vars
    BY <1>10 DEF Descend, SetLeaf, vars
  <1>11. CASE \E v \in UserPages, f \in mine, flags \in FlagSets: CallerMaps(v, f, flags)
    BY <1>11 DEF CallerMaps
  <1>12. CASE \E v \in UserPages: VmmUnmap(v)
    BY <1>12 DEF VmmUnmap, UnmapKeeps
  <1>13. CASE \E r \in Regions: RegisterLazyRegion(r)
    BY <1>13 DEF RegisterLazyRegion
  <1>14. CASE \E n \in PageCounts, flags \in FlagSets: AllocGuarded(n, flags)
    BY <1>14 DEF AllocGuarded
  <1>15. CASE \E f \in Devices: MapMmio(f)
    BY <1>15 DEF MapMmio
  <1> QED
    BY <1>3, <1>4, <1>5, <1>6, <1>7, <1>8, <1>9, <1>10, <1>11, <1>12, <1>13, <1>14, <1>15
    DEF Next

(* The VMM frees only frames it holds, and otherwise allocates: with the theorems   *)
(* of PmmProof its frames stay apart from the free ones, page 0 and the bitmap.     *)
THEOREM UsesPmm == Spec => ImplementsPmm
  <1>1. Init => PM!Init
    BY DEF Init
  <1>2. Inv /\ [Next]_vars => [PM!Next]_pmmVars
    BY PmmStep
  <1>3. [PM!Next]_pmmVars => [PM!Next]_PM!pmmVars
    BY DEF pmmVars, PM!pmmVars
  <1> QED
    BY Invariance, <1>1, <1>2, <1>3, PTL DEF Spec, ImplementsPmm, PM!Spec

----------------------------------------------------------------------------------
(* The page tables implement a flat address space *)

SpaceOf == [v \in Page |-> LeafIn(table, v)]

Want == IF call.level = 0 THEN Absent
        ELSE [page |-> call.virt, mapping |-> Entry(call.frame, call.flags)]

(* The mapped state, by leaf entries. *)
LEMMA SpaceIs == Inv => [v \in Page |-> Walk(v)] = SpaceOf
  BY WalkIs DEF Inv, SpaceOf

(* In the state after a step as well. *)
LEMMA SpaceIsNext == ASSUME Inv' PROVE [v \in Page |-> Walk(v)]' = SpaceOf'
  <1>1. TablesType(table') /\ \E pos: Tree(table', pos)
    BY DEF Inv, TreeOK, Cursor
  <1>2. \A v \in Page: WalkIn(table', v) = LeafIn(table', v)
    BY <1>1, WalkInIs
  <1>3. ASSUME NEW v \in Page PROVE Walk(v)' = WalkIn(table', v)
    BY DEF Walk, WalkIn, Path, LeafIn, Withheld
  <1> QED
    BY <1>2, <1>3 DEF SpaceOf

(* What a call asks for is a mapping of a page. *)
LEMMA WantIs ==
  ASSUME Inv, call.level # 0
  PROVE  /\ Want # Absent /\ Want \in [page: Page, mapping: Mapping]
         /\ Want.page = call.virt /\ Want.mapping = Entry(call.frame, call.flags)
  <1>1. call.virt \in Page /\ call.frame \in Nat /\ call.flags \in SUBSET Flag
    BY DEF Inv, CallOK, Call
  <1>2. Entry(call.frame, call.flags) \in Mapping
    BY <1>1 DEF Entry, Mapping
  <1>3. Want = [page |-> call.virt, mapping |-> Entry(call.frame, call.flags)]
    BY DEF Want
  <1>4. Want \in [page: Page, mapping: Mapping]
    BY <1>1, <1>2, <1>3
  <1> QED
    BY <1>3, <1>4, VmmAssumption

(* In the state after a step as well. *)
LEMMA WantIsNext ==
  ASSUME Inv', call'.level # 0
  PROVE  Want' \in [page: Page, mapping: Mapping]
  <1>1. call'.virt \in Page /\ call'.frame \in Nat /\ call'.flags \in SUBSET Flag
    BY DEF Inv, CallOK, Call
  <1>2. Entry(call'.frame, call'.flags) \in Mapping
    BY <1>1 DEF Entry, Mapping
  <1>3. Want' = [page |-> call'.virt, mapping |-> Entry(call'.frame, call'.flags)]
    BY DEF Want
  <1> QED
    BY <1>1, <1>2, <1>3


(* A step that leaves the tables alone starts a mapping, gives one up or neither. *)
LEMMA SpaceRests ==
  ASSUME table' = table
  PROVE  SpaceOf' = SpaceOf
  BY DEF SpaceOf

(* Between calls of vmm_map nothing is asked for. *)
LEMMA IdleWants ==
  ASSUME Inv, call.op = "idle"
  PROVE  call.level = 0 /\ Want = Absent
  BY DEF Inv, CallOK, Want

AbstractAsk == Want = Absent /\ Want' \in [page: Page, mapping: Mapping] /\ SpaceOf' = SpaceOf
AbstractInstall ==
  Want # Absent /\ SpaceOf' = [SpaceOf EXCEPT ![Want.page] = Want.mapping] /\ Want' = Absent
AbstractGiveUp == Want # Absent /\ Want' = Absent /\ SpaceOf' = SpaceOf
AbstractUnmap ==
  \E v \in Page: Want = Absent /\ Want' = Want /\ SpaceOf' = [SpaceOf EXCEPT ![v] = Absent]
AbstractRest == SpaceOf' = SpaceOf /\ Want' = Want

AbstractStep ==
  AbstractAsk \/ AbstractInstall \/ AbstractGiveUp \/ AbstractUnmap \/ AbstractRest

(* A call that starts asks for a mapping. *)
LEMMA SpaceStarts ==
  ASSUME Inv, Inv', table' = table, call.level = 0
  PROVE  AbstractStep
  <1>1. SpaceOf' = SpaceOf /\ Want = Absent
    BY SpaceRests DEF Want
  <1>2. CASE call'.level = 0
    BY <1>1, <1>2 DEF Want, AbstractStep, AbstractRest
  <1>3. CASE call'.level # 0
    <2>1. Want' \in [page: Page, mapping: Mapping]
      BY <1>3, WantIsNext
    <2> QED
      BY <1>1, <2>1 DEF AbstractStep, AbstractAsk
  <1> QED
    BY <1>2, <1>3

(* Every step is one of the flat address space or leaves it alone. *)
LEMMA SpaceStep == ASSUME Inv, Inv', [Next]_vars PROVE AbstractStep
  <1>1. CASE Descend
    <2>1. SpaceOf' = SpaceOf
      BY <1>1, SpaceRests DEF Descend
    <2>2. Want' = Want
      BY <1>1, DescendInv DEF Want
    <2> QED
      BY <2>1, <2>2 DEF AbstractStep, AbstractRest
  <1>2. CASE Extend
    <2>1. SpaceOf' = SpaceOf
      BY <1>2, ExtendInv DEF SpaceOf
    <2>2. Want' = Want
      BY <1>2, ExtendInv DEF Want
    <2> QED
      BY <2>1, <2>2 DEF AbstractStep, AbstractRest
  <1>3. CASE MapFails
    <2>1. SpaceOf' = SpaceOf
      BY <1>3, SpaceRests DEF MapFails
    <2>2. Want' = Absent
      BY <1>3, IdleFields DEF MapFails, Want
    <2>3. call.level # 0
      BY <1>3, RunningFacts DEF MapFails
    <2>4. Want # Absent
      BY <2>3, WantIs
    <2> QED
      BY <2>1, <2>2, <2>4 DEF AbstractStep, AbstractGiveUp
  <1>4. CASE SetLeaf
    <2>1. /\ call.level # 0 /\ call'.level = 0 /\ call.virt \in Page
          /\ \A w \in Page: LeafIn(table', w) =
               IF w = call.virt THEN Entry(call.frame, call.flags) ELSE LeafIn(table, w)
      BY <1>4, SetLeafInv
    <2>2. /\ Want # Absent /\ Want.page = call.virt
          /\ Want.mapping = Entry(call.frame, call.flags)
      BY <2>1, WantIs
    <2>3. Want' = Absent
      BY <2>1 DEF Want
    <2>4. SpaceOf' = [SpaceOf EXCEPT ![call.virt] = Entry(call.frame, call.flags)]
      BY <2>1 DEF SpaceOf
    <2> QED
      BY <2>2, <2>3, <2>4 DEF AbstractStep, AbstractInstall
  <1>5. CASE \E v \in UserPages: VmmUnmap(v)
    <2>1. PICK v \in UserPages: VmmUnmap(v)
      BY <1>5
    <2>2. v \in Page
      BY VmmAssumption
    <2>3. SpaceOf' = [SpaceOf EXCEPT ![v] = Absent]
      BY <2>1, <2>2, VmmUnmapInv DEF SpaceOf
    <2>4. Want = Absent /\ call' = call
      BY <2>1, IdleWants DEF VmmUnmap, Free
    <2>5. Want' = Want
      BY <2>4 DEF Want
    <2> QED
      BY <2>2, <2>3, <2>4, <2>5 DEF AbstractStep, AbstractUnmap
  <1>6. CASE Boot \/ UNCHANGED vars
    <2>1. table' = table /\ call' = call
      BY <1>6 DEF Boot, vars
    <2> QED
      BY <2>1, SpaceRests DEF AbstractStep, AbstractRest, Want
  <1>7. CASE \E f \in 0..(frame_count - 1): CallerAllocs(f)
    BY <1>7, SpaceStarts, IdleWants DEF CallerAllocs, Free
  <1>8. CASE \E v \in UserPages, f \in mine, flags \in FlagSets: CallerMaps(v, f, flags)
    BY <1>8, SpaceStarts, IdleWants DEF CallerMaps, Free
  <1>9. CASE \E f \in mine: CallerFrees(f)
    BY <1>9, SpaceStarts, IdleWants DEF CallerFrees, Free
  <1>10. CASE \E r \in Regions: RegisterLazyRegion(r)
    BY <1>10, SpaceStarts, IdleWants DEF RegisterLazyRegion, Free
  <1>11. CASE \E v \in Page: PageFault(v)
    BY <1>11, SpaceStarts, IdleWants DEF PageFault, Free
  <1>12. CASE \E n \in PageCounts, flags \in FlagSets: AllocGuarded(n, flags)
    BY <1>12, SpaceStarts, IdleWants DEF AllocGuarded, Free
  <1>13. CASE GuardedPage
    BY <1>13, SpaceStarts DEF GuardedPage
  <1>14. CASE \E f \in Devices: MapMmio(f)
    BY <1>14, SpaceStarts, IdleWants DEF MapMmio, Free
  <1> QED
    BY <1>1, <1>2, <1>3, <1>4, <1>5, <1>6, <1>7, <1>8, <1>9, <1>10, <1>11, <1>12, <1>13,
       <1>14 DEF Next

(* For every shape of page tables: a call of vmm_map changes the page it was asked  *)
(* for, to the frame and the rights it was asked for, and no other; one that fails  *)
(* changes none; vmm_unmap takes away one page; nothing else changes any.           *)
THEOREM FlatAddressSpace == Spec => ImplementsAddressSpace
  <1>1. Init => Space!Init
    <2> SUFFICES ASSUME Init PROVE Space!Init
      OBVIOUS
    <2>1. Inv
      BY InitInv
    <2>2. PICK pos: Tree(table, pos)
      BY <2>1 DEF Inv, TreeOK, Cursor
    <2>3. SpaceOf \in [Page -> Mapping \cup {Absent}]
      BY <2>1, <2>2, LeafType DEF SpaceOf, Inv, TreeOK
    <2>4. call.level = 0
      BY IdleFields DEF Init
    <2> QED
      BY <2>1, <2>3, <2>4, SpaceIs DEF Space!Init
  <1>2. Inv /\ Inv' /\ [Next]_vars =>
          [Space!Next]_<<[v \in Page |-> Walk(v)],
                         IF call.level = 0 THEN Absent
                         ELSE [page |-> call.virt, mapping |-> Entry(call.frame, call.flags)]>>
    <2> SUFFICES ASSUME Inv, Inv', [Next]_vars
                 PROVE  [Space!Next]_<<[v \in Page |-> Walk(v)],
                          IF call.level = 0 THEN Absent
                          ELSE [page |-> call.virt, mapping |-> Entry(call.frame, call.flags)]>>
      OBVIOUS
    <2>1. [v \in Page |-> Walk(v)] = SpaceOf /\ [v \in Page |-> Walk(v)]' = SpaceOf'
      BY SpaceIs, SpaceIsNext
    <2>2. AbstractStep
      BY SpaceStep
    <2> QED
      BY <2>1, <2>2
      DEF Space!Next, Space!Ask, Space!Install, Space!GiveUp, Space!Unmap, Space!Request,
          AbstractStep, AbstractAsk, AbstractInstall, AbstractGiveUp, AbstractUnmap,
          AbstractRest, Want
  <1> QED
    BY Invariance, <1>1, <1>2, PTL DEF Spec, ImplementsAddressSpace, Space!Spec

----------------------------------------------------------------------------------
(* No frame is lost but those of abandoned pages *)

(* Every slot of a leaf table is some page's: the page that differs from one the    *)
(* table serves in the last index alone.                                            *)
LEMMA PageOfSlot ==
  ASSUME NEW p \in Page, NEW i \in Slot
  PROVE  \E v \in Page: Agree(p, v, 1) /\ Index(v, 1) = i
  <1>0. /\ LEVELS \in Nat \ {0} /\ ENTRIES \in Nat \ {0} /\ Powers(Span, LEVELS)
        /\ i \in Nat /\ i < ENTRIES
    BY SpanFacts, VmmAssumption DEF Slot
  <1>1. p \in Nat /\ p < Span[LEVELS]
    <2>1. Span[LEVELS] \in Nat \ {0}
      BY <1>0 DEF Powers
    <2> QED
      BY <2>1 DEF Page
  <1> DEFINE q == p \div ENTRIES
             v == ENTRIES * q + i
  <1>2. q \in Nat
    BY <1>0, <1>1
  <1>3. v \in Nat /\ v \div ENTRIES = q /\ v % ENTRIES = i
    <2> HIDE DEF q
    <2>1. v \in Nat
      BY <1>0, <1>2
    <2>2. v = ENTRIES * q + i
      OBVIOUS
    <2> HIDE DEF v
    <2> QED
      BY <1>0, <1>2, <2>1, <2>2
  <1>4. ASSUME NEW s \in Nat \ {0} PROVE v \div (ENTRIES * s) = p \div (ENTRIES * s)
    <2>1. v \div (s * ENTRIES) = (v \div ENTRIES) \div s
      <3> HIDE DEF v
      <3> QED
        BY <1>0, <1>3, DivTwice
    <2>2. p \div (s * ENTRIES) = (p \div ENTRIES) \div s
      BY <1>0, <1>1, DivTwice
    <2>3. s * ENTRIES = ENTRIES * s
      BY <1>0
    <2> HIDE DEF v
    <2> QED
      BY <1>3, <2>1, <2>2, <2>3
  <1>5. \A k \in 2..LEVELS: Index(v, k) = Index(p, k)
    <2> HIDE DEF v
    <2> TAKE k \in 2..LEVELS
    <2>1. k - 1 \in 1..LEVELS /\ k - 2 \in 0..LEVELS /\ (k - 1) - 1 = k - 2
      BY <1>0
    <2>2. Span[k - 2] \in Nat \ {0} /\ Span[k - 1] = ENTRIES * Span[k - 2]
      BY <1>0, <2>1 DEF Powers
    <2> QED
      BY <1>4, <2>2 DEF Index
  <1>6. v \in Page
    <2>1. Span[LEVELS] = ENTRIES * Span[LEVELS - 1] /\ Span[LEVELS - 1] \in Nat \ {0}
      BY <1>0 DEF Powers
    <2>2. v \div Span[LEVELS] = p \div Span[LEVELS]
      <3> HIDE DEF v
      <3> QED
        BY <1>4, <2>1
    <2>3. Span[LEVELS] \in Nat \ {0}
      BY <1>0 DEF Powers
    <2>4. p \div Span[LEVELS] = 0
      BY <1>1, <2>3
    <2>5. v < Span[LEVELS]
      <3> HIDE DEF v
      <3> QED
        BY <1>3, <2>2, <2>3, <2>4
    <2> HIDE DEF v
    <2> QED
      BY <1>3, <2>3, <2>5 DEF Page
  <1>7. Index(v, 1) = i
    <2>1. Span[0] = 1
      BY <1>0 DEF Powers
    <2> HIDE DEF v
    <2> QED
      BY <1>3, <2>1 DEF Index
  <1>8. Agree(p, v, 1)
    <2> HIDE DEF v
    <2> QED
      BY <1>0, <1>5 DEF Agree
  <1> HIDE DEF v
  <1> QED
    BY <1>6, <1>7, <1>8

(* A frame an entry leads to is a table or backs a page. *)
LEMMA LeadsToPage ==
  ASSUME NEW t, NEW pos, Tree(t, pos), TablesType(t), NEW f, Leads(t, f), f \notin DOMAIN t
  PROVE  \E v \in Page: LeafIn(t, v) # Absent /\ LeafIn(t, v).frame = f
  <1>1. PICK g \in DOMAIN t, i \in Slot: t[g][i] # Absent /\ t[g][i].frame = f
    BY DEF Leads
  <1>2. pos[g].level \in 1..LEVELS /\ pos[g].page \in Page
    BY DEF Tree
  <1>3. pos[g].level = 1
    <2>1. pos[g].level > 1 => f \in DOMAIN t
      BY <1>1 DEF Tree
    <2> QED
      BY <1>2, <2>1, VmmAssumption
  <1>4. PICK v \in Page: Agree(pos[g].page, v, 1) /\ Index(v, 1) = i
    BY <1>2, PageOfSlot
  <1>5. Serves(t, pos, g, v, 1)
    BY <1>3, <1>4 DEF Serves
  <1>6. LeafIn(t, v) = t[g][i]
    BY <1>4, <1>5, LeafServed
  <1> QED
    BY <1>1, <1>6

(* The pages of vmm_alloc_guarded's calls, finished, failed and under way. *)
Claimed == abandoned \cup Returned \cup UnderWay

(* It maps no other page of its zone. *)
ClaimedOK ==
  /\ abandoned \subseteq Page
  /\ \A v \in Dynamic: LeafIn(table, v) # Absent => v \in Claimed

(* What is claimed is in the zone. *)
LEMMA ClaimedPages ==
  ASSUME Inv
  PROVE  Returned \subseteq Dynamic /\ UnderWay \subseteq Dynamic
  <1>0. /\ VMM_DYNAMIC_VBASE \in Nat /\ VMM_MMIO_VBASE \in Nat /\ dynamic_next_vaddr \in Nat
    BY VmmAssumption, PageIs DEF Inv, RangesOK
  <1>1. Returned \subseteq Dynamic
    BY <1>0 DEF Inv, RangesOK, Returned, Dynamic
  <1>2. CASE call.op = "guarded"
    <2>1. call.start \in Nat /\ call.virt \in Nat /\ call.left \in Nat
      BY PageIs DEF Inv, CallOK, Call
    <2> QED
      BY <1>0, <1>1, <1>2, <2>1 DEF Inv, PendingOK, UnderWay, Dynamic
  <1>3. CASE call.op # "guarded"
    BY <1>1, <1>3 DEF UnderWay
  <1> QED
    BY <1>2, <1>3

(* Nothing that was claimed is forgotten, and what is newly mapped is claimed. *)
LEMMA ClaimedKept ==
  ASSUME ClaimedOK, abandoned' \subseteq Page, Claimed \subseteq Claimed',
         \A v \in Dynamic: LeafIn(table', v) # Absent =>
           LeafIn(table, v) # Absent \/ v \in Claimed'
  PROVE  ClaimedOK'
  BY DEF ClaimedOK

(* A step that touches neither the tables nor vmm_alloc_guarded's progress. *)
LEMMA ClaimedRests ==
  ASSUME ClaimedOK, UNCHANGED <<guarded, abandoned>>, UnderWay = UnderWay',
         \A v \in Dynamic: LeafIn(table', v) # Absent => LeafIn(table, v) # Absent
  PROVE  ClaimedOK'
  <1>1. Claimed' = Claimed
    BY DEF Claimed, Returned
  <1> QED
    BY <1>1, ClaimedKept DEF ClaimedOK

(* Every step keeps account. *)
LEMMA ClaimedNext == ASSUME Inv, ClaimedOK, [Next]_vars PROVE ClaimedOK'
  <1>1. ASSUME call.op # "guarded", call'.op # "guarded" PROVE UnderWay = UnderWay'
    BY <1>1 DEF UnderWay
  <1>2. CASE Descend \/ Extend
    <2>1. Ready /\ call.level > 1 /\ UNCHANGED callers
      BY <1>2 DEF Descend, Extend
    <2>2. call \in Call
      BY <2>1, RunningFacts
    <2>3. \E g: call' = [call EXCEPT !.level = @ - 1, !.at = g]
      BY <1>2 DEF Descend, Extend
    <2>4. call'.op = call.op /\ call'.virt = call.virt /\ call'.start = call.start
      BY <2>2, <2>3 DEF Call
    <2>5. \A w \in Page: LeafIn(table', w) = LeafIn(table, w)
      BY <1>2, ExtendInv DEF Descend
    <2> QED
      BY <2>1, <2>4, <2>5, DynamicPages, ClaimedRests DEF UnderWay, callers
  <1>3. CASE MapFails \/ (GuardedPage /\ call' = Idle)
    <2>1. /\ call' = Idle /\ abandoned' = abandoned \cup UnderWay
          /\ UNCHANGED <<table, guarded>>
      <3>1. CASE MapFails
        BY <3>1 DEF MapFails
      <3>2. CASE GuardedPage /\ call' = Idle
        <4>1. \A f: MapCall("guarded", call.virt, f, call.flags, call.start, call.left).op = "guarded"
          BY DEF MapCall
        <4>2. Idle.op = "idle"
          BY DEF Idle
        <4> QED
          BY <3>2, <4>1, <4>2 DEF GuardedPage
      <3> QED
        BY <1>3, <3>1, <3>2
    <2>2. Claimed' \in {Claimed, abandoned' \cup Returned'} /\ Returned' = Returned
      BY <2>1, IdleFields DEF Claimed, Returned, UnderWay
    <2>3. Claimed \subseteq Claimed'
      BY <2>1, <2>2 DEF Claimed
    <2>4. abandoned' \subseteq Page
      BY <2>1, ClaimedPages, DynamicPages DEF ClaimedOK
    <2> QED
      BY <2>1, <2>3, <2>4, ClaimedKept
  <1>4. CASE GuardedPage /\ call' # Idle
    <2>1. PICK f: /\ call' = MapCall("guarded", call.virt, f, call.flags, call.start, call.left)
                  /\ UNCHANGED abandoned
      BY <1>4 DEF GuardedPage
    <2>2. UnderWay = UnderWay'
      BY <1>4, <2>1 DEF UnderWay, MapCall, GuardedPage
    <2> QED
      BY <1>4, <2>1, <2>2, ClaimedRests DEF GuardedPage
  <1>5. CASE SetLeaf
    <2>1. /\ call.level # 0 /\ call'.level = 0 /\ call.virt \in Page
          /\ \A w \in Page: LeafIn(table', w) =
               IF w = call.virt THEN Entry(call.frame, call.flags) ELSE LeafIn(table, w)
      BY <1>5, SetLeafInv
    <2>2. UNCHANGED abandoned /\ call \in Call
      BY <1>5, RunningFacts DEF SetLeaf
    <2>3. \A w \in Dynamic: LeafIn(table', w) # Absent => LeafIn(table, w) # Absent \/ w = call.virt
      BY <2>1, DynamicPages
    <2>4. call.start \in Nat /\ call.virt \in Nat /\ call.left \in Nat
      BY <2>2, PageIs DEF Call
    <2>5. CASE call.op = "guarded" /\ call.left > 1
      <3>1. call' = Turn(call.virt + 1, call.start, call.flags, call.left - 1) /\ guarded' = guarded
        BY <1>5, <2>4, <2>5 DEF SetLeaf, Turn
      <3>2. call'.op = "guarded" /\ call'.virt = call.virt + 1 /\ call'.start = call.start
        BY <3>1 DEF Turn, Idle
      <3>3. call.start <= call.virt
        BY <2>5 DEF Inv, PendingOK
      <3>4. UnderWay \subseteq UnderWay' /\ call.virt \in UnderWay'
        BY <2>4, <2>5, <3>2, <3>3 DEF UnderWay
      <3>5. Claimed \subseteq Claimed' /\ call.virt \in Claimed'
        BY <2>2, <3>1, <3>4 DEF Claimed, Returned
      <3> QED
        BY <2>2, <2>3, <3>5, ClaimedKept DEF ClaimedOK
    <2>6. CASE call.op = "guarded" /\ ~(call.left > 1)
      <3>1. call.left = 1 /\ call.start <= call.virt
        BY <2>4, <2>6 DEF Inv, PendingOK
      <3> DEFINE r == [start |-> call.start, end |-> call.virt + 1]
      <3>2. guarded' = guarded \cup {r}
        BY <1>5, <2>6, <3>1 DEF SetLeaf
      <3>3. call.start..call.virt \subseteq Returned'
        <4>1. r \in guarded' /\ r.start = call.start /\ r.end - 1 = call.virt
          BY <2>4, <3>2
        <4> HIDE DEF r
        <4> QED
          BY <4>1 DEF Returned
      <3>4. Returned \subseteq Returned'
        BY <3>2 DEF Returned
      <3>5. UnderWay \subseteq call.start..call.virt /\ call.virt \in call.start..call.virt
        BY <2>4, <2>6, <3>1 DEF UnderWay
      <3>6. Claimed \subseteq Claimed' /\ call.virt \in Claimed'
        BY <2>2, <3>3, <3>4, <3>5 DEF Claimed
      <3> QED
        BY <2>2, <2>3, <3>6, ClaimedKept DEF ClaimedOK
    <2>7. CASE call.op # "guarded"
      <3>1. call' = Idle /\ guarded' = guarded
        BY <1>5, <2>7 DEF SetLeaf
      <3>2. UnderWay = UnderWay'
        BY <1>1, <2>7, <3>1, IdleFields
      <3>3. call.virt \notin Dynamic
        BY <2>1, <2>7, VirtZone
      <3> QED
        BY <2>2, <2>3, <3>1, <3>2, <3>3, ClaimedRests
    <2> QED
      BY <2>5, <2>6, <2>7
  <1>6. CASE \E v \in UserPages: VmmUnmap(v)
    <2>1. PICK v \in UserPages: VmmUnmap(v)
      BY <1>6
    <2>2. \A w \in Page: LeafIn(table', w) # Absent => LeafIn(table, w) # Absent
      BY <2>1, VmmUnmapInv
    <2>3. UNCHANGED <<call, guarded, abandoned>>
      BY <2>1 DEF VmmUnmap, callers
    <2> QED
      BY <2>2, <2>3, DynamicPages, ClaimedRests DEF UnderWay
  <1>7. CASE \E n \in PageCounts, flags \in FlagSets: AllocGuarded(n, flags)
    <2>1. PICK n \in PageCounts, flags \in FlagSets: AllocGuarded(n, flags)
      BY <1>7
    <2>2. /\ call.op = "idle" /\ UNCHANGED <<table, guarded, abandoned>>
          /\ call' = Turn(FirstPage, FirstPage, flags, n)
      BY <2>1 DEF AllocGuarded, Free, callers, Turn
    <2>3. FirstPage \in Nat
      BY PageIs DEF Inv, RangesOK, FirstPage
    <2>4. call'.op = "guarded" /\ call'.start = FirstPage /\ call'.virt = FirstPage
      BY <2>2 DEF Turn, Idle
    <2>5. FirstPage..(FirstPage - 1) = {}
      BY <2>3
    <2>6. UnderWay = UnderWay'
      BY <2>2, <2>4, <2>5 DEF UnderWay
    <2> QED
      BY <2>2, <2>6, ClaimedRests
  <1>8. CASE Boot \/ UNCHANGED vars \/ \E r \in Regions: RegisterLazyRegion(r)
    <2>1. UNCHANGED <<table, call, callers>>
      BY <1>8 DEF Boot, vars, RegisterLazyRegion
    <2> QED
      BY <2>1, ClaimedRests DEF UnderWay, callers
  <1>9. CASE \/ \E f \in 0..(frame_count - 1): CallerAllocs(f)
             \/ \E f \in mine: CallerFrees(f)
    <2>1. UNCHANGED <<table, call, guarded, abandoned>>
      BY <1>9 DEF CallerAllocs, CallerFrees
    <2> QED
      BY <2>1, ClaimedRests DEF UnderWay
  <1>10. CASE \/ \E v \in UserPages, f \in mine, flags \in FlagSets: CallerMaps(v, f, flags)
              \/ \E f \in Devices: MapMmio(f)
              \/ \E v \in Page: PageFault(v)
    <2>1. call.op = "idle" /\ UNCHANGED <<table, guarded, abandoned>>
      BY <1>10 DEF CallerMaps, MapMmio, PageFault, Free, callers
    <2>2. call'.op # "guarded"
      BY <1>10, <2>1 DEF CallerMaps, MapMmio, PageFault, MapCall
    <2> QED
      BY <1>1, <2>1, <2>2, ClaimedRests
  <1> QED
    BY <1>2, <1>3, <1>4, <1>5, <1>6, <1>7, <1>8, <1>9, <1>10 DEF Next

(* For every shape of page tables: until the kernel halts, each frame taken from    *)
(* the allocator is a table, a caller's own, the one being mapped, or behind a lazy *)
(* page or a page of a guarded range, returned or under way; the only others are    *)
(* behind pages that a failed vmm_alloc_guarded left mapped (vmm.c:185).            *)
THEOREM NoFrameLost == Spec => []FramesAccounted
  <1>1. Init => ClaimedOK
    <2> SUFFICES ASSUME Init PROVE ClaimedOK
      OBVIOUS
    <2>1. dynamic_next_vaddr = VMM_DYNAMIC_VBASE /\ abandoned = {} /\ VMM_DYNAMIC_VBASE \in Nat
      BY VmmAssumption, PageIs DEF Init
    <2>2. \A v \in Dynamic: LeafIn(table, v) = Absent
      BY <2>1, InitInv DEF Inv, RangesOK, Dynamic
    <2> QED
      BY <2>1, <2>2 DEF ClaimedOK
  <1>2. Inv /\ ClaimedOK /\ [Next]_vars => ClaimedOK'
    BY ClaimedNext
  <1>3. Inv /\ ClaimedOK => FramesAccounted
    <2> SUFFICES ASSUME Inv, ClaimedOK, ~halted
                 PROVE  held = (Owned \cup Backing(abandoned)) \ (Bootloader \cup Devices)
      BY DEF FramesAccounted
    <2>1. \A f: f \in held <=> InUse(f) /\ f \notin Bootloader \cup Devices
      BY DEF Inv, HeldOK
    <2>2. PICK pos: Tree(table, pos) /\ TablesType(table)
      BY DEF Inv, TreeOK, Cursor
    <2>3. \A v \in Page: Walk(v) = LeafIn(table, v)
      BY WalkIs DEF Inv
    <2> DEFINE S == LazyPage \cup Returned \cup UnderWay
    <2>4. S \subseteq Page /\ abandoned \subseteq Page
      BY ClaimedPages, DynamicPages DEF LazyPage, ClaimedOK
    <2>5. \A f: f \in Owned <=> f \in Tables \/ f \in mine \/ f \in InFlight \/ f \in Backing(S)
      BY DEF Owned
    <2> HIDE DEF S
    <2>6. ASSUME NEW f, f \in Backing(S) \/ f \in Backing(abandoned) PROVE InUse(f)
      <3>1. PICK v \in Page: Walk(v) # Absent /\ f = Walk(v).frame
        BY <2>4, <2>6 DEF Backing
      <3>2. Leads(table, LeafIn(table, v).frame)
        BY <2>2, <2>3, <3>1, LeafLeads
      <3> QED
        BY <2>3, <3>1, <3>2 DEF InUse
    <2>7. ASSUME NEW f, InUse(f), f \notin Bootloader \cup Devices
          PROVE  f \in Owned \cup Backing(abandoned)
      <3>1. CASE f \in DOMAIN table \/ f \in mine \/ f \in InFlight
        BY <2>5, <3>1 DEF Tables
      <3>2. CASE f \notin DOMAIN table /\ f \notin mine /\ Leads(table, f)
        <4>1. PICK v \in Page: LeafIn(table, v) # Absent /\ LeafIn(table, v).frame = f
          BY <2>2, <3>2, LeadsToPage
        <4>2. v \in LazyPage \cup Dynamic
          BY <2>7, <3>2, <4>1 DEF Inv, LeafOK
        <4>3. v \in S \/ v \in abandoned
          BY <4>1, <4>2 DEF ClaimedOK, Claimed, S
        <4>4. f \in Backing(S) \/ f \in Backing(abandoned)
          BY <2>3, <4>1, <4>3 DEF Backing
        <4> QED
          BY <2>5, <4>4
      <3> QED
        BY <2>7, <3>1, <3>2 DEF InUse
    <2>8. ASSUME NEW f \in Owned \cup Backing(abandoned) PROVE InUse(f)
      BY <2>5, <2>6, <2>8 DEF InUse, Tables
    <2> QED
      BY <2>1, <2>7, <2>8
  <1> QED
    BY Invariance, <1>1, <1>2, <1>3, PTL DEF Spec
====
