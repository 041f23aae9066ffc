------------------------ MODULE ContentPlan_proofs ------------------------
(***************************************************************************)
(* Proofs about the layout of a package and its extraction, for every      *)
(* staged title: what is extracted is what was packed, and the contents    *)
(* are as the installer and the console need them.                         *)
(***************************************************************************)
EXTENDS ContentPlan, FiniteSetTheorems, SequenceTheorems, WellFoundedInduction, TLAPS

-----------------------------------------------------------------------------
(***************************************************************************)
(* The inductive invariant.                                                *)
(***************************************************************************)
Names == ToSet(NameOrder)

PlacedFiles == [path : Files, off : Nat, size : Nat]
Contents == [hashed : BOOLEAN, game : BOOLEAN, files : Seq(PlacedFiles), len : Nat]

\* The nodes of the FST.
Nodes ==
    [kind : {"dir"}, name : Names \cup {""}, parent : Nat, end : Nat]
        \cup [kind : {"file"}, name : Names, cluster : Nat, off : Nat, size : Nat]

Flat == {"flatten", "table", "parse", "paths", "extract", "done", "failed"}

\* A file has a content other than the FST's, and the game contents hold what is under content/.
Shape ==
    /\ tree \in Trees
    /\ pc \in {"alloc", "game", "refused"} \cup Flat
    /\ pos \in Nat \ {0}
    /\ contents \in Seq(Contents) /\ Len(contents) > 0
    /\ DOMAIN clusterOf \subseteq Files
    /\ \A p \in DOMAIN clusterOf : clusterOf[p] \in 1 .. Len(contents) - 1
    /\ \A p \in DOMAIN clusterOf : contents[clusterOf[p] + 1].game <=> p[1] = "content"

\* No file is placed before the FST is built.
Unplaced == \A i \in DOMAIN contents : contents[i].files = <<>> /\ contents[i].len = 0

\* The content of the game file a, and the room that the game files from a to b take.
G(a) == clusterOf[GameFiles[a]]
Span(a, b) == Room[b] - Room[a - 1]
Starts(k) == {a \in 1 .. k : a = 1 \/ G(a - 1) # G(a)}

\* The first k game files have contents: the last ones, in their order, none above the cap, and
\* none begun before the next file would have been too much for the one before.
Grouped(k) ==
    /\ \A a \in 1 .. k : GameFiles[a] \in DOMAIN clusterOf
    /\ \A i \in DOMAIN contents : contents[i].game <=> k > 0 /\ i > G(1)
    /\ k > 0 => G(k) = Len(contents) - 1
    /\ \A a, b \in 1 .. k : a <= b => G(a) <= G(b)
    /\ \A a, b \in 1 .. k : a <= b /\ G(a) = G(b) => Span(a, b) <= Cap
    /\ k > 0 => \A g \in G(1) .. G(k) : \E a \in Starts(k) : G(a) = g
    /\ \A a, b \in Starts(k) : G(b) = G(a) + 1 => Span(a, b) > Cap

\* GameGrouping after k files.
Filling(k) ==
    IF k = 0 THEN group = [current |-> 0, size |-> 0]
    ELSE \E a \in Starts(k) : G(a) = G(k) /\ group = [current |-> G(k), size |-> Span(a, k)]

\* The files of a content lie one behind the other, from offset 0, at multiples of Factor.
Sound(c) ==
    /\ \A x \in DOMAIN c.files :
         LET f == c.files[x] IN
         /\ f.size = tree.sizes[f.path]
         /\ (f.off \div Factor) * Factor = f.off
         /\ f.off + f.size <= c.len
    /\ \A x, y \in DOMAIN c.files : x < y => c.files[x].off + c.files[x].size <= c.files[y].off
    /\ IF c.files = <<>> THEN c.len = 0 ELSE c.files[1].off = 0

\* Node j + 1 describes Order[j], and a file is in its content where its node says.
Described(j) ==
    LET p == Order[j]
        node == nodes[j + 1]
    IN IF p \notin Files THEN node = DirNode(j)
       ELSE /\ node = [kind |-> "file", name |-> Last(p), cluster |-> clusterOf[p],
                       off |-> node.off, size |-> tree.sizes[p]]
            /\ \E x \in DOMAIN contents[clusterOf[p] + 1].files :
                 contents[clusterOf[p] + 1].files[x] =
                     [path |-> p, off |-> node.off, size |-> tree.sizes[p]]

\* What is in a game content is at most what some of its files, from the first, are planned for.
WithinSpan(i, n) ==
    contents[i].game /\ contents[i].len > 0 =>
        \E a, b \in DOMAIN GameFiles :
            /\ a <= b /\ G(a) = i - 1 /\ G(b) = i - 1
            /\ \E j \in 1 .. n : Order[j] = GameFiles[b]
            /\ AlignUp(contents[i].len, Factor) <= Span(a, b)

\* The first game content begins with the first game file.
StartsWithFirst(i) ==
    contents[i].game /\ i = G(1) + 1 /\ contents[i].files # <<>> =>
        contents[i].files[1].path = GameFiles[1]

\* The first n entries of the FST are there, and their files have their places.
Flattened(n) ==
    /\ nodes \in Seq(Nodes) /\ Len(nodes) = n + 1 /\ nodes[1] = Root
    /\ \A j \in 1 .. n : Described(j)
    /\ \A i \in 2 .. Len(contents) :
         Sound(contents[i]) /\ WithinSpan(i, n) /\ StartsWithFirst(i)

\* The first k slots of the content table.
Slots(k) ==
    /\ table \in Seq([off : Nat, size : Nat]) /\ Len(table) = k
    /\ \A i \in 1 .. k : table[i].size = SectorsOf(contents[i].len)
    /\ \A i \in 1 .. k - 1 : table[i + 1].off = table[i].off + table[i].size
    /\ cursor = IF k = 0 THEN 0 ELSE table[k].off + table[k].size

\* The directory that is open behind the first n entries.
Within(n) ==
    IF n = 0 THEN <<>> ELSE IF Order[n] \in Files THEN Front(Order[n]) ELSE Order[n]

\* The stack of node_paths has the directories on the way to it, each until its last entry.
Stacked(n) ==
    /\ stack \in Seq([end : Nat, path : Seq(Names)])
    /\ Len(stack) = Len(Within(n)) + 1
    /\ \A k \in DOMAIN stack :
         /\ stack[k].path = SubSeq(Within(n), 1, k - 1)
         /\ \A x \in n + 1 .. Len(Order) :
              x < stack[k].end <=> IsStrictPrefix(stack[k].path, Order[x])

\* node_paths gives each of the first n entries its path back.
Pathed(n) ==
    /\ paths \in Seq(Seq(Names)) /\ Len(paths) = n + 1 /\ paths[1] = <<>>
    /\ \A j \in 1 .. n : paths[j + 1] = Order[j]

\* What is extracted of the first n entries: the directories, and the files not to be skipped.
Wanted(p) == ~ (skip /\ Last(p) \in HifNames)
Extracted(n) ==
    /\ out.dirs = {p \in InFst \ Files : \E j \in 1 .. n : Order[j] = p}
    /\ DOMAIN out.files = {p \in Files : Wanted(p) /\ \E j \in 1 .. n : Order[j] = p}

\* Nothing is extracted before extract_title.
Untouched == Extracted(0) /\ decoded = {}

\* What is extracted is what was packed, and no damaged content passes for a good one.
Intact ==
    /\ out = [dirs |-> out.dirs, files |-> out.files]
    /\ \A p \in DOMAIN out.files : p \in Files /\ (FitsFields(p) => out.files[p] = Bytes(p))
    /\ decoded \cap damaged = {}

\* What holds of the plan when it is made: the files have contents, nodes and places, the FST
\* has its length, and each content its slot.
Fresh == table = <<>> /\ cursor = 0
Complete == Grouped(Len(GameFiles)) /\ Files \subseteq DOMAIN clusterOf
Laid ==
    /\ Complete /\ Flattened(Len(Order))
    /\ contents[1].len = SerializedLen(Len(contents), Len(nodes))
Layout == Laid /\ Slots(Len(contents))

\* What each loop knows, by how far it is.
Stage ==
    /\ pc = "alloc" => Fresh /\ Untouched /\ Unplaced /\ Grouped(0) /\ Filling(0)
    /\ pc = "game" => /\ Fresh /\ Untouched /\ Unplaced
                      /\ pos <= Len(GameFiles) + 1 /\ Grouped(pos - 1) /\ Filling(pos - 1)
    /\ pc = "flatten" => /\ Fresh /\ Untouched /\ Complete
                         /\ pos <= Len(Order) + 1 /\ Flattened(pos - 1)
    /\ pc = "table" => /\ Untouched /\ Laid
                       /\ pos <= Len(contents) + 1 /\ Slots(pos - 1)
    /\ pc = "parse" => Untouched /\ Layout
    /\ pc = "paths" => /\ Untouched /\ Layout
                       /\ pos \in 2 .. Len(Order) + 2 /\ Pathed(pos - 2) /\ Stacked(pos - 2)
    /\ pc = "extract" => /\ Layout /\ Pathed(Len(Order))
                         /\ pos <= Len(Order) + 2 /\ Extracted(pos - 2)
    /\ pc = "done" => Layout /\ Extracted(Len(Order))
    /\ pc = "failed" => Layout

IInv == Shape /\ Intact /\ Stage

-----------------------------------------------------------------------------
(***************************************************************************)
(* Arithmetic, induction and order.                                        *)
(***************************************************************************)
\* A set of naturals that is not empty has a least element.
LEMMA LeastNatural ==
    ASSUME NEW T \in SUBSET Nat, T # {}
    PROVE  \E x \in T : \A y \in T : x <= y
<1> DEFINE U == {1 .. x : x \in T}
<1>1. U \subseteq FiniteSubsetsOf(Nat) /\ U # {}
  <2>1. ASSUME NEW x \in T PROVE 1 .. x \in SUBSET Nat /\ IsFiniteSet(1 .. x)
    <3>1. 1 \in Int /\ x \in Int
        OBVIOUS
    <3>2. IsFiniteSet(1 .. x)
        BY <3>1, FS_Interval, Zenon
    <3>. QED  BY <3>2
  <2>. QED  BY <2>1 DEF FiniteSubsetsOf
<1>2. PICK u \in U : \A v \in U : ~ (<<v, u>> \in StrictSubsetOrdering(Nat))
    BY <1>1, FS_StrictSubsetOrderingWellFounded, WFMin
<1>3. PICK x \in T : u = 1 .. x
    BY <1>2
<1>4. ASSUME NEW y \in T, y < x PROVE FALSE
  <2>1. 1 .. y \subseteq 1 .. x /\ 1 .. y # 1 .. x /\ 1 .. y \in SUBSET Nat /\ 1 .. x \in SUBSET Nat
    <3>1. x \in 1 .. x /\ x \notin 1 .. y
        BY <1>4
    <3>. QED  BY <1>4, <3>1
  <2>2. <<1 .. y, 1 .. x>> \in StrictSubsetOrdering(Nat)
    BY <2>1 DEF StrictSubsetOrdering
  <2>. QED  BY <1>2, <1>3, <2>2
<1>. QED  BY <1>4

\* A bounded one has a greatest.
LEMMA GreatestNatural ==
    ASSUME NEW T \in SUBSET Nat, T # {}, NEW n \in Nat, \A y \in T : y <= n
    PROVE  \E x \in T : \A y \in T : y <= x
<1> DEFINE U == {m \in Nat : \A y \in T : y <= m}
<1>1. U \in SUBSET Nat /\ U # {}
    OBVIOUS
<1>2. PICK m \in U : \A u \in U : m <= u
    BY <1>1, LeastNatural
<1>3. ASSUME m \notin T PROVE FALSE
  <2>1. \A y \in T : y < m
    BY <1>2, <1>3
  <2>2. PICK t \in T : TRUE
    OBVIOUS
  <2>3. m \in Nat /\ t \in Nat /\ t < m
    BY <1>2, <2>1
  <2>4. m - 1 \in Nat /\ \A y \in T : y <= m - 1
    BY <2>1, <2>3
  <2>. QED  BY <1>2, <2>3, <2>4
<1>. QED  BY <1>2, <1>3

\* What holds of 0, and of n + 1 when it holds of n, holds of every natural.
LEMMA Induction ==
    ASSUME NEW T \in SUBSET Nat, 0 \in T, \A n \in T : n + 1 \in T
    PROVE  \A n \in Nat : n \in T
<1> DEFINE U == Nat \ T
<1>1. SUFFICES ASSUME U # {} PROVE FALSE
    OBVIOUS
<1>2. PICK m \in U : \A u \in U : m <= u
    BY <1>1, LeastNatural
<1>3. m - 1 \in Nat /\ m - 1 \in T
    BY <1>2
<1>. QED  BY <1>2, <1>3

\* Elements of which each has those before it below it have the ranks from 0 on.
LEMMA Ranks ==
    ASSUME NEW S, IsFiniteSet(S), NEW below \in [S -> SUBSET S],
           \A x \in S : x \notin below[x],
           \A x, y \in S : x # y => \/ x \in below[y] /\ below[x] \subseteq below[y]
                                    \/ y \in below[x] /\ below[y] \subseteq below[x]
    PROVE  /\ \A x \in S : Cardinality(below[x]) \in 0 .. Cardinality(S) - 1
           /\ \A x, y \in S : x \in below[y] => Cardinality(below[x]) < Cardinality(below[y])
           /\ \A i \in 1 .. Cardinality(S) : \E x \in S : Cardinality(below[x]) = i - 1
<1> DEFINE n == Cardinality(S)
           rk(x) == Cardinality(below[x])
<1>1. n \in Nat
    BY FS_CardinalityType
<1>2. \A x \in S : below[x] \in SUBSET S /\ IsFiniteSet(below[x]) /\ rk(x) \in Nat
    BY FS_Subset, FS_CardinalityType
<1>3. ASSUME NEW x \in S PROVE rk(x) < n
  <2>1. rk(x) <= n /\ (n = rk(x) => S = below[x])
    BY <1>2, FS_Subset
  <2>. QED  BY <1>1, <1>2, <2>1
<1>4. ASSUME NEW x \in S, NEW y \in S, x \in below[y] PROVE rk(x) < rk(y)
  <2>1. below[x] \subseteq below[y]
    BY <1>4
  <2>2. below[x] \in SUBSET below[y] /\ below[x] # below[y]
    BY <1>4, <2>1
  <2>3. rk(x) <= rk(y) /\ (rk(y) = rk(x) => below[y] = below[x])
    BY <1>2, <2>2, FS_Subset
  <2>. QED  BY <1>2, <2>2, <2>3
<1> DEFINE rank == [x \in S |-> rk(x)]
<1>5. rank \in [S -> 0 .. n - 1]
  <2>1. \A x \in S : rk(x) \in 0 .. n - 1
    <3> HIDE DEF rk, n
    <3>. QED  BY <1>1, <1>2, <1>3
  <2>. QED  BY <2>1
<1>6. ASSUME NEW x \in S, NEW y \in S, x # y PROVE rk(x) # rk(y)
  <2>1. x \in below[y] \/ y \in below[x]
    BY <1>6
  <2> HIDE DEF rk
  <2>. QED  BY <1>2, <1>4, <2>1
<1>7. rank \in Injection(S, 0 .. n - 1)
  <2> HIDE DEF rk, n
  <2>. QED  BY <1>5, <1>6 DEF Injection, IsInjective
<1>8. IsFiniteSet(0 .. n - 1) /\ Cardinality(0 .. n - 1) = n
  <2> DEFINE z == 0
             m == n - 1
  <2>1. z \in Int /\ m \in Int /\ m - z + 1 = n /\ (z > m => n = 0)
    BY <1>1
  <2> HIDE DEF z, m
  <2>2. IsFiniteSet(z .. m) /\ Cardinality(z .. m) = IF z > m THEN 0 ELSE m - z + 1
    BY <2>1, FS_Interval
  <2>. QED  BY <2>1, <2>2 DEF z, m
<1>9. rank \in Surjection(S, 0 .. n - 1)
    BY <1>7, <1>8, FS_Injection
<1>10. ASSUME NEW i \in 1 .. n PROVE \E x \in S : rk(x) = i - 1
  <2>1. i - 1 \in 0 .. n - 1
    BY <1>1
  <2>2. \E x \in S : rank[x] = i - 1
    BY <1>9, <2>1 DEF Surjection
  <2>. QED  BY <2>2
<1>. QED  BY <1>4, <1>5, <1>10

\* Max of a bounded set that is not empty.
LEMMA MaxIs ==
    ASSUME NEW T \in SUBSET Nat, T # {}, NEW n \in Nat, \A y \in T : y <= n
    PROVE  Max(T) \in T /\ \A y \in T : y <= Max(T)
<1>1. PICK x \in T : \A y \in T : y <= x
  BY GreatestNatural
<1>2. \E m \in T : \A y \in T : m >= y
  BY <1>1
<1>3. QED
  BY <1>2 DEF Max

\* Rounding up to a multiple.
LEMMA Aligned ==
    ASSUME NEW n \in Nat, NEW a \in Nat \ {0}
    PROVE  /\ AlignUp(n, a) \in Nat /\ n <= AlignUp(n, a)
           /\ (AlignUp(n, a) \div a) * a = AlignUp(n, a)
           /\ n = 0 => AlignUp(n, a) = 0
<1> DEFINE m == n + a - 1
<1>1. PICK q \in Nat, r \in 0 .. a - 1 : m = q * a + r /\ q = m \div a
  <2>1. \A k \in Nat : \E q \in Nat, r \in 0 .. a - 1 : k = q * a + r /\ q = k \div a
    OBVIOUS
  <2>2. m \in Nat
    OBVIOUS
  <2>3. QED
    BY <2>1, <2>2
<1>2. AlignUp(n, a) = q * a
  BY <1>1 DEF AlignUp
<1>3. q * a \in Nat
  OBVIOUS
<1>4. n <= q * a
  <2> DEFINE w == q * a
  <2>1. w \in Nat /\ n + a - 1 = w + r
    BY <1>1, <1>3
  <2> HIDE DEF w, m
  <2>2. n <= w
    BY <2>1
  <2>3. QED
    BY <2>2 DEF w
<1>5. (q * a) \div a = q
  <2>1. \A x \in Nat, d \in Nat \ {0} : (x * d) \div d = x
    OBVIOUS
  <2>2. QED
    BY <2>1
<1>6. n = 0 => q * a = 0
  <2>1. ASSUME n = 0 PROVE q = 0
    <3>1. a - 1 = q * a + r
      BY <1>1, <2>1
    <3>2. CASE q > 0
      <4>1. q * a >= a
        BY <3>2
      <4> DEFINE w == q * a
      <4>2. w \in Nat /\ w >= a /\ a - 1 = w + r
        BY <1>3, <3>1, <4>1
      <4> HIDE DEF w
      <4>3. QED
        BY <4>2
    <3>3. QED
      BY <3>2
  <2>2. QED
    BY <2>1
<1>7. QED
  BY <1>2, <1>3, <1>4, <1>5, <1>6

\* A quotient is at most what is divided.
LEMMA Quotient ==
    ASSUME NEW a \in Nat, NEW n \in Nat \ {0}
    PROVE  a \div n \in Nat /\ a \div n <= a
<1>1. PICK q, r : q = a \div n /\ r = a % n
  OBVIOUS
<1>2. q \in Nat /\ r \in Nat /\ a = n * q + r
  BY <1>1
<1>3. q <= n * q
  BY <1>2
<1>4. QED
  BY <1>1, <1>2, <1>3

\* Behind a multiple, rounding up rounds what is behind it.
LEMMA AlignedSum ==
    ASSUME NEW m \in Nat, NEW n \in Nat, NEW a \in Nat \ {0}, (m \div a) * a = m
    PROVE  AlignUp(m + n, a) = m + AlignUp(n, a)
<1> DEFINE q == m \div a
           k == n + a - 1
<1>1. q \in Nat /\ k \in Nat /\ m = q * a
  OBVIOUS
<1>2. (q * a + k) \div a = q + (k \div a)
  <2>1. PICK e \in Nat, r \in 0 .. a - 1 : k = e * a + r /\ e = k \div a
    <3>1. \A x \in Nat : \E e \in Nat, r \in 0 .. a - 1 : x = e * a + r /\ e = x \div a
      OBVIOUS
    <3> HIDE DEF k
    <3>2. QED
      BY <1>1, <3>1
  <2>2. q * a + k = (q + e) * a + r
    <3>1. (q + e) * a = q * a + e * a
      OBVIOUS
    <3> DEFINE u == q * a
               v == e * a
    <3>2. u \in Nat /\ v \in Nat
      OBVIOUS
    <3> HIDE DEF k, u, v, q
    <3>3. u + k = (u + v) + r
      BY <1>1, <2>1, <3>2 DEF v
    <3>4. QED
      BY <3>1, <3>3 DEF u, v
  <2>3. \A x \in Nat : (x * a + r) \div a = x
    OBVIOUS
  <2>4. q + e \in Nat
    BY <1>1
  <2>5. ((q + e) * a + r) \div a = q + e
    BY <2>3, <2>4
  <2>6. QED
    BY <2>1, <2>2, <2>5
<1>3. AlignUp(m + n, a) = ((q * a + k) \div a) * a
  <2>1. (m + n) + a - 1 = q * a + k
    BY <1>1
  <2>2. QED
    BY <2>1 DEF AlignUp
<1>4. (q + (k \div a)) * a = q * a + (k \div a) * a
  <2>1. k \div a \in Nat
    OBVIOUS
  <2>2. \A x, y \in Nat : (x + y) * a = x * a + y * a
    OBVIOUS
  <2>3. QED
    BY <1>1, <2>1, <2>2
<1>5. AlignUp(n, a) = (k \div a) * a
  BY DEF AlignUp
<1>6. QED
  BY <1>1, <1>2, <1>3, <1>4, <1>5

-----------------------------------------------------------------------------
(***************************************************************************)
(* The order of read_dir_hif_first, and the order of the FST.              *)
(***************************************************************************)
\* Every name has a place in the order of the names.
LEMMA RankIs ==
    ASSUME NEW m \in Names PROVE Rank(m) \in Nat /\ NameOrder[Rank(m)] = m
<1>1. \E i \in DOMAIN NameOrder : NameOrder[i] = m
  BY DEF Names, ToSet
<1>2. Rank(m) \in DOMAIN NameOrder /\ NameOrder[Rank(m)] = m
  BY <1>1 DEF Rank
<1>3. QED
  BY <1>2, PlanAssumption DEF PlanAssumption

\* The names are in a total order.
LEMMA NamesInOrder ==
    ASSUME NEW m \in Names, NEW n \in Names, NEW o \in Names
    PROVE  /\ ~ NameBefore(m, m)
           /\ m # n => NameBefore(m, n) \/ NameBefore(n, m)
           /\ NameBefore(m, n) => ~ NameBefore(n, m)
           /\ NameBefore(m, n) /\ NameBefore(n, o) => NameBefore(m, o)
<1> DEFINE rm == Rank(m)
           rn == Rank(n)
           ro == Rank(o)
<1>1. rm \in Nat /\ rn \in Nat /\ ro \in Nat /\ (m # n => rm # rn)
  BY RankIs
<1> HIDE DEF rm, rn, ro
<1> DEFINE hm == m \in HifNames
           hn == n \in HifNames
           ho == o \in HifNames
<1>2. /\ NameBefore(m, n) <=> IF hm = hn THEN rm < rn ELSE hm
      /\ NameBefore(n, m) <=> IF hn = hm THEN rn < rm ELSE hn
      /\ NameBefore(n, o) <=> IF hn = ho THEN rn < ro ELSE hn
      /\ NameBefore(m, o) <=> IF hm = ho THEN rm < ro ELSE hm
      /\ NameBefore(m, m) <=> rm < rm
  BY DEF NameBefore, rm, rn, ro
<1>3. hm \in BOOLEAN /\ hn \in BOOLEAN /\ ho \in BOOLEAN
  OBVIOUS
<1> HIDE DEF hm, hn, ho
<1>4. QED
  BY <1>1, <1>2, <1>3

\* Strict prefixes, index by index.
LEMMA PrefixIs ==
    ASSUME NEW p \in Seq(Names), NEW q \in Seq(Names)
    PROVE  IsStrictPrefix(p, q) <=> Len(p) < Len(q) /\ \A i \in 1 .. Len(p) : p[i] = q[i]
<1>1. Len(p) \in Nat /\ Len(q) \in Nat
  OBVIOUS
<1>2. ASSUME Len(p) <= Len(q)
      PROVE  SubSeq(p, 1, Len(p)) = SubSeq(q, 1, Len(p))
                <=> \A i \in 1 .. Len(p) : p[i] = q[i]
  BY <1>1, <1>2
<1>3. (Len(p) = Len(q) /\ \A i \in 1 .. Len(p) : p[i] = q[i]) => p = q
  OBVIOUS
<1>4. QED
  BY <1>1, <1>2, <1>3 DEF IsStrictPrefix, IsPrefix

\* The first place where two paths differ, in the order of the names.
Splits(p, q, i) ==
    /\ i \in 1 .. Len(p) /\ i \in 1 .. Len(q)
    /\ NameBefore(p[i], q[i])
    /\ \A j \in 1 .. i - 1 : p[j] = q[j]

\* Before, with the index at which the paths part.
LEMMA BeforeIs ==
    ASSUME NEW p \in Seq(Names), NEW q \in Seq(Names)
    PROVE  Before(p, q) <=> IsStrictPrefix(p, q) \/ \E i \in Nat : Splits(p, q, i)
<1>1. DOMAIN p = 1 .. Len(p) /\ DOMAIN q = 1 .. Len(q) /\ Len(p) \in Nat
  OBVIOUS
<1>2. \A i : i \in 1 .. Len(p) => i \in Nat
  BY <1>1
<1>3. Before(p, q) <=> \/ IsStrictPrefix(p, q)
                       \/ \E i : Splits(p, q, i)
  BY <1>1, Zenon DEF Before, Splits
<1>4. (\E i : Splits(p, q, i)) <=> \E i \in Nat : Splits(p, q, i)
  BY <1>2 DEF Splits
<1>5. QED
  BY <1>3, <1>4

\* Two paths of which neither is above the other part at some index.
LEMMA FirstDifference ==
    ASSUME NEW p \in Seq(Names), NEW q \in Seq(Names), p # q,
           ~ IsStrictPrefix(p, q), ~ IsStrictPrefix(q, p)
    PROVE  \E i \in Nat : Splits(p, q, i) \/ Splits(q, p, i)
<1> DEFINE D == {i \in Nat : i \in 1 .. Len(p) /\ i \in 1 .. Len(q) /\ p[i] # q[i]}
<1>1. D \in SUBSET Nat
  OBVIOUS
<1>2. D # {}
  <2>1. Len(p) \in Nat /\ Len(q) \in Nat
    OBVIOUS
  <2>2. CASE Len(p) < Len(q)
    <3>1. \E i \in 1 .. Len(p) : p[i] # q[i]
      BY <2>2, PrefixIs
    <3>2. QED
      BY <2>1, <2>2, <3>1
  <2>3. CASE Len(q) < Len(p)
    <3>1. \E i \in 1 .. Len(q) : p[i] # q[i]
      BY <2>3, PrefixIs
    <3>2. QED
      BY <2>1, <2>3, <3>1
  <2>4. CASE Len(q) = Len(p)
    <3>1. \E i \in 1 .. Len(p) : p[i] # q[i]
      BY <2>4
    <3>2. QED
      BY <2>1, <2>4, <3>1
  <2>5. QED
    BY <2>1, <2>2, <2>3, <2>4
<1>3. PICK i \in D : \A j \in D : i <= j
  <2> HIDE DEF D
  <2>1. QED
    BY <1>1, <1>2, LeastNatural
<1>4. \A j \in 1 .. i - 1 : p[j] = q[j]
  BY <1>3
<1>5. p[i] \in Names /\ q[i] \in Names /\ p[i] # q[i]
  OBVIOUS
<1>6. NameBefore(p[i], q[i]) \/ NameBefore(q[i], p[i])
  BY <1>5, NamesInOrder
<1>7. QED
  BY <1>4, <1>6 DEF Splits

\* Paths that part are not above each other.
LEMMA SplitsApart ==
    ASSUME NEW p \in Seq(Names), NEW q \in Seq(Names), NEW i \in Nat, Splits(p, q, i)
    PROVE  ~ IsStrictPrefix(p, q) /\ ~ IsStrictPrefix(q, p) /\ p # q
<1>1. i \in 1 .. Len(p) /\ i \in 1 .. Len(q) /\ p[i] \in Names /\ q[i] \in Names
  BY DEF Splits
<1>2. p[i] # q[i]
  BY <1>1, NamesInOrder DEF Splits
<1>3. QED
  BY <1>1, <1>2, PrefixIs

\* Before is a strict order on paths.
LEMMA BeforeTotal ==
    ASSUME NEW p \in Seq(Names), NEW q \in Seq(Names)
    PROVE  /\ p # q => Before(p, q) \/ Before(q, p)
           /\ Before(p, q) => p # q /\ ~ Before(q, p)
<1>1. p # q => Before(p, q) \/ Before(q, p)
  BY BeforeIs, FirstDifference
<1>2. ASSUME Before(p, q) PROVE p # q /\ ~ Before(q, p)
  <2>1. CASE IsStrictPrefix(p, q)
    <3>1. Len(p) < Len(q) /\ Len(p) \in Nat /\ Len(q) \in Nat
      BY <2>1, PrefixIs
    <3>2. p # q /\ ~ IsStrictPrefix(q, p)
      BY <3>1, PrefixIs
    <3>3. \A i \in Nat : ~ Splits(q, p, i)
      BY <2>1, SplitsApart
    <3>4. QED
      BY <3>2, <3>3, BeforeIs
  <2>2. ASSUME NEW i \in Nat, Splits(p, q, i) PROVE p # q /\ ~ Before(q, p)
    <3>1. p # q /\ ~ IsStrictPrefix(q, p)
      BY <2>2, SplitsApart
    <3>2. ASSUME NEW j \in Nat, Splits(q, p, j) PROVE FALSE
      <4>1. /\ i \in 1 .. Len(p) /\ i \in 1 .. Len(q) /\ NameBefore(p[i], q[i])
            /\ \A k \in 1 .. i - 1 : p[k] = q[k]
            /\ j \in 1 .. Len(p) /\ j \in 1 .. Len(q) /\ NameBefore(q[j], p[j])
            /\ \A k \in 1 .. j - 1 : q[k] = p[k]
        BY <2>2, <3>2 DEF Splits
      <4>2. /\ p[i] \in Names /\ q[i] \in Names /\ p[i] # q[i]
            /\ p[j] \in Names /\ q[j] \in Names /\ p[j] # q[j]
        BY <4>1, NamesInOrder
      <4>3. i = j
        BY <4>1, <4>2
      <4>4. QED
        BY <4>1, <4>2, <4>3, NamesInOrder
    <3>3. QED
      BY <3>1, <3>2, BeforeIs
  <2>3. QED
    BY <1>2, <2>1, <2>2, BeforeIs
<1>3. QED
  BY <1>1, <1>2

\* The order of the FST is transitive.
LEMMA BeforeTransitive ==
    ASSUME NEW p \in Seq(Names), NEW q \in Seq(Names), NEW r \in Seq(Names),
           Before(p, q), Before(q, r)
    PROVE  Before(p, r)
<1>0. Len(p) \in Nat /\ Len(q) \in Nat /\ Len(r) \in Nat
  OBVIOUS
<1>1. CASE IsStrictPrefix(p, q) /\ IsStrictPrefix(q, r)
  <2>1. Len(p) < Len(r) /\ \A i \in 1 .. Len(p) : p[i] = r[i]
    BY <1>0, <1>1, PrefixIs
  <2>2. QED
    BY <2>1, PrefixIs, BeforeIs
<1>2. ASSUME IsStrictPrefix(p, q), NEW i \in Nat, Splits(q, r, i) PROVE Before(p, r)
  <2>1. Len(p) < Len(q) /\ \A k \in 1 .. Len(p) : p[k] = q[k]
    BY <1>2, PrefixIs
  <2>2. /\ i \in 1 .. Len(q) /\ i \in 1 .. Len(r) /\ NameBefore(q[i], r[i])
        /\ \A k \in 1 .. i - 1 : q[k] = r[k]
    BY <1>2 DEF Splits
  <2>3. CASE i <= Len(p)
    <3>1. Splits(p, r, i)
      BY <1>0, <2>1, <2>2, <2>3 DEF Splits
    <3>2. QED
      BY <3>1, BeforeIs
  <2>4. CASE Len(p) < i
    <3>1. Len(p) < Len(r) /\ \A k \in 1 .. Len(p) : p[k] = r[k]
      BY <1>0, <2>1, <2>2, <2>4
    <3>2. QED
      BY <3>1, PrefixIs, BeforeIs
  <2>5. QED
    BY <1>0, <2>2, <2>3, <2>4
<1>3. ASSUME NEW i \in Nat, Splits(p, q, i), IsStrictPrefix(q, r) PROVE Before(p, r)
  <2>1. Splits(p, r, i)
    BY <1>0, <1>3, PrefixIs DEF Splits
  <2>2. QED
    BY <2>1, BeforeIs
<1>4. ASSUME NEW i \in Nat, NEW j \in Nat, Splits(p, q, i), Splits(q, r, j) PROVE Before(p, r)
  <2>1. /\ i \in 1 .. Len(p) /\ i \in 1 .. Len(q) /\ NameBefore(p[i], q[i])
        /\ \A k \in 1 .. i - 1 : p[k] = q[k]
        /\ j \in 1 .. Len(q) /\ j \in 1 .. Len(r) /\ NameBefore(q[j], r[j])
        /\ \A k \in 1 .. j - 1 : q[k] = r[k]
    BY <1>4 DEF Splits
  <2>2. CASE i < j
    <3>1. Splits(p, r, i)
      BY <1>0, <2>1, <2>2 DEF Splits
    <3>2. QED
      BY <3>1, BeforeIs
  <2>3. CASE j < i
    <3>1. Splits(p, r, j)
      BY <1>0, <2>1, <2>3 DEF Splits
    <3>2. QED
      BY <3>1, BeforeIs
  <2>4. CASE i = j
    <3>1. p[i] \in Names /\ q[i] \in Names /\ r[i] \in Names
      BY <2>1, <2>4
    <3>2. NameBefore(p[i], r[i])
      BY <2>1, <2>4, <3>1, NamesInOrder
    <3>3. Splits(p, r, i)
      BY <1>0, <2>1, <2>4, <3>2 DEF Splits
    <3>4. QED
      BY <3>3, BeforeIs
  <2>5. QED
    BY <2>2, <2>3, <2>4
<1>5. QED
  BY <1>1, <1>2, <1>3, <1>4, BeforeIs

\* What lies in a directory is contiguous in the order.
LEMMA Contiguous ==
    ASSUME NEW p \in Seq(Names), NEW q \in Seq(Names), NEW r \in Seq(Names),
           Before(p, q), Before(q, r), IsStrictPrefix(p, r)
    PROVE  IsStrictPrefix(p, q)
<1>1. SUFFICES ASSUME NEW i \in Nat, Splits(p, q, i) PROVE FALSE
  BY BeforeIs
<1>2. ~ Before(r, q)
  BY BeforeTotal
<1>3. /\ i \in 1 .. Len(p) /\ i \in 1 .. Len(q) /\ NameBefore(p[i], q[i])
      /\ \A k \in 1 .. i - 1 : p[k] = q[k]
  BY <1>1 DEF Splits
<1>4. Len(p) < Len(r) /\ \A k \in 1 .. Len(p) : p[k] = r[k]
  BY PrefixIs
<1>5. Len(p) \in Nat /\ Len(r) \in Nat
  OBVIOUS
<1>6. Splits(r, q, i)
  BY <1>3, <1>4, <1>5 DEF Splits
<1>7. QED
  BY <1>2, <1>6, BeforeIs

\* below[x] is what comes before x, in a total order of S; s is S in this order.
Orders(below, S) ==
    /\ below \in [S -> SUBSET S]
    /\ \A x \in S : x \notin below[x]
    /\ \A x, y \in S : x # y => x \in below[y] \/ y \in below[x]
    /\ \A x, y \in S : x \in below[y] => below[x] \subseteq below[y]

Ranked(s, n, below, S) ==
    s \in [1 .. n -> S] /\ \A i \in 1 .. n : Cardinality(below[s[i]]) = i - 1

\* A sequence that gives each element the place of its rank is in order.
LEMMA Arranged ==
    ASSUME NEW S, IsFiniteSet(S), NEW below, Orders(below, S),
           NEW n \in Nat, n = Cardinality(S), NEW s, Ranked(s, n, below, S)
    PROVE  /\ \A i, j \in 1 .. n : i < j <=> s[i] \in below[s[j]]
           /\ \A x \in S : \E i \in 1 .. n : s[i] = x
<1> USE DEF Orders, Ranked
<1>1. n \in Nat
  OBVIOUS
<1>2. \A x, y \in S : x # y => \/ x \in below[y] /\ below[x] \subseteq below[y]
                               \/ y \in below[x] /\ below[y] \subseteq below[x]
  OBVIOUS
<1>3. /\ \A x \in S : Cardinality(below[x]) \in 0 .. n - 1
      /\ \A x, y \in S : x \in below[y] => Cardinality(below[x]) < Cardinality(below[y])
  BY <1>2, Ranks
<1>4. \A i \in 1 .. n : s[i] \in S /\ Cardinality(below[s[i]]) = i - 1
  OBVIOUS
<1>6. ASSUME NEW x \in S, NEW y \in S, Cardinality(below[x]) = Cardinality(below[y]) PROVE x = y
  <2>1. x \notin below[y] /\ y \notin below[x]
    <3> DEFINE c == Cardinality(below[x])
               e == Cardinality(below[y])
    <3>1. /\ c \in Int /\ c = e
          /\ x \in below[y] => c < e
          /\ y \in below[x] => e < c
      BY <1>3, <1>6
    <3> HIDE DEF c, e
    <3>2. QED
      BY <3>1
  <2>2. QED
    BY <2>1
<1>7. ASSUME NEW x \in S PROVE \E i \in 1 .. n : s[i] = x
  <2> DEFINE c == Cardinality(below[x])
             i == c + 1
  <2>1. c \in 0 .. n - 1
    BY <1>3
  <2>2. i \in 1 .. n /\ i - 1 = c
    <3> HIDE DEF c
    <3>1. QED
      BY <1>1, <2>1
  <2>3. s[i] \in S /\ Cardinality(below[s[i]]) = Cardinality(below[x])
    BY <1>4, <2>2
  <2> HIDE DEF i
  <2>4. QED
    BY <1>6, <2>2, <2>3
<1>8. ASSUME NEW i \in 1 .. n, NEW j \in 1 .. n PROVE i < j <=> s[i] \in below[s[j]]
  <2> DEFINE c == Cardinality(below[s[i]])
             e == Cardinality(below[s[j]])
  <2>1. s[i] \in S /\ s[j] \in S /\ c = i - 1 /\ e = j - 1
    BY <1>4
  <2>2. (s[i] \in below[s[j]] => c < e) /\ (s[j] \in below[s[i]] => e < c)
    BY <1>3, <2>1
  <2> HIDE DEF c, e
  <2>3. s[i] \in below[s[j]] => i < j
    BY <1>1, <2>1, <2>2
  <2>4. s[j] \in below[s[i]] => j < i
    BY <1>1, <2>1, <2>2
  <2>5. ASSUME i < j PROVE s[i] \in below[s[j]]
    <3>1. s[i] # s[j]
      BY <1>1, <2>1, <2>5 DEF c, e
    <3>2. QED
      BY <1>1, <2>1, <2>4, <2>5, <3>1
  <2>6. QED
    BY <2>3, <2>5
<1>9. QED
  BY <1>7, <1>8

\* Paths in the order of the FST, each once.
LEMMA SortedIs ==
    ASSUME NEW S \in SUBSET Seq(Names), IsFiniteSet(S)
    PROVE  LET s == Sorted(S, Before)
               n == Len(s)
           IN /\ n \in Nat /\ s \in Seq(S) /\ DOMAIN s = 1 .. n
              /\ \A i \in 1 .. n : s[i] \in S
              /\ \A i, j \in 1 .. n : i < j <=> Before(s[i], s[j])
              /\ \A p \in S : \E i \in 1 .. n : s[i] = p
<1> DEFINE below == [x \in S |-> {y \in S : Before(y, x)}]
           m == Cardinality(S)
           s == Sorted(S, Before)
<1>1. \A x, y \in S : x \in below[y] <=> Before(x, y)
  OBVIOUS
<1>2. /\ s = [i \in 1 .. m |-> s[i]]
      /\ \A i \in 1 .. m : (\E x \in S : Cardinality(below[x]) = i - 1)
                              => s[i] \in S /\ Cardinality(below[s[i]]) = i - 1
  <2> DEFINE h(i) == CHOOSE x \in S : Cardinality({y \in S : Before(y, x)}) = i - 1
  <2>1. s = [i \in 1 .. m |-> h(i)]
    BY DEF Sorted
  <2>2. \A x \in S : below[x] = {y \in S : Before(y, x)}
    OBVIOUS
  <2>3. ASSUME NEW i, \E x \in S : Cardinality(below[x]) = i - 1
        PROVE  h(i) \in S /\ Cardinality(below[h(i)]) = i - 1
    <3>1. \E x \in S : Cardinality({y \in S : Before(y, x)}) = i - 1
      BY <2>2, <2>3
    <3>2. h(i) \in S /\ Cardinality({y \in S : Before(y, h(i))}) = i - 1
      BY <3>1
    <3> HIDE DEF h
    <3>3. QED
      BY <2>2, <3>2
  <2> HIDE DEF h, below, s
  <2>4. QED
    BY <2>1, <2>3
<1>3. below \in [S -> SUBSET S]
  OBVIOUS
<1> HIDE DEF below, s
<1>4. /\ \A x \in S : x \notin below[x]
      /\ \A x, y \in S : x # y => x \in below[y] \/ y \in below[x]
  <2>1. \A x, y \in S : /\ x # y => Before(x, y) \/ Before(y, x)
                        /\ Before(x, y) => x # y
    BY BeforeTotal
  <2>2. QED
    BY <1>1, <2>1
<1>5. ASSUME NEW x \in S, NEW y \in S, x \in below[y] PROVE below[x] \subseteq below[y]
  <2>1. ASSUME NEW z \in below[x] PROVE z \in below[y]
    <3>1. z \in S /\ Before(z, x) /\ Before(x, y)
      BY <1>1, <1>3, <1>5
    <3>2. Before(z, y)
      BY <3>1, BeforeTransitive
    <3>3. QED
      BY <1>1, <3>1, <3>2
  <2>2. QED
    BY <2>1
<1> HIDE DEF m
<1>6. m \in Nat /\ m = Cardinality(S)
  BY FS_CardinalityType DEF m
<1>a. \A i \in 1 .. m : \E x \in S : Cardinality(below[x]) = i - 1
  <2>1. \A x, y \in S : x # y => \/ x \in below[y] /\ below[x] \subseteq below[y]
                                 \/ y \in below[x] /\ below[y] \subseteq below[x]
    BY <1>4, <1>5
  <2>2. QED
    BY <1>3, <1>4, <1>6, <2>1, Ranks
<1>b. s \in [1 .. m -> S] /\ \A i \in 1 .. m : Cardinality(below[s[i]]) = i - 1
  BY <1>2, <1>a
<1>c. /\ \A i, j \in 1 .. m : i < j <=> s[i] \in below[s[j]]
      /\ \A x \in S : \E i \in 1 .. m : s[i] = x
  <2>1. \A x, y \in S : x \in below[y] => below[x] \subseteq below[y]
    BY <1>5
  <2>2. QED
    <3>1. Orders(below, S)
      BY <1>3, <1>4, <2>1 DEF Orders
    <3>2. Ranked(s, m, below, S)
      BY <1>b DEF Ranked
    <3>3. QED
      BY <1>6, <3>1, <3>2, Arranged
<1>7. s \in Seq(S) /\ Len(s) = m /\ DOMAIN s = 1 .. m
  BY <1>6, <1>b
<1>8. \A i, j \in 1 .. m : i < j <=> Before(s[i], s[j])
  BY <1>1, <1>b, <1>c
<1>9. \A i \in 1 .. m : s[i] \in S
  BY <1>b
<1>10. QED
  BY <1>6, <1>7, <1>8, <1>9, <1>c DEF s

-----------------------------------------------------------------------------
(***************************************************************************)
(* A staged title: its files, its directories and their order.             *)
(***************************************************************************)
\* What the staging guarantees of a title.
LEMMA TreeIs ==
    ASSUME tree \in Trees
    PROVE  /\ IsFiniteSet(Files) /\ IsFiniteSet(tree.dirs)
           /\ tree.dirs \cap Files = {}
           /\ \A p \in Files \cup tree.dirs :
                /\ p \in Seq(Names) /\ Len(p) \in Nat /\ Len(p) > 0
                /\ p[1] \in {"code", "content", "meta"}
                /\ Len(p) > 1 => Front(p) \in tree.dirs
           /\ \A p \in Files : Len(p) > 1 /\ tree.sizes[p] \in Nat
           /\ \A p \in tree.dirs : Last(p) \notin HifNames
<1>1. \A p \in Files \cup tree.dirs : IsPath(p) /\ (Len(p) > 1 => Front(p) \in tree.dirs)
  BY TreesAssumption DEF TreesAssumption, Files
<1>2. \A p \in Files \cup tree.dirs :
        p \in Seq(Names) /\ Len(p) \in Nat /\ Len(p) > 0 /\ p[1] \in {"code", "content", "meta"}
  BY <1>1 DEF IsPath, Names
<1>3. QED
  BY <1>1, <1>2, TreesAssumption DEF TreesAssumption, Files

\* The first names of a path.
LEMMA FirstPart ==
    ASSUME NEW T, NEW p \in Seq(T), NEW k \in 0 .. Len(p)
    PROVE  /\ SubSeq(p, 1, k) \in Seq(T) /\ Len(SubSeq(p, 1, k)) = k
           /\ \A i \in 1 .. k : SubSeq(p, 1, k)[i] = p[i]
<1> DEFINE m == 1
<1>1. m \in Int /\ k \in Int /\ \A i \in m .. k : p[i] \in T
  OBVIOUS
<1>2. k - m + 1 = k /\ (k < m => k = 0) /\ \A i \in 1 .. k : m + i - 1 = i
  OBVIOUS
<1> HIDE DEF m
<1>3. /\ SubSeq(p, m, k) \in Seq(T)
      /\ Len(SubSeq(p, m, k)) = IF m <= k THEN k - m + 1 ELSE 0
      /\ \A i \in 1 .. k - m + 1 : SubSeq(p, m, k)[i] = p[m + i - 1]
  BY <1>1, SubSeqProperties
<1>4. QED
  BY <1>1, <1>2, <1>3 DEF m

\* What is above a path.
LEMMA FrontIs ==
    ASSUME NEW p \in Seq(Names), p # <<>>
    PROVE  /\ Front(p) \in Seq(Names) /\ Len(Front(p)) = Len(p) - 1 /\ Last(p) \in Names
           /\ \A i \in 1 .. Len(p) - 1 : Front(p)[i] = p[i]
           /\ IsStrictPrefix(Front(p), p)
           /\ p = Append(Front(p), Last(p))
<1>0. Len(p) \in Nat /\ Len(p) > 0
  OBVIOUS
<1>1. /\ Front(p) \in Seq(Names) /\ Len(Front(p)) = Len(p) - 1 /\ Last(p) \in Names
      /\ \A i \in 1 .. Len(p) - 1 : Front(p)[i] = p[i]
  <2>1. Len(p) - 1 \in 0 .. Len(p) /\ p[Len(p)] \in Names
    BY <1>0
  <2>2. QED
    BY <2>1, FirstPart DEF Front, Last
<1>2. IsStrictPrefix(Front(p), p)
  <2>1. Len(p) \in Nat /\ Len(p) - 1 < Len(p)
    OBVIOUS
  <2>2. QED
    BY <1>1, <2>1, PrefixIs
<1>3. p = Append(Front(p), Last(p))
  BY DEF Front, Last
<1>4. QED
  BY <1>1, <1>2, <1>3

\* The entries of the FST: a file of the title has one, and so has the directory it is in.
LEMMA InFstIs ==
    ASSUME tree \in Trees
    PROVE  /\ InFst \in SUBSET Seq(Names) /\ IsFiniteSet(InFst)
           /\ InFst \subseteq Files \cup tree.dirs /\ Files \subseteq InFst
           /\ \A p \in InFst : Len(p) > 1 => Front(p) \in InFst \ Files
<1> DEFINE all == Files \cup tree.dirs
<1>1. InFst = {p \in all : Len(p) > 1 \/ \E q \in all : IsStrictPrefix(p, q)}
  BY DEF InFst
<1>2. IsFiniteSet(all)
  BY TreeIs, FS_Union
<1>3. InFst \subseteq all
  BY <1>1
<1>4. InFst \in SUBSET Seq(Names) /\ IsFiniteSet(InFst)
  BY <1>2, <1>3, TreeIs, FS_Subset
<1>5. Files \subseteq InFst
  BY <1>1, TreeIs
<1>6. ASSUME NEW p \in InFst, Len(p) > 1 PROVE Front(p) \in InFst \ Files
  <2>1. p \in all /\ p \in Seq(Names) /\ p # <<>> /\ Front(p) \in tree.dirs
    BY <1>3, <1>6, TreeIs
  <2>2. IsStrictPrefix(Front(p), p)
    BY <2>1, FrontIs
  <2>3. Front(p) \notin Files
    BY <2>1, TreeIs
  <2>4. QED
    BY <1>1, <2>1, <2>2, <2>3
<1> HIDE DEF all
<1>7. QED
  BY <1>3, <1>4, <1>5, <1>6 DEF all

\* The FST lists each entry once, in order.
LEMMA OrderIs ==
    ASSUME tree \in Trees
    PROVE  /\ Len(Order) \in Nat /\ Order \in Seq(InFst) /\ DOMAIN Order = 1 .. Len(Order)
           /\ \A i \in 1 .. Len(Order) : Order[i] \in InFst /\ Order[i] \in Seq(Names)
           /\ \A i, j \in 1 .. Len(Order) : i < j <=> Before(Order[i], Order[j])
           /\ \A p \in InFst : \E i \in 1 .. Len(Order) : Order[i] = p
<1>1. InFst \in SUBSET Seq(Names) /\ IsFiniteSet(InFst)
  BY InFstIs
<1>2. QED
  BY <1>1, SortedIs DEF Order

\* An entry is listed once.
LEMMA OrderOnce ==
    ASSUME tree \in Trees, NEW i \in 1 .. Len(Order), NEW j \in 1 .. Len(Order),
           Order[i] = Order[j]
    PROVE  i = j
<1>1. Order[i] \in Seq(Names)
  BY OrderIs
<1>2. ~ Before(Order[i], Order[j]) /\ ~ Before(Order[j], Order[i])
  BY <1>1, BeforeTotal
<1>3. ~ (i < j) /\ ~ (j < i)
  BY <1>2, OrderIs
<1>4. Len(Order) \in Nat
  BY OrderIs
<1>5. QED
  BY <1>3, <1>4

\* The game files are those under content/, in the order of the FST.
LEMMA GameFilesAre ==
    ASSUME tree \in Trees
    PROVE  /\ Len(GameFiles) \in Nat /\ DOMAIN GameFiles = 1 .. Len(GameFiles)
           /\ \A a \in 1 .. Len(GameFiles) :
                /\ GameFiles[a] \in Files /\ GameFiles[a][1] = "content"
                /\ GameFiles[a] \in Seq(Names)
           /\ \A a, b \in 1 .. Len(GameFiles) : a < b <=> Before(GameFiles[a], GameFiles[b])
           /\ \A p \in Files : p[1] = "content" => \E a \in 1 .. Len(GameFiles) : GameFiles[a] = p
<1>1. Under("content") \in SUBSET Seq(Names) /\ IsFiniteSet(Under("content"))
  <2>1. Under("content") \in SUBSET Files
    BY DEF Under
  <2>2. QED
    BY <2>1, TreeIs, FS_Subset
<1>2. /\ Len(GameFiles) \in Nat /\ DOMAIN GameFiles = 1 .. Len(GameFiles)
      /\ \A a \in 1 .. Len(GameFiles) : GameFiles[a] \in Under("content")
      /\ \A a, b \in 1 .. Len(GameFiles) : a < b <=> Before(GameFiles[a], GameFiles[b])
      /\ \A p \in Under("content") : \E a \in 1 .. Len(GameFiles) : GameFiles[a] = p
  BY <1>1, SortedIs DEF GameFiles
<1>3. QED
  BY <1>2, TreeIs DEF Under

\* The room of a file holds it.
LEMMA PlacedIs ==
    ASSUME tree \in Trees, NEW p \in Files
    PROVE  Placed(p) \in Nat /\ tree.sizes[p] <= Placed(p)
<1>1. tree.sizes[p] \in Nat
  BY TreeIs
<1>2. QED
  BY <1>1, Aligned, PlanAssumption DEF Placed, PlanAssumption

\* The room up to a game file.
LEMMA RoomIs ==
    ASSUME tree \in Trees
    PROVE  /\ Room[0] = 0 /\ \A k \in 0 .. Len(GameFiles) : Room[k] \in Nat
           /\ \A k \in 1 .. Len(GameFiles) : Room[k] = Room[k - 1] + Placed(GameFiles[k])
           /\ \A j, k \in 0 .. Len(GameFiles) : j <= k => Room[j] <= Room[k]
<1> DEFINE n == Len(GameFiles)
           d(k) == Placed(GameFiles[k])
           Sums(f, m) == f = [k \in 0 .. m |-> IF k = 0 THEN 0 ELSE f[k - 1] + d(k)]
<1>0. n \in Nat
  BY GameFilesAre
<1>1. \A k \in 1 .. n : d(k) \in Nat
  BY GameFilesAre, PlacedIs
<1>2. Room = CHOOSE f : Sums(f, n)
  BY DEF Room
<1> HIDE DEF n, d
<1>3. \E f : Sums(f, n)
  <2> DEFINE T == {m \in Nat : \E f : Sums(f, m)}
  <2>0. T \in SUBSET Nat
    OBVIOUS
  <2>1. 0 \in T
    <3> DEFINE f == [k \in 0 .. 0 |-> 0]
    <3>1. f = [k \in 0 .. 0 |-> IF k = 0 THEN 0 ELSE f[k - 1] + d(k)]
      OBVIOUS
    <3> HIDE DEF f
    <3>2. QED
      BY <3>1
  <2>2. ASSUME NEW m \in T PROVE m + 1 \in T
    <3>1. PICK f : Sums(f, m)
      OBVIOUS
    <3> DEFINE g == [k \in 0 .. m + 1 |-> IF k = 0 THEN 0 ELSE f[k - 1] + d(k)]
    <3>2. \A k \in 0 .. m : g[k] = f[k]
      BY <3>1
    <3>3. ASSUME NEW k \in 0 .. m + 1, k # 0 PROVE g[k - 1] = f[k - 1]
      <4>1. k - 1 \in 0 .. m
        BY <3>3
      <4> HIDE DEF g
      <4>2. QED
        BY <3>2, <4>1
    <3>4. Sums(g, m + 1)
      <4> DEFINE h == [k \in 0 .. m + 1 |-> IF k = 0 THEN 0 ELSE g[k - 1] + d(k)]
      <4>1. g = [k \in 0 .. m + 1 |-> g[k]]
        OBVIOUS
      <4>2. \A k \in 0 .. m + 1 : g[k] = h[k]
        BY <3>3
      <4> HIDE DEF g
      <4>3. QED
        BY <4>1, <4>2
    <3> HIDE DEF g
    <3>5. \E z : Sums(z, m + 1)
      BY <3>4
    <3> HIDE DEF Sums
    <3>6. QED
      BY <3>5
  <2> HIDE DEF T
  <2>3. n \in T
    BY <1>0, <2>0, <2>1, <2>2, Induction
  <2>4. QED
    BY <2>3 DEF T
<1>4. Sums(Room, n)
  BY <1>2, <1>3
<1>5. Room[0] = 0 /\ \A k \in 1 .. n : Room[k] = Room[k - 1] + d(k)
  <2>1. Room[0] = 0
    BY <1>0, <1>4
  <2>2. ASSUME NEW k \in 1 .. n PROVE Room[k] = Room[k - 1] + d(k)
    BY <1>0, <1>4
  <2>3. QED
    BY <2>1, <2>2
<1>6. \A m \in Nat : m <= n =>
        Room[m] \in Nat /\ \A j \in 0 .. m : Room[j] \in Nat /\ Room[j] <= Room[m]
  <2> DEFINE T == {m \in Nat : m <= n =>
                 Room[m] \in Nat /\ \A j \in 0 .. m : Room[j] \in Nat /\ Room[j] <= Room[m]}
  <2>0. T \in SUBSET Nat
    OBVIOUS
  <2>1. 0 \in T
    BY <1>5
  <2>2. ASSUME NEW m \in T PROVE m + 1 \in T
    <3>1. SUFFICES ASSUME m + 1 <= n
                   PROVE  /\ Room[m + 1] \in Nat
                          /\ \A j \in 0 .. m + 1 : Room[j] \in Nat /\ Room[j] <= Room[m + 1]
      OBVIOUS
    <3>2. Room[m] \in Nat /\ \A j \in 0 .. m : Room[j] \in Nat /\ Room[j] <= Room[m]
      BY <1>0, <3>1
    <3>3. m + 1 \in 1 .. n /\ (m + 1) - 1 = m
      BY <1>0, <3>1
    <3>4. Room[m + 1] = Room[m] + d(m + 1) /\ d(m + 1) \in Nat
      BY <1>1, <1>5, <3>3
    <3>5. Room[m + 1] \in Nat /\ Room[m] <= Room[m + 1]
      BY <3>2, <3>4
    <3>6. QED
      BY <3>2, <3>5
  <2> HIDE DEF T
  <2>3. \A m \in Nat : m \in T
    BY <2>0, <2>1, <2>2, Induction
  <2>4. QED
    BY <2>3 DEF T
<1>7. QED
  BY <1>0, <1>5, <1>6 DEF n, d

-----------------------------------------------------------------------------
(***************************************************************************)
(* What a step leaves as it is.                                            *)
(***************************************************************************)
\* What depends on the staged title only.
LEMMA TreeStays ==
    ASSUME tree' = tree
    PROVE  /\ Files' = Files /\ InFst' = InFst /\ Order' = Order /\ GameFiles' = GameFiles
           /\ Room' = Room /\ Root' = Root
           /\ \A j : DirNode(j)' = DirNode(j)
           /\ \A p : Bytes(p)' = Bytes(p)
<1>1. Files' = Files
  BY DEF Files
<1>2. InFst' = InFst
  BY <1>1 DEF InFst
<1>3. Order' = Order
  BY SMT DEF Order, InFst, Files, Sorted
<1>4. GameFiles' = GameFiles
  BY SMT DEF GameFiles, Under, Files, Sorted
<1>5. Room' = Room
  BY SMT, <1>4 DEF Room, Placed
<1>6. Root' = Root
  BY <1>3 DEF Root
<1>7. \A j : DirNode(j)' = DirNode(j)
  BY <1>3 DEF DirNode
<1>8. \A p : Bytes(p)' = Bytes(p)
  BY DEF Bytes
<1>9. QED
  BY <1>1, <1>2, <1>3, <1>4, <1>5, <1>6, <1>7, <1>8

\* The grouping depends on which contents are the game's, not on what is in them.
LEMMA GroupedStays ==
    ASSUME NEW k, Grouped(k), tree' = tree, clusterOf' = clusterOf,
           Len(contents') = Len(contents), DOMAIN contents' = DOMAIN contents,
           \A i \in DOMAIN contents : contents'[i].game = contents[i].game
    PROVE  Grouped(k)'
<1>1. GameFiles' = GameFiles /\ Room' = Room
  BY TreeStays
<1>2. \A a : G(a)' = G(a)
  BY <1>1 DEF G
<1>3. \A a, b : Span(a, b)' = Span(a, b)
  BY <1>1 DEF Span
<1>4. Starts(k)' = Starts(k)
  BY <1>2 DEF Starts
<1>5. QED
  BY <1>1, <1>2, <1>3, <1>4 DEF Grouped

\* The files keep their contents.
LEMMA CompleteStays ==
    ASSUME Complete, tree' = tree, clusterOf' = clusterOf,
           Len(contents') = Len(contents), DOMAIN contents' = DOMAIN contents,
           \A i \in DOMAIN contents : contents'[i].game = contents[i].game
    PROVE  Complete'
<1>1. GameFiles' = GameFiles /\ Files' = Files
  BY TreeStays
<1>2. Grouped(Len(GameFiles))'
  <2> DEFINE n == Len(GameFiles)
  <2>1. Grouped(n)
    BY DEF Complete
  <2>2. n' = n
    BY <1>1
  <2> HIDE DEF n
  <2>3. QED
    BY <2>1, <2>2, GroupedStays DEF n
<1>3. QED
  BY <1>1, <1>2 DEF Complete

\* The nodes and the places of the files stay.
LEMMA FlattenedStays ==
    ASSUME NEW n, Flattened(n), tree' = tree, nodes' = nodes, clusterOf' = clusterOf,
           contents' = contents
    PROVE  Flattened(n)'
<1>1. /\ GameFiles' = GameFiles /\ Room' = Room /\ Files' = Files /\ Order' = Order
      /\ Root' = Root /\ \A j : DirNode(j)' = DirNode(j)
  BY TreeStays
<1>2. \A j : Described(j)' = Described(j)
  BY <1>1 DEF Described
<1>3. \A a : G(a)' = G(a)
  BY <1>1 DEF G
<1>4. \A a, b : Span(a, b)' = Span(a, b)
  BY <1>1 DEF Span
<1>5. \A i : WithinSpan(i, n)' = WithinSpan(i, n)
  BY <1>1, <1>3, <1>4 DEF WithinSpan
<1>6. \A i : StartsWithFirst(i)' = StartsWithFirst(i)
  BY <1>1, <1>3 DEF StartsWithFirst
<1>7. \A i : Sound(contents[i])' = Sound(contents[i])
  BY DEF Sound
<1>8. QED
  BY <1>1, <1>2, <1>5, <1>6, <1>7 DEF Flattened

\* So does a complete FST,
LEMMA LaidStays ==
    ASSUME Laid, tree' = tree, nodes' = nodes, clusterOf' = clusterOf, contents' = contents
    PROVE  Laid'
<1>1. Complete'
  BY CompleteStays DEF Laid
<1>2. Order' = Order
  BY TreeStays
<1>3. Flattened(Len(Order))'
  <2> DEFINE n == Len(Order)
  <2>1. n' = n
    BY <1>2
  <2>2. Flattened(n)
    BY DEF Laid
  <2> HIDE DEF n
  <2>3. QED
    BY <2>1, <2>2, FlattenedStays DEF n
<1>4. QED
  BY <1>1, <1>3 DEF Laid, SerializedLen

\* and the layout.
LEMMA LayoutStays ==
    ASSUME Layout, tree' = tree, UNCHANGED plan
    PROVE  Layout'
<1>1. Laid'
  BY LaidStays DEF Layout, plan
<1>2. Slots(Len(contents))'
  BY DEF Layout, plan, Slots
<1>3. QED
  BY <1>1, <1>2 DEF Layout

\* The types of what a step leaves alone.
LEMMA ShapeStays ==
    ASSUME Shape, tree' = tree, UNCHANGED <<contents, clusterOf>>,
           pos' \in Nat \ {0}, pc' \in {"alloc", "game", "refused"} \cup Flat
    PROVE  Shape'
<1>1. Files' = Files
  BY TreeStays
<1>2. Contents' = Contents
  BY <1>1 DEF Contents, PlacedFiles
<1>3. QED
  BY <1>1, <1>2 DEF Shape

\* Whether a file fits depends on its size and on the place it was given.
LEMMA FitsStays ==
    ASSUME tree' = tree, UNCHANGED <<contents, clusterOf>>
    PROVE  \A p : FitsFields(p)' = FitsFields(p)
BY TreeStays DEF FitsFields, Under

\* What is extracted stays what was packed,
LEMMA IntactStays ==
    ASSUME Intact, tree' = tree, UNCHANGED <<decoded, damaged, out>>,
           Untouched \/ UNCHANGED <<contents, clusterOf>>
    PROVE  Intact'
<1>1. Files' = Files /\ \A p : Bytes(p)' = Bytes(p)
  BY TreeStays
<1>2. CASE Untouched
  <2>1. DOMAIN out.files = {}
    BY <1>2 DEF Untouched, Extracted
  <2>2. QED
    BY <1>1, <2>1 DEF Intact
<1>3. CASE UNCHANGED <<contents, clusterOf>>
  <2>1. \A p : FitsFields(p)' = FitsFields(p)
    BY <1>1, <1>3, FitsStays
  <2>2. QED
    BY <1>1, <2>1 DEF Intact
<1>4. QED
  BY <1>2, <1>3

\* as much of it as there was,
LEMMA ExtractedStays ==
    ASSUME NEW n, Extracted(n), tree' = tree, UNCHANGED <<skip, out>>
    PROVE  Extracted(n)'
<1>1. Files' = Files /\ InFst' = InFst /\ Order' = Order
  BY TreeStays
<1>2. \A p : Wanted(p)' = Wanted(p)
  BY DEF Wanted
<1>3. QED
  BY <1>1, <1>2 DEF Extracted

\* or nothing.
LEMMA UntouchedStays ==
    ASSUME Untouched, tree' = tree, UNCHANGED <<skip, out, decoded>>
    PROVE  Untouched'
  BY ExtractedStays DEF Untouched

\* The paths stay.
LEMMA PathedStays ==
    ASSUME NEW n, Pathed(n), tree' = tree, paths' = paths
    PROVE  Pathed(n)'
<1>1. Order' = Order
  BY TreeStays
<1>2. QED
  BY <1>1 DEF Pathed

\* Before a file is placed the contents are empty; the next stages of the planning.
LEMMA PlanningStays ==
    ASSUME tree' = tree, UNCHANGED <<contents, clusterOf, group>>
    PROVE  Unplaced' = Unplaced /\ \A k : Filling(k)' = Filling(k)
<1>1. GameFiles' = GameFiles /\ Room' = Room
  BY TreeStays
<1>2. \A a : G(a)' = G(a)
  BY <1>1 DEF G
<1>3. \A a, b : Span(a, b)' = Span(a, b)
  BY <1>1 DEF Span
<1>4. \A k : Starts(k)' = Starts(k)
  BY <1>2 DEF Starts
<1>5. \A k : Filling(k)' = Filling(k)
  BY <1>2, <1>3, <1>4 DEF Filling
<1>6. QED
  BY <1>5 DEF Unplaced

-----------------------------------------------------------------------------
(***************************************************************************)
(* Allocation of the contents that are not the game's.                     *)
(***************************************************************************)
\* The rest of code/ is not under content/.
LEMMA RestOfCodeIs ==
    ASSUME tree \in Trees
    PROVE  /\ Len(RestOfCode) \in Nat /\ DOMAIN RestOfCode = 1 .. Len(RestOfCode)
           /\ \A i \in 1 .. Len(RestOfCode) : RestOfCode[i][1] = "code"
<1> DEFINE S == Directly("code") \ CodeSingles
           below == [x \in S |-> {y \in S : ExecFirst(y, x)}]
           m == Cardinality(S)
           s == RestOfCode
<1>1. /\ IsFiniteSet(S)
      /\ \A p \in S : p \in Seq(Names) /\ Len(p) = 2 /\ p[1] = "code"
  <2>1. S \in SUBSET Files /\ \A p \in S : Len(p) = 2 /\ p[1] = "code"
    BY DEF Directly, Under
  <2>2. IsFiniteSet(S)
    BY <2>1, TreeIs, FS_Subset
  <2>3. \A p \in Files : p \in Seq(Names)
    BY TreeIs
  <2>4. QED
    BY <2>1, <2>2, <2>3
<1>2. \A p, q \in S : /\ Rank(p[2]) \in Nat /\ Rank(q[2]) \in Nat
                      /\ p # q => Rank(p[2]) # Rank(q[2])
  <2>1. ASSUME NEW p \in S, NEW q \in S
        PROVE  /\ Rank(p[2]) \in Nat /\ Rank(q[2]) \in Nat
               /\ p # q => Rank(p[2]) # Rank(q[2])
    <3>1. p \in Seq(Names) /\ q \in Seq(Names) /\ Len(p) = 2 /\ Len(q) = 2 /\ p[1] = q[1]
      BY <1>1
    <3>2. p[2] \in Names /\ q[2] \in Names
      BY <3>1
    <3>4. ASSUME p[2] = q[2] PROVE p = q
      <4>1. \A i \in 1 .. 2 : p[i] = q[i]
        <5>1. \A i \in 1 .. 2 : i = 1 \/ i = 2
          OBVIOUS
        <5>2. QED
          BY <3>1, <3>4, <5>1
      <4>2. QED
        BY <3>1, <4>1
    <3>3. QED
      BY <3>2, <3>4, RankIs
  <2>2. QED
    BY <2>1
<1>3. /\ below \in [S -> SUBSET S]
      /\ \A x, y \in S : x \in below[y] <=> ExecFirst(x, y)
  OBVIOUS
<1>4. /\ \A i \in 1 .. m : (\E x \in S : Cardinality(below[x]) = i - 1) => s[i] \in S
      /\ DOMAIN s = 1 .. m /\ s = [i \in 1 .. m |-> s[i]]
  <2> DEFINE h(i) == CHOOSE x \in S : Cardinality({y \in S : ExecFirst(y, x)}) = i - 1
  <2>1. s = [i \in 1 .. m |-> h(i)]
    BY DEF RestOfCode, Sorted
  <2>2. \A x \in S : below[x] = {y \in S : ExecFirst(y, x)}
    OBVIOUS
  <2>3. ASSUME NEW i, \E x \in S : Cardinality(below[x]) = i - 1
        PROVE  h(i) \in S
    <3>1. \E x \in S : Cardinality({y \in S : ExecFirst(y, x)}) = i - 1
      BY <2>2, <2>3
    <3>2. QED
      BY <3>1
  <2> HIDE DEF h, below, s
  <2>4. QED
    BY <2>1, <2>3
<1> HIDE DEF below, s, S
<1>6. /\ \A x \in S : x \notin below[x]
      /\ \A x, y \in S : x # y => \/ x \in below[y] /\ below[x] \subseteq below[y]
                                  \/ y \in below[x] /\ below[y] \subseteq below[x]
  <2>1. \A x, y, z \in S :
          /\ ~ ExecFirst(x, x)
          /\ x # y => ExecFirst(x, y) \/ ExecFirst(y, x)
          /\ ExecFirst(x, y) /\ ExecFirst(y, z) => ExecFirst(x, z)
    BY <1>2 DEF ExecFirst
  <2>2. \A x \in S : x \notin below[x]
    BY <1>3, <2>1
  <2>3. ASSUME NEW x \in S, NEW y \in S, x # y
        PROVE  \/ x \in below[y] /\ below[x] \subseteq below[y]
               \/ y \in below[x] /\ below[y] \subseteq below[x]
    <3>1. \A z \in below[x] : z \in S /\ ExecFirst(z, x)
      BY <1>3
    <3>2. \A z \in below[y] : z \in S /\ ExecFirst(z, y)
      BY <1>3
    <3>3. CASE ExecFirst(x, y)
      BY <1>3, <2>1, <3>1, <3>3
    <3>4. CASE ExecFirst(y, x)
      BY <1>3, <2>1, <3>2, <3>4
    <3>5. QED
      BY <2>1, <2>3, <3>3, <3>4
  <2>4. QED
    BY <2>2, <2>3
<1>7. \A i \in 1 .. m : \E x \in S : Cardinality(below[x]) = i - 1
  BY <1>1, <1>3, <1>6, Ranks
<1>8. m \in Nat
  BY <1>1, FS_CardinalityType
<1> HIDE DEF m
<1>9. \A i \in 1 .. m : s[i] \in S
  BY <1>4, <1>7
<1>10. s \in [1 .. m -> S]
  BY <1>4, <1>9
<1>11. Len(s) = m
  BY <1>8, <1>10
<1>12. QED
  BY <1>1, <1>4, <1>8, <1>9, <1>11 DEF s

\* The groups have no file under content/.
LEMMA GroupsAre ==
    ASSUME tree \in Trees
    PROVE  /\ Len(Groups) \in Nat
           /\ \A i \in 1 .. Len(Groups) :
                /\ Groups[i].hashed \in BOOLEAN
                /\ \A p \in Groups[i].files : p[1] # "content"
<1> DEFINE Good == [files : SUBSET {p \in UNION {BootBundle, Leftover, {CodeFile("app.xml"),
                       CodeFile("cos.xml"), MetaFile("meta.xml"), MetaFile("bootMovie.h264"),
                       MetaFile("bootLogoTex.tga")}, {RestOfCode[i] : i \in DOMAIN RestOfCode}} :
                       p[1] # "content"}, hashed : BOOLEAN]
           named == << [files |-> {CodeFile("app.xml")}, hashed |-> FALSE],
                       [files |-> {CodeFile("cos.xml")}, hashed |-> FALSE],
                       [files |-> {MetaFile("meta.xml")}, hashed |-> TRUE],
                       [files |-> BootBundle, hashed |-> TRUE],
                       [files |-> {MetaFile("bootMovie.h264")}, hashed |-> TRUE],
                       [files |-> {MetaFile("bootLogoTex.tga")}, hashed |-> TRUE],
                       [files |-> Leftover, hashed |-> TRUE] >>
           rest == [i \in DOMAIN RestOfCode |-> [files |-> {RestOfCode[i]}, hashed |-> FALSE]]
<1>1. /\ \A n : CodeFile(n)[1] # "content" /\ MetaFile(n)[1] # "content"
      /\ \A p \in BootBundle : p[1] # "content"
      /\ \A p \in Leftover : p[1] # "content"
  <2>1. \A n : CodeFile(n)[1] # "content" /\ MetaFile(n)[1] # "content"
    BY DEF CodeFile, MetaFile
  <2>2. \A p \in BootBundle : p[1] # "content"
    BY <2>1 DEF BootBundle
  <2>3. \A p \in Leftover : p[1] # "content"
    BY DEF Leftover, Directly, Under
  <2>4. QED
    BY <2>1, <2>2, <2>3
<1>2. /\ \A i \in DOMAIN RestOfCode : RestOfCode[i][1] # "content"
      /\ DOMAIN RestOfCode = 1 .. Len(RestOfCode) /\ Len(RestOfCode) \in Nat
  BY RestOfCodeIs
<1>3. named \in Seq(Good)
  <2>1. [files |-> {CodeFile("app.xml")}, hashed |-> FALSE] \in Good
    BY <1>1
  <2>2. [files |-> {CodeFile("cos.xml")}, hashed |-> FALSE] \in Good
    BY <1>1
  <2>3. [files |-> {MetaFile("meta.xml")}, hashed |-> TRUE] \in Good
    BY <1>1
  <2>4. [files |-> BootBundle, hashed |-> TRUE] \in Good
    BY <1>1
  <2>5. [files |-> {MetaFile("bootMovie.h264")}, hashed |-> TRUE] \in Good
    BY <1>1
  <2>6. [files |-> {MetaFile("bootLogoTex.tga")}, hashed |-> TRUE] \in Good
    BY <1>1
  <2>7. [files |-> Leftover, hashed |-> TRUE] \in Good
    BY <1>1
  <2> HIDE DEF Good
  <2>8. QED
    BY <2>1, <2>2, <2>3, <2>4, <2>5, <2>6, <2>7
<1>4. rest \in Seq(Good)
  <2>1. \A i \in DOMAIN RestOfCode : [files |-> {RestOfCode[i]}, hashed |-> FALSE] \in Good
    BY <1>2
  <2> HIDE DEF Good
  <2>2. QED
    BY <1>2, <2>1
<1>5. \A g \in Good : g.hashed \in BOOLEAN /\ \A p \in g.files : p[1] # "content"
  OBVIOUS
<1>6. Groups = named \o rest
  BY DEF Groups
<1> HIDE DEF Good, named, rest
<1>7. Groups \in Seq(Good)
  BY <1>3, <1>4, <1>6
<1>8. QED
  BY <1>5, <1>7

\* The invariant holds before the first content is allocated.
LEMMA InitHolds == Init => IInv
<1>1. SUFFICES ASSUME Init PROVE IInv
  OBVIOUS
<1>2. /\ tree \in Trees /\ pc = "alloc" /\ pos = 1
      /\ contents = <<NewContent(FALSE, FALSE)>> /\ clusterOf = <<>>
      /\ group = [current |-> 0, size |-> 0] /\ table = <<>> /\ cursor = 0
      /\ decoded = {} /\ out = [dirs |-> {}, files |-> <<>>]
  BY <1>1 DEF Init
<1>3. DOMAIN clusterOf = {} /\ DOMAIN out.files = {}
  BY <1>2
<1>4. /\ Len(contents) = 1 /\ DOMAIN contents = {1} /\ contents[1] \in Contents
      /\ contents[1].files = <<>> /\ contents[1].len = 0 /\ contents[1].game = FALSE
  BY <1>2 DEF NewContent, Contents
<1>5. contents \in Seq(Contents)
  <2> DEFINE c == contents[1]
  <2>1. contents = <<c>> /\ c \in Contents
    BY <1>2, <1>4
  <2> HIDE DEF c
  <2>2. \A d \in Contents : <<d>> \in Seq(Contents)
    OBVIOUS
  <2>3. QED
    BY <2>1, <2>2
<1>6. Shape
  <2>1. \A p : p \notin DOMAIN clusterOf
    BY <1>3
  <2>2. DOMAIN clusterOf \subseteq Files
    BY <1>3
  <2>3. tree \in Trees /\ pc = "alloc" /\ pos \in Nat \ {0} /\ Len(contents) > 0
    BY <1>2, <1>4
  <2>4. QED
    BY <1>5, <2>1, <2>2, <2>3 DEF Shape
<1>7. Intact
  BY <1>2, <1>3 DEF Intact
<1>8. Fresh /\ Unplaced
  BY <1>2, <1>4 DEF Fresh, Unplaced
<1>9. Untouched
  BY <1>2, <1>3 DEF Untouched, Extracted
<1>10. Grouped(0) /\ Filling(0)
  <2>1. 1 .. 0 = {} /\ Starts(0) = {} /\ ~ (0 > 0)
    BY DEF Starts
  <2>2. Grouped(0)
    BY <1>4, <2>1 DEF Grouped
  <2>3. Filling(0)
    BY <1>2 DEF Filling
  <2>4. QED
    BY <2>2, <2>3
<1>11. QED
  BY <1>2, <1>6, <1>7, <1>8, <1>9, <1>10 DEF IInv, Stage

\* A group of files gets one content, none of them a game file.
LEMMA AllocGroupStep == IInv /\ AllocGroup => IInv'
<1>1. SUFFICES ASSUME IInv, AllocGroup PROVE IInv'
  OBVIOUS
<1>2. /\ Shape /\ Intact /\ Fresh /\ Untouched /\ Unplaced /\ Grouped(0) /\ Filling(0)
  BY <1>1 DEF IInv, Stage, AllocGroup
<1>3. /\ pc = "alloc" /\ pos' = pos + 1 /\ pos \in 1 .. Len(Groups)
      /\ tree' = tree /\ pc' = pc /\ group' = group /\ cursor' = cursor /\ table' = table
      /\ UNCHANGED <<damaged, skip, stack, paths, decoded, out>>
  BY <1>1, <1>2 DEF AllocGroup, extraction, Shape
<1>4. tree \in Trees /\ pos' \in Nat \ {0} /\ Fresh'
  BY <1>2, <1>3 DEF Shape, Fresh
<1>5. Intact' /\ Untouched'
  BY <1>2, <1>3, IntactStays, UntouchedStays
<1>6. CASE UNCHANGED <<contents, clusterOf>>
  <2>1. Shape'
    BY <1>2, <1>3, <1>4, <1>6, ShapeStays
  <2>2. Unplaced' /\ Filling(0)'
    BY <1>2, <1>3, <1>6, PlanningStays
  <2>3. Grouped(0)'
    BY <1>2, <1>3, <1>6, GroupedStays
  <2>4. QED
    BY <1>3, <1>4, <1>5, <2>1, <2>2, <2>3 DEF IInv, Stage
<1> DEFINE files == Groups[pos].files \cap Files
           new == NewContent(Groups[pos].hashed, FALSE)
<1>7. CASE /\ contents' = Append(contents, new)
           /\ clusterOf' = Extended(clusterOf, files, Len(contents))
  <2>1. /\ Groups[pos].hashed \in BOOLEAN /\ \A p \in files : p[1] # "content" /\ p \in Files
    BY <1>3, <1>4, GroupsAre
  <2>2. new \in Contents /\ new.game = FALSE /\ new.files = <<>> /\ new.len = 0
    BY <2>1 DEF NewContent, Contents
  <2>3. contents \in Seq(Contents) /\ Len(contents) \in Nat /\ Len(contents) > 0
    BY <1>2 DEF Shape
  <2> HIDE DEF files, new
  <2>4. /\ contents' \in Seq(Contents) /\ Len(contents') = Len(contents) + 1
        /\ DOMAIN contents' = 1 .. Len(contents) + 1
        /\ \A i \in 1 .. Len(contents) : contents'[i] = contents[i]
        /\ contents'[Len(contents) + 1] = new
    BY <1>7, <2>2, <2>3
  <2>5. /\ DOMAIN clusterOf' = DOMAIN clusterOf \cup files
        /\ \A p \in files : clusterOf'[p] = Len(contents)
        /\ \A p \in DOMAIN clusterOf \ files : clusterOf'[p] = clusterOf[p]
    BY <1>7 DEF Extended
  <2>6. Files' = Files /\ Contents' = Contents
    BY <1>3, TreeStays DEF Contents, PlacedFiles
  <2>7. ASSUME NEW p \in DOMAIN clusterOf'
        PROVE  /\ p \in Files /\ clusterOf'[p] \in 1 .. Len(contents') - 1
               /\ contents'[clusterOf'[p] + 1].game <=> p[1] = "content"
    <3>1. CASE p \in files
      BY <2>1, <2>2, <2>3, <2>4, <2>5, <3>1
    <3>2. CASE p \in DOMAIN clusterOf \ files
      <4>1. /\ p \in Files /\ clusterOf[p] \in 1 .. Len(contents) - 1
            /\ contents[clusterOf[p] + 1].game <=> p[1] = "content"
        BY <1>2, <3>2 DEF Shape
      <4>2. contents'[clusterOf[p] + 1] = contents[clusterOf[p] + 1]
        BY <2>3, <2>4, <4>1
      <4>3. QED
        BY <2>3, <2>4, <2>5, <3>2, <4>1, <4>2
    <3>3. QED
      BY <2>5, <3>1, <3>2
  <2>8. Shape'
    BY <1>3, <1>4, <2>3, <2>4, <2>6, <2>7 DEF Shape
  <2>9. Unplaced'
    BY <1>2, <2>2, <2>3, <2>4 DEF Unplaced
  <2>10. Grouped(0)'
    <3>1. \A i \in DOMAIN contents' : contents'[i].game = FALSE
      BY <1>2, <2>2, <2>3, <2>4 DEF Grouped
    <3>2. QED
      BY <3>1 DEF Grouped, Starts
  <2>11. Filling(0)'
    BY <1>2, <1>3 DEF Filling
  <2>12. QED
    BY <1>3, <1>4, <1>5, <2>8, <2>9, <2>10, <2>11 DEF IInv, Stage
<1>8. QED
  BY <1>1, <1>6, <1>7 DEF AllocGroup

\* The game files come next, with no game content yet.
LEMMA AllocDoneStep == IInv /\ AllocDone => IInv'
<1>1. SUFFICES ASSUME IInv, AllocDone PROVE IInv'
  OBVIOUS
<1>2. /\ Shape /\ Intact /\ Fresh /\ Untouched /\ Unplaced /\ Grouped(0) /\ Filling(0)
  BY <1>1 DEF IInv, Stage, AllocDone
<1>3. /\ pc' = "game" /\ pos' = 1 /\ tree' = tree
      /\ UNCHANGED <<contents, clusterOf, group, nodes, cursor, table>>
      /\ UNCHANGED <<damaged, skip, stack, paths, decoded, out>>
  BY <1>1 DEF AllocDone, plan, extraction
<1>4. Shape' /\ Intact' /\ Untouched' /\ Fresh'
  BY <1>2, <1>3, ShapeStays, IntactStays, UntouchedStays DEF Fresh
<1>5. Unplaced' /\ Filling(0)' /\ Grouped(0)'
  BY <1>2, <1>3, PlanningStays, GroupedStays
<1>6. Len(GameFiles') \in Nat /\ tree' \in Trees
  <2>1. GameFiles' = GameFiles
    BY <1>3, TreeStays
  <2>2. QED
    BY <1>2, <1>3, <2>1, GameFilesAre DEF Shape
<1>7. pos' <= Len(GameFiles') + 1 /\ pos' - 1 = 0
  BY <1>3, <1>6
<1>8. Grouped(pos - 1)' /\ Filling(pos - 1)'
  BY <1>5, <1>7
<1>9. QED
  BY <1>3, <1>4, <1>5, <1>7, <1>8 DEF IInv, Stage

-----------------------------------------------------------------------------
(***************************************************************************)
(* The grouping of the game files.                                         *)
(***************************************************************************)
\* A sequence and one element more.
LEMMA Appended ==
    ASSUME NEW T, NEW s \in Seq(T), NEW x \in T
    PROVE  /\ Append(s, x) \in Seq(T) /\ Len(Append(s, x)) = Len(s) + 1
           /\ DOMAIN Append(s, x) = 1 .. Len(s) + 1
           /\ \A i \in 1 .. Len(s) : Append(s, x)[i] = s[i]
           /\ Append(s, x)[Len(s) + 1] = x
  OBVIOUS

\* Where the grouped game files are, and the room they take.
LEMMA GroupedIs ==
    ASSUME Shape, NEW k \in 0 .. Len(GameFiles), Grouped(k)
    PROVE  /\ \A a \in 1 .. k : G(a) \in 1 .. Len(contents) - 1
           /\ \A a \in Starts(k), b \in 1 .. k : G(a) = G(b) => a <= b
           /\ \A a, b \in 1 .. Len(GameFiles) : Span(a, b) \in Int
           /\ \A b \in 1 .. Len(GameFiles) : Span(b, b) = Placed(GameFiles[b])
           /\ \A a \in 1 .. Len(GameFiles), b \in 1 .. Len(GameFiles) - 1 :
                Span(a, b + 1) = Span(a, b) + Placed(GameFiles[b + 1])
           /\ \A a, b, c \in 1 .. Len(GameFiles) : a <= b => Span(b, c) <= Span(a, c)
<1>0. tree \in Trees /\ Len(GameFiles) \in Nat /\ Len(contents) \in Nat
  BY GameFilesAre DEF Shape
<1>1. \A a \in 1 .. k : G(a) \in 1 .. Len(contents) - 1
  BY DEF Shape, Grouped, G
<1>2. ASSUME NEW a \in Starts(k), NEW b \in 1 .. k, G(a) = G(b) PROVE a <= b
  <2>1. a \in 1 .. k /\ (a = 1 \/ G(a - 1) # G(a))
    BY DEF Starts
  <2>2. \A c, d \in 1 .. k : c <= d => G(c) <= G(d)
    BY DEF Grouped
  <2>3. ASSUME b < a PROVE FALSE
    <3>1. a - 1 \in 1 .. k /\ b <= a - 1 /\ a - 1 <= a /\ b \in Int
      BY <1>0, <2>1, <2>3
    <3>2. G(b) <= G(a - 1) /\ G(a - 1) <= G(a)
      BY <2>1, <2>2, <3>1
    <3>3. G(b) \in Int /\ G(a - 1) \in Int /\ G(a) \in Int
      BY <1>0, <1>1, <2>1, <3>1
    <3>4. QED
      BY <1>2, <2>1, <3>1, <3>2, <3>3
  <2>4. QED
    BY <1>0, <2>1, <2>3
<1>3. /\ \A j \in 0 .. Len(GameFiles) : Room[j] \in Nat
      /\ \A j \in 1 .. Len(GameFiles) : Room[j] = Room[j - 1] + Placed(GameFiles[j])
      /\ \A i, j \in 0 .. Len(GameFiles) : i <= j => Room[i] <= Room[j]
      /\ \A j \in 1 .. Len(GameFiles) : Placed(GameFiles[j]) \in Nat
  BY <1>0, RoomIs, GameFilesAre, PlacedIs
<1>4. \A a, b \in 1 .. Len(GameFiles) : Room[a - 1] \in Nat /\ Room[b] \in Nat
  BY <1>0, <1>3
<1>5. \A a, b \in 1 .. Len(GameFiles) : Span(a, b) \in Int
  BY <1>4 DEF Span
<1>6. \A b \in 1 .. Len(GameFiles) : Span(b, b) = Placed(GameFiles[b])
  BY <1>3, <1>4 DEF Span
<1>7. ASSUME NEW a \in 1 .. Len(GameFiles), NEW b \in 1 .. Len(GameFiles) - 1
      PROVE  Span(a, b + 1) = Span(a, b) + Placed(GameFiles[b + 1])
  <2>1. b + 1 \in 1 .. Len(GameFiles) /\ (b + 1) - 1 = b /\ b \in 1 .. Len(GameFiles)
    BY <1>0
  <2>2. /\ Room[b + 1] = Room[b] + Placed(GameFiles[b + 1])
        /\ Placed(GameFiles[b + 1]) \in Nat /\ Room[b] \in Nat /\ Room[a - 1] \in Nat
    BY <1>3, <1>4, <2>1
  <2>3. QED
    BY <2>2 DEF Span
<1>8. ASSUME NEW a \in 1 .. Len(GameFiles), NEW b \in 1 .. Len(GameFiles),
             NEW c \in 1 .. Len(GameFiles), a <= b
      PROVE  Span(b, c) <= Span(a, c)
  <2>1. a - 1 \in 0 .. Len(GameFiles) /\ b - 1 \in 0 .. Len(GameFiles) /\ a - 1 <= b - 1
    BY <1>0, <1>8
  <2>2. Room[a - 1] <= Room[b - 1]
    BY <1>3, <2>1
  <2>3. QED
    BY <1>4, <2>2 DEF Span
<1>9. QED
  BY <1>1, <1>2, <1>5, <1>6, <1>7, <1>8

\* What the allocation of one more game file leaves of the grouping of those before it.
LEMMA AllocGameKeeps ==
    ASSUME Shape, NEW k \in 0 .. Len(GameFiles) - 1, Grouped(k), tree' = tree, NEW i,
           clusterOf' = Extended(clusterOf, {GameFiles[k + 1]}, i)
    PROVE  /\ G(k + 1)' = i /\ \A a \in 1 .. k : G(a)' = G(a)
           /\ GameFiles' = GameFiles /\ \A a, b : Span(a, b)' = Span(a, b)
           /\ \A a \in 1 .. k + 1 : GameFiles[a] \in DOMAIN clusterOf'
           /\ DOMAIN clusterOf' = DOMAIN clusterOf \cup {GameFiles[k + 1]}
           /\ \A p \in DOMAIN clusterOf \ {GameFiles[k + 1]} : clusterOf'[p] = clusterOf[p]
<1>0. tree \in Trees /\ Len(GameFiles) \in Nat
  BY GameFilesAre DEF Shape
<1>1. GameFiles' = GameFiles /\ Room' = Room
  BY TreeStays
<1>2. \A a, b : Span(a, b)' = Span(a, b)
  BY <1>1 DEF Span
<1>3. /\ DOMAIN clusterOf' = DOMAIN clusterOf \cup {GameFiles[k + 1]}
      /\ clusterOf'[GameFiles[k + 1]] = i
      /\ \A p \in DOMAIN clusterOf \ {GameFiles[k + 1]} : clusterOf'[p] = clusterOf[p]
  BY DEF Extended
<1>4. ASSUME NEW a \in 1 .. k
      PROVE  G(a)' = G(a) /\ GameFiles[a] \in DOMAIN clusterOf
  <2>1. a \in 1 .. Len(GameFiles) /\ k + 1 \in 1 .. Len(GameFiles) /\ a < k + 1
    BY <1>0
  <2>2. /\ GameFiles[a] \in Seq(Names) /\ GameFiles[k + 1] \in Seq(Names)
        /\ Before(GameFiles[a], GameFiles[k + 1])
    BY <1>0, <2>1, GameFilesAre
  <2>3. GameFiles[a] # GameFiles[k + 1]
    BY <2>2, BeforeTotal
  <2>4. GameFiles[a] \in DOMAIN clusterOf
    BY DEF Grouped
  <2>5. QED
    BY <1>1, <1>3, <2>3, <2>4 DEF G
<1>5. G(k + 1)' = i
  BY <1>1, <1>3 DEF G
<1>6. \A a \in 1 .. k + 1 : a \in 1 .. k \/ a = k + 1
  BY <1>0
<1>7. QED
  BY <1>1, <1>2, <1>3, <1>4, <1>5, <1>6

\* A file that fits joins the content being filled, which stays within the cap.
LEMMA GameFileJoins ==
    ASSUME Shape, NEW k \in 0 .. Len(GameFiles) - 1, Grouped(k), Filling(k),
           tree' = tree, contents' = contents,
           Joins(GameFiles[k + 1]),
           group' = [group EXCEPT !.size = @ + Placed(GameFiles[k + 1])],
           clusterOf' = Extended(clusterOf, {GameFiles[k + 1]}, group'.current)
    PROVE  /\ k > 0 /\ group'.current = G(k)
           /\ Grouped(k + 1)' /\ Filling(k + 1)'
<1> DEFINE n == Len(GameFiles)
           room == Placed(GameFiles[k + 1])
<1>0. tree \in Trees /\ n \in Nat /\ k \in 0 .. n /\ k + 1 \in 1 .. n /\ Len(contents) \in Nat
  BY GameFilesAre DEF Shape
<1>1. k > 0
  BY DEF Joins, Filling
<1>2. PICK s \in Starts(k) : G(s) = G(k) /\ group = [current |-> G(k), size |-> Span(s, k)]
  BY <1>1 DEF Filling
<1>3. /\ s \in 1 .. k /\ k \in 1 .. k /\ s \in 1 .. n
      /\ k \in 1 .. n - 1 /\ k \in 1 .. n /\ 1 \in 1 .. k
  BY <1>0, <1>1 DEF Starts
<1>4. /\ group' = [current |-> G(k), size |-> Span(s, k) + room]
      /\ Span(s, k) + room <= Cap
  BY <1>2 DEF Joins
<1>5. /\ G(k + 1)' = G(k) /\ \A a \in 1 .. k : G(a)' = G(a)
      /\ GameFiles' = GameFiles /\ \A a, b : Span(a, b)' = Span(a, b)
      /\ \A a \in 1 .. k + 1 : GameFiles[a] \in DOMAIN clusterOf'
  <2> DEFINE i == group'.current
  <2>1. i = G(k)
    BY <1>4
  <2> HIDE DEF i
  <2>2. clusterOf' = Extended(clusterOf, {GameFiles[k + 1]}, i)
    BY DEF i
  <2>3. QED
    BY <2>1, <2>2, AllocGameKeeps
<1>6. /\ \A a \in 1 .. k : G(a) \in 1 .. Len(contents) - 1
      /\ \A a \in Starts(k), b \in 1 .. k : G(a) = G(b) => a <= b
      /\ \A a, b \in 1 .. n : Span(a, b) \in Int
      /\ Span(s, k + 1) = Span(s, k) + room
      /\ \A a, b, c \in 1 .. n : a <= b => Span(b, c) <= Span(a, c)
  BY <1>0, <1>3, GroupedIs
<1>7. \A a \in 1 .. k + 1 : a \in 1 .. k \/ a = k + 1
  BY <1>0
<1>8. Starts(k + 1)' = Starts(k)
  <2>1. ASSUME NEW a \in 1 .. k + 1
        PROVE  (a = 1 \/ G(a - 1)' # G(a)') <=> a \in Starts(k)
    <3>1. CASE a = 1
      BY <1>3, <3>1 DEF Starts
    <3>2. CASE a \in 1 .. k /\ a # 1
      <4>1. a - 1 \in 1 .. k
        BY <1>0, <3>2
      <4>2. QED
        BY <1>5, <3>2, <4>1 DEF Starts
    <3>3. CASE a = k + 1
      <4>1. a - 1 = k /\ a # 1 /\ a \notin 1 .. k
        BY <1>0, <1>1, <3>3
      <4>2. QED
        BY <1>3, <1>5, <3>3, <4>1 DEF Starts
    <3>4. QED
      BY <1>7, <3>1, <3>2, <3>3
  <2>2. Starts(k) \subseteq 1 .. k + 1
    BY <1>0 DEF Starts
  <2>3. QED
    BY <2>1, <2>2 DEF Starts
<1>9. ASSUME NEW a \in 1 .. k + 1, NEW b \in 1 .. k + 1, a <= b PROVE G(a)' <= G(b)'
  <2>1. \A c, d \in 1 .. k : c <= d => G(c) <= G(d)
    BY DEF Grouped
  <2>2. G(k) <= G(k)
    BY <1>3, <1>6
  <2>3. CASE b \in 1 .. k
    <3>1. a \in 1 .. k
      BY <1>0, <1>9, <2>3
    <3>2. QED
      BY <1>5, <1>9, <2>1, <2>3, <3>1
  <2>4. CASE b = k + 1
    <3>1. a \in 1 .. k => a <= k
      BY <1>0
    <3>2. QED
      BY <1>3, <1>5, <1>7, <2>1, <2>2, <2>4, <3>1
  <2>5. QED
    BY <1>7, <2>3, <2>4
<1>10. ASSUME NEW a \in 1 .. k + 1, NEW b \in 1 .. k + 1, a <= b, G(a)' = G(b)'
       PROVE  Span(a, b)' <= Cap
  <2>1. CASE b \in 1 .. k
    <3>1. a \in 1 .. k
      BY <1>0, <1>10, <2>1
    <3>2. QED
      BY <1>5, <1>10, <2>1, <3>1 DEF Grouped
  <2>2. CASE b = k + 1
    <3>1. s <= a /\ a \in 1 .. n
      <4>1. CASE a \in 1 .. k
        BY <1>0, <1>2, <1>5, <1>6, <1>10, <2>2, <4>1
      <4>2. CASE a = k + 1
        BY <1>0, <1>3, <4>2
      <4>3. QED
        BY <1>7, <4>1, <4>2
    <3>2. Span(a, k + 1) <= Span(s, k + 1)
      BY <1>0, <1>3, <1>6, <3>1
    <3>3. Span(s, k + 1) <= Cap
      BY <1>4, <1>6
    <3>4. Span(a, k + 1) \in Int /\ Span(s, k + 1) \in Int /\ Cap \in Int
      BY <1>0, <1>3, <1>6, <3>1, PlanAssumption DEF PlanAssumption
    <3>5. Span(a, k + 1) <= Cap
      BY <3>2, <3>3, <3>4
    <3>6. QED
      BY <1>5, <2>2, <3>5
  <2>3. QED
    BY <1>7, <2>1, <2>2
<1>11. /\ G(1)' = G(1) /\ k + 1 > 0
       /\ \A i \in DOMAIN contents : contents[i].game <=> i > G(1)
       /\ \A g \in G(1) .. G(k) : \E a \in Starts(k) : G(a) = g
       /\ \A a, b \in Starts(k) : G(b) = G(a) + 1 => Span(a, b) > Cap
       /\ G(k) = Len(contents) - 1
  BY <1>0, <1>1, <1>3, <1>5 DEF Grouped
<1>12. \A a \in Starts(k) : G(a)' = G(a)
  BY <1>5 DEF Starts
<1>13. Grouped(k + 1)'
  <2>1. \A g \in G(1)' .. G(k + 1)' : \E a \in Starts(k + 1)' : G(a)' = g
    BY <1>5, <1>8, <1>11, <1>12
  <2>2. \A a, b \in Starts(k + 1)' : G(b)' = G(a)' + 1 => Span(a, b)' > Cap
    BY <1>5, <1>8, <1>11, <1>12
  <2>3. /\ \A i \in DOMAIN contents' : contents'[i].game <=> k + 1 > 0 /\ i > G(1)'
        /\ k + 1 > 0 => G(k + 1)' = Len(contents') - 1
        /\ \A a \in 1 .. k + 1 : GameFiles'[a] \in DOMAIN clusterOf'
    BY <1>5, <1>11
  <2>4. QED
    BY <1>9, <1>10, <2>1, <2>2, <2>3 DEF Grouped
<1>14. Filling(k + 1)'
  <2>1. k + 1 # 0
    BY <1>0
  <2>2. /\ s \in Starts(k + 1)' /\ G(s)' = G(k + 1)'
        /\ group' = [current |-> G(k + 1)', size |-> Span(s, k + 1)']
    BY <1>2, <1>3, <1>4, <1>5, <1>6, <1>8
  <2>3. QED
    BY <2>1, <2>2 DEF Filling
<1>15. QED
  BY <1>1, <1>4, <1>13, <1>14

\* A file that does not fit begins a content, and would have been too much for the last one.
LEMMA GameFileBegins ==
    ASSUME Shape, NEW k \in 0 .. Len(GameFiles) - 1, Grouped(k), Filling(k),
           tree' = tree, contents' = Append(contents, NewContent(TRUE, TRUE)),
           ~ Joins(GameFiles[k + 1]), Placed(GameFiles[k + 1]) <= Cap,
           group' = [current |-> Len(contents), size |-> Placed(GameFiles[k + 1])],
           clusterOf' = Extended(clusterOf, {GameFiles[k + 1]}, Len(contents))
    PROVE  Grouped(k + 1)' /\ Filling(k + 1)'
<1> DEFINE n == Len(GameFiles)
           room == Placed(GameFiles[k + 1])
<1>a. PICK m : m = Len(contents)
  OBVIOUS
<1>0. /\ tree \in Trees /\ n \in Nat /\ k \in 0 .. n /\ k + 1 \in 1 .. n
      /\ m \in Nat /\ m > 0 /\ m = Len(contents) /\ DOMAIN contents = 1 .. m
  BY <1>a, GameFilesAre DEF Shape
<1>1. /\ Len(contents') = m + 1 /\ DOMAIN contents' = 1 .. m + 1
      /\ \A i \in 1 .. m : contents'[i] = contents[i]
      /\ contents'[m + 1].game = TRUE
  <2> DEFINE new == NewContent(TRUE, TRUE)
  <2>1. new.game = TRUE
    BY DEF NewContent
  <2>2. contents \in Seq(Contents) /\ contents' = Append(contents, new)
    BY DEF Shape
  <2>3. new \in Contents
    BY DEF NewContent, Contents
  <2> HIDE DEF new
  <2>4. /\ Len(contents') = m + 1 /\ DOMAIN contents' = 1 .. m + 1
        /\ \A i \in 1 .. m : contents'[i] = contents[i]
        /\ contents'[m + 1] = new
    BY ONLY <1>0, <2>2, <2>3, Appended
  <2>5. QED
    BY <2>1, <2>4
<1>2. /\ G(k + 1)' = m /\ \A a \in 1 .. k : G(a)' = G(a)
      /\ GameFiles' = GameFiles /\ \A a, b : Span(a, b)' = Span(a, b)
      /\ \A a \in 1 .. k + 1 : GameFiles[a] \in DOMAIN clusterOf'
  BY <1>0, AllocGameKeeps
<1>3. /\ \A a \in 1 .. k : G(a) \in 1 .. m - 1
      /\ \A a \in Starts(k), b \in 1 .. k : G(a) = G(b) => a <= b
      /\ Span(k + 1, k + 1) = room
      /\ room \in Nat
  <2>1. /\ \A a \in 1 .. k : G(a) \in 1 .. m - 1
        /\ \A a \in Starts(k), b \in 1 .. k : G(a) = G(b) => a <= b
        /\ Span(k + 1, k + 1) = room
    BY <1>0, GroupedIs
  <2>2. room \in Nat
    BY <1>0, GameFilesAre, PlacedIs
  <2>3. QED
    BY <2>1, <2>2
<1>4. \A a \in 1 .. k + 1 : a \in 1 .. k \/ a = k + 1
  BY <1>0
<1>5. \A a \in 1 .. k : G(a)' < G(k + 1)' /\ G(a)' \in Nat /\ G(k + 1)' \in Nat
  BY <1>0, <1>2, <1>3
<1>6. Starts(k + 1)' = Starts(k) \cup {k + 1}
  <2>1. ASSUME NEW a \in 1 .. k + 1
        PROVE  (a = 1 \/ G(a - 1)' # G(a)') <=> a \in Starts(k) \/ a = k + 1
    <3>1. CASE a \in 1 .. k
      <4>1. a # k + 1 /\ (a # 1 => a - 1 \in 1 .. k)
        BY <1>0, <3>1
      <4>2. QED
        BY <1>2, <3>1, <4>1 DEF Starts
    <3>2. CASE a = k + 1
      <4>1. a = 1 \/ a - 1 \in 1 .. k
        BY <1>0, <3>2
      <4>2. QED
        BY <1>5, <3>2, <4>1
    <3>3. QED
      BY <1>4, <3>1, <3>2
  <2>2. Starts(k) \cup {k + 1} \subseteq 1 .. k + 1
    BY <1>0 DEF Starts
  <2>3. QED
    BY <2>1, <2>2 DEF Starts
<1>7. ASSUME NEW a \in 1 .. k + 1, NEW b \in 1 .. k + 1, a <= b
      PROVE  G(a)' <= G(b)' /\ (G(a)' = G(b)' => Span(a, b)' <= Cap)
  <2>1. CASE b \in 1 .. k
    <3>1. a \in 1 .. k
      BY <1>0, <1>7, <2>1
    <3>2. QED
      BY <1>2, <1>7, <2>1, <3>1 DEF Grouped
  <2>2. CASE b = k + 1 /\ a \in 1 .. k
    BY <1>5, <2>2
  <2>3. CASE b = k + 1 /\ a = k + 1
    <3>1. G(k + 1)' \in Nat /\ Span(k + 1, k + 1)' <= Cap
      BY <1>0, <1>2, <1>3
    <3>2. QED
      BY <2>3, <3>1
  <2>4. QED
    BY <1>4, <2>1, <2>2, <2>3
<1>8. ASSUME NEW i \in DOMAIN contents' PROVE contents'[i].game <=> i > G(1)'
  <2>0. /\ i \in 1 .. m \/ i = m + 1
        /\ i \in 1 .. m => contents'[i].game = contents[i].game
        /\ i = m + 1 => contents'[i].game
    <3>1. i \in 1 .. m + 1
      BY <1>1
    <3>2. QED
      BY ONLY <1>0, <1>1, <3>1
  <2>1. CASE k = 0
    <3>1. \A j \in 1 .. m : ~ contents[j].game
      BY <1>0, <2>1 DEF Grouped
    <3>2. G(1)' = m
      BY <1>2, <2>1
    <3>3. QED
      BY ONLY <1>0, <2>0, <3>1, <3>2
  <2>2. CASE k > 0
    <3>1. G(1)' = G(1) /\ G(1) \in 1 .. m - 1
      BY <1>0, <1>2, <1>3, <2>2
    <3>2. \A j \in 1 .. m : contents[j].game <=> j > G(1)
      BY <1>0, <2>2 DEF Grouped
    <3>3. QED
      BY ONLY <1>0, <2>0, <3>1, <3>2
  <2>3. QED
    BY ONLY <1>0, <2>1, <2>2
<1>9. ASSUME NEW g \in G(1)' .. G(k + 1)' PROVE \E a \in Starts(k + 1)' : G(a)' = g
  <2>1. CASE g = m
    BY <1>2, <1>6, <2>1
  <2>2. CASE g # m
    <3>1. k > 0
      BY <1>0, <1>2, <2>2
    <3>2. G(1)' = G(1) /\ G(k) = m - 1 /\ G(1) \in 1 .. m - 1
      BY <1>0, <1>2, <1>3, <3>1 DEF Grouped
    <3>3. g \in G(1) .. G(k)
      BY <1>0, <1>2, <2>2, <3>2
    <3>4. PICK a \in Starts(k) : G(a) = g
      BY <3>1, <3>3 DEF Grouped
    <3>5. QED
      BY <1>2, <1>6, <3>4 DEF Starts
  <2>3. QED
    BY <2>1, <2>2
<1>10. ASSUME NEW a \in Starts(k + 1)', NEW b \in Starts(k + 1)', G(b)' = G(a)' + 1
       PROVE  Span(a, b)' > Cap
  <2>0. /\ a \in Starts(k) \/ a = k + 1
        /\ b \in Starts(k) \/ b = k + 1
        /\ Starts(k) \subseteq 1 .. k
    BY <1>6 DEF Starts
  <2>1. CASE a = k + 1
    BY <1>0, <1>2, <1>3, <1>10, <2>0, <2>1
  <2>2. CASE a \in Starts(k) /\ b \in Starts(k)
    BY <1>2, <1>10, <2>0, <2>2 DEF Grouped
  <2>3. CASE a \in Starts(k) /\ b = k + 1
    <3>1. a \in 1 .. k /\ k > 0 /\ k \in 1 .. k
      BY <1>0, <2>0, <2>3
    <3>2. G(a) = G(k) /\ G(k) # 0
      <4>1. G(k) = m - 1 /\ G(k) \in 1 .. m - 1
        BY <1>0, <1>3, <3>1 DEF Grouped
      <4>2. G(a) \in 1 .. m - 1 /\ m = G(a) + 1
        BY <1>2, <1>3, <1>10, <2>3, <3>1
      <4>3. QED
        BY <1>0, <4>1, <4>2
    <3>3. PICK s \in Starts(k) : G(s) = G(k) /\ group = [current |-> G(k), size |-> Span(s, k)]
      BY <3>1 DEF Filling
    <3>4. s \in 1 .. k /\ s <= a /\ a <= s
      BY <1>3, <2>3, <3>1, <3>2, <3>3 DEF Starts
    <3>5. s = a
      BY <1>0, <3>1, <3>4
    <3>6. ~ (Span(a, k) + room <= Cap)
      BY <3>2, <3>3, <3>5 DEF Joins
    <3>7. Span(a, k + 1) = Span(a, k) + room /\ Span(a, k) \in Int /\ Cap \in Int
      <4>1. a \in 1 .. n /\ k \in 1 .. n - 1 /\ k \in 1 .. n
        BY <1>0, <3>1
      <4>2. QED
        BY <1>0, <4>1, GroupedIs, PlanAssumption DEF PlanAssumption
    <3>8. Span(a, k + 1) > Cap
      BY <1>3, <3>6, <3>7
    <3>9. QED
      BY <1>2, <2>3, <3>8
  <2>4. QED
    BY <2>0, <2>1, <2>2, <2>3
<1>11. k + 1 > 0 /\ k + 1 # 0 /\ G(k + 1)' = Len(contents') - 1
  BY <1>0, <1>1, <1>2
<1>12. Grouped(k + 1)'
  BY <1>2, <1>7, <1>8, <1>9, <1>10, <1>11 DEF Grouped
<1>13. Filling(k + 1)'
  <2>1. k + 1 \in Starts(k + 1)' /\ group' = [current |-> G(k + 1)', size |-> Span(k + 1, k + 1)']
    BY <1>0, <1>2, <1>3, <1>6
  <2>2. QED
    BY <1>11, <2>1 DEF Filling
<1>14. QED
  BY <1>12, <1>13

\* So each game file keeps the invariant.
LEMMA AllocGameStep == IInv /\ AllocGame => IInv'
<1>1. SUFFICES ASSUME IInv, AllocGame PROVE IInv'
  OBVIOUS
<1>0. PICK k, p : k = pos - 1 /\ p = GameFiles[pos]
  OBVIOUS
<1>2. /\ Shape /\ Intact /\ Fresh /\ Untouched /\ Unplaced /\ Grouped(k) /\ Filling(k)
      /\ pos <= Len(GameFiles) /\ pc = "game"
  BY <1>0, <1>1 DEF IInv, Stage, AllocGame
<1>3. /\ tree \in Trees /\ Len(GameFiles) \in Nat /\ k \in 0 .. Len(GameFiles) - 1
      /\ k + 1 = pos /\ pos \in 1 .. Len(GameFiles) /\ p \in Files /\ p[1] = "content"
      /\ p = GameFiles[k + 1]
  <2>1. tree \in Trees /\ pos \in Nat \ {0}
    BY <1>2 DEF Shape
  <2>2. Len(GameFiles) \in Nat
    BY <2>1, GameFilesAre
  <2>3. pos \in 1 .. Len(GameFiles) /\ k \in 0 .. Len(GameFiles) - 1 /\ k + 1 = pos
    BY <1>0, <1>2, <2>1, <2>2
  <2>4. QED
    BY <1>0, <2>1, <2>2, <2>3, GameFilesAre
<1>4. /\ pos' = pos + 1 /\ pc' = "game" /\ tree' = tree /\ cursor' = cursor /\ table' = table
      /\ UNCHANGED <<damaged, skip, stack, paths, decoded, out>>
      /\ Placed(p) <= Cap
      /\ clusterOf' = Extended(clusterOf, {p}, group'.current)
  BY <1>0, <1>1, <1>2 DEF AllocGame, extraction
<1>5. Intact' /\ Untouched' /\ Fresh'
  BY <1>2, <1>4, IntactStays, UntouchedStays DEF Fresh
<1>6. Files' = Files /\ GameFiles' = GameFiles /\ Contents' = Contents
  BY <1>4, TreeStays DEF Contents, PlacedFiles
<1>7. DOMAIN clusterOf' = DOMAIN clusterOf \cup {p} /\ clusterOf'[p] = group'.current
      /\ \A q \in DOMAIN clusterOf \ {p} : clusterOf'[q] = clusterOf[q]
  BY <1>4 DEF Extended
<1>8. /\ contents \in Seq(Contents) /\ Len(contents) \in Nat /\ Len(contents) > 0
      /\ DOMAIN contents = 1 .. Len(contents)
      /\ \A q \in DOMAIN clusterOf :
           /\ q \in Files /\ clusterOf[q] \in 1 .. Len(contents) - 1
           /\ contents[clusterOf[q] + 1].game <=> q[1] = "content"
  BY <1>2 DEF Shape
<1>9. /\ Grouped(k + 1)' /\ Filling(k + 1)'
      /\ contents' \in Seq(Contents) /\ Len(contents') >= Len(contents)
      /\ \A i \in 1 .. Len(contents) : contents'[i] = contents[i]
      /\ group'.current \in 1 .. Len(contents') - 1 /\ contents'[group'.current + 1].game
      /\ \A i \in DOMAIN contents' : contents'[i].files = <<>> /\ contents'[i].len = 0
  <2>1. CASE /\ Joins(p) /\ contents' = contents
             /\ group' = [group EXCEPT !.size = @ + Placed(p)]
    <3>1. /\ k > 0 /\ group'.current = G(k) /\ Grouped(k + 1)' /\ Filling(k + 1)'
      BY <1>2, <1>3, <1>4, <2>1, GameFileJoins
    <3>2. k \in 1 .. k /\ k \in 1 .. Len(GameFiles)
      BY <1>3, <3>1
    <3>3. GameFiles[k] \in DOMAIN clusterOf /\ GameFiles[k][1] = "content"
      BY <1>2, <1>3, <3>2, GameFilesAre DEF Grouped
    <3>4. G(k) \in 1 .. Len(contents) - 1 /\ contents[G(k) + 1].game
      BY <1>8, <3>3 DEF G
    <3>5. QED
      BY <1>2, <1>8, <2>1, <3>1, <3>4 DEF Unplaced
  <2>2. CASE /\ ~ Joins(p) /\ contents' = Append(contents, NewContent(TRUE, TRUE))
             /\ group' = [current |-> Len(contents), size |-> Placed(p)]
    <3>1. clusterOf' = Extended(clusterOf, {p}, Len(contents))
      BY <1>4, <2>2
    <3>2. Grouped(k + 1)' /\ Filling(k + 1)'
      BY <1>2, <1>3, <1>4, <2>2, <3>1, GameFileBegins
    <3> DEFINE new == NewContent(TRUE, TRUE)
    <3>3. new \in Contents /\ new.game = TRUE /\ new.files = <<>> /\ new.len = 0
      BY DEF NewContent, Contents
    <3>4. contents' = Append(contents, new) /\ group'.current = Len(contents)
      BY <2>2
    <3> HIDE DEF new
    <3>5. /\ contents' \in Seq(Contents) /\ Len(contents') = Len(contents) + 1
          /\ DOMAIN contents' = 1 .. Len(contents) + 1
          /\ \A i \in 1 .. Len(contents) : contents'[i] = contents[i]
          /\ contents'[Len(contents) + 1] = new
      BY <1>8, <3>3, <3>4
    <3>6. QED
      BY <1>2, <1>8, <3>2, <3>3, <3>4, <3>5 DEF Unplaced
  <2>3. QED
    BY <1>0, <1>1, <2>1, <2>2 DEF AllocGame
<1>10. ASSUME NEW q \in DOMAIN clusterOf'
       PROVE  /\ q \in Files /\ clusterOf'[q] \in 1 .. Len(contents') - 1
              /\ contents'[clusterOf'[q] + 1].game <=> q[1] = "content"
  <2>1. CASE q = p
    BY <1>3, <1>7, <1>9, <2>1
  <2>2. CASE q \in DOMAIN clusterOf \ {p}
    <3>1. clusterOf'[q] = clusterOf[q] /\ clusterOf[q] + 1 \in 1 .. Len(contents)
      BY <1>7, <1>8, <2>2
    <3>2. contents'[clusterOf[q] + 1] = contents[clusterOf[q] + 1]
      BY <1>9, <3>1
    <3>3. clusterOf[q] \in 1 .. Len(contents') - 1
      BY <1>8, <1>9, <2>2
    <3>4. QED
      BY <1>8, <2>2, <3>1, <3>2, <3>3
  <2>3. QED
    BY <1>7, <2>1, <2>2
<1>11. Shape'
  <2>1. Len(contents') > 0 /\ pos' \in Nat \ {0}
    BY <1>3, <1>4, <1>8, <1>9
  <2>2. DOMAIN clusterOf' \subseteq Files'
    BY <1>6, <1>10
  <2>3. QED
    BY <1>3, <1>4, <1>6, <1>9, <1>10, <2>1, <2>2 DEF Shape
<1>12. Unplaced'
  BY <1>9 DEF Unplaced
<1>13. pos' <= Len(GameFiles') + 1 /\ pos' - 1 = k + 1
  BY <1>3, <1>4, <1>6
<1>14. Grouped(pos - 1)' /\ Filling(pos - 1)'
  BY <1>9, <1>13
<1>15. QED
  BY <1>4, <1>5, <1>11, <1>12, <1>13, <1>14 DEF IInv, Stage

\* What a directory's node and a file's are made of.
LEMMA IsDirNode ==
    ASSUME NEW name \in Names \cup {""}, NEW parent \in Nat, NEW end \in Nat
    PROVE  [kind |-> "dir", name |-> name, parent |-> parent, end |-> end] \in Nodes
  BY DEF Nodes

\* and those of files.
LEMMA IsFileNode ==
    ASSUME NEW name \in Names, NEW cluster \in Nat, NEW off \in Nat, NEW size \in Nat
    PROVE  [kind |-> "file", name |-> name, cluster |-> cluster, off |-> off, size |-> size]
               \in Nodes
  BY DEF Nodes

\* A refused title keeps what it has.
LEMMA RefusedStep == IInv /\ (GameTooLarge \/ Unassigned) => IInv'
<1>1. SUFFICES ASSUME IInv, GameTooLarge \/ Unassigned PROVE IInv'
  OBVIOUS
<1>2. /\ pc' = "refused" /\ UNCHANGED <<tree, pos, contents, clusterOf, decoded, damaged, out>>
  BY <1>1 DEF GameTooLarge, Unassigned, plan, extraction
<1>3. Shape /\ Intact /\ pos' \in Nat \ {0}
  BY <1>1, <1>2 DEF IInv, Shape
<1>4. Shape' /\ Intact'
  BY <1>2, <1>3, ShapeStays, IntactStays
<1>5. QED
  BY <1>2, <1>4 DEF IInv, Stage

\* The FST begins with its root, and each file has a content by then.
LEMMA BuildTreeStep == IInv /\ BuildTree => IInv'
<1>1. SUFFICES ASSUME IInv, BuildTree PROVE IInv'
  OBVIOUS
<1>0. PICK k : k = pos - 1
  OBVIOUS
<1>2. /\ Shape /\ Intact /\ Fresh /\ Untouched /\ Unplaced
      /\ pos <= Len(GameFiles) + 1 /\ Grouped(k)
  BY <1>0, <1>1 DEF IInv, Stage, BuildTree
<1>3. /\ pc' = "flatten" /\ pos' = 1 /\ pos > Len(GameFiles) /\ Files \subseteq DOMAIN clusterOf
      /\ nodes' = <<Root>> /\ tree' = tree /\ UNCHANGED <<contents, clusterOf, group>>
      /\ UNCHANGED <<cursor, table, damaged, skip, stack, paths, decoded, out>>
  BY <1>1 DEF BuildTree, extraction
<1>4. Shape' /\ Intact' /\ Untouched' /\ Fresh'
  BY <1>2, <1>3, ShapeStays, IntactStays, UntouchedStays DEF Fresh, Flat
<1>5. tree \in Trees /\ pos \in Nat /\ Len(GameFiles) \in Nat /\ Len(Order) \in Nat
  BY <1>2, GameFilesAre, OrderIs DEF Shape
<1>6. k = Len(GameFiles)
  BY <1>0, <1>2, <1>3, <1>5
<1>7. Complete'
  <2>1. Complete
    BY <1>2, <1>3, <1>6 DEF Complete
  <2>2. QED
    BY <1>3, <2>1, CompleteStays
<1>8. Root' = Root /\ Order' = Order
  BY <1>3, TreeStays
<1>9. Flattened(0)'
  <2>1. nodes' \in Seq(Nodes) /\ Len(nodes') = 0 + 1 /\ nodes'[1] = Root'
    <3> DEFINE r == Root
    <3>1. r \in Nodes
      <4>1. \A e \in Nat : [kind |-> "dir", name |-> "", parent |-> 0, end |-> e] \in Nodes
        BY DEF Nodes
      <4>2. Len(Order) + 1 \in Nat
        BY <1>5
      <4>3. QED
        BY ONLY <4>1, <4>2 DEF Root, r
    <3>2. nodes' = <<r>> /\ r = Root'
      BY <1>3, <1>8
    <3> HIDE DEF r
    <3>3. QED
      BY <3>1, <3>2
  <2>2. ASSUME NEW i \in 2 .. Len(contents')
        PROVE  /\ contents[i].files = <<>> /\ contents[i].len = 0
    <3>1. i \in DOMAIN contents
      BY <1>2, <1>3 DEF Shape
    <3>2. QED
      BY <1>2, <3>1 DEF Unplaced
  <2>3. ASSUME NEW i \in 2 .. Len(contents')
        PROVE  Sound(contents[i])' /\ WithinSpan(i, 0)' /\ StartsWithFirst(i)'
    <3>1. contents'[i].files = <<>> /\ contents'[i].len = 0 /\ DOMAIN contents'[i].files = {}
      BY <1>3, <2>2
    <3>2. Sound(contents[i])'
      BY <3>1 DEF Sound
    <3>3. WithinSpan(i, 0)' /\ StartsWithFirst(i)'
      BY <3>1 DEF WithinSpan, StartsWithFirst
    <3>4. QED
      BY <3>2, <3>3
  <2>4. 1 .. 0 = {}
    OBVIOUS
  <2>5. QED
    BY <2>1, <2>3, <2>4 DEF Flattened
<1>10. pos' <= Len(Order') + 1 /\ pos' - 1 = 0
  BY <1>3, <1>5, <1>8
<1>11. Flattened(pos - 1)'
  BY <1>9, <1>10
<1>12. QED
  BY <1>3, <1>4, <1>7, <1>10, <1>11 DEF IInv, Stage

-----------------------------------------------------------------------------
(***************************************************************************)
(* The nodes of the FST and the places of the files.                       *)
(***************************************************************************)
\* A directory goes up to the last entry below it.
LEMMA DirNodeIs ==
    ASSUME tree \in Trees, NEW i \in 1 .. Len(Order)
    PROVE  /\ DirNode(i) \in Nodes /\ DirNode(i).end \in Nat
           /\ \A x \in i + 1 .. Len(Order) :
                x < DirNode(i).end <=> IsStrictPrefix(Order[i], Order[x])
<1> DEFINE n == Len(Order)
           above == {0} \cup {j \in DOMAIN Order : Order[j] = Front(Order[i])}
           below == {i} \cup {j \in DOMAIN Order : IsStrictPrefix(Order[i], Order[j])}
<1>1. /\ n \in Nat /\ DOMAIN Order = 1 .. n
      /\ \A j \in 1 .. n : Order[j] \in Seq(Names) /\ Order[j] # <<>>
      /\ \A j, k \in 1 .. n : j < k <=> Before(Order[j], Order[k])
  <2>1. \A j \in 1 .. n : Order[j] \in InFst
    BY OrderIs
  <2>2. \A p \in InFst : p # <<>>
    BY InFstIs, TreeIs
  <2>3. QED
    BY <2>1, <2>2, OrderIs
<1>2. Max(above) \in Nat
  <2>1. above \in SUBSET Nat /\ above # {} /\ \A j \in above : j <= n
    BY <1>1
  <2> HIDE DEF above, n
  <2>2. QED
    BY <1>1, <2>1, MaxIs
<1>3. Max(below) \in below /\ \A j \in below : j <= Max(below)
  <2>1. below \in SUBSET Nat /\ below # {} /\ \A j \in below : j <= n
    BY <1>1
  <2> HIDE DEF below, n
  <2>2. QED
    BY <1>1, <2>1, MaxIs
<1>4. below \in SUBSET (1 .. n)
  BY <1>1
<1>5. PICK m \in 1 .. n : m = Max(below)
  BY <1>3, <1>4
<1>6. DirNode(i) = [kind |-> "dir", name |-> Last(Order[i]), parent |-> Max(above), end |-> 1 + m]
  BY <1>5 DEF DirNode
<1>7. Last(Order[i]) \in Names
  BY <1>1, FrontIs
<1>8. DirNode(i) \in Nodes /\ DirNode(i).end = m + 1
  <2> DEFINE name == Last(Order[i])
             parent == Max(above)
             end == 1 + m
             node == [kind |-> "dir", name |-> name, parent |-> parent, end |-> end]
  <2>1. end \in Nat /\ end = m + 1
    BY ONLY <1>1
  <2>2. DirNode(i) = node /\ parent \in Nat /\ name \in Names \cup {""}
    BY ONLY <1>2, <1>6, <1>7
  <2> HIDE DEF name, parent, end
  <2>3. node \in Nodes /\ node.end = end
    BY ONLY <2>1, <2>2, IsDirNode
  <2> HIDE DEF node
  <2>4. QED
    BY ONLY <2>1, <2>2, <2>3
<1>9. ASSUME NEW x \in i + 1 .. n PROVE x < m + 1 <=> IsStrictPrefix(Order[i], Order[x])
  <2>1. x \in 1 .. n /\ i < x /\ i \in 1 .. n
    BY <1>1
  <2>2. ASSUME IsStrictPrefix(Order[i], Order[x]) PROVE x < m + 1
    <3>1. x \in below
      BY <1>1, <2>1, <2>2
    <3>2. x <= m
      BY <1>3, <1>5, <3>1
    <3>3. QED
      BY ONLY <1>1, <2>1, <3>2
  <2>3. ASSUME x < m + 1 PROVE IsStrictPrefix(Order[i], Order[x])
    <3>1. x <= m /\ m # i /\ i < m
      BY ONLY <1>1, <1>5, <2>1, <2>3
    <3>2. IsStrictPrefix(Order[i], Order[m])
      BY <1>3, <1>5, <3>1
    <3>3. CASE x = m
      BY <3>2, <3>3
    <3>4. CASE x < m
      <4>1. Before(Order[i], Order[x]) /\ Before(Order[x], Order[m])
        BY <1>1, <2>1, <3>4
      <4>2. QED
        BY <1>1, <2>1, <3>2, <4>1, Contiguous
    <3>5. QED
      BY ONLY <1>1, <2>1, <3>1, <3>3, <3>4
  <2>4. QED
    BY <2>2, <2>3
<1>10. QED
  BY <1>1, <1>8, <1>9

\* A directory is described by its own node.
LEMMA FlattenDirStep == IInv /\ FlattenDir => IInv'
<1>1. SUFFICES ASSUME IInv, FlattenDir PROVE IInv'
  OBVIOUS
<1>0. PICK k : k = pos - 1
  OBVIOUS
<1>2. /\ Shape /\ Intact /\ Fresh /\ Untouched /\ Complete /\ Flattened(k)
  BY <1>0, <1>1 DEF IInv, Stage, FlattenDir
<1>3. /\ pc' = "flatten" /\ pos' = pos + 1 /\ pos <= Len(Order) /\ Order[pos] \notin Files
      /\ nodes' = Append(nodes, DirNode(pos))
      /\ tree' = tree /\ UNCHANGED <<contents, clusterOf, group>>
      /\ UNCHANGED <<cursor, table, damaged, skip, stack, paths, decoded, out>>
  BY <1>1 DEF FlattenDir, extraction
<1>4. tree \in Trees /\ pos \in Nat \ {0} /\ Len(Order) \in Nat /\ pos' \in Nat \ {0}
  BY <1>2, <1>3, OrderIs DEF Shape
<1>5. Shape' /\ Intact' /\ Untouched' /\ Fresh' /\ Complete'
  BY <1>2, <1>3, <1>4, ShapeStays, IntactStays, UntouchedStays, CompleteStays DEF Fresh, Flat
<1>6. /\ k \in Nat /\ k + 1 = pos /\ k + 1 \in 1 .. Len(Order)
      /\ pos' <= Len(Order) + 1 /\ pos' - 1 = k + 1
  BY <1>0, <1>3, <1>4
<1>7. /\ GameFiles' = GameFiles /\ Room' = Room /\ Files' = Files /\ Order' = Order
      /\ Root' = Root /\ \A j : DirNode(j)' = DirNode(j)
  BY <1>3, TreeStays
<1>8. Flattened(k + 1)'
  <2>1. /\ nodes \in Seq(Nodes) /\ Len(nodes) = k + 1 /\ nodes[1] = Root
        /\ \A j \in 1 .. k : Described(j)
        /\ \A i \in 2 .. Len(contents) :
             Sound(contents[i]) /\ WithinSpan(i, k) /\ StartsWithFirst(i)
    BY <1>2 DEF Flattened
  <2>2. /\ nodes' \in Seq(Nodes) /\ Len(nodes') = k + 2
        /\ \A j \in 1 .. k + 1 : nodes'[j] = nodes[j]
        /\ nodes'[k + 2] = DirNode(pos)
    <3> DEFINE d == DirNode(pos)
    <3>1. d \in Nodes
      BY <1>4, <1>6, DirNodeIs
    <3>2. nodes' = Append(nodes, d)
      BY <1>3
    <3> HIDE DEF d
    <3>3. QED
      BY ONLY <1>6, <2>1, <3>1, <3>2, Appended DEF d
  <2>3. ASSUME NEW j \in 1 .. k + 1 PROVE Described(j)'
    <3>1. CASE j \in 1 .. k
      <4>1. nodes'[j + 1] = nodes[j + 1]
        BY <1>6, <2>2, <3>1
      <4>2. Described(j)
        BY <2>1, <3>1
      <4>3. QED
        BY <1>3, <1>7, <4>1, <4>2 DEF Described
    <3>2. CASE j = k + 1
      <4>1. nodes'[j + 1] = DirNode(j) /\ Order[j] \notin Files
        BY <1>3, <1>6, <2>2, <3>2
      <4>2. QED
        BY <1>7, <4>1 DEF Described
    <3>3. QED
      BY <1>6, <3>1, <3>2
  <2>4. \A a : G(a)' = G(a)
    BY <1>3, <1>7 DEF G
  <2>5. \A a, b : Span(a, b)' = Span(a, b)
    BY <1>7 DEF Span
  <2>6. ASSUME NEW i \in 2 .. Len(contents')
        PROVE  Sound(contents[i])' /\ WithinSpan(i, k + 1)' /\ StartsWithFirst(i)'
    <3>1. Sound(contents[i]) /\ WithinSpan(i, k) /\ StartsWithFirst(i)
      BY <1>3, <2>1
    <3>2. 1 .. k \subseteq 1 .. k + 1
      BY <1>6
    <3>3. WithinSpan(i, k + 1)'
      BY <1>3, <1>7, <2>4, <2>5, <3>1, <3>2 DEF WithinSpan
    <3>4. StartsWithFirst(i)'
      BY <1>3, <1>7, <2>4, <3>1 DEF StartsWithFirst
    <3>5. Sound(contents[i])'
      BY <1>3, <3>1 DEF Sound
    <3>6. QED
      BY <3>3, <3>4, <3>5
  <2>7. nodes'[1] = Root' /\ Len(nodes') = (k + 1) + 1
    BY <1>6, <1>7, <2>1, <2>2
  <2>8. QED
    BY <2>2, <2>3, <2>6, <2>7 DEF Flattened
<1>9. Flattened(pos - 1)' /\ pos' <= Len(Order') + 1
  BY <1>6, <1>7, <1>8
<1>10. QED
  BY <1>3, <1>5, <1>9 DEF IInv, Stage

\* A file goes behind what its content holds already.
LEMMA PlaceFileIs ==
    ASSUME tree \in Trees, NEW c \in Contents, NEW p \in Files
    PROVE  /\ PlaceFile(c, p) \in Contents
           /\ PlaceFile(c, p).game = c.game
           /\ PlaceFile(c, p).len = Offset(c) + tree.sizes[p]
           /\ Len(PlaceFile(c, p).files) = Len(c.files) + 1
           /\ DOMAIN PlaceFile(c, p).files = 1 .. Len(c.files) + 1
           /\ \A x \in 1 .. Len(c.files) : PlaceFile(c, p).files[x] = c.files[x]
           /\ PlaceFile(c, p).files[Len(c.files) + 1] =
                [path |-> p, off |-> Offset(c), size |-> tree.sizes[p]]
           /\ Offset(c) \in Nat /\ c.len <= Offset(c) /\ (c.len = 0 => Offset(c) = 0)
           /\ (Offset(c) \div Factor) * Factor = Offset(c)
           /\ tree.sizes[p] \in Nat
           /\ Sound(c) => Sound(PlaceFile(c, p))
<1>1. PICK f, off, size : /\ f = [path |-> p, off |-> off, size |-> size]
                          /\ off = Offset(c) /\ size = tree.sizes[p]
  OBVIOUS
<1>2. c.len \in Nat /\ c.files \in Seq(PlacedFiles) /\ Factor \in Nat \ {0} /\ size \in Nat
  BY <1>1, TreeIs, PlanAssumption DEF Contents, PlanAssumption
<1>3. /\ off \in Nat /\ c.len <= off /\ (c.len = 0 => off = 0)
      /\ (off \div Factor) * Factor = off
  BY <1>1, <1>2, Aligned DEF Offset
<1>4. f \in PlacedFiles
  BY <1>1, <1>2, <1>3 DEF PlacedFiles
<1>5. PICK n, files : n = Len(c.files) /\ files = Append(c.files, f)
  OBVIOUS
<1>6. /\ n \in Nat /\ DOMAIN c.files = 1 .. n
      /\ files \in Seq(PlacedFiles) /\ Len(files) = n + 1 /\ DOMAIN files = 1 .. n + 1
      /\ \A x \in 1 .. n : files[x] = c.files[x]
      /\ files[n + 1] = f
  BY <1>2, <1>4, <1>5, Appended
<1>7. PICK d : d = PlaceFile(c, p)
  OBVIOUS
<1>8. d = [hashed |-> c.hashed, game |-> c.game, files |-> files, len |-> off + size]
  <2>1. c = [hashed |-> c.hashed, game |-> c.game, files |-> c.files, len |-> c.len]
    BY DEF Contents
  <2>2. QED
    BY <1>1, <1>5, <1>7, <2>1 DEF PlaceFile
<1>9. d \in Contents
  BY <1>2, <1>3, <1>6, <1>8 DEF Contents
<1>10. ASSUME Sound(c) PROVE Sound(d)
  <2>1. d.files = files /\ d.len = off + size
    BY <1>8
  <2>2. /\ \A x \in 1 .. n :
             /\ c.files[x].size = tree.sizes[c.files[x].path]
             /\ (c.files[x].off \div Factor) * Factor = c.files[x].off
             /\ c.files[x].off + c.files[x].size <= c.len
        /\ \A x, y \in 1 .. n : x < y => c.files[x].off + c.files[x].size <= c.files[y].off
        /\ IF c.files = <<>> THEN c.len = 0 ELSE c.files[1].off = 0
    BY <1>6, <1>10 DEF Sound
  <2>3. \A x \in 1 .. n : c.files[x].off \in Nat /\ c.files[x].size \in Nat
    <3>1. \A x \in 1 .. n : c.files[x] \in PlacedFiles
      BY <1>2, <1>6
    <3>2. \A g \in PlacedFiles : g.off \in Nat /\ g.size \in Nat
      BY DEF PlacedFiles
    <3>3. QED
      BY ONLY <3>1, <3>2
  <2>4. /\ files[n + 1].path = p /\ files[n + 1].off = off /\ files[n + 1].size = size
    BY <1>1, <1>6
  <2>5. \A x \in 1 .. n + 1 : x \in 1 .. n \/ x = n + 1
    BY ONLY <1>6
  <2>6. ASSUME NEW x \in 1 .. n PROVE c.files[x].off + c.files[x].size <= off
    <3> DEFINE e == c.files[x].off + c.files[x].size
               l == c.len
    <3>1. e \in Nat /\ e <= l /\ l \in Nat /\ l <= off
      BY <1>2, <1>3, <2>2, <2>3
    <3> HIDE DEF e, l
    <3>2. e <= off
      BY ONLY <1>3, <3>1
    <3>3. QED
      BY <3>2 DEF e
  <2>7. ASSUME NEW x \in 1 .. n + 1
        PROVE  /\ files[x].size = tree.sizes[files[x].path]
               /\ (files[x].off \div Factor) * Factor = files[x].off
               /\ files[x].off + files[x].size <= off + size
    <3>1. CASE x \in 1 .. n
      <4> DEFINE e == c.files[x].off + c.files[x].size
      <4>1. e \in Nat /\ e <= off /\ files[x] = c.files[x]
        BY <1>6, <2>3, <2>6, <3>1
      <4> HIDE DEF e
      <4>2. e <= off + size
        BY ONLY <1>2, <1>3, <4>1
      <4>3. QED
        BY <2>2, <3>1, <4>1, <4>2 DEF e
    <3>2. CASE x = n + 1
      BY <1>1, <1>2, <1>3, <2>4, <3>2
    <3>3. QED
      BY <2>5, <3>1, <3>2
  <2>8. ASSUME NEW x \in 1 .. n + 1, NEW y \in 1 .. n + 1, x < y
        PROVE  files[x].off + files[x].size <= files[y].off
    <3>1. x \in 1 .. n
      BY ONLY <1>6, <2>8
    <3>2. CASE y \in 1 .. n
      BY <1>6, <2>2, <2>8, <3>1, <3>2
    <3>3. CASE y = n + 1
      BY <1>6, <2>4, <2>6, <3>1, <3>3
    <3>4. QED
      BY <2>5, <3>2, <3>3
  <2>9. files # <<>> /\ files[1].off = 0
    <3>1. files # <<>>
      BY <1>6
    <3>2. CASE n = 0
      <4>1. c.files = <<>>
        <5>1. \A s \in Seq(PlacedFiles) : Len(s) = 0 => s = <<>>
          OBVIOUS
        <5>2. QED
          BY ONLY <1>2, <1>5, <3>2, <5>1
      <4>2. off = 0
        BY <1>3, <2>2, <4>1
      <4>3. n + 1 = 1
        BY ONLY <3>2
      <4>4. QED
        BY <2>4, <3>1, <4>2, <4>3
    <3>3. CASE n # 0
      <4>1. 1 \in 1 .. n /\ c.files # <<>>
        BY <1>5, <1>6, <3>3
      <4>2. QED
        BY <1>6, <2>2, <4>1
    <3>4. QED
      BY <3>1, <3>2, <3>3
  <2>10. QED
    BY <1>6, <2>1, <2>7, <2>8, <2>9 DEF Sound
<1>11. d.files = files /\ d.len = off + size /\ d.game = c.game
  BY <1>8
<1>12. QED
  BY <1>1, <1>2, <1>3, <1>5, <1>6, <1>7, <1>9, <1>10, <1>11

\* The first game content stays with its first file, and no content outgrows what it is planned
\* for.
LEMMA PlannedRoom ==
    ASSUME Shape, Complete, NEW k \in 0 .. Len(Order) - 1, Flattened(k),
           NEW p, p = Order[k + 1], p \in Files,
           NEW i, i = clusterOf[p] + 1, i \in 2 .. Len(contents), contents[i].game
    PROVE  /\ \E a, b \in DOMAIN GameFiles :
                /\ a <= b /\ G(a) = i - 1 /\ G(b) = i - 1
                /\ Order[k + 1] = GameFiles[b]
                /\ AlignUp(Offset(contents[i]) + tree.sizes[p], Factor) <= Span(a, b)
           /\ i = G(1) + 1 /\ contents[i].files = <<>> => p = GameFiles[1]
<1> DEFINE n == Len(GameFiles)
<1>0. /\ tree \in Trees /\ n \in Nat /\ DOMAIN GameFiles = 1 .. n /\ Len(Order) \in Nat
      /\ k + 1 \in 1 .. Len(Order) /\ Len(contents) \in Nat
      /\ Grouped(n) /\ n \in 0 .. n /\ Files \subseteq DOMAIN clusterOf
  <2>1. tree \in Trees /\ contents \in Seq(Contents)
    BY DEF Shape
  <2>2. n \in Nat /\ DOMAIN GameFiles = 1 .. n /\ Len(Order) \in Nat
    BY <2>1, GameFilesAre, OrderIs
  <2>3. k + 1 \in 1 .. Len(Order) /\ n \in 0 .. n
    BY <2>2
  <2>4. Grouped(n) /\ Files \subseteq DOMAIN clusterOf
    BY DEF Complete
  <2>5. QED
    BY <2>1, <2>2, <2>3, <2>4
<1>1. p[1] = "content"
  <2>1. contents[clusterOf[p] + 1].game <=> p[1] = "content"
    BY <1>0 DEF Shape
  <2>2. QED
    BY <2>1
<1>2. PICK b \in 1 .. n : GameFiles[b] = p
  BY <1>0, <1>1, GameFilesAre
<1>3. G(b) = i - 1
  <2>1. clusterOf[p] \in Nat
    BY <1>0 DEF Shape
  <2>2. QED
    BY <1>2, <2>1 DEF G
<1>4. /\ contents[i] \in Contents
      /\ WithinSpan(i, k)
  BY DEF Shape, Flattened
<1>5. PICK len, off, room : len = contents[i].len /\ off = Offset(contents[i]) /\ room = Placed(p)
  OBVIOUS
<1>6. /\ len \in Nat /\ tree.sizes[p] \in Nat /\ room \in Nat /\ off \in Nat
      /\ AlignUp(off + tree.sizes[p], Factor) = off + room /\ (len = 0 => off = 0)
      /\ off = AlignUp(len, Factor)
  <2>1. len \in Nat /\ tree.sizes[p] \in Nat /\ room \in Nat /\ Factor \in Nat \ {0}
    BY <1>0, <1>4, <1>5, TreeIs, PlacedIs, PlanAssumption DEF Contents, PlanAssumption
  <2>2. off = AlignUp(len, Factor)
    BY <1>5 DEF Offset
  <2>3. off \in Nat /\ (off \div Factor) * Factor = off /\ (len = 0 => off = 0)
    BY <2>1, <2>2, Aligned
  <2>4. AlignUp(off + tree.sizes[p], Factor) = off + AlignUp(tree.sizes[p], Factor)
    BY <2>1, <2>3, AlignedSum
  <2>5. QED
    BY <1>5, <2>1, <2>2, <2>3, <2>4 DEF Placed
<1>7. \E a, e \in DOMAIN GameFiles :
        /\ a <= e /\ G(a) = i - 1 /\ G(e) = i - 1 /\ Order[k + 1] = GameFiles[e]
        /\ off + room <= Span(a, e)
  <2>1. CASE len = 0
    <3>1. Span(b, b) = room /\ b <= b
      BY <1>0, <1>2, <1>5, GroupedIs
    <3>2. off + room <= Span(b, b)
      BY <1>6, <2>1, <3>1
    <3>3. QED
      BY <1>0, <1>2, <1>3, <3>1, <3>2
  <2>2. CASE len # 0
    <3>1. len > 0
      BY ONLY <1>6, <2>2
    <3>2. PICK a \in 1 .. n, c \in 1 .. n :
            /\ a <= c /\ G(a) = i - 1 /\ off <= Span(a, c)
            /\ \E j \in 1 .. k : Order[j] = GameFiles[c]
      BY <1>0, <1>4, <1>5, <1>6, <3>1 DEF WithinSpan
    <3>3. PICK j \in 1 .. k : Order[j] = GameFiles[c]
      BY <3>2
    <3>4. j \in 1 .. Len(Order) /\ j < k + 1
      BY ONLY <1>0, <3>3
    <3>5. Before(Order[j], Order[k + 1])
      BY <1>0, <3>4, OrderIs
    <3>6. c < b
      BY <1>0, <1>2, <3>2, <3>3, <3>5, GameFilesAre
    <3>7. b - 1 \in 1 .. n - 1 /\ c <= b - 1 /\ b - 1 \in 1 .. n /\ (b - 1) + 1 = b /\ a <= b
      BY ONLY <1>0, <1>2, <3>2, <3>6
    <3>8. Span(a, c) <= Span(a, b - 1) /\ Span(a, b) = Span(a, b - 1) + room
      <4>1. /\ Room[c] <= Room[b - 1] /\ Room[c] \in Nat /\ Room[b - 1] \in Nat
            /\ Room[a - 1] \in Nat /\ Room[b] = Room[b - 1] + Placed(GameFiles[b])
        <5>1. c \in 0 .. n /\ b - 1 \in 0 .. n /\ a - 1 \in 0 .. n
          BY ONLY <1>0, <1>2, <3>2
        <5>2. QED
          BY <1>0, <1>2, <3>7, <5>1, RoomIs
      <4>2. Room[b] = Room[b - 1] + room
        BY <1>2, <1>5, <4>1
      <4>3. QED
        <5> DEFINE ra == Room[a - 1]
                   rb == Room[b - 1]
                   rc == Room[c]
        <5>1. Span(a, c) = rc - ra /\ Span(a, b - 1) = rb - ra /\ Span(a, b) = rb + room - ra
          <6>1. Span(a, c) = Room[c] - Room[a - 1]
            BY ONLY TRUE DEF Span
          <6>2. Span(a, b - 1) = Room[b - 1] - Room[a - 1]
            BY ONLY TRUE DEF Span
          <6>3. Span(a, b) = Room[b] - Room[a - 1]
            BY ONLY TRUE DEF Span
          <6>4. QED
            BY ONLY <1>6, <4>1, <4>2, <6>1, <6>2, <6>3
        <5>2. rc <= rb /\ rc \in Nat /\ rb \in Nat /\ ra \in Nat
          BY ONLY <4>1
        <5> HIDE DEF ra, rb, rc
        <5>3. rc - ra <= rb - ra /\ rb + room - ra = (rb - ra) + room
          BY ONLY <1>6, <5>2
        <5>4. QED
          BY ONLY <5>1, <5>3
    <3>9. off + room <= Span(a, b)
      <4>1. Span(a, c) \in Int /\ Span(a, b - 1) \in Int
        BY <1>0, <3>2, <3>7, GroupedIs
      <4>2. QED
        BY ONLY <1>6, <3>2, <3>8, <4>1
    <3>10. QED
      BY <1>0, <1>2, <1>3, <3>2, <3>7, <3>9
  <2>3. QED
    BY <2>1, <2>2
<1>8. ASSUME i = G(1) + 1, contents[i].files = <<>> PROVE p = GameFiles[1]
  <2>1. SUFFICES ASSUME b # 1 PROVE FALSE
    BY <1>2
  <2>2. 1 \in 1 .. n /\ 1 < b
    BY ONLY <1>0, <1>2, <2>1
  <2>3. Before(GameFiles[1], p) /\ GameFiles[1] \in InFst /\ GameFiles[1] \in Files
    BY <1>0, <1>2, <2>2, GameFilesAre, InFstIs
  <2>4. PICK j \in 1 .. Len(Order) : Order[j] = GameFiles[1]
    BY <1>0, <2>3, OrderIs
  <2>5. j < k + 1
    BY <1>0, <2>3, <2>4, OrderIs
  <2>6. j \in 1 .. k
    BY ONLY <1>0, <2>4, <2>5
  <2>7. Described(j)
    BY <2>6 DEF Flattened
  <2>8. \E x \in DOMAIN contents[G(1) + 1].files : TRUE
    BY <2>3, <2>4, <2>7 DEF Described, G
  <2>9. QED
    BY <1>8, <2>8
<1>9. QED
  BY <1>0, <1>5, <1>6, <1>7, <1>8

\* A file is placed in its content, within the room it was planned for.
LEMMA FlattenFileStep == IInv /\ FlattenFile => IInv'
<1>1. SUFFICES ASSUME IInv, FlattenFile PROVE IInv'
  OBVIOUS
<1>0. PICK k, p, i : k = pos - 1 /\ p = Order[pos] /\ i = clusterOf[p] + 1
  OBVIOUS
<1>2. /\ Shape /\ Intact /\ Fresh /\ Untouched /\ Complete /\ Flattened(k)
  BY <1>0, <1>1 DEF IInv, Stage, FlattenFile
<1>3. /\ pc' = "flatten" /\ pos' = pos + 1 /\ pos <= Len(Order) /\ p \in Files
      /\ tree' = tree /\ UNCHANGED <<clusterOf, group>>
      /\ UNCHANGED <<cursor, table, damaged, skip, stack, paths, decoded, out>>
      /\ nodes' = Append(nodes, FileNode(contents[i], p))
      /\ contents' = [contents EXCEPT ![i] = PlaceFile(@, p)]
  BY <1>0, <1>1 DEF FlattenFile, extraction
<1>4. tree \in Trees /\ pos \in Nat \ {0} /\ Len(Order) \in Nat /\ pos' \in Nat \ {0}
  BY <1>2, <1>3, OrderIs DEF Shape
<1>5. /\ k \in Nat /\ k + 1 = pos /\ k + 1 \in 1 .. Len(Order) /\ k \in 0 .. Len(Order) - 1
      /\ pos' <= Len(Order) + 1 /\ pos' - 1 = k + 1
      /\ \A j \in 1 .. k + 1 : j \in 1 .. Len(Order) /\ (j \in 1 .. k \/ j = k + 1)
  BY ONLY <1>0, <1>3, <1>4
<1>6. Intact' /\ Untouched' /\ Fresh'
  BY <1>2, <1>3, IntactStays, UntouchedStays DEF Fresh
<1>7. /\ GameFiles' = GameFiles /\ Room' = Room /\ Files' = Files /\ Order' = Order
      /\ Root' = Root /\ \A j : DirNode(j)' = DirNode(j)
  BY <1>3, TreeStays
<1>8. PICK m, c, d : m = Len(contents) /\ c = contents[i] /\ d = PlaceFile(c, p)
  OBVIOUS
<1>9. /\ contents \in Seq(Contents) /\ m \in Nat /\ DOMAIN contents = 1 .. m /\ m > 0
      /\ p \in DOMAIN clusterOf /\ clusterOf[p] \in Nat /\ i \in 2 .. m /\ c \in Contents
      /\ contents[clusterOf[p] + 1].game <=> p[1] = "content"
      /\ c.files \in Seq(PlacedFiles)
  <2>1. contents \in Seq(Contents) /\ m \in Nat /\ DOMAIN contents = 1 .. m /\ m > 0
    BY <1>2, <1>8 DEF Shape
  <2>2. p \in DOMAIN clusterOf
    BY <1>2, <1>3 DEF Complete
  <2>3. /\ clusterOf[p] \in 1 .. m - 1
        /\ contents[clusterOf[p] + 1].game <=> p[1] = "content"
    BY <1>2, <1>8, <2>2 DEF Shape
  <2>4. i \in 2 .. m /\ clusterOf[p] \in Nat
    <3> DEFINE w == clusterOf[p]
    <3>1. i = w + 1
      BY <1>0
    <3>2. w \in 1 .. m - 1
      BY <2>3
    <3> HIDE DEF w
    <3>3. i \in 2 .. m /\ w \in Nat
      BY ONLY <2>1, <3>1, <3>2
    <3>4. QED
      BY <3>3 DEF w
  <2>5. c \in Contents
    BY <1>8, <2>1, <2>4
  <2>6. c.files \in Seq(PlacedFiles)
    BY <2>5 DEF Contents
  <2>7. QED
    BY <2>1, <2>2, <2>3, <2>4, <2>5, <2>6
<1>10. PICK s, f, node :
          s = Len(c.files) /\ f = [path |-> p, off |-> Offset(c), size |-> tree.sizes[p]]
          /\ node = FileNode(c, p)
  OBVIOUS
<1>11. /\ d \in Contents /\ d.game = c.game
       /\ d.len = Offset(c) + tree.sizes[p]
       /\ DOMAIN d.files = 1 .. s + 1 /\ d.files[s + 1] = f
       /\ \A x \in 1 .. s : d.files[x] = c.files[x]
       /\ Offset(c) \in Nat /\ tree.sizes[p] \in Nat
       /\ Sound(c) => Sound(d)
       /\ s \in Nat /\ DOMAIN c.files = 1 .. s
  <2>1. /\ PlaceFile(c, p) \in Contents
        /\ PlaceFile(c, p).game = c.game
        /\ PlaceFile(c, p).len = Offset(c) + tree.sizes[p]
        /\ DOMAIN PlaceFile(c, p).files = 1 .. Len(c.files) + 1
        /\ \A x \in 1 .. Len(c.files) : PlaceFile(c, p).files[x] = c.files[x]
        /\ PlaceFile(c, p).files[Len(c.files) + 1] =
             [path |-> p, off |-> Offset(c), size |-> tree.sizes[p]]
        /\ Offset(c) \in Nat
        /\ tree.sizes[p] \in Nat
        /\ Sound(c) => Sound(PlaceFile(c, p))
    BY <1>3, <1>4, <1>9, PlaceFileIs
  <2>2. s \in Nat /\ DOMAIN c.files = 1 .. s
    BY <1>9, <1>10
  <2>3. QED
    BY ONLY <1>8, <1>10, <2>1, <2>2
<1>12. /\ contents' \in Seq(Contents) /\ Len(contents') = m /\ DOMAIN contents' = 1 .. m
       /\ contents'[i] = d
       /\ \A j \in 1 .. m : j # i => contents'[j] = contents[j]
       /\ \A j \in 1 .. m : contents'[j].game = contents[j].game
  <2>1. contents' = [contents EXCEPT ![i] = d] /\ i \in 1 .. m
    BY <1>3, <1>8, <1>9
  <2>2. /\ contents' \in Seq(Contents) /\ Len(contents') = m /\ DOMAIN contents' = 1 .. m
        /\ contents'[i] = d
        /\ \A j \in 1 .. m : j # i => contents'[j] = contents[j]
    BY ONLY <1>8, <1>9, <1>11, <2>1
  <2>3. \A j \in 1 .. m : contents'[j].game = contents[j].game
    BY ONLY <1>8, <1>11, <2>2
  <2>4. QED
    BY <2>2, <2>3
<1>13. Shape'
  <2>1. Contents' = Contents
    BY <1>7 DEF Contents, PlacedFiles
  <2>2. ASSUME NEW q \in DOMAIN clusterOf
        PROVE  /\ clusterOf[q] \in 1 .. m - 1
               /\ contents'[clusterOf[q] + 1].game <=> q[1] = "content"
    <3>1. /\ clusterOf[q] \in 1 .. m - 1
          /\ contents[clusterOf[q] + 1].game <=> q[1] = "content"
      BY <1>2, <1>8 DEF Shape
    <3>2. clusterOf[q] + 1 \in 1 .. m
      BY ONLY <1>9, <3>1
    <3>3. QED
      BY <1>12, <3>1, <3>2
  <2>3. DOMAIN clusterOf \subseteq Files
    BY <1>2 DEF Shape
  <2>4. QED
    BY <1>3, <1>4, <1>7, <1>9, <1>12, <2>1, <2>2, <2>3 DEF Shape, Flat
<1>14. Complete'
  BY <1>2, <1>3, <1>8, <1>9, <1>12, CompleteStays
<1>15. /\ nodes \in Seq(Nodes) /\ Len(nodes) = k + 1 /\ nodes[1] = Root
       /\ \A j \in 1 .. k : Described(j)
       /\ \A j \in 2 .. m : Sound(contents[j]) /\ WithinSpan(j, k) /\ StartsWithFirst(j)
  BY <1>2, <1>8 DEF Flattened
<1>16. /\ node = [kind |-> "file", name |-> Last(p), cluster |-> clusterOf[p],
                  off |-> Offset(c), size |-> tree.sizes[p]]
       /\ node \in Nodes
  <2>1. node = [kind |-> "file", name |-> Last(p), cluster |-> clusterOf[p],
                off |-> Offset(c), size |-> tree.sizes[p]]
    BY <1>10 DEF FileNode
  <2>2. p \in Seq(Names) /\ p # <<>>
    BY <1>3, <1>4, TreeIs
  <2>3. Last(p) \in Names
    BY <2>2, FrontIs
  <2> DEFINE name == Last(p)
             cluster == clusterOf[p]
             off == Offset(c)
             size == tree.sizes[p]
  <2>4. name \in Names /\ cluster \in Nat /\ off \in Nat /\ size \in Nat
    BY <1>9, <1>11, <2>3
  <2> HIDE DEF name, cluster, off, size
  <2>5. [kind |-> "file", name |-> name, cluster |-> cluster, off |-> off, size |-> size]
            \in Nodes
    BY ONLY <2>4, IsFileNode
  <2>6. QED
    BY <2>1, <2>5 DEF name, cluster, off, size
<1>17. /\ nodes' \in Seq(Nodes) /\ Len(nodes') = k + 2
       /\ \A j \in 1 .. k + 1 : nodes'[j] = nodes[j]
       /\ nodes'[k + 2] = node
  <2>1. nodes' = Append(nodes, node)
    BY <1>3, <1>8, <1>10
  <2>2. QED
    BY ONLY <1>5, <1>15, <1>16, <2>1, Appended
<1>18. ASSUME NEW j \in 1 .. k + 1 PROVE Described(j)'
  <2>1. CASE j \in 1 .. k /\ Order[j] \notin Files
    <3>1. nodes'[j + 1] = nodes[j + 1]
      <4>1. j + 1 \in 1 .. k + 1
        BY ONLY <1>5, <2>1
      <4>2. QED
        BY <1>17, <4>1
    <3>2. nodes[j + 1] = DirNode(j)
      BY <1>15, <2>1 DEF Described
    <3>3. QED
      BY <1>7, <2>1, <3>1, <3>2 DEF Described
  <2>2. CASE j \in 1 .. k /\ Order[j] \in Files
    <3>0. PICK q, n, h : q = Order[j] /\ n = nodes[j + 1] /\ h = clusterOf[q] + 1
      OBVIOUS
    <3>1. nodes'[j + 1] = n
      <4>1. j + 1 \in 1 .. k + 1
        BY ONLY <1>5, <2>2
      <4>2. QED
        BY <1>17, <3>0, <4>1
    <3>2. PICK x \in DOMAIN contents[h].files :
            /\ n = [kind |-> "file", name |-> Last(q), cluster |-> clusterOf[q],
                    off |-> n.off, size |-> tree.sizes[q]]
            /\ contents[h].files[x] = [path |-> q, off |-> n.off, size |-> tree.sizes[q]]
      BY <1>15, <2>2, <3>0 DEF Described
    <3>3. h \in 1 .. m
      <4>1. q \in DOMAIN clusterOf
        BY <1>2, <2>2, <3>0 DEF Complete
      <4>2. clusterOf[q] \in 1 .. m - 1
        BY <1>2, <1>8, <4>1 DEF Shape
      <4>3. QED
        BY ONLY <1>9, <3>0, <4>2
    <3>4. x \in DOMAIN contents'[h].files /\ contents'[h].files[x] = contents[h].files[x]
      <4>1. CASE h = i
        <5>1. x \in 1 .. s
          BY <1>8, <1>11, <3>2, <4>1
        <5>2. x \in 1 .. s + 1
          BY ONLY <1>11, <5>1
        <5>3. QED
          BY <1>8, <1>11, <1>12, <4>1, <5>1, <5>2
      <4>2. CASE h # i
        BY <1>12, <3>2, <3>3, <4>2
      <4>3. QED
        BY <4>1, <4>2
    <3>5. QED
      BY <1>3, <1>7, <2>2, <3>0, <3>1, <3>2, <3>4 DEF Described
  <2>3. CASE j = k + 1
    <3>1. Order[j] = p /\ j + 1 = k + 2
      BY ONLY <1>0, <1>5, <2>3
    <3>2. s + 1 \in DOMAIN d.files /\ d.files[s + 1] = f
      BY <1>11
    <3>3. node.off = Offset(c)
      BY <1>16
    <3>4. /\ nodes'[j + 1] = node /\ Order'[j] = p /\ p \in Files'
          /\ contents'[clusterOf'[p] + 1] = d /\ clusterOf' = clusterOf /\ tree' = tree
      BY <1>0, <1>3, <1>7, <1>12, <1>17, <3>1
    <3>5. f = [path |-> p, off |-> node.off, size |-> tree.sizes[p]]
      BY ONLY <1>10, <3>3
    <3>6. node = [kind |-> "file", name |-> Last(p), cluster |-> clusterOf[p],
                  off |-> node.off, size |-> tree.sizes[p]]
      BY ONLY <1>16, <3>3
    <3>7. QED
      BY ONLY <3>2, <3>4, <3>5, <3>6 DEF Described
  <2>4. QED
    BY <1>5, <2>1, <2>2, <2>3
<1>19. /\ \A a : G(a)' = G(a)
       /\ \A a, b : Span(a, b)' = Span(a, b)
  BY <1>3, <1>7 DEF G, Span
<1>20. contents[i].game =>
       /\ \E a, b \in DOMAIN GameFiles :
            /\ a <= b /\ G(a) = i - 1 /\ G(b) = i - 1
            /\ Order[k + 1] = GameFiles[b]
            /\ AlignUp(d.len, Factor) <= Span(a, b)
       /\ i = G(1) + 1 /\ contents[i].files = <<>> => p = GameFiles[1]
  <2>1. p = Order[k + 1] /\ i \in 2 .. Len(contents) /\ d.len = Offset(contents[i]) + tree.sizes[p]
    BY <1>0, <1>5, <1>8, <1>9, <1>11
  <2>2. ASSUME contents[i].game
        PROVE  /\ \E a, b \in DOMAIN GameFiles :
                    /\ a <= b /\ G(a) = i - 1 /\ G(b) = i - 1
                    /\ Order[k + 1] = GameFiles[b]
                    /\ AlignUp(Offset(contents[i]) + tree.sizes[p], Factor) <= Span(a, b)
               /\ i = G(1) + 1 /\ contents[i].files = <<>> => p = GameFiles[1]
    BY <1>0, <1>2, <1>3, <1>5, <2>1, <2>2, PlannedRoom
  <2>3. QED
    BY <2>1, <2>2
<1>21. ASSUME NEW j \in 2 .. m
       PROVE  Sound(contents[j])' /\ WithinSpan(j, k + 1)' /\ StartsWithFirst(j)'
  <2>0. j \in 1 .. m /\ 1 .. k \subseteq 1 .. k + 1 /\ k + 1 \in 1 .. k + 1
    BY ONLY <1>5, <1>9
  <2>1. CASE j # i
    <3>1. contents'[j] = contents[j]
      BY <1>12, <2>0, <2>1
    <3>2. Sound(contents[j])'
      BY <1>3, <1>15, <3>1 DEF Sound
    <3>3. WithinSpan(j, k + 1)'
      BY <1>7, <1>15, <1>19, <2>0, <3>1 DEF WithinSpan
    <3>4. StartsWithFirst(j)'
      BY <1>7, <1>15, <1>19, <3>1 DEF StartsWithFirst
    <3>5. QED
      BY <3>2, <3>3, <3>4
  <2>2. CASE j = i
    <3>1. contents'[j] = d /\ d.game = contents[i].game
      BY <1>8, <1>11, <1>12, <2>2
    <3>2. Sound(contents[j])'
      <4>1. Sound(d)
        BY <1>8, <1>11, <1>15, <2>2
      <4>2. QED
        BY <1>3, <3>1, <4>1 DEF Sound
    <3>3. WithinSpan(j, k + 1)'
      BY <1>7, <1>19, <1>20, <2>0, <2>2, <3>1 DEF WithinSpan
    <3>4. StartsWithFirst(j)'
      <4>1. SUFFICES ASSUME contents[i].game, i = G(1) + 1
                     PROVE  d.files[1].path = GameFiles[1]
        BY <1>7, <1>19, <2>2, <3>1 DEF StartsWithFirst
      <4>2. CASE c.files = <<>>
        <5>1. s = 0
          BY <1>10, <4>2
        <5>2. s + 1 = 1 /\ p = GameFiles[1]
          BY <1>8, <1>20, <4>1, <4>2, <5>1
        <5>3. d.files[1] = f /\ f.path = p
          BY <1>10, <1>11, <5>2
        <5>4. QED
          BY <5>2, <5>3
      <4>3. CASE c.files # <<>>
        <5>1. 1 \in 1 .. s
          <6>1. \A t \in Seq(PlacedFiles) : t # <<>> => 1 \in 1 .. Len(t)
            OBVIOUS
          <6>2. QED
            BY <1>9, <1>10, <4>3, <6>1
        <5>2. d.files[1] = c.files[1]
          BY <1>11, <5>1
        <5>3. StartsWithFirst(i)
          BY <1>15, <2>2
        <5>4. contents[i].files[1].path = GameFiles[1]
          BY <1>8, <4>1, <4>3, <5>3 DEF StartsWithFirst
        <5>5. QED
          BY <1>8, <5>2, <5>4
      <4>4. QED
        BY <4>2, <4>3
    <3>5. QED
      BY <3>2, <3>3, <3>4
  <2>3. QED
    BY <2>1, <2>2
<1>22. Flattened(k + 1)'
  <2>1. nodes'[1] = Root' /\ Len(nodes') = (k + 1) + 1 /\ 2 .. Len(contents') = 2 .. m
    <3>1. 1 \in 1 .. k + 1 /\ (k + 1) + 1 = k + 2
      BY ONLY <1>5
    <3>2. QED
      BY <1>7, <1>12, <1>15, <1>17, <3>1
  <2>2. QED
    BY <1>17, <1>18, <1>21, <2>1 DEF Flattened
<1>23. Flattened(pos - 1)' /\ pos' <= Len(Order') + 1
  BY <1>5, <1>7, <1>22
<1>24. QED
  BY <1>3, <1>6, <1>13, <1>14, <1>23 DEF IInv, Stage

\* The sectors of a content hold it.
LEMMA SectorsAre ==
    ASSUME NEW len \in Nat
    PROVE  SectorsOf(len) \in Nat /\ SectorsOf(len) * Sector >= len
<1> DEFINE l == IF len = 0 THEN 1 ELSE len
           a == AlignUp(l, Sector)
<1>1. l \in Nat /\ l >= len /\ Sector \in Nat \ {0}
  BY PlanAssumption DEF PlanAssumption
<1>2. SectorsOf(len) = a \div Sector
  BY DEF SectorsOf
<1> HIDE DEF l
<1>3. a \in Nat /\ l <= a /\ (a \div Sector) * Sector = a
  BY <1>1, Aligned
<1> HIDE DEF a
<1>4. a \div Sector \in Nat
  BY <1>1, <1>3
<1>5. a >= len
  BY <1>1, <1>3
<1>6. QED
  BY <1>2, <1>3, <1>4, <1>5

\* The FST gets its length when its nodes are final.
LEMMA SizeFstStep == IInv /\ SizeFst => IInv'
<1>1. SUFFICES ASSUME IInv, SizeFst PROVE IInv'
  OBVIOUS
<1>0. PICK k, len, m : k = pos - 1 /\ len = FstLen(Len(contents), Len(nodes)) /\ m = Len(contents)
  OBVIOUS
<1>2. /\ Shape /\ Intact /\ Fresh /\ Untouched /\ Complete /\ Flattened(k)
      /\ pos <= Len(Order) + 1
  BY <1>0, <1>1 DEF IInv, Stage, SizeFst
<1>3. /\ pc' = "table" /\ pos' = 1 /\ pos > Len(Order)
      /\ contents' = [contents EXCEPT ![1].len = len]
      /\ tree' = tree /\ UNCHANGED <<clusterOf, group, nodes>>
      /\ UNCHANGED <<cursor, table, damaged, skip, stack, paths, decoded, out>>
  BY <1>0, <1>1 DEF SizeFst, extraction
<1>4. tree \in Trees /\ pos \in Nat \ {0} /\ Len(Order) \in Nat
  BY <1>2, <1>3, OrderIs DEF Shape
<1>5. k = Len(Order)
  BY ONLY <1>0, <1>2, <1>3, <1>4
<1>6. Intact' /\ Untouched' /\ Fresh'
  BY <1>2, <1>3, IntactStays, UntouchedStays DEF Fresh
<1>7. /\ GameFiles' = GameFiles /\ Room' = Room /\ Files' = Files /\ Order' = Order
      /\ Root' = Root /\ \A j : DirNode(j)' = DirNode(j)
  BY <1>3, TreeStays
<1>8. /\ contents \in Seq(Contents) /\ m \in Nat /\ m > 0 /\ DOMAIN contents = 1 .. m
      /\ nodes \in Seq(Nodes) /\ len = SerializedLen(m, Len(nodes)) /\ len \in Nat
  <2>1. contents \in Seq(Contents) /\ m \in Nat /\ m > 0 /\ DOMAIN contents = 1 .. m
    BY <1>0, <1>2 DEF Shape
  <2>2. nodes \in Seq(Nodes)
    BY <1>2 DEF Flattened
  <2>3. Len(nodes) \in Nat /\ len = SerializedLen(m, Len(nodes))
    BY <1>0, <2>2 DEF FstLen
  <2>4. QED
    BY <2>1, <2>2, <2>3 DEF SerializedLen
<1>9. /\ contents' \in Seq(Contents) /\ Len(contents') = m /\ DOMAIN contents' = 1 .. m
      /\ \A j \in 2 .. m : contents'[j] = contents[j]
      /\ \A j \in 1 .. m : contents'[j].game = contents[j].game
      /\ contents'[1].len = len
  <2>1. PICK c, d : c = contents[1] /\ d = [contents[1] EXCEPT !.len = len]
    OBVIOUS
  <2>2. 1 \in 1 .. m /\ c \in Contents
    BY <1>8, <2>1
  <2>3. d \in Contents /\ d.game = c.game /\ d.len = len
    BY <1>8, <2>1, <2>2 DEF Contents
  <2>4. contents' = [contents EXCEPT ![1] = d]
    BY <1>3, <2>1
  <2>5. /\ contents' \in Seq(Contents) /\ Len(contents') = m /\ DOMAIN contents' = 1 .. m
        /\ contents'[1] = d /\ \A j \in 1 .. m : j # 1 => contents'[j] = contents[j]
    BY ONLY <1>0, <1>8, <2>2, <2>3, <2>4
  <2>6. \A j \in 2 .. m : j \in 1 .. m /\ j # 1
    BY ONLY <1>8
  <2>7. \A j \in 1 .. m : contents'[j].game = contents[j].game
    BY <2>1, <2>3, <2>5
  <2>8. QED
    BY <2>3, <2>5, <2>6, <2>7
<1>10. \A q \in DOMAIN clusterOf :
         /\ q \in Files /\ clusterOf[q] \in 1 .. m - 1 /\ clusterOf[q] + 1 \in 2 .. m
         /\ contents[clusterOf[q] + 1].game <=> q[1] = "content"
  <2>1. ASSUME NEW q \in DOMAIN clusterOf
        PROVE  /\ q \in Files /\ clusterOf[q] \in 1 .. m - 1
               /\ contents[clusterOf[q] + 1].game <=> q[1] = "content"
    BY <1>0, <1>2 DEF Shape
  <2>2. ASSUME NEW w \in 1 .. m - 1 PROVE w + 1 \in 2 .. m
    BY ONLY <1>8
  <2>3. QED
    BY <2>1, <2>2
<1>11. Shape'
  <2>1. Contents' = Contents
    BY <1>7 DEF Contents, PlacedFiles
  <2>2. \A q \in DOMAIN clusterOf : contents'[clusterOf[q] + 1].game <=> q[1] = "content"
    BY <1>9, <1>10
  <2>3. DOMAIN clusterOf \subseteq Files
    BY <1>10
  <2>4. QED
    BY <1>3, <1>4, <1>7, <1>8, <1>9, <1>10, <2>1, <2>2, <2>3 DEF Shape, Flat
<1>12. Complete'
  BY <1>0, <1>2, <1>3, <1>8, <1>9, CompleteStays
<1>13. Flattened(k)'
  <2>1. ASSUME NEW j \in 1 .. k PROVE Described(j)'
    <3>1. Described(j)
      BY <1>2 DEF Flattened
    <3>2. CASE Order[j] \notin Files
      BY <1>3, <1>7, <3>1, <3>2 DEF Described
    <3>3. CASE Order[j] \in Files
      <4>1. contents'[clusterOf[Order[j]] + 1] = contents[clusterOf[Order[j]] + 1]
        BY <1>2, <1>9, <1>10, <3>3 DEF Complete
      <4>2. QED
        BY <1>3, <1>7, <3>1, <3>3, <4>1 DEF Described
    <3>4. QED
      BY <3>2, <3>3
  <2>2. /\ \A a : G(a)' = G(a)
        /\ \A a, b : Span(a, b)' = Span(a, b)
    BY <1>3, <1>7 DEF G, Span
  <2>3. ASSUME NEW j \in 2 .. m
        PROVE  Sound(contents[j])' /\ WithinSpan(j, k)' /\ StartsWithFirst(j)'
    <3>1. contents'[j] = contents[j] /\ Sound(contents[j]) /\ WithinSpan(j, k) /\ StartsWithFirst(j)
      BY <1>0, <1>2, <1>9 DEF Flattened
    <3>2. Sound(contents[j])'
      BY <1>3, <3>1 DEF Sound
    <3>3. WithinSpan(j, k)'
      BY <1>7, <2>2, <3>1 DEF WithinSpan
    <3>4. StartsWithFirst(j)'
      BY <1>7, <2>2, <3>1 DEF StartsWithFirst
    <3>5. QED
      BY <3>2, <3>3, <3>4
  <2>4. QED
    BY <1>2, <1>3, <1>7, <1>9, <2>1, <2>3 DEF Flattened
<1>14. Laid'
  <2>1. Flattened(Len(Order))'
    BY <1>5, <1>7, <1>13
  <2>2. contents'[1].len = SerializedLen(Len(contents'), Len(nodes'))
    BY <1>3, <1>8, <1>9
  <2>3. QED
    BY <1>12, <2>1, <2>2 DEF Laid, SerializedLen
<1>15. Slots(pos - 1)' /\ pos' <= Len(contents') + 1
  <2>1. pos' - 1 = 0 /\ 1 <= m + 1
    BY <1>3, <1>8
  <2>2. Slots(0)'
    <3>1. table' = <<>> /\ cursor' = 0
      BY <1>6 DEF Fresh
    <3>2. /\ table' \in Seq([off : Nat, size : Nat]) /\ Len(table') = 0
          /\ 1 .. 0 = {} /\ 1 .. 0 - 1 = {}
      BY <3>1
    <3>3. QED
      BY <3>1, <3>2 DEF Slots
  <2>3. QED
    BY <1>3, <1>9, <2>1, <2>2
<1>16. QED
  BY <1>3, <1>6, <1>11, <1>14, <1>15 DEF IInv, Stage

\* Each content gets the next slot.
LEMMA TableSlotStep == IInv /\ TableSlot => IInv'
<1>1. SUFFICES ASSUME IInv, TableSlot PROVE IInv'
  OBVIOUS
<1>0. PICK k, size, m, slot : /\ k = pos - 1 /\ size = SectorsOf(contents[pos].len)
                              /\ m = Len(contents) /\ slot = [off |-> cursor, size |-> size]
  OBVIOUS
<1>2. /\ Shape /\ Intact /\ Untouched /\ Laid /\ Slots(k) /\ pos <= m
  BY <1>0, <1>1 DEF IInv, Stage, TableSlot
<1>3. /\ pc' = "table" /\ pos' = pos + 1
      /\ table' = Append(table, slot) /\ cursor' = cursor + size
      /\ tree' = tree /\ UNCHANGED <<contents, clusterOf, group, nodes>>
      /\ UNCHANGED <<damaged, skip, stack, paths, decoded, out>>
  BY <1>0, <1>1 DEF TableSlot, extraction
<1>4. /\ pos \in Nat \ {0} /\ pos' \in Nat \ {0} /\ m \in Nat
      /\ DOMAIN contents = 1 .. m /\ contents \in Seq(Contents)
  BY <1>0, <1>2, <1>3 DEF Shape
<1>5. Shape' /\ Intact' /\ Untouched' /\ Laid'
  BY <1>2, <1>3, <1>4, ShapeStays, IntactStays, UntouchedStays, LaidStays DEF Flat
<1>6. /\ k \in Nat /\ k + 1 = pos /\ k + 1 \in 1 .. m /\ pos' - 1 = k + 1 /\ pos' <= m + 1
      /\ \A i \in 1 .. k + 1 : i \in 1 .. k \/ i = k + 1
      /\ (k + 1) - 1 = k /\ k + 1 # 0
  BY ONLY <1>0, <1>2, <1>3, <1>4
<1>7. /\ table \in Seq([off : Nat, size : Nat]) /\ Len(table) = k
      /\ \A i \in 1 .. k : table[i].size = SectorsOf(contents[i].len)
      /\ \A i \in 1 .. k - 1 : table[i + 1].off = table[i].off + table[i].size
      /\ cursor = IF k = 0 THEN 0 ELSE table[k].off + table[k].size
  BY <1>2 DEF Slots
<1>8. size \in Nat
  <2>1. contents[pos] \in Contents
    BY <1>4, <1>6
  <2>2. contents[pos].len \in Nat
    BY <2>1 DEF Contents
  <2>3. QED
    BY <1>0, <2>2, SectorsAre
<1>9. cursor \in Nat
  <2>1. CASE k = 0
    BY <1>7, <2>1
  <2>2. CASE k # 0
    <3>1. k \in 1 .. k
      BY ONLY <1>6, <2>2
    <3> DEFINE T == [off : Nat, size : Nat]
    <3>2. table[k] \in T
      <4>1. table \in Seq(T) /\ Len(table) = k
        BY <1>7
      <4> HIDE DEF T
      <4>2. QED
        BY ONLY <3>1, <4>1
    <3>3. table[k].off \in Nat /\ table[k].size \in Nat
      BY <3>1, <3>2
    <3>4. QED
      BY <1>7, <2>2, <3>3
  <2>3. QED
    BY <2>1, <2>2
<1>10. /\ table' \in Seq([off : Nat, size : Nat]) /\ Len(table') = k + 1
       /\ \A i \in 1 .. k : table'[i] = table[i]
       /\ table'[k + 1] = slot
  <2> DEFINE T == [off : Nat, size : Nat]
  <2>1. slot \in T /\ table \in Seq(T)
    BY <1>0, <1>7, <1>8, <1>9
  <2> HIDE DEF T
  <2>2. table' \in Seq(T) /\ Len(table') = k + 1 /\ table'[k + 1] = slot
        /\ \A i \in 1 .. k : table'[i] = table[i]
    BY ONLY <1>3, <1>6, <1>7, <2>1, Appended
  <2>3. QED
    BY <2>2 DEF T
<1>11. slot.off = cursor /\ slot.size = size
  BY <1>0
<1>12. Slots(k + 1)'
  <2>1. ASSUME NEW i \in 1 .. k + 1 PROVE table'[i].size = SectorsOf(contents[i].len)
    BY <1>0, <1>6, <1>7, <1>10, <1>11
  <2>2. ASSUME NEW i \in 1 .. (k + 1) - 1
        PROVE  table'[i + 1].off = table'[i].off + table'[i].size
    <3>1. i \in 1 .. k /\ (i \in 1 .. k - 1 \/ i = k)
      BY ONLY <1>6
    <3>2. CASE i \in 1 .. k - 1
      <4>1. i + 1 \in 1 .. k
        BY ONLY <1>6, <3>2
      <4>2. QED
        BY <1>7, <1>10, <3>1, <3>2, <4>1
    <3>3. CASE i = k
      <4>1. k # 0
        BY ONLY <1>6, <3>1, <3>3
      <4>2. QED
        BY <1>7, <1>10, <1>11, <3>1, <3>3, <4>1
    <3>4. QED
      BY <3>1, <3>2, <3>3
  <2>3. cursor' = table'[k + 1].off + table'[k + 1].size
    BY <1>3, <1>10, <1>11
  <2>4. \A i \in 1 .. k + 1 : SectorsOf(contents[i].len)' = SectorsOf(contents[i].len)
    BY <1>3 DEF SectorsOf, AlignUp
  <2>5. QED
    BY <1>3, <1>6, <1>10, <2>1, <2>2, <2>3, <2>4 DEF Slots
<1>13. Slots(pos - 1)' /\ pos' <= Len(contents') + 1
  BY <1>0, <1>3, <1>6, <1>12
<1>14. QED
  BY <1>3, <1>5, <1>13 DEF IInv, Stage

-----------------------------------------------------------------------------
(***************************************************************************)
(* The paths that node_paths reads out of the FST.                         *)
(***************************************************************************)
\* The contents may be damaged on the way; the plan stays.
LEMMA DeliverStep == IInv /\ Deliver => IInv'
<1>1. SUFFICES ASSUME IInv, Deliver PROVE IInv'
  OBVIOUS
<1>0. PICK k, m : k = pos - 1 /\ m = Len(contents)
  OBVIOUS
<1>2. Shape /\ Intact /\ Untouched /\ Laid /\ Slots(k) /\ pos <= m + 1 /\ pos > m
  BY <1>0, <1>1 DEF IInv, Stage, Deliver
<1>3. /\ pc' = "parse" /\ pos' = pos /\ tree' = tree
      /\ UNCHANGED <<contents, clusterOf, group, nodes, cursor, table>>
      /\ UNCHANGED <<decoded, out>>
  BY <1>1 DEF Deliver, plan
<1>4. pos \in Nat \ {0} /\ m \in Nat
  BY <1>0, <1>2 DEF Shape
<1>5. k = m
  BY ONLY <1>0, <1>2, <1>4
<1>6. Shape'
  BY <1>2, <1>3, <1>4, ShapeStays DEF Flat
<1>7. Files' = Files /\ InFst' = InFst /\ Order' = Order /\ \A p : Bytes(p)' = Bytes(p)
  BY <1>3, TreeStays
<1>8. Intact'
  <2>1. decoded' = {}
    BY <1>2, <1>3 DEF Untouched
  <2>2. \A p : FitsFields(p)' = FitsFields(p)
    BY <1>3, FitsStays
  <2>3. QED
    BY <1>2, <1>3, <1>7, <2>1, <2>2 DEF Intact
<1>9. Untouched'
  <2>1. out.dirs = {} /\ DOMAIN out.files = {} /\ 1 .. 0 = {} /\ decoded = {}
    BY <1>2 DEF Untouched, Extracted
  <2>2. QED
    BY <1>3, <2>1 DEF Untouched, Extracted
<1>10. Layout'
  <2>1. Layout
    BY <1>0, <1>2, <1>5 DEF Layout
  <2>2. QED
    BY <1>3, <2>1, LayoutStays DEF plan
<1>11. QED
  BY <1>3, <1>6, <1>8, <1>9, <1>10 DEF IInv, Stage

\* What the extraction uses of a layout.
LEMMA LayoutIs ==
    ASSUME Shape, Layout
    PROVE  /\ tree \in Trees /\ Len(Order) \in Nat
           /\ nodes \in Seq(Nodes) /\ Len(nodes) = Len(Order) + 1 /\ nodes[1] = Root
           /\ \A j \in 1 .. Len(Order) : Described(j)
           /\ \A q \in Files : q \in DOMAIN clusterOf /\ clusterOf[q] \in 1 .. Len(contents) - 1
           /\ \A i \in 2 .. Len(contents) : Sound(contents[i])
           /\ Len(contents) \in Nat /\ contents \in Seq(Contents)
<1>1. /\ tree \in Trees /\ contents \in Seq(Contents)
      /\ \A q \in DOMAIN clusterOf : clusterOf[q] \in 1 .. Len(contents) - 1
  BY DEF Shape
<1>2. Flattened(Len(Order)) /\ Files \subseteq DOMAIN clusterOf
  BY DEF Layout, Laid, Complete
<1>3. Len(Order) \in Nat
  BY <1>1, OrderIs
<1>4. QED
  BY <1>1, <1>2, <1>3 DEF Flattened

\* The walk begins with the root's range open.
LEMMA ReadFstStep == IInv /\ ReadFst => IInv'
<1>1. SUFFICES ASSUME IInv, ReadFst PROVE IInv'
  OBVIOUS
<1>2. Shape /\ Intact /\ Untouched /\ Layout
  BY <1>1 DEF IInv, Stage, ReadFst
<1>3. /\ pc' = "paths" /\ pos' = 2 /\ tree' = tree
      /\ stack' = <<[end |-> nodes[1].end, path |-> <<>>]>>
      /\ paths' = << <<>> >>
      /\ UNCHANGED <<contents, clusterOf, group, nodes, cursor, table>>
      /\ UNCHANGED <<damaged, skip, decoded, out>>
  BY <1>1 DEF ReadFst, plan
<1>4. tree \in Trees /\ Len(Order) \in Nat /\ nodes[1].end = Len(Order) + 1
  <2>1. tree \in Trees /\ Len(Order) \in Nat /\ nodes[1] = Root
    BY <1>2, LayoutIs
  <2>2. Root.end = Len(Order) + 1
    BY DEF Root
  <2>3. QED
    BY <2>1, <2>2
<1>5. Shape' /\ Intact' /\ Untouched' /\ Layout'
  BY <1>2, <1>3, ShapeStays, IntactStays, UntouchedStays, LayoutStays DEF Flat, plan
<1>6. Order' = Order
  BY <1>3, TreeStays
<1>7. Pathed(0)'
  <2>1. << <<>> >> \in Seq(Seq(Names))
    OBVIOUS
  <2>2. paths' \in Seq(Seq(Names)) /\ Len(paths') = 0 + 1 /\ paths'[1] = <<>> /\ 1 .. 0 = {}
    BY <1>3, <2>1
  <2>3. QED
    BY <2>2 DEF Pathed
<1>8. Stacked(0)'
  <2>1. PICK top, e : top = [end |-> e, path |-> <<>>] /\ e = Len(Order) + 1
    OBVIOUS
  <2>2. top \in [end : Nat, path : Seq(Names)] /\ top.path = <<>> /\ top.end = e
    BY <1>4, <2>1
  <2>3. stack' = <<top>>
    BY <1>3, <1>4, <2>1
  <2>4. /\ stack' \in Seq([end : Nat, path : Seq(Names)]) /\ Len(stack') = 1
        /\ DOMAIN stack' = {1} /\ stack'[1] = top
    BY ONLY <2>2, <2>3
  <2>5. Within(0)' = <<>> /\ Len(<<>>) = 0 /\ 0 + 1 = 1
    BY DEF Within
  <2>6. SubSeq(<<>>, 1, 1 - 1) = <<>>
    OBVIOUS
  <2>7. ASSUME NEW x \in 1 .. Len(Order)
        PROVE  x < top.end /\ IsStrictPrefix(top.path, Order[x])
    <3>1. Order[x] \in Seq(Names) /\ Len(Order[x]) > 0
      BY <1>4, OrderIs, InFstIs, TreeIs
    <3>2. IsStrictPrefix(<<>>, Order[x])
      <4>1. PICK z, q : z = <<>> /\ q = Order[x]
        OBVIOUS
      <4>2. z \in Seq(Names) /\ Len(z) = 0 /\ 1 .. Len(z) = {}
        BY <4>1
      <4>3. IsStrictPrefix(z, q)
        <5>1. q \in Seq(Names) /\ Len(q) > 0
          BY <3>1, <4>1
        <5>2. Len(z) < Len(q) /\ \A i \in 1 .. Len(z) : z[i] = q[i]
          BY ONLY <4>2, <5>1
        <5>3. QED
          BY ONLY <4>2, <5>1, <5>2, PrefixIs
      <4>4. QED
        BY <4>1, <4>3
    <3>3. x < e
      BY ONLY <1>4, <2>1
    <3>4. QED
      BY <2>2, <3>2, <3>3
  <2>8. QED
    BY <1>6, <2>2, <2>4, <2>5, <2>6, <2>7 DEF Stacked
<1>9. pos' \in 2 .. Len(Order') + 2 /\ pos' - 2 = 0
  BY <1>3, <1>4, <1>6
<1>10. Pathed(pos - 2)' /\ Stacked(pos - 2)'
  BY <1>7, <1>8, <1>9
<1>11. QED
  BY <1>3, <1>5, <1>9, <1>10 DEF IInv, Stage

\* The directory of the next entry is open behind the entry before it.
LEMMA WithinIs ==
    ASSUME tree \in Trees, NEW n \in 0 .. Len(Order) - 1, NEW q, q = Order[n + 1]
    PROVE  /\ Within(n) \in Seq(Names) /\ q \in Seq(Names) /\ Len(q) \in Nat \ {0}
           /\ Len(q) - 1 <= Len(Within(n))
           /\ \A i \in 1 .. Len(q) - 1 : Within(n)[i] = q[i]
<1>1. /\ Len(Order) \in Nat /\ \A i \in 1 .. Len(Order) : Order[i] \in InFst
      /\ \A i, j \in 1 .. Len(Order) : i < j <=> Before(Order[i], Order[j])
      /\ \A p \in InFst : \E i \in 1 .. Len(Order) : Order[i] = p
  BY OrderIs
<1>2. \A p \in InFst : /\ p \in Seq(Names) /\ Len(p) \in Nat /\ Len(p) > 0 /\ p # <<>>
                       /\ Len(p) > 1 => Front(p) \in InFst \ Files
  BY InFstIs, TreeIs
<1>3. /\ n \in Nat /\ n + 1 \in 1 .. Len(Order) /\ n <= Len(Order)
      /\ n # 0 => n \in 1 .. Len(Order) /\ n < n + 1
  BY ONLY <1>1
<1>4. q \in InFst /\ q \in Seq(Names) /\ Len(q) \in Nat \ {0} /\ q # <<>>
  BY <1>1, <1>2, <1>3
<1>5. /\ Front(q) \in Seq(Names) /\ Len(Front(q)) = Len(q) - 1 /\ IsStrictPrefix(Front(q), q)
      /\ \A i \in 1 .. Len(q) - 1 : Front(q)[i] = q[i]
  BY <1>4, FrontIs
<1>6. Within(n) \in Seq(Names)
  <2>1. CASE n = 0
    BY <2>1 DEF Within
  <2>2. CASE n # 0
    <3>1. Order[n] \in Seq(Names) /\ Order[n] # <<>>
      BY <1>1, <1>2, <1>3, <2>2
    <3>2. Front(Order[n]) \in Seq(Names)
      BY <3>1, FrontIs
    <3>3. QED
      BY <2>2, <3>1, <3>2 DEF Within
  <2>3. QED
    BY <2>1, <2>2
<1>7. CASE Len(q) = 1
  <2>1. 1 .. Len(q) - 1 = {} /\ Len(q) - 1 = 0
    BY ONLY <1>7
  <2>2. Len(Within(n)) \in Nat
    BY <1>6
  <2>3. Len(q) - 1 <= Len(Within(n))
    <3>1. PICK x, y : x = Len(q) - 1 /\ y = Len(Within(n))
      OBVIOUS
    <3>2. x = 0 /\ y \in Nat
      BY <2>1, <2>2, <3>1
    <3>3. x <= y
      BY ONLY <3>2
    <3>4. QED
      BY <3>1, <3>3
  <2>4. QED
    BY <1>4, <1>6, <2>1, <2>3
<1>8. CASE Len(q) # 1
  <2>0. PICK d, l : d = Front(q) /\ l = Len(q) - 1
    OBVIOUS
  <2>1. Len(q) > 1 /\ l \in Nat
    BY ONLY <1>4, <1>8, <2>0
  <2>2. d \in InFst \ Files /\ d \in Seq(Names) /\ Len(d) = l
    BY <1>2, <1>4, <1>5, <2>0, <2>1
  <2>3. PICK j \in 1 .. Len(Order) : Order[j] = d
    BY <1>1, <2>2
  <2>4. Before(d, q)
    BY <1>4, <1>5, <2>0, <2>2, BeforeIs
  <2>5. j < n + 1
    BY <1>1, <1>3, <2>3, <2>4
  <2>6. n # 0 /\ (j = n \/ j < n)
    BY ONLY <1>3, <2>3, <2>5
  <2>7. PICK w : w = Order[n]
    OBVIOUS
  <2>8. w \in InFst /\ w \in Seq(Names) /\ w # <<>> /\ Before(w, q) /\ Len(w) \in Nat
    BY <1>1, <1>2, <1>3, <2>6, <2>7
  <2>9. CASE j = n
    <3>1. Within(n) = d
      BY <2>2, <2>3, <2>6, <2>9 DEF Within
    <3>2. QED
      BY <1>4, <1>5, <1>6, <2>0, <2>1, <2>2, <3>1
  <2>10. CASE j < n
    <3>1. Before(d, w)
      BY <1>1, <1>3, <2>3, <2>6, <2>7, <2>10
    <3>2. IsStrictPrefix(d, w)
      <4>1. IsStrictPrefix(d, q)
        BY <1>5, <2>0
      <4>2. QED
        BY ONLY <1>4, <2>2, <2>4, <2>8, <3>1, <4>1, Contiguous
    <3>3. l < Len(w) /\ \A i \in 1 .. l : d[i] = w[i]
      BY <2>2, <2>8, <3>2, PrefixIs
    <3>4. \A i \in 1 .. l : w[i] = q[i]
      BY <1>5, <2>0, <3>3
    <3>5. CASE w \in Files
      <4>1. Within(n) = Front(w)
        BY <2>6, <2>7, <3>5 DEF Within
      <4>2. Len(Front(w)) = Len(w) - 1 /\ \A i \in 1 .. Len(w) - 1 : Front(w)[i] = w[i]
        BY <2>8, FrontIs
      <4>3. l <= Len(w) - 1 /\ \A i \in 1 .. l : i \in 1 .. Len(w) - 1
        BY ONLY <2>1, <2>8, <3>3
      <4>4. QED
        BY <1>4, <1>6, <2>0, <3>4, <4>1, <4>2, <4>3
    <3>6. CASE w \notin Files
      <4>1. Within(n) = w /\ l <= Len(w)
        BY <2>1, <2>6, <2>7, <2>8, <3>3, <3>6 DEF Within
      <4>2. QED
        BY <1>4, <1>6, <2>0, <3>4, <4>1
    <3>7. QED
      BY <3>5, <3>6
  <2>11. QED
    BY <2>6, <2>9, <2>10
<1>9. QED
  BY <1>7, <1>8

\* Paths that agree on their first names have the same first part.
LEMMA SamePart ==
    ASSUME NEW p \in Seq(Names), NEW q \in Seq(Names), NEW k \in Nat,
           k <= Len(p), k <= Len(q), \A i \in 1 .. k : p[i] = q[i]
    PROVE  SubSeq(p, 1, k) = SubSeq(q, 1, k)
<1>1. k \in 0 .. Len(p) /\ k \in 0 .. Len(q)
  OBVIOUS
<1>2. PICK s, t : s = SubSeq(p, 1, k) /\ t = SubSeq(q, 1, k)
  OBVIOUS
<1>3. s \in Seq(Names) /\ Len(s) = k /\ t \in Seq(Names) /\ Len(t) = k
      /\ \A i \in 1 .. k : s[i] = p[i] /\ t[i] = q[i]
  BY <1>1, <1>2, FirstPart
<1>4. \A i \in 1 .. k : s[i] = t[i]
  BY <1>3
<1>5. s = t
  BY ONLY <1>3, <1>4
<1>6. QED
  BY <1>2, <1>5

\* The directories open at the next entry are those on the way to it.
LEMMA OpenIs ==
    ASSUME tree \in Trees, NEW n \in 0 .. Len(Order) - 1, Stacked(n), NEW q, q = Order[n + 1]
    PROVE  /\ Len(q) \in Nat \ {0} /\ Len(q) \in 1 .. Len(stack)
           /\ OpenAt(n + 1) = SubSeq(stack, 1, Len(q))
           /\ \A k \in 1 .. Len(q) : stack[k].path = SubSeq(q, 1, k - 1)
<1> DEFINE w == Within(n)
           l == Len(q)
           Frame == [end : Nat, path : Seq(Names)]
<1>1. /\ w \in Seq(Names) /\ q \in Seq(Names) /\ l \in Nat \ {0} /\ l - 1 <= Len(w)
      /\ \A i \in 1 .. l - 1 : w[i] = q[i]
  BY WithinIs
<1>2. /\ stack \in Seq(Frame) /\ Len(stack) = Len(w) + 1 /\ DOMAIN stack = 1 .. Len(w) + 1
      /\ \A k \in 1 .. Len(w) + 1 : stack[k].path = SubSeq(w, 1, k - 1)
      /\ \A k \in 1 .. Len(w) + 1 : n + 1 < stack[k].end <=> IsStrictPrefix(stack[k].path, q)
  <2>1. stack \in Seq(Frame) /\ Len(stack) = Len(w) + 1
    BY DEF Stacked
  <2>2. DOMAIN stack = 1 .. Len(w) + 1
    BY <2>1
  <2>3. n + 1 \in n + 1 .. Len(Order)
    BY OrderIs
  <2>4. QED
    BY <2>1, <2>2, <2>3 DEF Stacked
<1> HIDE DEF w, l, Frame
<1>3. Len(w) \in Nat /\ l \in 1 .. Len(w) + 1
  BY <1>1
<1>4. ASSUME NEW k \in 1 .. l PROVE SubSeq(w, 1, k - 1) = SubSeq(q, 1, k - 1)
  <2>1. k - 1 \in Nat /\ k - 1 <= Len(w) /\ k - 1 <= l /\ \A i \in 1 .. k - 1 : i \in 1 .. l - 1
    BY ONLY <1>1, <1>3
  <2>2. QED
    BY <1>1, <2>1, SamePart DEF l
<1>5. ASSUME NEW k \in 1 .. Len(w) + 1
      PROVE  IsStrictPrefix(SubSeq(w, 1, k - 1), q) <=> k <= l
  <2>0. PICK j, s : j = k - 1 /\ s = SubSeq(w, 1, j)
    OBVIOUS
  <2>1. j \in 0 .. Len(w)
    BY ONLY <1>3, <2>0
  <2>2. s \in Seq(Names) /\ Len(s) = j /\ \A i \in 1 .. j : s[i] = w[i]
    BY <1>1, <2>0, <2>1, FirstPart
  <2>3. IsStrictPrefix(s, q) <=> j < l /\ \A i \in 1 .. j : s[i] = q[i]
    BY <1>1, <2>2, PrefixIs DEF l
  <2>4. ASSUME j < l PROVE \A i \in 1 .. j : s[i] = q[i]
    <3>1. \A i \in 1 .. j : i \in 1 .. l - 1
      BY ONLY <1>1, <2>1, <2>4
    <3>2. QED
      BY <1>1, <2>2, <3>1
  <2>5. j < l <=> k <= l
    BY ONLY <1>1, <1>3, <2>0
  <2>6. QED
    BY <2>0, <2>3, <2>4, <2>5
<1>6. PICK open : open = {k \in DOMAIN stack : n + 1 < stack[k].end}
  OBVIOUS
<1>7. open = 1 .. l
  <2>1. \A k : k \in open <=> k \in 1 .. Len(w) + 1 /\ k <= l
    BY <1>2, <1>5, <1>6
  <2>2. PICK m : m = Len(w) + 1
    OBVIOUS
  <2>3. l \in 1 .. m /\ m \in Nat
    BY <1>3, <2>2
  <2>4. \A k : k \in 1 .. m /\ k <= l <=> k \in 1 .. l
    BY ONLY <2>3
  <2>5. \A k : k \in open <=> k \in 1 .. l
    BY ONLY <2>1, <2>2, <2>4
  <2>6. QED
    BY <1>6, <2>5
<1>8. Max(open) = l /\ open # {}
  <2>1. open \in SUBSET Nat /\ open # {} /\ \A k \in open : k <= l
    BY ONLY <1>1, <1>7
  <2>2. Max(open) \in open /\ \A k \in open : k <= Max(open)
    BY <1>1, <2>1, MaxIs
  <2>3. l \in open
    BY ONLY <1>1, <1>7
  <2>4. PICK x : x = Max(open)
    OBVIOUS
  <2>5. x \in 1 .. l /\ l <= x
    BY <1>7, <2>2, <2>3, <2>4
  <2>6. x = l
    BY ONLY <1>1, <2>5
  <2>7. QED
    BY <2>1, <2>4, <2>6
<1>9. OpenAt(n + 1) = SubSeq(stack, 1, l)
  BY <1>6, <1>8 DEF OpenAt
<1>10. \A k \in 1 .. l : k \in 1 .. Len(w) + 1
  BY ONLY <1>3
<1>11. QED
  BY <1>1, <1>2, <1>3, <1>4, <1>9, <1>10 DEF l

\* What a node says of its entry.
LEMMA NodeIs ==
    ASSUME NEW j, Described(j)
    PROVE  /\ nodes[j + 1].name = Last(Order[j])
           /\ nodes[j + 1].kind = "file" <=> Order[j] \in Files
           /\ nodes[j + 1].kind = "dir" <=> Order[j] \notin Files
           /\ Order[j] \notin Files => nodes[j + 1] = DirNode(j)
<1>1. CASE Order[j] \in Files
  <2>1. PICK node : node = nodes[j + 1]
    OBVIOUS
  <2>2. node = [kind |-> "file", name |-> Last(Order[j]), cluster |-> clusterOf[Order[j]],
                off |-> node.off, size |-> tree.sizes[Order[j]]]
    BY <1>1, <2>1 DEF Described
  <2>3. node.kind = "file" /\ node.name = Last(Order[j])
    BY ONLY <2>2
  <2>4. QED
    BY <1>1, <2>1, <2>3
<1>2. CASE Order[j] \notin Files
  <2>1. nodes[j + 1] = DirNode(j)
    BY <1>2 DEF Described
  <2>2. DirNode(j).kind = "dir" /\ DirNode(j).name = Last(Order[j])
    BY DEF DirNode
  <2>3. QED
    BY <1>2, <2>1, <2>2
<1>3. QED
  BY <1>1, <1>2

\* A node's path is the entry's, and the stack is as its range leaves it.
LEMMA NodePathStep == IInv /\ NodePath => IInv'
<1>1. SUFFICES ASSUME IInv, NodePath PROVE IInv'
  OBVIOUS
<1>0. PICK n, q, node, open :
        n = pos - 2 /\ q = Order[n + 1] /\ node = nodes[pos] /\ open = OpenAt(pos - 1)
  OBVIOUS
<1>2. /\ Shape /\ Intact /\ Untouched /\ Layout
      /\ pos \in 2 .. Len(Order) + 2 /\ Pathed(n) /\ Stacked(n)
  BY <1>0, <1>1 DEF IInv, Stage, NodePath
<1>3. PICK path : path = Append(IF open = <<>> THEN <<>> ELSE Last(open).path, node.name)
  OBVIOUS
<1>4. /\ pc' = "paths" /\ pos' = pos + 1 /\ tree' = tree /\ pos <= Len(nodes)
      /\ paths' = Append(paths, path)
      /\ stack' = IF node.kind = "dir" THEN Append(open, [end |-> node.end, path |-> path])
                                       ELSE open
      /\ UNCHANGED <<contents, clusterOf, group, nodes, cursor, table>>
      /\ UNCHANGED <<damaged, skip, decoded, out>>
  BY <1>0, <1>1, <1>3 DEF NodePath, plan
<1>5. /\ tree \in Trees /\ Len(Order) \in Nat /\ Len(nodes) = Len(Order) + 1
      /\ \A j \in 1 .. Len(Order) : Described(j)
  BY <1>2, LayoutIs
<1>6. /\ n \in 0 .. Len(Order) - 1 /\ pos - 1 = n + 1 /\ pos = (n + 1) + 1 /\ n \in Nat
      /\ n + 1 \in 1 .. Len(Order) /\ pos' \in Nat \ {0} /\ pos' - 2 = n + 1
      /\ pos' \in 2 .. Len(Order) + 2 /\ n + 1 # 0
      /\ \A x \in (n + 1) + 1 .. Len(Order) : x \in n + 1 .. Len(Order) /\ x \in 1 .. Len(Order)
  BY ONLY <1>0, <1>2, <1>4, <1>5
<1>7. Shape' /\ Intact' /\ Untouched' /\ Layout'
  BY <1>2, <1>4, <1>6, ShapeStays, IntactStays, UntouchedStays, LayoutStays DEF Flat, plan
<1>8. Order' = Order /\ Files' = Files
  BY <1>4, TreeStays
<1>9. /\ node.name = Last(q) /\ (node.kind = "dir" <=> q \notin Files)
      /\ q \notin Files => node = DirNode(n + 1)
  BY <1>0, <1>5, <1>6, NodeIs
<1> DEFINE Frame == [end : Nat, path : Seq(Names)]
<1>10. PICK l : l = Len(q)
  OBVIOUS
<1>11. /\ l \in Nat \ {0} /\ l \in 1 .. Len(stack) /\ open = SubSeq(stack, 1, l)
       /\ \A k \in 1 .. l : stack[k].path = SubSeq(q, 1, k - 1)
       /\ q \in Seq(Names)
  BY <1>0, <1>2, <1>5, <1>6, <1>10, OpenIs, WithinIs
<1>12. /\ stack \in Seq(Frame) /\ DOMAIN stack = 1 .. Len(stack)
       /\ \A k \in DOMAIN stack : \A x \in n + 1 .. Len(Order) :
            x < stack[k].end <=> IsStrictPrefix(stack[k].path, Order[x])
  BY <1>2 DEF Stacked
<1> HIDE DEF Frame
<1>13. open \in Seq(Frame) /\ Len(open) = l /\ \A k \in 1 .. l : open[k] = stack[k]
  <2>1. l \in 0 .. Len(stack)
    BY <1>11, <1>12
  <2>2. QED
    BY <1>11, <1>12, <2>1, FirstPart
<1>14. path = q
  <2>1. open # <<>> /\ Last(open) = stack[l]
    <3>1. open # <<>>
      BY <1>11, <1>13
    <3>2. Last(open) = open[l]
      BY <1>13 DEF Last
    <3>3. l \in 1 .. l
      BY ONLY <1>11
    <3>4. QED
      BY <1>13, <3>1, <3>2, <3>3
  <2>2. Last(open).path = Front(q)
    BY <1>10, <1>11, <2>1 DEF Front
  <2>3. q = Append(Front(q), Last(q))
    <3>1. q # <<>>
      BY <1>10, <1>11
    <3>2. QED
      BY <1>11, <3>1, FrontIs
  <2>4. QED
    BY <1>3, <1>9, <2>1, <2>2, <2>3
<1>15. Pathed(n + 1)'
  <2>1. paths \in Seq(Seq(Names)) /\ Len(paths) = n + 1 /\ paths[1] = <<>>
        /\ \A j \in 1 .. n : paths[j + 1] = Order[j]
    BY <1>2 DEF Pathed
  <2> DEFINE T == Seq(Names)
  <2>2. q \in T /\ paths \in Seq(T) /\ paths' = Append(paths, q)
    BY <1>4, <1>11, <1>14, <2>1
  <2> HIDE DEF T
  <2>3. /\ paths' \in Seq(T) /\ Len(paths') = (n + 1) + 1
        /\ \A i \in 1 .. n + 1 : paths'[i] = paths[i]
        /\ paths'[(n + 1) + 1] = q
    BY ONLY <1>6, <2>1, <2>2, Appended
  <2>4. /\ 1 \in 1 .. n + 1
        /\ \A j \in 1 .. n + 1 : (j \in 1 .. n /\ j + 1 \in 1 .. n + 1) \/ j = n + 1
    BY ONLY <1>6
  <2>5. \A j \in 1 .. n + 1 : paths'[j + 1] = Order[j]
    BY <1>0, <2>1, <2>3, <2>4
  <2>6. QED
    BY <1>8, <2>1, <2>3, <2>4, <2>5 DEF Pathed, T
<1>16. ASSUME NEW k \in 1 .. l
       PROVE  /\ open[k].path = SubSeq(q, 1, k - 1)
              /\ \A x \in (n + 1) + 1 .. Len(Order) :
                   x < open[k].end <=> IsStrictPrefix(open[k].path, Order[x])
  <2>1. k \in DOMAIN stack
    BY <1>11, <1>12
  <2>2. QED
    BY <1>6, <1>11, <1>12, <1>13, <2>1
<1>17. Stacked(n + 1)'
  <2>1. CASE q \in Files
    <3>1. Within(n + 1)' = Front(q)
      BY <1>0, <1>6, <1>8, <2>1 DEF Within
    <3>2. /\ Front(q) \in Seq(Names) /\ Len(Front(q)) = l - 1
          /\ \A i \in 1 .. l - 1 : Front(q)[i] = q[i]
      <4>1. q # <<>>
        BY <1>10, <1>11
      <4>2. QED
        BY <1>10, <1>11, <4>1, FrontIs
    <3>3. stack' = open
      BY <1>4, <1>9, <2>1
    <3>4. ASSUME NEW k \in 1 .. l PROVE SubSeq(q, 1, k - 1) = SubSeq(Front(q), 1, k - 1)
      <4>1. k - 1 \in Nat /\ k - 1 <= l /\ k - 1 <= l - 1 /\ \A i \in 1 .. k - 1 : i \in 1 .. l - 1
        BY ONLY <1>11
      <4>2. \A i \in 1 .. k - 1 : q[i] = Front(q)[i]
        BY <3>2, <4>1
      <4>3. k - 1 <= Len(q) /\ k - 1 <= Len(Front(q))
        BY <1>10, <3>2, <4>1
      <4>4. QED
        BY <1>11, <3>2, <4>1, <4>2, <4>3, SamePart
    <3>5. stack' \in Seq(Frame) /\ Len(stack') = Len(Front(q)) + 1 /\ DOMAIN stack' = 1 .. l
      <4>1. (l - 1) + 1 = l
        BY ONLY <1>11
      <4>2. DOMAIN open = 1 .. Len(open)
        BY <1>13
      <4>3. QED
        BY <1>13, <3>2, <3>3, <4>1, <4>2
    <3>6. ASSUME NEW k \in DOMAIN stack'
          PROVE  /\ stack'[k].path = SubSeq(Front(q), 1, k - 1)
                 /\ \A x \in (n + 1) + 1 .. Len(Order) :
                      x < stack'[k].end <=> IsStrictPrefix(stack'[k].path, Order[x])
      BY <1>16, <3>3, <3>4, <3>5
    <3>7. QED
      BY <1>8, <3>1, <3>5, <3>6 DEF Stacked, Frame
  <2>2. CASE q \notin Files
    <3>1. Within(n + 1)' = q
      BY <1>0, <1>6, <1>8, <2>2 DEF Within
    <3>2. /\ DirNode(n + 1).end \in Nat
          /\ \A x \in (n + 1) + 1 .. Len(Order) :
               x < DirNode(n + 1).end <=> IsStrictPrefix(Order[n + 1], Order[x])
      BY <1>5, <1>6, DirNodeIs
    <3>3. PICK top : top = [end |-> node.end, path |-> q]
      OBVIOUS
    <3>4. top \in Frame /\ top.end = DirNode(n + 1).end /\ top.path = q
      BY <1>9, <1>11, <2>2, <3>2, <3>3 DEF Frame
    <3>5. stack' = Append(open, top)
      BY <1>4, <1>9, <1>14, <2>2, <3>3
    <3>6. /\ stack' \in Seq(Frame) /\ Len(stack') = l + 1 /\ DOMAIN stack' = 1 .. l + 1
          /\ \A k \in 1 .. l : stack'[k] = open[k]
          /\ stack'[l + 1] = top
      BY ONLY <1>13, <3>4, <3>5, Appended
    <3>7. SubSeq(q, 1, (l + 1) - 1) = q
      <4>1. (l + 1) - 1 = l
        BY ONLY <1>11
      <4>2. SubSeq(q, 1, Len(q)) = q
        BY <1>11
      <4>3. QED
        BY <1>10, <4>1, <4>2
    <3>8. ASSUME NEW k \in DOMAIN stack'
          PROVE  /\ stack'[k].path = SubSeq(q, 1, k - 1)
                 /\ \A x \in (n + 1) + 1 .. Len(Order) :
                      x < stack'[k].end <=> IsStrictPrefix(stack'[k].path, Order[x])
      <4>1. k \in 1 .. l \/ k = l + 1
        BY ONLY <1>11, <3>6
      <4>2. CASE k \in 1 .. l
        BY <1>16, <3>6, <4>2
      <4>3. CASE k = l + 1
        BY <1>0, <3>2, <3>4, <3>6, <3>7, <4>3
      <4>4. QED
        BY <4>1, <4>2, <4>3
    <3>9. QED
      BY <1>8, <1>10, <3>1, <3>6, <3>8 DEF Stacked, Frame
  <2>3. QED
    BY <2>1, <2>2
<1>18. Pathed(pos - 2)' /\ Stacked(pos - 2)' /\ pos' \in 2 .. Len(Order') + 2
  BY <1>6, <1>8, <1>15, <1>17
<1>19. QED
  BY <1>4, <1>7, <1>18 DEF IInv, Stage

\* Every node has its path when the loop ends.
LEMMA PathsDoneStep == IInv /\ PathsDone => IInv'
<1>1. SUFFICES ASSUME IInv, PathsDone PROVE IInv'
  OBVIOUS
<1>0. PICK n : n = pos - 2
  OBVIOUS
<1>2. /\ Shape /\ Intact /\ Untouched /\ Layout /\ pos \in 2 .. Len(Order) + 2 /\ Pathed(n)
  BY <1>0, <1>1 DEF IInv, Stage, PathsDone
<1>3. /\ pc' = "extract" /\ pos' = 1 /\ tree' = tree /\ pos > Len(nodes)
      /\ UNCHANGED <<contents, clusterOf, group, nodes, cursor, table>>
      /\ UNCHANGED <<damaged, skip, paths, decoded, out>>
  BY <1>1 DEF PathsDone, plan, extraction
<1>4. tree \in Trees /\ Len(Order) \in Nat /\ Len(nodes) = Len(Order) + 1
  BY <1>2, LayoutIs
<1>5. n = Len(Order) /\ 1 <= Len(Order) + 2
  BY ONLY <1>0, <1>2, <1>3, <1>4
<1>6. Shape' /\ Intact' /\ Untouched' /\ Layout'
  BY <1>2, <1>3, ShapeStays, IntactStays, UntouchedStays, LayoutStays DEF Flat, plan
<1>7. Order' = Order
  BY <1>3, TreeStays
<1>8. Pathed(Len(Order))'
  <2>1. Pathed(n)'
    BY <1>2, <1>3, PathedStays
  <2>2. QED
    BY <1>5, <1>7, <2>1
<1>9. pos' - 2 = -1 /\ pos' <= Len(Order') + 2
  BY <1>3, <1>4, <1>7
<1>10. Extracted(pos - 2)'
  <2>1. 1 .. -1 = {} /\ 1 .. 0 = {}
    OBVIOUS
  <2>2. Extracted(-1)'
    <3>1. out'.dirs = {} /\ DOMAIN out'.files = {}
      BY <1>6, <2>1 DEF Untouched, Extracted
    <3>2. QED
      BY <2>1, <3>1 DEF Extracted
  <2>3. QED
    BY <1>9, <2>2
<1>11. QED
  BY <1>3, <1>6, <1>8, <1>9, <1>10 DEF IInv, Stage

-----------------------------------------------------------------------------
(***************************************************************************)
(* The extraction.                                                         *)
(***************************************************************************)
\* The entries up to the next one.
LEMMA OneMore ==
    ASSUME NEW r \in Nat \ {0}, NEW p
    PROVE  (\E j \in 1 .. r : Order[j] = p) <=> (\E j \in 1 .. r - 1 : Order[j] = p) \/ p = Order[r]
<1>1. \A j : j \in 1 .. r <=> j \in 1 .. r - 1 \/ j = r
  OBVIOUS
<1>2. QED
  BY <1>1

\* What each turn of extract_title's loop starts from.
LEMMA TurnIs ==
    ASSUME Shape, Layout, Pathed(Len(Order)), pos <= Len(nodes), NEW r, r = pos - 1
    PROVE  /\ pos' = pos + 1 => pos' - 2 = r /\ pos' <= Len(Order) + 2
           /\ r = 0 => nodes[pos] = Root /\ paths[pos] = <<>> /\ pos - 2 = -1
           /\ r # 0 => /\ r \in Nat \ {0} /\ r \in 1 .. Len(Order) /\ pos - 2 = r - 1
                       /\ Described(r) /\ paths[pos] = Order[r] /\ nodes[r + 1] = nodes[pos]
                       /\ Order[r] \in InFst /\ Order[r] # <<>>
<1>1. /\ tree \in Trees /\ Len(Order) \in Nat /\ Len(nodes) = Len(Order) + 1 /\ nodes[1] = Root
      /\ \A j \in 1 .. Len(Order) : Described(j)
  BY LayoutIs
<1>2. pos \in Nat \ {0}
  BY DEF Shape
<1>3. /\ pos' = pos + 1 => pos' - 2 = r /\ pos' <= Len(Order) + 2
      /\ r = 0 => pos = 1 /\ pos - 2 = -1
      /\ r # 0 => r \in Nat \ {0} /\ r \in 1 .. Len(Order) /\ pos - 2 = r - 1 /\ r + 1 = pos
  BY <1>1, <1>2
<1>4. paths[1] = <<>> /\ \A j \in 1 .. Len(Order) : paths[j + 1] = Order[j]
  BY DEF Pathed
<1>5. \A j \in 1 .. Len(Order) : Order[j] \in InFst /\ Order[j] # <<>>
  <2>1. \A p \in InFst : p # <<>>
    BY <1>1, InFstIs, TreeIs
  <2>2. QED
    BY <1>1, <2>1, OrderIs
<1>6. r # 0 => Described(r) /\ paths[r + 1] = Order[r] /\ Order[r] \in InFst /\ Order[r] # <<>>
  BY <1>1, <1>3, <1>4, <1>5
<1>7. QED
  BY <1>1, <1>3, <1>4, <1>6

\* A directory is made where it was.
LEMMA ExtractDirStep == IInv /\ ExtractDir => IInv'
<1>1. SUFFICES ASSUME IInv, ExtractDir PROVE IInv'
  OBVIOUS
<1>0. PICK n, r, node, dirs :
        /\ n = pos - 2 /\ r = pos - 1 /\ node = nodes[pos]
        /\ dirs = IF paths[pos] = <<>> THEN out.dirs ELSE out.dirs \cup {paths[pos]}
  OBVIOUS
<1>2. Shape /\ Intact /\ Layout /\ Pathed(Len(Order)) /\ Extracted(n)
  BY <1>0, <1>1 DEF IInv, Stage, ExtractDir
<1>3. /\ pc' = "extract" /\ pos' = pos + 1 /\ tree' = tree /\ pos <= Len(nodes)
      /\ node.kind = "dir"
      /\ out' = [out EXCEPT !.dirs = dirs]
      /\ UNCHANGED <<contents, clusterOf, group, nodes, cursor, table>>
      /\ UNCHANGED <<damaged, skip, paths, decoded>>
  BY <1>0, <1>1 DEF ExtractDir, plan
<1>4. pos' \in Nat \ {0}
  BY <1>2, <1>3 DEF Shape
<1>5. Shape' /\ Layout'
  BY <1>2, <1>3, <1>4, ShapeStays, LayoutStays DEF Flat, plan
<1>6. Order' = Order /\ Files' = Files /\ InFst' = InFst /\ \A p : Bytes(p)' = Bytes(p)
  BY <1>3, TreeStays
<1>7. Pathed(Len(Order))'
  <2>1. PICK m : m = Len(Order)
    OBVIOUS
  <2>2. Pathed(m)
    BY <1>2, <2>1
  <2>3. Pathed(m)'
    BY <1>3, <2>2, PathedStays
  <2>4. QED
    BY <1>6, <2>1, <2>3
<1>8. /\ out'.dirs = dirs /\ out'.files = out.files
      /\ out' = [dirs |-> out'.dirs, files |-> out'.files]
  <2>1. out = [dirs |-> out.dirs, files |-> out.files]
    BY <1>2 DEF Intact
  <2>2. out' = [dirs |-> dirs, files |-> out.files]
    BY ONLY <1>3, <2>1
  <2>3. QED
    BY ONLY <2>2
<1>9. Intact'
  <2>1. \A p : FitsFields(p)' = FitsFields(p)
    BY <1>3, FitsStays
  <2>2. QED
    BY <1>2, <1>3, <1>6, <1>8, <2>1 DEF Intact
<1>10. /\ pos' - 2 = r /\ pos' <= Len(Order) + 2
       /\ r = 0 => node = Root /\ paths[pos] = <<>> /\ n = -1
       /\ r # 0 => /\ r \in Nat \ {0} /\ n = r - 1 /\ Described(r) /\ paths[pos] = Order[r]
                   /\ nodes[r + 1] = node /\ Order[r] \in InFst /\ Order[r] # <<>>
  <2>1. /\ pos' = pos + 1 => pos' - 2 = r /\ pos' <= Len(Order) + 2
        /\ r = 0 => nodes[pos] = Root /\ paths[pos] = <<>> /\ pos - 2 = -1
        /\ r # 0 => /\ r \in Nat \ {0} /\ r \in 1 .. Len(Order) /\ pos - 2 = r - 1
                    /\ Described(r) /\ paths[pos] = Order[r] /\ nodes[r + 1] = nodes[pos]
                    /\ Order[r] \in InFst /\ Order[r] # <<>>
    BY <1>0, <1>2, <1>3, TurnIs
  <2>2. QED
    BY <1>0, <1>3, <2>1, Zenon
<1>11. \A p : Wanted(p)' = Wanted(p)
  BY <1>3 DEF Wanted
<1>12. Extracted(r)'
  <2>0. /\ out.dirs = {p \in InFst \ Files : \E j \in 1 .. n : Order[j] = p}
        /\ DOMAIN out.files = {p \in Files : Wanted(p) /\ \E j \in 1 .. n : Order[j] = p}
    BY <1>2 DEF Extracted
  <2>1. CASE r = 0
    <3>1. 1 .. n = {} /\ 1 .. r = {} /\ dirs = out.dirs
      <4>1. 1 .. -1 = {} /\ 1 .. 0 = {}
        OBVIOUS
      <4>2. n = -1 /\ dirs = out.dirs
        BY <1>0, <1>10, <2>1
      <4>3. QED
        BY <2>1, <4>1, <4>2
    <3>2. out.dirs = {} /\ DOMAIN out.files = {}
      BY <2>0, <3>1
    <3>3. QED
      BY <1>8, <3>1, <3>2 DEF Extracted
  <2>2. CASE r # 0
    <3>1. Order[r] \notin Files
      BY <1>3, <1>10, <2>2, NodeIs
    <3>2. \A p : (\E j \in 1 .. r : Order[j] = p)
                  <=> (\E j \in 1 .. n : Order[j] = p) \/ p = Order[r]
      BY <1>10, <2>2, OneMore
    <3>3. dirs = out.dirs \cup {Order[r]}
      BY <1>0, <1>10, <2>2
    <3>4. dirs = {p \in InFst \ Files : \E j \in 1 .. r : Order[j] = p}
      BY <1>10, <2>0, <2>2, <3>1, <3>2, <3>3
    <3>5. DOMAIN out.files = {p \in Files : Wanted(p) /\ \E j \in 1 .. r : Order[j] = p}
      BY <2>0, <3>1, <3>2
    <3>6. QED
      BY <1>6, <1>8, <1>11, <3>4, <3>5 DEF Extracted
  <2>3. QED
    BY <2>1, <2>2
<1>13. Extracted(pos - 2)' /\ pos' <= Len(Order') + 2
  BY <1>6, <1>10, <1>12
<1>14. QED
  BY <1>3, <1>5, <1>7, <1>9, <1>13 DEF IInv, Stage

\* A file to skip is left out.
LEMMA SkipFileStep == IInv /\ SkipFile => IInv'
<1>1. SUFFICES ASSUME IInv, SkipFile PROVE IInv'
  OBVIOUS
<1>0. PICK n, r, node : n = pos - 2 /\ r = pos - 1 /\ node = nodes[pos]
  OBVIOUS
<1>2. Shape /\ Intact /\ Layout /\ Pathed(Len(Order)) /\ Extracted(n)
  BY <1>0, <1>1 DEF IInv, Stage, SkipFile
<1>3. /\ pc' = "extract" /\ pos' = pos + 1 /\ tree' = tree /\ pos <= Len(nodes)
      /\ node.kind = "file" /\ skip /\ node.name \in HifNames
      /\ UNCHANGED <<contents, clusterOf, group, nodes, cursor, table>>
      /\ UNCHANGED <<damaged, skip, paths, decoded, out>>
  BY <1>0, <1>1 DEF SkipFile, Skipped, plan, extraction
<1>4. pos' \in Nat \ {0}
  BY <1>2, <1>3 DEF Shape
<1>5. Shape' /\ Layout' /\ Intact'
  BY <1>2, <1>3, <1>4, ShapeStays, LayoutStays, IntactStays DEF Flat, plan
<1>6. Order' = Order /\ Files' = Files /\ InFst' = InFst
  BY <1>3, TreeStays
<1>7. Pathed(Len(Order))'
  <2>1. PICK m : m = Len(Order)
    OBVIOUS
  <2>2. Pathed(m)
    BY <1>2, <2>1
  <2>3. Pathed(m)'
    BY <1>3, <2>2, PathedStays
  <2>4. QED
    BY <1>6, <2>1, <2>3
<1>8. /\ pos' - 2 = r /\ pos' <= Len(Order) + 2
      /\ r = 0 => node = Root
      /\ r # 0 => /\ r \in Nat \ {0} /\ n = r - 1 /\ Described(r) /\ nodes[r + 1] = node
  <2>1. /\ pos' = pos + 1 => pos' - 2 = r /\ pos' <= Len(Order) + 2
        /\ r = 0 => nodes[pos] = Root
        /\ r # 0 => /\ r \in Nat \ {0} /\ pos - 2 = r - 1
                    /\ Described(r) /\ nodes[r + 1] = nodes[pos]
    BY <1>0, <1>2, <1>3, TurnIs
  <2>2. QED
    BY <1>0, <1>3, <2>1, Zenon
<1>9. r # 0
  <2>1. Root.kind = "dir"
    BY DEF Root
  <2>2. QED
    BY <1>3, <1>8, <2>1
<1>10. \A p : Wanted(p)' = Wanted(p)
  BY <1>3 DEF Wanted
<1>11. Extracted(r)'
  <2>0. /\ out.dirs = {p \in InFst \ Files : \E j \in 1 .. n : Order[j] = p}
        /\ DOMAIN out.files = {p \in Files : Wanted(p) /\ \E j \in 1 .. n : Order[j] = p}
    BY <1>2 DEF Extracted
  <2>1. Order[r] \in Files /\ ~ Wanted(Order[r])
    <3>1. Order[r] \in Files /\ node.name = Last(Order[r])
      BY <1>3, <1>8, <1>9, NodeIs
    <3>2. QED
      BY <1>3, <3>1 DEF Wanted
  <2>2. \A p : (\E j \in 1 .. r : Order[j] = p) <=> (\E j \in 1 .. n : Order[j] = p) \/ p = Order[r]
    BY <1>8, <1>9, OneMore
  <2>3. out.dirs = {p \in InFst \ Files : \E j \in 1 .. r : Order[j] = p}
    BY <2>0, <2>1, <2>2
  <2>4. DOMAIN out.files = {p \in Files : Wanted(p) /\ \E j \in 1 .. r : Order[j] = p}
    BY <2>0, <2>1, <2>2
  <2>5. QED
    BY <1>3, <1>6, <1>10, <2>3, <2>4 DEF Extracted
<1>12. Extracted(pos - 2)' /\ pos' <= Len(Order') + 2
  BY <1>6, <1>8, <1>11
<1>13. QED
  BY <1>3, <1>5, <1>7, <1>12 DEF IInv, Stage

\* When the loop ends, every entry was dealt with.
LEMMA ExtractDoneStep == IInv /\ ExtractDone => IInv'
<1>1. SUFFICES ASSUME IInv, ExtractDone PROVE IInv'
  OBVIOUS
<1>0. PICK n : n = pos - 2
  OBVIOUS
<1>2. /\ Shape /\ Intact /\ Layout /\ Extracted(n) /\ pos <= Len(Order) + 2
  BY <1>0, <1>1 DEF IInv, Stage, ExtractDone
<1>3. /\ pc' = "done" /\ pos' = pos /\ tree' = tree /\ pos > Len(nodes)
      /\ UNCHANGED <<contents, clusterOf, group, nodes, cursor, table>>
      /\ UNCHANGED <<damaged, skip, decoded, out>>
  BY <1>1 DEF ExtractDone, plan, extraction
<1>4. Len(Order) \in Nat /\ Len(nodes) = Len(Order) + 1 /\ pos \in Nat \ {0}
  BY <1>2, LayoutIs DEF Shape
<1>5. n = Len(Order)
  BY ONLY <1>0, <1>2, <1>3, <1>4
<1>6. Shape' /\ Intact' /\ Layout'
  BY <1>2, <1>3, <1>4, ShapeStays, IntactStays, LayoutStays DEF Flat, plan
<1>7. Order' = Order
  BY <1>3, TreeStays
<1>8. Extracted(Len(Order))'
  <2>1. Extracted(n)'
    BY <1>2, <1>3, ExtractedStays
  <2>2. QED
    BY <1>5, <1>7, <2>1
<1>9. QED
  BY <1>3, <1>6, <1>8 DEF IInv, Stage

\* A failed extraction leaves what it has written.
LEMMA ExtractFailsStep == IInv /\ ExtractFails => IInv'
<1>1. SUFFICES ASSUME IInv, ExtractFails PROVE IInv'
  OBVIOUS
<1>2. Shape /\ Intact /\ Layout
  BY <1>1 DEF IInv, Stage, ExtractFails
<1>3. /\ pc' = "failed" /\ pos' = pos /\ tree' = tree
      /\ UNCHANGED <<contents, clusterOf, group, nodes, cursor, table>>
      /\ UNCHANGED <<damaged, skip, decoded, out>>
  BY <1>1 DEF ExtractFails, plan, extraction
<1>4. pos' \in Nat \ {0}
  BY <1>2, <1>3 DEF Shape
<1>5. Shape' /\ Intact' /\ Layout'
  BY <1>2, <1>3, <1>4, ShapeStays, IntactStays, LayoutStays DEF Flat, plan
<1>6. QED
  BY <1>3, <1>5 DEF IInv, Stage

\* The bytes of a file in its content are the file's own: no other file covers them.
LEMMA BytesAre ==
    ASSUME tree \in Trees, NEW c \in Contents, Sound(c), NEW x \in DOMAIN c.files,
           NEW p \in Files, NEW off,
           c.files[x] = [path |-> p, off |-> off, size |-> tree.sizes[p]],
           off + tree.sizes[p] <= Padded(c)
    PROVE  /\ (off \div Factor) * Factor = off
           /\ [k \in 1 .. tree.sizes[p] |-> Assembled(c)[off + k]] = Bytes(p)
<1>1. PICK size, n : size = tree.sizes[p] /\ n = Len(c.files)
  OBVIOUS
<1>2. /\ c.files \in Seq(PlacedFiles) /\ n \in Nat /\ DOMAIN c.files = 1 .. n /\ x \in 1 .. n
      /\ c.len \in Nat
  BY <1>1 DEF Contents
<1>3. ASSUME NEW y \in 1 .. n
      PROVE  c.files[y].off \in Nat /\ c.files[y].size \in Nat
  <2>1. c.files[y] \in PlacedFiles
    BY <1>1, <1>2
  <2>2. QED
    BY <2>1 DEF PlacedFiles
<1>4. c.files[x].path = p /\ c.files[x].off = off /\ c.files[x].size = size
  BY <1>1
<1>5. off \in Nat /\ size \in Nat
  BY <1>2, <1>3, <1>4
<1>6. /\ (off \div Factor) * Factor = off
      /\ \A y, z \in 1 .. n : y < z => c.files[y].off + c.files[y].size <= c.files[z].off
  BY <1>2, <1>4 DEF Sound
<1>7. Padded(c) \in Nat
  BY <1>2, Aligned, PlanAssumption DEF Padded, PlanAssumption
<1>8. ASSUME NEW k \in 1 .. size PROVE Assembled(c)[off + k] = <<p, k>>
  <2>0. PICK j : j = off + k
    OBVIOUS
  <2>1. j \in 1 .. Padded(c) /\ j \in Nat /\ j - off = k
    <3>1. PICK m : m = Padded(c)
      OBVIOUS
    <3>2. off + size <= m /\ m \in Nat
      BY <1>1, <1>7, <3>1
    <3>3. j \in 1 .. m /\ j \in Nat /\ j - off = k
      BY ONLY <1>5, <2>0, <3>2
    <3>4. QED
      BY <3>1, <3>3
  <2>2. ASSUME NEW y \in 1 .. n, y # x PROVE j - c.files[y].off \notin 1 .. c.files[y].size
    <3>1. PICK yo, ys : yo = c.files[y].off /\ ys = c.files[y].size
      OBVIOUS
    <3>2. yo \in Nat /\ ys \in Nat
      BY <1>3, <3>1
    <3>3. y < x \/ x < y
      BY ONLY <1>2, <2>2
    <3>4. yo + ys <= off \/ off + size <= yo
      BY <1>2, <1>4, <1>6, <3>1, <3>3
    <3>5. j - yo \notin 1 .. ys
      BY ONLY <1>5, <2>0, <3>2, <3>4
    <3>6. QED
      BY <3>1, <3>5
  <2>3. Copied(c, j) = {x}
    <3>1. j - c.files[x].off \in 1 .. c.files[x].size
      BY <1>4, <2>1
    <3>2. \A y \in 1 .. n : y # x => j - c.files[y].off \notin 1 .. c.files[y].size
      BY <2>2
    <3>3. x \in 1 .. n
      BY <1>2
    <3>4. Copied(c, j) = {y \in 1 .. n : j - c.files[y].off \in 1 .. c.files[y].size}
      BY <1>2 DEF Copied
    <3>5. QED
      BY ONLY <3>1, <3>2, <3>3, <3>4, Zenon
  <2>4. Max({x}) = x
    <3>1. {x} \in SUBSET Nat /\ \A y \in {x} : y <= n
      BY ONLY <1>2
    <3>2. Max({x}) \in {x}
      BY <1>2, <3>1, MaxIs
    <3>3. QED
      BY <3>2
  <2>5. Assembled(c)[j] = <<c.files[x].path, j - c.files[x].off>>
    BY <2>1, <2>3, <2>4 DEF Assembled
  <2>6. j - c.files[x].off = k
    <3>1. PICK xo : xo = c.files[x].off
      OBVIOUS
    <3>2. xo = off
      BY ONLY <1>4, <3>1
    <3>3. j - xo = k
      BY ONLY <2>1, <3>2
    <3>4. QED
      BY ONLY <3>1, <3>3
  <2>7. Assembled(c)[j] = <<p, k>>
    <3>1. PICK i : i = j - c.files[x].off
      OBVIOUS
    <3>2. i = k
      BY ONLY <2>6, <3>1
    <3>3. Assembled(c)[j] = <<c.files[x].path, i>>
      BY ONLY <2>5, <3>1
    <3>4. QED
      BY ONLY <1>4, <3>2, <3>3
  <2>8. QED
    BY ONLY <2>0, <2>7
<1>9. QED
  <2> DEFINE a == Assembled(c)
  <2>1. \A k \in 1 .. size : a[off + k] = <<p, k>>
    BY <1>8
  <2> HIDE DEF a
  <2>2. [k \in 1 .. size |-> a[off + k]] = [k \in 1 .. size |-> <<p, k>>]
    BY ONLY <2>1
  <2>3. QED
    BY <1>1, <1>6, <2>2 DEF Bytes, a

\* The game contents are those behind the other ones; each holds at most Cap bytes.
LEMMA GameContentsAre ==
    ASSUME Shape, Layout
    PROVE  /\ \A i \in DOMAIN contents :
                contents[i].game <=> Len(GameFiles) > 0 /\ i > G(1)
           /\ Len(GameFiles) > 0 => G(1) \in 1 .. Len(contents) - 1
           /\ \A i \in GameContents : contents[i].len <= Cap
<1>0. PICK n : n = Len(GameFiles)
  OBVIOUS
<1>1. /\ tree \in Trees /\ Grouped(n) /\ Flattened(Len(Order))
      /\ contents \in Seq(Contents) /\ Len(contents) \in Nat
  BY <1>0, LayoutIs DEF Layout, Laid, Complete
<1>2. n \in Nat /\ n \in 0 .. Len(GameFiles) /\ DOMAIN GameFiles = 1 .. n
  BY <1>0, <1>1, GameFilesAre
<1>3. \A i \in DOMAIN contents : contents[i].game <=> n > 0 /\ i > G(1)
  BY <1>1 DEF Grouped
<1>4. n > 0 => G(1) \in 1 .. Len(contents) - 1
  BY <1>1, <1>2, GroupedIs
<1>5. ASSUME NEW i \in GameContents PROVE contents[i].len <= Cap
  <2>1. PICK len : len = contents[i].len
    OBVIOUS
  <2>2. i \in 1 .. Len(contents) /\ contents[i].game /\ len \in Nat
    <3>1. contents[i] \in Contents
      BY <1>1 DEF GameContents
    <3>2. contents[i].len \in Nat
      BY <3>1 DEF Contents
    <3>3. QED
      BY <1>1, <2>1, <3>2 DEF GameContents
  <2>3. i \in 2 .. Len(contents)
    BY <1>1, <1>3, <1>4, <2>2
  <2>4. CASE len = 0
    BY <2>1, <2>4, PlanAssumption DEF PlanAssumption
  <2>5. CASE len # 0
    <3>1. WithinSpan(i, Len(Order)) /\ contents[i].len > 0
      BY <1>1, <2>1, <2>2, <2>3, <2>5 DEF Flattened
    <3>2. PICK a, b \in DOMAIN GameFiles :
            a <= b /\ G(a) = i - 1 /\ G(b) = i - 1 /\ AlignUp(len, Factor) <= Span(a, b)
      BY <2>1, <2>2, <3>1 DEF WithinSpan
    <3>3. Span(a, b) <= Cap /\ Span(a, b) \in Int
      BY <1>1, <1>2, <3>2, GroupedIs DEF Grouped
    <3>4. AlignUp(len, Factor) \in Nat /\ len <= AlignUp(len, Factor) /\ Cap \in Nat
      BY <2>2, Aligned, PlanAssumption DEF PlanAssumption
    <3>5. PICK u, v : u = AlignUp(len, Factor) /\ v = Span(a, b)
      OBVIOUS
    <3>6. len <= Cap
      BY <2>2, <3>2, <3>3, <3>4, <3>5
    <3>7. QED
      BY <2>1, <3>6
  <2>6. QED
    BY <2>4, <2>5
<1>6. QED
  BY <1>0, <1>3, <1>4, <1>5

\* The fields of the FST hold what is to be in them: of a file of the game by the cap.
LEMMA FieldsAre ==
    ASSUME Shape, Layout, NEW p \in Files, FitsFields(p),
           NEW c, c = contents[clusterOf[p] + 1], NEW off, NEW x \in DOMAIN c.files,
           c.files[x] = [path |-> p, off |-> off, size |-> tree.sizes[p]]
    PROVE  /\ (off \div Factor) % Word = off \div Factor
           /\ tree.sizes[p] % Word = tree.sizes[p]
<1>1. PICK i, size : i = clusterOf[p] + 1 /\ size = tree.sizes[p]
  OBVIOUS
<1>2. /\ i \in 2 .. Len(contents) /\ contents \in Seq(Contents) /\ Len(contents) \in Nat
      /\ \A j \in 2 .. Len(contents) : Sound(contents[j])
      /\ p \in DOMAIN clusterOf
  BY <1>1, LayoutIs
<1>3. c \in Contents /\ Sound(c) /\ i \in DOMAIN contents
  BY <1>1, <1>2
<1>4. c.files \in Seq(PlacedFiles) /\ c.len \in Nat
  BY <1>3 DEF Contents
<1>5. off \in Nat /\ size \in Nat
  <2>1. c.files[x] \in PlacedFiles
    BY <1>4
  <2>2. QED
    BY <1>1, <2>1 DEF PlacedFiles
<1>6. off + size <= c.len
  BY <1>1, <1>3 DEF Sound
<1>7. Factor \in Nat \ {0} /\ Word \in Nat /\ Cap \in Nat /\ Cap < Word
  BY PlanAssumption DEF PlanAssumption
<1>8. off \div Factor \in Nat /\ off \div Factor <= off
  BY <1>5, <1>7, Quotient
<1>9. off \div Factor < Word /\ size < Word
  <2>1. CASE p \in Under("content")
    <3>1. c.game
      BY <1>1, <1>2, <2>1 DEF Shape, Under
    <3>2. c.len <= Cap
      BY <1>1, <1>3, <3>1, GameContentsAre DEF GameContents
    <3>3. QED
      BY <1>4, <1>5, <1>6, <1>7, <1>8, <3>2
  <2>2. CASE p \notin Under("content")
    <3>1. c.files[x] \in ToSet(c.files)
      BY DEF ToSet
    <3>2. c.files[x].path = p /\ c.files[x].off = off /\ c.files[x].size = size
      BY <1>1
    <3>3. QED
      BY <2>2, <3>1, <3>2 DEF FitsFields
  <2>3. QED
    BY <2>1, <2>2
<1>10. QED
  BY <1>1, <1>5, <1>7, <1>8, <1>9

\* A file is written with its own bytes, as its content passed the check.
LEMMA ExtractFileStep == IInv /\ ExtractFile => IInv'
<1>1. SUFFICES ASSUME IInv, ExtractFile PROVE IInv'
  OBVIOUS
<1>0. PICK n, r, node, p, bytes :
        /\ n = pos - 2 /\ r = pos - 1 /\ node = nodes[pos] /\ p = paths[pos]
        /\ bytes = [k \in 1 .. Size(node) |-> Data(node.cluster)[Start(node) + k]]
  OBVIOUS
<1>2. Shape /\ Intact /\ Layout /\ Pathed(Len(Order)) /\ Extracted(n)
  BY <1>0, <1>1 DEF IInv, Stage, ExtractFile
<1>3. /\ pc' = "extract" /\ pos' = pos + 1 /\ tree' = tree /\ pos <= Len(nodes)
      /\ node.kind = "file" /\ ~ Skipped(node) /\ Readable(node)
      /\ decoded' = decoded \cup {node.cluster}
      /\ out' = [out EXCEPT !.files = Extended(@, {p}, bytes)]
      /\ UNCHANGED <<contents, clusterOf, group, nodes, cursor, table>>
      /\ UNCHANGED <<damaged, skip, paths>>
  BY <1>0, <1>1 DEF ExtractFile, plan
<1>4. pos' \in Nat \ {0}
  BY <1>2, <1>3 DEF Shape
<1>5. Shape' /\ Layout'
  BY <1>2, <1>3, <1>4, ShapeStays, LayoutStays DEF Flat, plan
<1>6. Order' = Order /\ Files' = Files /\ InFst' = InFst /\ \A q : Bytes(q)' = Bytes(q)
  BY <1>3, TreeStays
<1>7. Pathed(Len(Order))'
  <2>1. PICK m : m = Len(Order)
    OBVIOUS
  <2>2. Pathed(m)
    BY <1>2, <2>1
  <2>3. Pathed(m)'
    BY <1>3, <2>2, PathedStays
  <2>4. QED
    BY <1>6, <2>1, <2>3
<1>8. /\ pos' - 2 = r /\ pos' <= Len(Order) + 2
      /\ r = 0 => node = Root
      /\ r # 0 => /\ r \in Nat \ {0} /\ r \in 1 .. Len(Order) /\ n = r - 1
                  /\ Described(r) /\ p = Order[r] /\ nodes[r + 1] = node
  <2>1. /\ pos' = pos + 1 => pos' - 2 = r /\ pos' <= Len(Order) + 2
        /\ r = 0 => nodes[pos] = Root
        /\ r # 0 => /\ r \in Nat \ {0} /\ r \in 1 .. Len(Order) /\ pos - 2 = r - 1
                    /\ Described(r) /\ paths[pos] = Order[r] /\ nodes[r + 1] = nodes[pos]
    BY <1>0, <1>2, <1>3, TurnIs
  <2>2. QED
    BY <1>0, <1>3, <2>1, Zenon
<1>9. r # 0
  <2>1. Root.kind = "dir"
    BY DEF Root
  <2>2. QED
    BY <1>3, <1>8, <2>1
<1>10. p \in Files /\ node.name = Last(p)
  BY <1>3, <1>8, <1>9, NodeIs
<1>11. /\ tree \in Trees /\ clusterOf[p] \in 1 .. Len(contents) - 1 /\ Len(contents) \in Nat
       /\ \A i \in 2 .. Len(contents) : Sound(contents[i])
       /\ contents \in Seq(Contents)
  BY <1>2, <1>10, LayoutIs
<1>12. PICK c : c = contents[clusterOf[p] + 1]
  OBVIOUS
<1>13. Sound(c) /\ c \in Contents
  <2>1. PICK i : i = clusterOf[p] + 1
    OBVIOUS
  <2>2. i \in 2 .. Len(contents) /\ i \in 1 .. Len(contents)
    BY ONLY <1>11, <2>1
  <2>3. QED
    BY <1>11, <1>12, <2>1, <2>2
<1>14. /\ node = [kind |-> "file", name |-> Last(p), cluster |-> clusterOf[p],
                  off |-> node.off, size |-> tree.sizes[p]]
       /\ \E x \in DOMAIN c.files :
            c.files[x] = [path |-> p, off |-> node.off, size |-> tree.sizes[p]]
  BY <1>8, <1>9, <1>10, <1>12 DEF Described
<1>15. PICK x \in DOMAIN c.files :
         c.files[x] = [path |-> p, off |-> node.off, size |-> tree.sizes[p]]
  BY <1>14
<1>16. node.cluster = clusterOf[p] /\ node.size = tree.sizes[p]
  BY ONLY <1>14
<1>17. /\ clusterOf[p] \notin damaged
       /\ FitsFields(p) => Start(node) = node.off /\ Size(node) = tree.sizes[p]
       /\ Start(node) + Size(node) <= Padded(c)
  <2>1. /\ clusterOf[p] \in decoded \/ Verified(clusterOf[p])
        /\ Start(node) + Size(node) <= Padded(c)
    BY <1>3, <1>12, <1>16 DEF Readable
  <2>2. c.files[x].off = node.off /\ (node.off \div Factor) * Factor = node.off
    BY <1>13, <1>15 DEF Sound
  <2>3. FitsFields(p) => /\ (node.off \div Factor) % Word = node.off \div Factor
                         /\ tree.sizes[p] % Word = tree.sizes[p]
    BY <1>2, <1>10, <1>12, <1>15, FieldsAre
  <2>4. QED
    BY <1>2, <1>16, <2>1, <2>2, <2>3 DEF Intact, Verified, Start, Size
<1>18. FitsFields(p) => bytes = Bytes(p)
  <2>0. SUFFICES ASSUME FitsFields(p) PROVE bytes = Bytes(p)
    OBVIOUS
  <2>1. PICK off : off = node.off
    OBVIOUS
  <2>2. [k \in 1 .. tree.sizes[p] |-> Assembled(c)[off + k]] = Bytes(p)
    <3>1. off + tree.sizes[p] <= Padded(c)
      BY <1>17, <2>0, <2>1
    <3>2. QED
      BY <1>10, <1>11, <1>13, <1>15, <2>1, <3>1, BytesAre
  <2>3. Data(node.cluster) = Assembled(c)
    BY <1>12, <1>16, <1>17 DEF Data
  <2>4. bytes = [k \in 1 .. tree.sizes[p] |-> Assembled(c)[off + k]]
    BY <1>0, <1>17, <2>0, <2>1, <2>3
  <2>5. QED
    BY <2>2, <2>4
<1>19. /\ out'.dirs = out.dirs /\ out'.files = Extended(out.files, {p}, bytes)
       /\ out' = [dirs |-> out'.dirs, files |-> out'.files]
  <2>1. out = [dirs |-> out.dirs, files |-> out.files]
    BY <1>2 DEF Intact
  <2>2. out' = [dirs |-> out.dirs, files |-> Extended(out.files, {p}, bytes)]
    BY ONLY <1>3, <2>1
  <2>3. QED
    BY ONLY <2>2
<1>20. /\ DOMAIN out'.files = DOMAIN out.files \cup {p}
       /\ FitsFields(p) => out'.files[p] = Bytes(p)
       /\ \A q \in DOMAIN out.files \ {p} : out'.files[q] = out.files[q]
  BY <1>18, <1>19 DEF Extended
<1>21. Intact'
  <2>1. \A q \in DOMAIN out'.files : q \in Files /\ (FitsFields(q) => out'.files[q] = Bytes(q))
    BY <1>2, <1>10, <1>20 DEF Intact
  <2>2. \A q : FitsFields(q)' = FitsFields(q)
    BY <1>3, FitsStays
  <2>3. decoded' \cap damaged' = {}
    BY <1>2, <1>3, <1>16, <1>17 DEF Intact
  <2>4. QED
    BY <1>6, <1>19, <2>1, <2>2, <2>3 DEF Intact
<1>22. \A q : Wanted(q)' = Wanted(q)
  BY <1>3 DEF Wanted
<1>23. Extracted(r)'
  <2>0. /\ out.dirs = {q \in InFst \ Files : \E j \in 1 .. n : Order[j] = q}
        /\ DOMAIN out.files = {q \in Files : Wanted(q) /\ \E j \in 1 .. n : Order[j] = q}
    BY <1>2 DEF Extracted
  <2>1. Wanted(p)
    BY <1>3, <1>10 DEF Skipped, Wanted
  <2>2. \A q : (\E j \in 1 .. r : Order[j] = q) <=> (\E j \in 1 .. n : Order[j] = q) \/ q = p
    BY <1>8, <1>9, OneMore
  <2>3. out'.dirs = {q \in InFst \ Files : \E j \in 1 .. r : Order[j] = q}
    BY <1>10, <1>19, <2>0, <2>2
  <2>4. DOMAIN out'.files = {q \in Files : Wanted(q) /\ \E j \in 1 .. r : Order[j] = q}
    BY <1>10, <1>20, <2>0, <2>1, <2>2
  <2>5. QED
    BY <1>3, <1>6, <1>22, <2>3, <2>4 DEF Extracted
<1>24. Extracted(pos - 2)' /\ pos' <= Len(Order') + 2
  BY <1>6, <1>8, <1>23
<1>25. QED
  BY <1>3, <1>5, <1>7, <1>21, <1>24 DEF IInv, Stage

\* A step that changes nothing keeps the invariant.
LEMMA StutterStep == IInv /\ UNCHANGED vars => IInv'
<1>1. SUFFICES ASSUME IInv, UNCHANGED vars PROVE IInv'
  OBVIOUS
<1>0. PICK k, n : k = pos - 1 /\ n = pos - 2
  OBVIOUS
<1>2. /\ tree' = tree /\ pc' = pc /\ pos' = pos
      /\ UNCHANGED <<contents, clusterOf, group, nodes, cursor, table>>
      /\ UNCHANGED <<damaged, skip, stack, paths, decoded, out>>
  BY <1>1 DEF vars, plan, extraction
<1>3. Shape /\ Intact /\ Stage
  BY <1>1 DEF IInv
<1>4. Shape' /\ Intact'
  BY <1>2, <1>3, ShapeStays, IntactStays DEF Shape
<1>5. Order' = Order /\ GameFiles' = GameFiles
  BY <1>2, TreeStays
<1>6. pos' - 1 = k /\ pos' - 2 = n
  BY <1>0, <1>2
<1>7. Fresh' = Fresh /\ Unplaced' = Unplaced /\ \A i : Filling(i)' = Filling(i)
  BY <1>2, PlanningStays DEF Fresh
<1>8. /\ \A i : Grouped(i) => Grouped(i)'
      /\ \A i : Flattened(i) => Flattened(i)'
      /\ \A i : Pathed(i) => Pathed(i)'
      /\ \A i : Extracted(i) => Extracted(i)'
  BY <1>2, GroupedStays, FlattenedStays, PathedStays, ExtractedStays
<1>9. /\ Untouched => Untouched'
      /\ Complete => Complete'
      /\ Laid => Laid'
      /\ Layout => Layout'
  BY <1>2, UntouchedStays, CompleteStays, LaidStays, LayoutStays DEF plan
<1>10. Slots(k)' = Slots(k) /\ Stacked(n)' = Stacked(n)
  BY <1>2, <1>5 DEF Slots, Stacked, Within, Files
<1>11. Stage'
  <2>1. CASE pc = "alloc"
    <3>1. Fresh /\ Untouched /\ Unplaced /\ Grouped(0) /\ Filling(0)
      BY <1>3, <2>1 DEF Stage
    <3>2. QED
      BY <1>2, <1>7, <1>8, <1>9, <2>1, <3>1 DEF Stage
  <2>2. CASE pc = "game"
    <3>1. /\ Fresh /\ Untouched /\ Unplaced /\ pos <= Len(GameFiles) + 1
          /\ Grouped(k) /\ Filling(k)
      BY <1>0, <1>3, <2>2 DEF Stage
    <3>2. Grouped(pos - 1)' /\ Filling(pos - 1)'
      BY <1>6, <1>7, <1>8, <3>1
    <3>3. QED
      BY <1>2, <1>5, <1>7, <1>9, <2>2, <3>1, <3>2 DEF Stage
  <2>3. CASE pc = "flatten"
    <3>1. Fresh /\ Untouched /\ Complete /\ pos <= Len(Order) + 1 /\ Flattened(k)
      BY <1>0, <1>3, <2>3 DEF Stage
    <3>2. Flattened(pos - 1)'
      BY <1>6, <1>8, <3>1
    <3>3. QED
      BY <1>2, <1>5, <1>7, <1>9, <2>3, <3>1, <3>2 DEF Stage
  <2>4. CASE pc = "table"
    <3>1. Untouched /\ Laid /\ pos <= Len(contents) + 1 /\ Slots(k)
      BY <1>0, <1>3, <2>4 DEF Stage
    <3>2. Slots(pos - 1)'
      BY <1>6, <1>10, <3>1
    <3>3. QED
      BY <1>2, <1>9, <2>4, <3>1, <3>2 DEF Stage
  <2>5. CASE pc = "paths"
    <3>1. Untouched /\ Layout /\ pos \in 2 .. Len(Order) + 2 /\ Pathed(n) /\ Stacked(n)
      BY <1>0, <1>3, <2>5 DEF Stage
    <3>2. Pathed(pos - 2)' /\ Stacked(pos - 2)'
      BY <1>6, <1>8, <1>10, <3>1
    <3>3. QED
      BY <1>2, <1>5, <1>9, <2>5, <3>1, <3>2 DEF Stage
  <2>6. CASE pc \in {"extract", "done"}
    <3>0. PICK m : m = Len(Order)
      OBVIOUS
    <3>1. /\ Layout
          /\ pc = "extract" => Pathed(m) /\ pos <= Len(Order) + 2 /\ Extracted(n)
          /\ pc = "done" => Extracted(m)
      BY <1>0, <1>3, <2>6, <3>0 DEF Stage
    <3>2. Len(Order)' = m
      BY <1>5, <3>0
    <3>3. pc = "extract" => Pathed(Len(Order))' /\ Extracted(pos - 2)'
      BY <1>6, <1>8, <3>1, <3>2
    <3>4. pc = "done" => Extracted(Len(Order))'
      BY <1>8, <3>1, <3>2
    <3>5. QED
      BY <1>2, <1>5, <1>9, <2>6, <3>1, <3>3, <3>4 DEF Stage
  <2>7. CASE pc \notin {"alloc", "game", "flatten", "table", "paths", "extract", "done"}
    BY <1>2, <1>3, <1>9, <2>7 DEF Stage
  <2>8. QED
    BY <2>1, <2>2, <2>3, <2>4, <2>5, <2>6, <2>7
<1>12. QED
  BY <1>4, <1>11 DEF IInv

-----------------------------------------------------------------------------
(***************************************************************************)
(* The theorems.                                                           *)
(***************************************************************************)
\* What the planning, the reading of the paths and the extraction know at each turn of their
\* loops holds in every state.
THEOREM Invariance == Spec => []IInv
<1>1. Init => IInv
  BY InitHolds
<1>2. IInv /\ [Next]_vars => IInv'
  BY AllocGroupStep, AllocDoneStep, AllocGameStep, RefusedStep, BuildTreeStep,
     FlattenDirStep, FlattenFileStep, SizeFstStep, TableSlotStep, DeliverStep, ReadFstStep,
     NodePathStep, PathsDoneStep, ExtractDirStep, SkipFileStep, ExtractFileStep,
     ExtractDoneStep, ExtractFailsStep, StutterStep DEF Next
<1>3. QED
  BY <1>1, <1>2, PTL DEF Spec

\* Whatever is damaged on the way, what an extraction has written is what was packed, also when
\* it stops half way.
THEOREM OnlyPackedBytes == Spec => []WritesOnlyWhatWasPacked
<1>1. IInv => WritesOnlyWhatWasPacked
  BY DEF IInv, Intact, WritesOnlyWhatWasPacked
<1>2. QED
  BY <1>1, Invariance, PTL

\* An extraction that ends gives back the staged title: every directory that is not an empty
\* top one, and every file that was not to be skipped, byte for byte.
THEOREM ExtractionInverts == Spec => []RoundTrip
<1>1. IInv => RoundTrip
  <2>1. SUFFICES ASSUME IInv, pc = "done"
                 PROVE  /\ out.dirs = InFst \ Files
                        /\ DOMAIN out.files = {p \in Files : ~ (skip /\ Last(p) \in HifNames)}
                        /\ \A p \in DOMAIN out.files : FitsFields(p) => out.files[p] = Bytes(p)
    BY DEF RoundTrip
  <2>2. Shape /\ Intact /\ Extracted(Len(Order))
    BY <2>1 DEF IInv, Stage
  <2>3. tree \in Trees
    BY <2>2 DEF Shape
  <2>4. \A p \in InFst : \E j \in 1 .. Len(Order) : Order[j] = p
    BY <2>3, OrderIs
  <2>5. Files \subseteq InFst
    BY <2>3, InFstIs
  <2>6. out.dirs = InFst \ Files
    BY <2>2, <2>4 DEF Extracted
  <2>7. DOMAIN out.files = {p \in Files : Wanted(p)}
    BY <2>2, <2>4, <2>5 DEF Extracted
  <2>8. QED
    BY <2>2, <2>6, <2>7 DEF Intact, Wanted
<1>2. QED
  BY <1>1, Invariance, PTL

-----------------------------------------------------------------------------
(***************************************************************************)
(* The layout as the installer and the console use it.                     *)
(***************************************************************************)
\* No directory has the name of a hif file, so a path whose second name is one ends there.
LEMMA HifNameEndsPath ==
    ASSUME tree \in Trees, NEW q \in Files, q[2] \in HifNames
    PROVE  Len(q) = 2
<1>1. q \in Seq(Names) /\ Len(q) \in Nat /\ Len(q) > 1 /\ q # <<>>
  BY TreeIs
<1>2. SUFFICES ASSUME Len(q) > 2 PROVE FALSE
  <2>1. PICK n : n = Len(q)
    OBVIOUS
  <2>2. n \in Nat /\ n > 1
    BY <1>1, <2>1
  <2>3. n = 2 \/ n > 2
    BY ONLY <2>2
  <2>4. QED
    BY <2>1, <2>3
<1> DEFINE T == {n \in Nat : n >= 2 /\ \E r \in tree.dirs : Len(r) = n /\ r[2] = q[2]}
<1>3. Front(q) \in tree.dirs /\ Len(Front(q)) = Len(q) - 1 /\ Front(q)[2] = q[2]
  BY <1>1, <1>2, TreeIs, FrontIs
<1>4. Len(q) - 1 \in T
  BY <1>1, <1>2, <1>3
<1>5. T \in SUBSET Nat /\ T # {}
  BY <1>4
<1>6. PICK n \in T : \A m \in T : n <= m
  <2> HIDE DEF T
  <2>1. QED
    BY <1>5, LeastNatural
<1>7. PICK r \in tree.dirs : Len(r) = n /\ r[2] = q[2] /\ n \in Nat /\ n >= 2
  BY <1>6
<1>8. r \in Seq(Names) /\ r # <<>> /\ Last(r) \notin HifNames
  BY <1>7, TreeIs
<1>9. CASE n = 2
  BY <1>2, <1>7, <1>8, <1>9 DEF Last
<1>10. CASE n > 2
  <2>1. /\ Front(r) \in tree.dirs /\ Len(Front(r)) = n - 1
        /\ \A i \in 1 .. n - 1 : Front(r)[i] = r[i]
    <3>1. Len(r) > 1
      BY <1>7, <1>10
    <3>2. QED
      BY <1>7, <1>8, <3>1, TreeIs, FrontIs
  <2>0. Front(r)[2] = q[2]
    <3>1. 2 \in 1 .. n - 1
      BY <1>7, <1>10
    <3>2. QED
      BY <1>7, <2>1, <3>1
  <2>2. n - 1 \in T
    BY <1>7, <1>10, <2>0, <2>1
  <2>3. n <= n - 1
    BY <1>6, <2>2
  <2>4. QED
    BY <1>7, <2>3
<1>11. QED
  BY <1>7, <1>9, <1>10

\* If any game file is a hif file, the first one is, and no other comes before it.
LEMMA FirstIsHif ==
    ASSUME tree \in Trees, NEW p \in Directly("content"), p[2] \in HifNames
    PROVE  /\ 1 \in DOMAIN GameFiles
           /\ GameFiles[1] \in Directly("content") /\ GameFiles[1][2] \in HifNames
           /\ ~ NameBefore(p[2], GameFiles[1][2])
<1>1. p \in Files /\ p[1] = "content" /\ Len(p) = 2 /\ p \in Seq(Names)
  BY TreeIs DEF Directly, Under
<1>2. PICK b \in 1 .. Len(GameFiles) : GameFiles[b] = p
  BY <1>1, GameFilesAre
<1>3. Len(GameFiles) \in Nat /\ 1 \in 1 .. Len(GameFiles) /\ 1 \in DOMAIN GameFiles
  BY <1>2, GameFilesAre
<1>4. PICK f : f = GameFiles[1]
  OBVIOUS
<1>5. f \in Files /\ f[1] = "content" /\ f \in Seq(Names) /\ Len(f) > 1 /\ Len(f) \in Nat
  BY <1>3, <1>4, GameFilesAre, TreeIs
<1>6. f[1] \in Names /\ f[2] \in Names /\ p[2] \in Names
  <2>1. 1 \in 1 .. Len(f) /\ 2 \in 1 .. Len(f) /\ 2 \in 1 .. Len(p)
    BY <1>1, <1>5
  <2>2. \A s \in Seq(Names) : \A i \in 1 .. Len(s) : s[i] \in Names
    OBVIOUS
  <2>3. QED
    BY <1>1, <1>5, <2>1, <2>2
<1>7. f = p \/ NameBefore(f[2], p[2])
  <2>1. CASE b = 1
    BY <1>2, <1>4, <2>1
  <2>2. CASE b # 1
    <3>1. 1 < b
      BY <1>2, <2>2
    <3>2. Before(f, p)
      BY <1>2, <1>3, <1>4, <3>1, GameFilesAre
    <3>3. ~ IsStrictPrefix(f, p)
      BY <1>1, <1>5, PrefixIs
    <3>4. PICK i \in Nat : Splits(f, p, i)
      BY <1>1, <1>5, <3>2, <3>3, BeforeIs
    <3>5. i \in 1 .. 2 /\ NameBefore(f[i], p[i])
      BY <1>1, <1>5, <3>4 DEF Splits
    <3>6. i # 1
      BY <1>1, <1>5, <1>6, <3>5, NamesInOrder
    <3>7. QED
      BY <3>5, <3>6
  <2>3. QED
    BY <2>1, <2>2
<1>8. f[2] \in HifNames
  BY <1>7 DEF NameBefore
<1>9. ~ NameBefore(p[2], f[2])
  BY <1>6, <1>7, NamesInOrder
<1>10. Len(f) = 2
  BY <1>5, <1>8, HifNameEndsPath
<1>11. f \in Directly("content")
  BY <1>5, <1>10 DEF Directly, Under
<1>12. QED
  BY <1>3, <1>4, <1>8, <1>9, <1>11

\* The first game content begins with the first game file, at offset 0.
LEMMA FirstGameContent ==
    ASSUME Shape, Layout, 1 \in DOMAIN GameFiles, NEW i, i = G(1) + 1
    PROVE  /\ i \in GameContents /\ \A j \in GameContents : i <= j
           /\ contents[i].files[1].off = 0 /\ contents[i].files[1].path = GameFiles[1]
<1>1. /\ tree \in Trees /\ contents \in Seq(Contents) /\ Len(contents) \in Nat
      /\ \A j \in 1 .. Len(Order) : Described(j)
      /\ \A j \in 2 .. Len(contents) : Sound(contents[j])
  BY LayoutIs
<1>2. Len(GameFiles) \in Nat /\ 1 \in 1 .. Len(GameFiles) /\ Len(GameFiles) > 0
  BY <1>1, GameFilesAre
<1>3. G(1) \in 1 .. Len(contents) - 1
  BY <1>2, GameContentsAre
<1>4. i \in 2 .. Len(contents) /\ i \in DOMAIN contents /\ i > G(1)
  BY <1>1, <1>3
<1>5. contents[i].game /\ i \in GameContents
  BY <1>2, <1>4, GameContentsAre DEF GameContents
<1>6. ASSUME NEW j \in GameContents PROVE i <= j
  <2>1. j \in 1 .. Len(contents) /\ j > G(1)
    BY <1>1, GameContentsAre DEF GameContents
  <2>2. QED
    BY <1>1, <1>3, <2>1
<1>7. contents[i].files # <<>>
  <2>1. PICK f : f = GameFiles[1]
    OBVIOUS
  <2>2. f \in Files /\ f \in InFst
    BY <1>1, <1>2, <2>1, GameFilesAre, InFstIs
  <2>3. PICK j \in 1 .. Len(Order) : Order[j] = f
    BY <1>1, <2>2, OrderIs
  <2>4. clusterOf[f] + 1 = i
    BY <2>1 DEF G
  <2>5. Described(j)
    BY <1>1
  <2>6. \E x \in DOMAIN contents[i].files : TRUE
    BY <2>2, <2>3, <2>4, <2>5 DEF Described
  <2>7. QED
    BY <2>6
<1>8. contents[i].files[1].off = 0
  BY <1>1, <1>4, <1>7 DEF Sound
<1>9. StartsWithFirst(i)
  BY <1>4 DEF Layout, Laid, Flattened
<1>10. contents[i].files[1].path = GameFiles[1]
  BY <1>5, <1>7, <1>9 DEF StartsWithFirst
<1>11. QED
  BY <1>5, <1>6, <1>8, <1>10

\* The game contents are last and within the cap, the NFS image begins the first of them, and
\* the slots of the content table follow each other with room for the contents, the FST's too.
THEOREM LayoutUsable == Spec => []LayoutIsUsable
<1>1. IInv => LayoutIsUsable
  <2>1. SUFFICES ASSUME IInv, Planned PROVE LayoutIsUsable
    BY DEF LayoutIsUsable
  <2>2. Shape /\ Layout
    BY <2>1 DEF IInv, Stage, Planned
  <2>3. tree \in Trees /\ contents \in Seq(Contents) /\ Len(contents) \in Nat \ {0}
    BY <2>2, LayoutIs DEF Shape
  <2>4. ASSUME NEW i \in GameContents
        PROVE  contents[i].len <= Cap /\ \A j \in i .. Len(contents) : contents[j].game
    <3>1. contents[i].len <= Cap
      BY <2>2, GameContentsAre
    <3>2. ASSUME NEW j \in i .. Len(contents) PROVE contents[j].game
      <4>1. i \in 1 .. Len(contents) /\ Len(GameFiles) > 0 /\ i > G(1)
        BY <2>2, <2>3, GameContentsAre DEF GameContents
      <4>2. G(1) \in 1 .. Len(contents) - 1
        BY <2>2, <4>1, GameContentsAre
      <4>3. j \in DOMAIN contents /\ j > G(1)
        BY <2>3, <4>1, <4>2
      <4>4. QED
        BY <2>2, <4>1, <4>3, GameContentsAre
    <3>3. QED
      BY <3>1, <3>2
  <2> DEFINE hifs == {p \in Directly("content") : p[2] \in HifNames}
  <2>5. ASSUME hifs # {}
        PROVE  \E i \in GameContents :
                 /\ \A j \in GameContents : i <= j
                 /\ contents[i].files[1].off = 0
                 /\ contents[i].files[1].path \in hifs
                 /\ \A p \in hifs : ~ NameBefore(p[2], contents[i].files[1].path[2])
    <3>1. PICK i : i = G(1) + 1
      OBVIOUS
    <3>2. 1 \in DOMAIN GameFiles /\ GameFiles[1] \in hifs
      BY <2>3, <2>5, FirstIsHif
    <3>3. \A p \in hifs : ~ NameBefore(p[2], GameFiles[1][2])
      BY <2>3, FirstIsHif
    <3>4. /\ i \in GameContents /\ \A j \in GameContents : i <= j
          /\ contents[i].files[1].off = 0 /\ contents[i].files[1].path = GameFiles[1]
      BY <2>2, <3>1, <3>2, FirstGameContent
    <3> HIDE DEF hifs
    <3>5. QED
      BY <3>2, <3>3, <3>4
  <2>6. /\ Len(table) = Len(contents)
        /\ \A i \in 1 .. Len(table) - 1 : table[i + 1].off = table[i].off + table[i].size
        /\ \A i \in 1 .. Len(contents) : table[i].size = SectorsOf(contents[i].len)
        /\ contents[1].len = SerializedLen(Len(contents), Len(nodes))
    BY <2>2 DEF Layout, Laid, Slots
  <2>7. ASSUME NEW i \in 1 .. Len(contents) PROVE table[i].size * Sector >= contents[i].len
    <3>1. contents[i] \in Contents
      BY <2>3
    <3>2. contents[i].len \in Nat
      BY <3>1 DEF Contents
    <3>3. QED
      BY <2>6, <3>2, SectorsAre
  <2>8. \A i \in 2 .. Len(table) : table[i].size * Sector >= contents[i].len
    <3>1. \A i \in 2 .. Len(table) : i \in 1 .. Len(contents)
      BY <2>3, <2>6
    <3>2. QED
      BY <2>7, <3>1
  <2>9. table[1].size * Sector >= SerializedLen(Len(contents), Len(nodes))
    <3>1. 1 \in 1 .. Len(contents)
      BY <2>3
    <3>2. QED
      BY <2>6, <2>7, <3>1
  <2>10. QED
    BY <2>4, <2>5, <2>6, <2>8, <2>9 DEF LayoutIsUsable
<1>2. QED
  BY <1>1, Invariance, PTL

-----------------------------------------------------------------------------
(***************************************************************************)
(* No other cut of the game files makes fewer contents.                    *)
(***************************************************************************)
\* Where the files from s to t take more than Cap, a cut that fits begins a content behind s,
\* at t at the latest.
LEMMA CutBetween ==
    ASSUME tree \in Trees, NEW cuts \in SUBSET DOMAIN GameFiles, 1 \in cuts, FitsCut(cuts),
           NEW s \in DOMAIN GameFiles, NEW t \in DOMAIN GameFiles, s < t, Span(s, t) > Cap
    PROVE  \E c \in cuts : s < c /\ c <= t
<1>0. PICK n : n = Len(GameFiles)
  OBVIOUS
<1>1. /\ n \in Nat /\ DOMAIN GameFiles = 1 .. n
      /\ s \in 1 .. n /\ t \in 1 .. n /\ cuts \subseteq 1 .. n
  BY <1>0, GameFilesAre
<1>2. SUFFICES ASSUME \A c \in cuts : ~ (s < c /\ c <= t) PROVE FALSE
  OBVIOUS
<1> DEFINE Low == {c \in cuts : c <= s}
           High == {b \in cuts \cup {n + 1} : b > s}
<1>3. PICK a \in cuts : a <= s /\ \A c \in cuts : c <= s => c <= a
  <2>1. Low \in SUBSET Nat /\ Low # {} /\ s \in Nat /\ \A c \in Low : c <= s
    BY <1>1
  <2>2. PICK a \in Low : \A c \in Low : c <= a
    <3> HIDE DEF Low
    <3>1. QED
      BY <2>1, GreatestNatural
  <2>3. QED
    BY <2>2
<1>4. PICK b \in cuts \cup {n + 1} : b > s /\ \A c \in cuts : c > s => b <= c
  <2>1. High \in SUBSET Nat /\ n + 1 \in High
    BY <1>1
  <2>2. PICK b \in High : \A c \in High : b <= c
    <3> HIDE DEF High
    <3>1. QED
      BY <2>1, LeastNatural
  <2>3. QED
    BY <2>2
<1>5. a \in 1 .. n /\ b \in 1 .. n + 1 /\ a < b /\ t < b
  BY <1>1, <1>2, <1>3, <1>4
<1>6. \A c \in cuts : ~ (a < c /\ c < b)
  <2>1. ASSUME NEW c \in cuts, a < c, c < b PROVE FALSE
    <3>1. c \in 1 .. n
      BY <1>1
    <3>2. c <= s \/ c > s
      BY <1>1, <3>1
    <3>3. QED
      BY <1>3, <1>4, <1>5, <2>1, <3>1, <3>2
  <2>2. QED
    BY <2>1
<1>7. Room[b - 1] - Room[a - 1] <= Cap
  BY <1>0, <1>5, <1>6 DEF FitsCut
<1>8. /\ a - 1 \in 0 .. n /\ s - 1 \in 0 .. n /\ b - 1 \in 0 .. n /\ t \in 0 .. n
      /\ a - 1 <= s - 1 /\ t <= b - 1
  BY <1>1, <1>3, <1>5
<1>9. Room[a - 1] <= Room[s - 1] /\ Room[t] <= Room[b - 1]
  BY <1>0, <1>8, RoomIs
<1>10. Room[a - 1] \in Nat /\ Room[s - 1] \in Nat /\ Room[t] \in Nat /\ Room[b - 1] \in Nat
  BY <1>0, <1>8, RoomIs
<1>11. Room[t] - Room[s - 1] > Cap /\ Cap \in Nat
  BY PlanAssumption DEF Span, PlanAssumption
<1>12. PICK ra, rs, rt, rb :
         ra = Room[a - 1] /\ rs = Room[s - 1] /\ rt = Room[t] /\ rb = Room[b - 1]
  OBVIOUS
<1>13. QED
  BY <1>7, <1>9, <1>10, <1>11, <1>12

\* A cut that belongs to content i: behind where the contents before it begin, and at most
\* where it does.
CutOf(i, c) ==
    /\ \E t \in Starts(Len(GameFiles)) : G(t) = i - 1 /\ c <= t
    /\ \A s \in Starts(Len(GameFiles)) : G(s) < i - 1 => s < c

\* Every game content has a cut of its own.
LEMMA ContentHasCut ==
    ASSUME Shape, Layout, NEW cuts \in SUBSET DOMAIN GameFiles, 1 \in cuts, FitsCut(cuts),
           NEW i \in GameContents
    PROVE  \E c \in cuts : CutOf(i, c)
<1>0. PICK n, g : n = Len(GameFiles) /\ g = i - 1
  OBVIOUS
<1>1. /\ tree \in Trees /\ Grouped(n) /\ contents \in Seq(Contents) /\ Len(contents) \in Nat
  BY <1>0, LayoutIs DEF Layout, Laid, Complete
<1>2. /\ n \in Nat /\ DOMAIN GameFiles = 1 .. n /\ 1 \in 1 .. n /\ n > 0
      /\ n \in 1 .. n /\ n \in 0 .. Len(GameFiles)
  BY <1>0, <1>1, GameFilesAre
<1>3. \A a \in 1 .. n : G(a) \in 1 .. Len(contents) - 1
  BY <1>1, <1>2, GroupedIs
<1>4. i \in 1 .. Len(contents) /\ i > G(1) /\ G(n) = Len(contents) - 1
  BY <1>1, <1>2, GameContentsAre DEF GameContents, Grouped
<1>5. g \in G(1) .. G(n) /\ g \in Nat /\ G(1) \in Nat /\ G(n) \in Nat
  BY <1>0, <1>1, <1>2, <1>3, <1>4
<1>6. \A a, b \in 1 .. n : a <= b => G(a) <= G(b)
  BY <1>1 DEF Grouped
<1>7. /\ \A a \in Starts(n) : a \in 1 .. n
      /\ 1 \in Starts(n)
  BY <1>2 DEF Starts
<1>8. CASE g = G(1)
  <2>1. G(1) = i - 1 /\ 1 <= 1
    BY <1>0, <1>8
  <2>2. ASSUME NEW s \in Starts(n), G(s) < g PROVE FALSE
    <3>1. s \in 1 .. n /\ 1 <= s
      BY <1>7
    <3>2. G(1) <= G(s) /\ G(s) \in Nat
      BY <1>2, <1>3, <1>6, <3>1
    <3>3. QED
      BY <1>5, <1>8, <2>2, <3>2
  <2>3. CutOf(i, 1)
    BY <1>0, <1>7, <2>1, <2>2 DEF CutOf
  <2>4. QED
    BY <2>3
<1>9. CASE g # G(1)
  <2>1. g - 1 \in G(1) .. G(n) /\ g - 1 \in Nat
    BY <1>5, <1>9
  <2>2. PICK t \in Starts(n) : G(t) = g
    BY <1>1, <1>2, <1>5 DEF Grouped
  <2>3. PICK s \in Starts(n) : G(s) = g - 1
    BY <1>1, <1>2, <2>1 DEF Grouped
  <2>4. s \in 1 .. n /\ t \in 1 .. n
    BY <1>7
  <2>5. s < t
    <3>1. t <= s => G(t) <= G(s)
      BY <1>6, <2>4
    <3>2. ~ (t <= s)
      BY <1>5, <2>2, <2>3, <3>1
    <3>3. QED
      BY <1>2, <2>4, <3>2
  <2>6. Span(s, t) > Cap
    <3>1. G(t) = G(s) + 1
      BY <1>5, <2>2, <2>3
    <3>2. QED
      BY <1>1, <3>1 DEF Grouped
  <2>7. PICK c \in cuts : s < c /\ c <= t
    BY <1>1, <1>2, <2>4, <2>5, <2>6, CutBetween
  <2>8. ASSUME NEW r \in Starts(n), G(r) < g PROVE r < c
    <3>1. r \in 1 .. n /\ G(r) \in Nat
      BY <1>3, <1>7
    <3>2. G(r) = G(s) \/ G(r) < G(s)
      BY <1>5, <2>3, <2>8, <3>1
    <3>3. r <= s
      <4>1. G(r) = G(s) => r <= s
        BY <1>0, <1>1, <1>2, <2>4, GroupedIs
      <4>2. s <= r => G(s) <= G(r)
        BY <1>6, <2>4, <3>1
      <4>3. G(s) \in Nat
        BY <1>3, <2>4
      <4>4. G(r) < G(s) => ~ (s <= r)
        BY <3>1, <4>2, <4>3
      <4>5. QED
        BY <1>2, <2>4, <3>1, <3>2, <4>1, <4>4
    <3>4. c \in 1 .. n
      BY <1>2
    <3>5. QED
      BY <2>4, <2>7, <3>1, <3>3, <3>4
  <2>9. CutOf(i, c)
    <3>1. \E r \in Starts(n) : G(r) = i - 1 /\ c <= r
      BY <1>0, <2>2, <2>7
    <3>2. \A r \in Starts(n) : G(r) < i - 1 => r < c
      BY <1>0, <2>8
    <3>3. QED
      BY <1>0, <3>1, <3>2 DEF CutOf
  <2>10. QED
    BY <2>9
<1>10. QED
  BY <1>8, <1>9

\* The planner makes the fewest game contents: each but the first begins where the one before
\* it would have been too large, so every cut that fits has to cut there too.
THEOREM FewestContents == Spec => []FewestGameContents
<1>1. IInv => FewestGameContents
  <2>1. SUFFICES ASSUME IInv, Planned, NEW cuts \in SUBSET DOMAIN GameFiles, 1 \in cuts,
                        Cardinality(cuts) < Cardinality(GameContents), FitsCut(cuts)
                 PROVE  FALSE
    BY DEF FewestGameContents
  <2>2. Shape /\ Layout
    BY <2>1 DEF IInv, Stage, Planned
  <2>3. /\ tree \in Trees /\ contents \in Seq(Contents) /\ Len(contents) \in Nat
    BY <2>2, LayoutIs
  <2>4. PICK n : n = Len(GameFiles)
    OBVIOUS
  <2>5. n \in Nat /\ DOMAIN GameFiles = 1 .. n /\ Grouped(n) /\ n \in 0 .. Len(GameFiles)
    BY <2>2, <2>3, <2>4, GameFilesAre DEF Layout, Laid, Complete
  <2>6. IsFiniteSet(cuts)
    <3>1. IsFiniteSet(1 .. n)
      <4>1. 1 \in Int /\ n \in Int
        BY <2>5
      <4>2. QED
        BY <4>1, FS_Interval, Zenon
    <3>2. cuts \in SUBSET (1 .. n)
      BY <2>5
    <3>3. QED
      BY <3>1, <3>2, FS_Subset
  <2> DEFINE cut == [i \in GameContents |-> CHOOSE c \in cuts : CutOf(i, c)]
  <2>7. \A i \in GameContents : cut[i] \in cuts /\ CutOf(i, cut[i])
    BY <2>1, <2>2, ContentHasCut
  <2>8. ASSUME NEW i \in GameContents, NEW j \in GameContents, i < j PROVE cut[i] # cut[j]
    <3> HIDE DEF cut
    <3>1. i \in Nat /\ j \in Nat
      BY <2>3 DEF GameContents
    <3>2. PICK c, d : c = cut[i] /\ d = cut[j]
      OBVIOUS
    <3>3. c \in 1 .. n /\ d \in 1 .. n /\ CutOf(i, c) /\ CutOf(j, d)
      BY <2>5, <2>7, <3>2
    <3>4. PICK t \in Starts(n) : G(t) = i - 1 /\ c <= t
      BY <2>4, <3>3 DEF CutOf
    <3>5. i - 1 < j - 1
      BY <2>8, <3>1
    <3>6. t < d
      BY <2>4, <3>3, <3>4, <3>5 DEF CutOf
    <3>7. t \in 1 .. n
      BY <3>4 DEF Starts
    <3>8. c # d
      BY <3>3, <3>4, <3>6, <3>7
    <3>9. QED
      BY <3>2, <3>8
  <2>9. cut \in Injection(GameContents, cuts)
    <3> HIDE DEF cut
    <3>1. cut \in [GameContents -> cuts]
      BY <2>7 DEF cut
    <3>2. ASSUME NEW i \in GameContents, NEW j \in GameContents, i # j PROVE cut[i] # cut[j]
      <4>1. i \in Nat /\ j \in Nat
        BY <2>3 DEF GameContents
      <4>2. i < j \/ j < i
        BY <3>2, <4>1
      <4>3. QED
        BY <2>8, <4>2
    <3>3. QED
      BY <3>1, <3>2 DEF Injection, IsInjective
  <2>10. Cardinality(GameContents) <= Cardinality(cuts)
    BY <2>6, <2>9, FS_Injection
  <2>11. Cardinality(cuts) \in Nat /\ Cardinality(GameContents) \in Nat
    BY <2>6, <2>9, FS_Injection, FS_CardinalityType
  <2>12. QED
    BY <2>1, <2>10, <2>11
<1>2. QED
  BY <1>1, Invariance, PTL
=============================================================================
