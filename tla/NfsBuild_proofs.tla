--------------------------- MODULE NfsBuild_proofs ---------------------------
(***************************************************************************)
(* Proofs about planning a disc and encoding it as an NFS image: what the  *)
(* mounted image reads, for every layout, disc and choice of options.      *)
(***************************************************************************)
EXTENDS NfsBuild, SplitWriter, FiniteSetTheorems, WellFoundedInduction, TLAPS

(***************************************************************************)
(* Arithmetic, induction and order.                                        *)
(***************************************************************************)
LEMMA Product == \A a, b \in Nat : a * b \in Nat
OBVIOUS

LEMMA ProductOrder == ASSUME NEW a \in Nat, NEW b \in Nat, NEW c \in Nat, a <= b
                      PROVE  a * c <= b * c
OBVIOUS

LEMMA DivMod ==
    ASSUME NEW a \in Nat, NEW d \in Nat \ {0}
    PROVE  \E q \in Nat, r \in 0 .. d - 1 : a = q * d + r /\ q = a \div d /\ r = a % d
OBVIOUS

LEMMA DivUnique ==
    ASSUME NEW d \in Nat \ {0}, NEW q \in Nat, NEW r \in 0 .. d - 1
    PROVE  (q * d + r) \div d = q /\ (q * d + r) % d = r
OBVIOUS

\* Which quotients are below another, by what is divided.
LEMMA DivOrder ==
    ASSUME NEW a \in Nat, NEW d \in Nat \ {0}, NEW x \in Nat
    PROVE  a \div d \in Nat /\ (x <= a \div d <=> x * d <= a)
<1>1. PICK q \in Nat, r \in 0 .. d - 1 : a = q * d + r /\ q = a \div d
  <2>1. \E q \in Nat, r \in 0 .. d - 1 : a = q * d + r /\ q = a \div d /\ r = a % d
    BY DivMod
  <2>. QED  BY <2>1
<1>2. q * d \in Nat /\ x * d \in Nat /\ (q + 1) * d = q * d + d
  <2>1. \A u, v \in Nat : u * v \in Nat /\ (u + 1) * v = u * v + v
    OBVIOUS
  <2>. QED  BY <2>1
<1>3. CASE x <= q
  <2>1. x * d <= q * d
    BY <1>3, ProductOrder
  <2>. QED  BY <1>1, <1>2, <1>3, <2>1
<1>4. CASE q + 1 <= x
  <2>1. q + 1 \in Nat
    OBVIOUS
  <2>2. (q + 1) * d <= x * d
    BY <1>4, <2>1, ProductOrder
  <2>. QED  BY <1>1, <1>2, <1>4, <2>2
<1>. QED  BY <1>1, <1>3, <1>4

LEMMA CeilAbove ==
    ASSUME NEW n \in Nat, NEW d \in Nat \ {0}, NEW x \in Nat
    PROVE  CeilDiv(n, d) \in Nat /\ (x < CeilDiv(n, d) <=> x * d < n)
<1> DEFINE m == n + d - 1
           y == x + 1
<1>1. m \in Nat /\ y \in Nat /\ CeilDiv(n, d) = m \div d
    BY DEF CeilDiv
<1>2. y * d = x * d + d /\ x * d \in Nat
  <2>1. \A u, v \in Nat : u * v \in Nat /\ (u + 1) * v = u * v + v
    OBVIOUS
  <2>. QED  BY <2>1
<1>3. y * d <= m <=> x * d < n
    BY <1>2
<1> HIDE DEF m
<1>4. m \div d \in Nat /\ (y <= m \div d <=> y * d <= m)
  <2> HIDE DEF y
  <2>. QED  BY <1>1, DivOrder
<1>. QED  BY <1>1, <1>3, <1>4

\* A set of naturals that is not empty has a least element.
LEMMA LeastNatural ==
    ASSUME NEW T \in SUBSET Nat, T # {}
    PROVE  \E x \in T : \A y \in T : x <= y
<1> DEFINE U == {1 .. x : x \in T}
<1>1. U \subseteq FiniteSubsetsOf(Nat) /\ U # {}
  <2>1. ASSUME NEW x \in T PROVE 1 .. x \in SUBSET Nat /\ IsFiniteSet(1 .. x)
    <3>1. 1 \in Int /\ x \in Int
        OBVIOUS
    <3>2. IsFiniteSet(1 .. x)
        BY <3>1, FS_Interval, Zenon
    <3>. QED  BY <3>2
  <2>. QED  BY <2>1 DEF FiniteSubsetsOf
<1>2. PICK u \in U : \A v \in U : ~ (<<v, u>> \in StrictSubsetOrdering(Nat))
    BY <1>1, FS_StrictSubsetOrderingWellFounded, WFMin
<1>3. PICK x \in T : u = 1 .. x
    BY <1>2
<1>4. ASSUME NEW y \in T, y < x PROVE FALSE
  <2>1. 1 .. y \subseteq 1 .. x /\ 1 .. y # 1 .. x /\ 1 .. y \in SUBSET Nat /\ 1 .. x \in SUBSET Nat
    <3>1. x \in 1 .. x /\ x \notin 1 .. y
        BY <1>4
    <3>. QED  BY <1>4, <3>1
  <2>2. <<1 .. y, 1 .. x>> \in StrictSubsetOrdering(Nat)
    BY <2>1 DEF StrictSubsetOrdering
  <2>. QED  BY <1>2, <1>3, <2>2
<1>. QED  BY <1>4

\* A bounded one has a greatest.
LEMMA GreatestNatural ==
    ASSUME NEW T \in SUBSET Nat, T # {}, NEW n \in Nat, \A y \in T : y <= n
    PROVE  \E x \in T : \A y \in T : y <= x
<1> DEFINE U == {m \in Nat : \A y \in T : y <= m}
<1>1. U \in SUBSET Nat /\ U # {}
    OBVIOUS
<1>2. PICK m \in U : \A u \in U : m <= u
    BY <1>1, LeastNatural
<1>3. ASSUME m \notin T PROVE FALSE
  <2>1. \A y \in T : y < m
    BY <1>2, <1>3
  <2>2. PICK t \in T : TRUE
    OBVIOUS
  <2>3. m \in Nat /\ t \in Nat /\ t < m
    BY <1>2, <2>1
  <2>4. m - 1 \in Nat /\ \A y \in T : y <= m - 1
    BY <2>1, <2>3
  <2>. QED  BY <1>2, <2>3, <2>4
<1>. QED  BY <1>2, <1>3

LEMMA Induction ==
    ASSUME NEW T \in SUBSET Nat, 0 \in T, \A n \in T : n + 1 \in T
    PROVE  \A n \in Nat : n \in T
<1> DEFINE U == Nat \ T
<1>1. SUFFICES ASSUME U # {} PROVE FALSE
    OBVIOUS
<1>2. PICK m \in U : \A u \in U : m <= u
    BY <1>1, LeastNatural
<1>3. m - 1 \in Nat /\ m - 1 \in T
    BY <1>2
<1>. QED  BY <1>2, <1>3

\* Elements of which each has those before it below it have the ranks from 0 on.
LEMMA Ranks ==
    ASSUME NEW S, IsFiniteSet(S), NEW below \in [S -> SUBSET S],
           \A x \in S : x \notin below[x],
           \A x, y \in S : x # y => \/ x \in below[y] /\ below[x] \subseteq below[y]
                                    \/ y \in below[x] /\ below[y] \subseteq below[x]
    PROVE  /\ \A x \in S : Cardinality(below[x]) \in 0 .. Cardinality(S) - 1
           /\ \A x, y \in S : x \in below[y] => Cardinality(below[x]) < Cardinality(below[y])
           /\ \A i \in 1 .. Cardinality(S) : \E x \in S : Cardinality(below[x]) = i - 1
<1> DEFINE n == Cardinality(S)
           Rank(x) == Cardinality(below[x])
<1>1. n \in Nat
    BY FS_CardinalityType
<1>2. \A x \in S : below[x] \in SUBSET S /\ IsFiniteSet(below[x]) /\ Rank(x) \in Nat
    BY FS_Subset, FS_CardinalityType
<1>3. ASSUME NEW x \in S PROVE Rank(x) < n
  <2>1. Rank(x) <= n /\ (n = Rank(x) => S = below[x])
    BY <1>2, FS_Subset
  <2>. QED  BY <1>1, <1>2, <2>1
<1>4. ASSUME NEW x \in S, NEW y \in S, x \in below[y] PROVE Rank(x) < Rank(y)
  <2>1. below[x] \subseteq below[y]
    BY <1>4
  <2>2. below[x] \in SUBSET below[y] /\ below[x] # below[y]
    BY <1>4, <2>1
  <2>3. Rank(x) <= Rank(y) /\ (Rank(y) = Rank(x) => below[y] = below[x])
    BY <1>2, <2>2, FS_Subset
  <2>. QED  BY <1>2, <2>2, <2>3
<1> DEFINE rank == [x \in S |-> Rank(x)]
<1>5. rank \in [S -> 0 .. n - 1]
  <2>1. \A x \in S : Rank(x) \in 0 .. n - 1
    <3> HIDE DEF Rank, n
    <3>. QED  BY <1>1, <1>2, <1>3
  <2>. QED  BY <2>1
<1>6. ASSUME NEW x \in S, NEW y \in S, x # y PROVE Rank(x) # Rank(y)
  <2>1. x \in below[y] \/ y \in below[x]
    BY <1>6
  <2> HIDE DEF Rank
  <2>. QED  BY <1>2, <1>4, <2>1
<1>7. rank \in Injection(S, 0 .. n - 1)
  <2> HIDE DEF Rank, n
  <2>. QED  BY <1>5, <1>6 DEF Injection, IsInjective
<1>8. IsFiniteSet(0 .. n - 1) /\ Cardinality(0 .. n - 1) = n
  <2> DEFINE z == 0
             m == n - 1
  <2>1. z \in Int /\ m \in Int /\ m - z + 1 = n /\ (z > m => n = 0)
    BY <1>1
  <2> HIDE DEF z, m
  <2>2. IsFiniteSet(z .. m) /\ Cardinality(z .. m) = IF z > m THEN 0 ELSE m - z + 1
    BY <2>1, FS_Interval
  <2>. QED  BY <2>1, <2>2 DEF z, m
<1>9. rank \in Surjection(S, 0 .. n - 1)
    BY <1>7, <1>8, FS_Injection
<1>10. ASSUME NEW i \in 1 .. n PROVE \E x \in S : Rank(x) = i - 1
  <2>1. i - 1 \in 0 .. n - 1
    BY <1>1
  <2>2. \E x \in S : rank[x] = i - 1
    BY <1>9, <2>1 DEF Surjection
  <2>. QED  BY <2>2
<1>. QED  BY <1>4, <1>5, <1>10

\* Numbers in ascending order.
LEMMA Ascending ==
    ASSUME NEW S \in SUBSET Int, IsFiniteSet(S)
    PROVE  LET s == Ordered(S, <)
               n == Cardinality(S)
           IN /\ n \in Nat /\ s \in [1 .. n -> S]
              /\ \A i, j \in 1 .. n : i < j => s[i] < s[j]
              /\ \A x \in S : \E i \in 1 .. n : s[i] = x
<1> DEFINE n == Cardinality(S)
           below == [x \in S |-> {y \in S : y < x}]
           s == Ordered(S, <)
<1>1. n \in Nat
    BY FS_CardinalityType
<1>2. /\ below \in [S -> SUBSET S] /\ \A x \in S : x \notin below[x]
      /\ \A x, y \in S : x # y => \/ x \in below[y] /\ below[x] \subseteq below[y]
                                  \/ y \in below[x] /\ below[y] \subseteq below[x]
  <2>1. below \in [S -> SUBSET S] /\ \A x \in S : x \notin below[x]
    OBVIOUS
  <2>2. ASSUME NEW x \in S, NEW y \in S, x # y
        PROVE  \/ x \in below[y] /\ below[x] \subseteq below[y]
               \/ y \in below[x] /\ below[y] \subseteq below[x]
    <3>1. x \in Int /\ y \in Int /\ \A z \in S : z \in Int
        OBVIOUS
    <3>2. x < y \/ y < x
        BY <2>2, <3>1
    <3>3. /\ \A z \in S : z \in below[x] <=> z < x
          /\ \A z \in S : z \in below[y] <=> z < y
          /\ below[x] \subseteq S /\ below[y] \subseteq S
        OBVIOUS
    <3> HIDE DEF below
    <3>4. CASE x < y
      <4>1. ASSUME NEW z \in below[x] PROVE z \in below[y]
        <5>1. z \in S /\ z \in Int /\ z < x
            BY <3>1, <3>3
        <5>2. z < y
            BY <3>1, <3>4, <5>1
        <5>. QED  BY <3>3, <5>1, <5>2
      <4>. QED  BY <3>3, <3>4, <4>1
    <3>5. CASE y < x
      <4>1. ASSUME NEW z \in below[y] PROVE z \in below[x]
        <5>1. z \in S /\ z \in Int /\ z < y
            BY <3>1, <3>3
        <5>2. z < x
            BY <3>1, <3>5, <5>1
        <5>. QED  BY <3>3, <5>1, <5>2
      <4>. QED  BY <3>3, <3>5, <4>1
    <3>. QED  BY <3>2, <3>4, <3>5
  <2>. QED  BY <2>1, <2>2
<1>3. \A x, y \in S : x \in below[y] <=> x < y
    OBVIOUS
<1>4. \A i \in 1 .. n : s[i] = CHOOSE x \in S : Cardinality(below[x]) = i - 1
    BY DEF Ordered
<1> HIDE DEF below
<1>5. /\ \A x \in S : Cardinality(below[x]) \in 0 .. n - 1
      /\ \A x, y \in S : x \in below[y] => Cardinality(below[x]) < Cardinality(below[y])
      /\ \A i \in 1 .. n : \E x \in S : Cardinality(below[x]) = i - 1
    BY <1>2, Ranks
<1>6. \A i \in 1 .. n : s[i] \in S /\ Cardinality(below[s[i]]) = i - 1
    BY <1>4, <1>5
<1>7. s \in [1 .. n -> S]
    BY <1>6 DEF Ordered
<1> HIDE DEF s, n
<1>8. ASSUME NEW i \in 1 .. n, NEW j \in 1 .. n, i < j PROVE s[i] < s[j]
  <2>1. s[i] \in Int /\ s[j] \in Int /\ s[i] \in S /\ s[j] \in S
    BY <1>7
  <2>2. ~ (s[j] < s[i]) /\ s[i] # s[j]
    BY <1>1, <1>3, <1>5, <1>6, <1>8, <2>1
  <2>. QED  BY <2>1, <2>2
<1>9. ASSUME NEW x \in S PROVE \E i \in 1 .. n : s[i] = x
  <2> DEFINE i == Cardinality(below[x]) + 1
  <2>1. i \in 1 .. n /\ i - 1 = Cardinality(below[x])
    BY <1>1, <1>5
  <2>2. s[i] \in S /\ Cardinality(below[s[i]]) = Cardinality(below[x])
    BY <1>6, <2>1
  <2>3. s[i] = x
    <3> HIDE DEF i
    <3>1. s[i] \in Int /\ x \in Int
        BY <2>2
    <3>2. s[i] \notin below[x] /\ x \notin below[s[i]]
      <4> DEFINE c == Cardinality(below[x])
                 e == Cardinality(below[s[i]])
      <4>1. c \in Int /\ c = e
        BY <1>5, <2>2
      <4>2. (s[i] \in below[x] => e < c) /\ (x \in below[s[i]] => c < e)
        BY <1>5, <2>2
      <4> HIDE DEF c, e
      <4>. QED  BY <4>1, <4>2
    <3>. QED  BY <1>3, <2>2, <3>1, <3>2
  <2>. QED  BY <2>1, <2>3
<1>. QED  BY <1>1, <1>7, <1>8, <1>9 DEF s, n

\* The least of two.
LEMMA MinIs == ASSUME NEW a \in Int, NEW b \in Int
               PROVE  Min({a, b}) = IF a <= b THEN a ELSE b
BY DEF Min

\* A sequence behind another.
LEMMA Appended ==
    ASSUME NEW W, NEW p \in Seq(W), NEW q \in Seq(W)
    PROVE  /\ Len(p \o q) = Len(p) + Len(q) /\ DOMAIN (p \o q) = 1 .. Len(p) + Len(q)
           /\ \A k \in 1 .. Len(p) : (p \o q)[k] = p[k]
           /\ \A k \in 1 .. Len(q) : (p \o q)[Len(p) + k] = q[k]
OBVIOUS

Behind(p, q, pq) == \A k \in 1 .. Len(q) : pq[Len(p) + k] = q[k]

LEMMA AppendedBehind ==
    ASSUME NEW W, NEW p \in Seq(W), NEW q \in Seq(W) PROVE Behind(p, q, p \o q)
BY DEF Behind

-----------------------------------------------------------------------------
(***************************************************************************)
(* Group runs: ascending, apart, and none empty.                           *)
(***************************************************************************)
AreRuns(rs) ==
    /\ rs \in Seq([first : Nat, num : Nat \ {0}])
    /\ \A i, j \in DOMAIN rs : i < j => EndOf(rs[i]) <= rs[j].first

\* The runs store every group of the set, and none from n on.
Store(rs, groups, n) ==
    /\ \A g \in groups : StoredGroup(rs, g)
    /\ \A i \in DOMAIN rs : EndOf(rs[i]) <= n

\* Where the interval that a group begins ends.
LEMMA LastFromIs ==
    ASSUME NEW G \in SUBSET Nat, NEW n \in Nat, \A g \in G : g < n, NEW g \in G
    PROVE  LET h == LastFrom(G, g)
           IN h \in G /\ h >= g /\ h + 1 \notin G /\ \A k \in g .. h : k \in G
<1> DEFINE T == {h \in Nat : h >= g /\ h + 1 \notin G}
<1>1. T \in SUBSET Nat /\ n \in T
    OBVIOUS
<1>2. PICK h \in T : \A k \in T : h <= k
    BY <1>1, LeastNatural
<1>3. \A k \in g .. h : k \in G
  <2> DEFINE U == {m \in Nat : m <= h - g => g + m \in G}
  <2>1. U \in SUBSET Nat /\ 0 \in U
    OBVIOUS
  <2>2. ASSUME NEW m \in U PROVE m + 1 \in U
    <3>1. SUFFICES ASSUME m + 1 <= h - g PROVE g + (m + 1) \in G
        OBVIOUS
    <3>2. g + m \in Nat /\ g + m >= g /\ g + m < h /\ m \in Nat
        BY <1>2, <3>1
    <3>3. g + m \notin T
        BY <1>2, <3>2
    <3>4. (g + m) + 1 \in G
        BY <3>2, <3>3
    <3>. QED  BY <3>2, <3>4
  <2> HIDE DEF U
  <2>3. \A m \in Nat : m \in U
    BY <2>1, <2>2, Induction
  <2>4. ASSUME NEW k \in g .. h PROVE k \in G
    <3>1. k - g \in Nat /\ k - g <= h - g /\ g + (k - g) = k
        BY <1>2
    <3>. QED  BY <2>3, <3>1 DEF U
  <2>. QED  BY <2>4
<1>4. h \in G /\ h >= g /\ h + 1 \notin G /\ \A k \in g .. h : k \in G
    BY <1>2, <1>3
<1>. QED  BY <1>4 DEF LastFrom

\* Coalesce gives the groups of the set and no other.
LEMMA CoalesceIs ==
    ASSUME NEW G \in SUBSET Nat, NEW n \in Nat, \A g \in G : g < n
    PROVE  AreRuns(Coalesce(G)) /\ Store(Coalesce(G), G, n)
<1> DEFINE S == {g \in G : (g - 1) \notin G}
           m == Cardinality(S)
           s == Ordered(S, <)
           rs == Coalesce(G)
<1>1. S \in SUBSET Nat /\ S \in SUBSET Int /\ IsFiniteSet(S)
  <2>1. S \in SUBSET Nat /\ S \subseteq G
    OBVIOUS
  <2>2. ASSUME NEW g \in S PROVE g <= n
    <3>1. g \in G /\ g \in Nat
        BY <2>1
    <3>2. g < n
        BY <3>1
    <3>. QED  BY <3>1, <3>2
  <2> HIDE DEF S
  <2>. QED  BY <2>1, <2>2, FS_BoundedSetOfNaturals
<1> DEFINE Says == /\ m \in Nat /\ s \in [1 .. m -> S]
                   /\ \A i, j \in 1 .. m : i < j => s[i] < s[j]
                   /\ \A x \in S : \E i \in 1 .. m : s[i] = x
<1>2. Says
  <2> HIDE DEF S
  <2>. QED  BY <1>1, Ascending
<1>3. rs = [i \in 1 .. m |-> [first |-> s[i], num |-> LastFrom(G, s[i]) + 1 - s[i]]]
  <2>1. DOMAIN s = 1 .. m
    BY <1>2
  <2>. QED  BY <2>1 DEF Coalesce
<1> HIDE DEF s, rs, m
<1>4. ASSUME NEW i \in 1 .. m
      PROVE  LET h == LastFrom(G, s[i])
             IN /\ s[i] \in G /\ s[i] \in Nat /\ (s[i] - 1) \notin G
                /\ h \in G /\ h \in Nat /\ h >= s[i] /\ h + 1 \notin G
                /\ \A k \in s[i] .. h : k \in G
                /\ rs[i].first = s[i] /\ EndOf(rs[i]) = h + 1
                /\ rs[i] \in [first : Nat, num : Nat \ {0}]
  <2> DEFINE h == LastFrom(G, s[i])
  <2>1. s[i] \in S
    BY <1>2
  <2>2. s[i] \in G /\ s[i] \in Nat /\ (s[i] - 1) \notin G
    BY <2>1
  <2>3. h \in G /\ h >= s[i] /\ h + 1 \notin G /\ \A k \in s[i] .. h : k \in G
    BY <2>2, LastFromIs
  <2>4. rs[i] = [first |-> s[i], num |-> h + 1 - s[i]]
    BY <1>3
  <2> HIDE DEF h
  <2>5. h \in Nat /\ h + 1 - s[i] \in Nat \ {0} /\ s[i] + (h + 1 - s[i]) = h + 1
    BY <2>2, <2>3
  <2>. QED  BY <2>2, <2>3, <2>4, <2>5 DEF EndOf, h
<1>5. rs \in Seq([first : Nat, num : Nat \ {0}]) /\ DOMAIN rs = 1 .. m
  <2>1. ASSUME NEW R, NEW q \in [1 .. m -> R] PROVE q \in Seq(R) /\ DOMAIN q = 1 .. m
    BY <1>2
  <2>2. rs \in [1 .. m -> [first : Nat, num : Nat \ {0}]]
    BY <1>3, <1>4
  <2>. QED  BY <2>1, <2>2
<1>6. ASSUME NEW i \in 1 .. m, NEW j \in 1 .. m, i < j PROVE EndOf(rs[i]) <= rs[j].first
  <2> DEFINE h == LastFrom(G, s[i])
  <2>1. s[i] < s[j] /\ s[j] \in G /\ s[j] \in Nat /\ (s[j] - 1) \notin G
    BY <1>2, <1>4, <1>6
  <2>2. /\ s[i] \in Nat /\ h \in Nat /\ h + 1 \notin G /\ \A k \in s[i] .. h : k \in G
        /\ EndOf(rs[i]) = h + 1 /\ rs[j].first = s[j]
    BY <1>4
  <2> HIDE DEF h
  <2>3. ~ (s[j] <= h)
    <3>1. s[j] <= h => s[j] - 1 \in s[i] .. h
        BY <2>1, <2>2
    <3>. QED  BY <2>1, <2>2, <3>1
  <2>. QED  BY <2>1, <2>2, <2>3
<1>7. ASSUME NEW g \in G PROVE StoredGroup(rs, g)
  <2> DEFINE T == {k \in Nat : k <= g /\ \A l \in k .. g : l \in G}
  <2>1. T \in SUBSET Nat /\ g \in T
    BY <1>7
  <2>2. PICK k \in T : \A l \in T : k <= l
    BY <2>1, LeastNatural
  <2>3. k \in G /\ k \in Nat /\ k <= g /\ \A l \in k .. g : l \in G
    BY <2>2
  <2>4. k - 1 \notin G
    <3>1. SUFFICES ASSUME k - 1 \in G PROVE FALSE
        OBVIOUS
    <3>2. k - 1 \in Nat
        BY <3>1
    <3>3. \A l \in k - 1 .. g : l = k - 1 \/ l \in k .. g
        BY <2>3
    <3>4. k - 1 \in T
        BY <2>3, <3>1, <3>2, <3>3
    <3>. QED  BY <2>2, <2>3, <3>4
  <2>5. PICK i \in 1 .. m : s[i] = k
    BY <1>2, <2>3, <2>4
  <2>6. g \in Nat /\ g < LastFrom(G, k) + 1
    <3> DEFINE h == LastFrom(G, k)
    <3>1. h \in Nat /\ h >= k /\ h + 1 \notin G
        BY <1>4, <2>5
    <3> HIDE DEF h
    <3>2. h + 1 <= g => h + 1 \in k .. g
        BY <2>3, <3>1
    <3>. QED  BY <1>7, <2>3, <3>1, <3>2 DEF h
  <2>7. rs[i].first <= g /\ g < EndOf(rs[i])
    BY <1>4, <2>3, <2>5, <2>6
  <2>. QED  BY <1>5, <2>7 DEF StoredGroup
<1>8. ASSUME NEW i \in 1 .. m PROVE EndOf(rs[i]) <= n
  <2> DEFINE h == LastFrom(G, s[i])
  <2>1. h \in G /\ h \in Nat /\ EndOf(rs[i]) = h + 1
    BY <1>4
  <2> HIDE DEF h
  <2>. QED  BY <2>1
<1>. QED  BY <1>5, <1>6, <1>7, <1>8 DEF AreRuns, Store, rs

\* Runs in order begin and end in order.
LEMMA RunsInOrder ==
    ASSUME NEW rs, AreRuns(rs)
    PROVE  /\ Len(rs) \in Nat /\ DOMAIN rs = 1 .. Len(rs)
           /\ \A i \in 1 .. Len(rs) : /\ rs[i].first \in Nat /\ rs[i].num \in Nat \ {0}
                                      /\ EndOf(rs[i]) \in Nat /\ rs[i].first < EndOf(rs[i])
           /\ \A i, j \in 1 .. Len(rs) : i < j => EndOf(rs[i]) <= rs[j].first
           /\ \A i, j \in 1 .. Len(rs) : i <= j => /\ rs[i].first <= rs[j].first
                                                   /\ EndOf(rs[i]) <= EndOf(rs[j])
<1>1. ASSUME NEW R, NEW q \in Seq(R)
      PROVE  Len(q) \in Nat /\ DOMAIN q = 1 .. Len(q) /\ \A i \in 1 .. Len(q) : q[i] \in R
    OBVIOUS
<1>2. /\ Len(rs) \in Nat /\ DOMAIN rs = 1 .. Len(rs)
      /\ \A i \in 1 .. Len(rs) : rs[i] \in [first : Nat, num : Nat \ {0}]
    BY <1>1 DEF AreRuns
<1>3. ASSUME NEW i \in 1 .. Len(rs)
      PROVE  /\ rs[i].first \in Nat /\ rs[i].num \in Nat \ {0}
             /\ EndOf(rs[i]) \in Nat /\ rs[i].first < EndOf(rs[i])
  <2>1. rs[i].first \in Nat /\ rs[i].num \in Nat \ {0}
    BY <1>2
  <2>. QED  BY <2>1 DEF EndOf
<1>4. \A i, j \in 1 .. Len(rs) : i < j => EndOf(rs[i]) <= rs[j].first
    BY <1>2 DEF AreRuns
<1>5. ASSUME NEW i \in 1 .. Len(rs), NEW j \in 1 .. Len(rs), i <= j
      PROVE  rs[i].first <= rs[j].first /\ EndOf(rs[i]) <= EndOf(rs[j])
  <2> HIDE DEF EndOf
  <2>1. CASE i = j
    BY <1>3, <2>1
  <2>2. CASE i < j
    BY <1>3, <1>4, <2>2
  <2>. QED  BY <1>5, <2>1, <2>2
<1>. QED  BY <1>2, <1>3, <1>4, <1>5

GapLength(rs, i) == rs[i + 1].first - EndOf(rs[i])

\* The gaps between runs, each once, the shorter first, as merge_smallest_gaps takes them.
LEMMA GapsAre ==
    ASSUME NEW rs, AreRuns(rs), Len(rs) > 0
    PROVE  LET gaps == Gaps(rs, SmallerGap)
               m == Len(rs) - 1
           IN /\ DOMAIN gaps = 1 .. m /\ Len(gaps) = m
              /\ \A k \in 1 .. m : gaps[k][2] \in 1 .. m
              /\ \A j, k \in 1 .. m : gaps[j][2] = gaps[k][2] => j = k
              /\ \A i \in 1 .. m : \E k \in 1 .. m : gaps[k][2] = i
              /\ \A j, k \in 1 .. m :
                    j < k => GapLength(rs, gaps[j][2]) <= GapLength(rs, gaps[k][2])
<1> DEFINE m == Len(rs) - 1
           length == [i \in 1 .. m |-> rs[i + 1].first - EndOf(rs[i])]
           P == {<<length[i], i>> : i \in 1 .. m}
           below == [x \in P |-> {y \in P : SmallerGap(y, x)}]
           gaps == Gaps(rs, SmallerGap)
<1>1. m \in Nat /\ length \in [1 .. m -> Int]
  <2>1. m \in Nat
    BY RunsInOrder
  <2>2. ASSUME NEW i \in 1 .. m PROVE rs[i + 1].first - EndOf(rs[i]) \in Int
    <3>1. Len(rs) \in Nat /\ i \in 1 .. Len(rs) /\ i + 1 \in 1 .. Len(rs)
        BY <2>1, RunsInOrder
    <3>2. rs[i + 1].first \in Nat /\ EndOf(rs[i]) \in Nat
        BY <3>1, RunsInOrder
    <3>. QED  BY <3>2
  <2>. QED  BY <2>1, <2>2
<1>2. gaps = [k \in 1 .. Cardinality(P) |->
                 CHOOSE x \in P : Cardinality({y \in P : SmallerGap(y, x)}) = k - 1]
  <2>1. P = {<<rs[i + 1].first - EndOf(rs[i]), i>> : i \in 1 .. (Len(rs) - 1)}
    OBVIOUS
  <2> HIDE DEF P
  <2>. QED  BY <2>1 DEF Gaps, Ordered
<1>a. \A i \in 1 .. m : length[i] = GapLength(rs, i)
    BY DEF GapLength
<1> HIDE DEF length, m, gaps
<1>3. IsFiniteSet(P) /\ Cardinality(P) = m
  <2> DEFINE f == [i \in 1 .. m |-> <<length[i], i>>]
  <2>1. f \in [1 .. m -> P] /\ \A x \in P : \E i \in 1 .. m : f[i] = x
    OBVIOUS
  <2>2. ASSUME NEW i \in 1 .. m, NEW j \in 1 .. m, f[i] = f[j] PROVE i = j
    BY <2>2
  <2> HIDE DEF f, P
  <2>3. f \in Bijection(1 .. m, P)
    BY <2>1, <2>2 DEF Bijection, Injection, Surjection, IsInjective
  <2>4. ExistsBijection(1 .. m, P)
    BY <2>3 DEF ExistsBijection
  <2>. QED  BY <1>1, <2>4, FS_CountingElements, FS_NatBijection
<1>4. ASSUME NEW x \in P
      PROVE  x[2] \in 1 .. m /\ x[1] \in Int /\ x[2] \in Int /\ x = <<length[x[2]], x[2]>>
  <2>1. PICK i \in 1 .. m : x = <<length[i], i>>
    OBVIOUS
  <2>. QED  BY <1>1, <2>1
<1>5. ASSUME NEW x \in P, NEW y \in P, x # y PROVE SmallerGap(x, y) \/ SmallerGap(y, x)
  <2>1. x[1] # y[1] \/ x[2] # y[2]
    BY <1>4, <1>5
  <2> HIDE DEF P
  <2>. QED  BY <1>4, <2>1 DEF SmallerGap
<1>6. ASSUME NEW x \in P, NEW y \in P, NEW z \in P, SmallerGap(x, y), SmallerGap(y, z)
      PROVE  SmallerGap(x, z)
  <2> HIDE DEF P
  <2>. QED  BY <1>4, <1>6 DEF SmallerGap
<1>7. \A x \in P : ~ SmallerGap(x, x)
  <2> HIDE DEF P
  <2>. QED  BY <1>4 DEF SmallerGap
<1> HIDE DEF P
<1>8. /\ below \in [P -> SUBSET P]
      /\ \A x, y \in P : x \in below[y] <=> SmallerGap(x, y)
      /\ \A x \in P : below[x] = {y \in P : SmallerGap(y, x)}
    OBVIOUS
<1> HIDE DEF below
<1>9. \A x, y \in P : x # y => \/ x \in below[y] /\ below[x] \subseteq below[y]
                               \/ y \in below[x] /\ below[y] \subseteq below[x]
    BY <1>5, <1>6, <1>8
<1>10. \A x \in P : x \notin below[x]
    BY <1>7, <1>8
<1>11. /\ \A k \in 1 .. m : \E x \in P : Cardinality(below[x]) = k - 1
       /\ \A x \in P : Cardinality(below[x]) \in 0 .. m - 1
       /\ \A x, y \in P : x \in below[y] => Cardinality(below[x]) < Cardinality(below[y])
    BY <1>3, <1>8, <1>9, <1>10, Ranks
<1>12. ASSUME NEW k \in 1 .. m PROVE gaps[k] \in P /\ Cardinality(below[gaps[k]]) = k - 1
  <2>1. gaps[k] = CHOOSE x \in P : Cardinality(below[x]) = k - 1
    BY <1>2, <1>3, <1>8
  <2>. QED  BY <1>11, <2>1
<1>13. ASSUME NEW j \in 1 .. m, NEW k \in 1 .. m, gaps[j][2] = gaps[k][2] PROVE j = k
  <2>1. gaps[j] = gaps[k]
    BY <1>4, <1>12, <1>13
  <2>2. j - 1 = k - 1
    BY <1>12, <2>1
  <2>. QED  BY <1>1, <2>2
<1>14. DOMAIN gaps = 1 .. m /\ Len(gaps) = m
  <2>1. ASSUME NEW R, NEW q \in [1 .. m -> R] PROVE DOMAIN q = 1 .. m /\ Len(q) = m
    BY <1>1
  <2>2. gaps \in [1 .. m -> P]
    BY <1>2, <1>3, <1>12
  <2>. QED  BY <2>1, <2>2
<1>15. ASSUME NEW j \in 1 .. m, NEW k \in 1 .. m, j < k
       PROVE  GapLength(rs, gaps[j][2]) <= GapLength(rs, gaps[k][2])
  <2> DEFINE x == gaps[j]
             y == gaps[k]
             b == Cardinality(below[x])
             c == Cardinality(below[y])
  <2>1. x \in P /\ y \in P /\ b = j - 1 /\ c = k - 1 /\ (y \in below[x] => c < b)
    BY <1>11, <1>12
  <2> HIDE DEF b, c
  <2>2. b < c /\ b \in Int /\ c \in Int
    BY <1>1, <1>15, <2>1
  <2> HIDE DEF x, y
  <2>3. y \notin below[x] /\ x # y
    BY <2>1, <2>2 DEF b, c
  <2>4. x[1] \in Int /\ y[1] \in Int /\ x[1] <= y[1]
    BY <1>4, <1>5, <1>8, <2>1, <2>3 DEF SmallerGap
  <2>5. x[1] = length[x[2]] /\ y[1] = length[y[2]] /\ x[2] \in 1 .. m /\ y[2] \in 1 .. m
    BY <1>4, <2>1
  <2>. QED  BY <1>a, <2>4, <2>5 DEF x, y
<1>16. ASSUME NEW i \in 1 .. m PROVE \E k \in 1 .. m : gaps[k][2] = i
  <2> DEFINE x == <<length[i], i>>
             k == Cardinality(below[x]) + 1
  <2>1. x \in P /\ x[2] = i
    BY DEF P
  <2> HIDE DEF x
  <2>2. k \in 1 .. m /\ k - 1 = Cardinality(below[x])
    BY <1>1, <1>11, <2>1
  <2>3. gaps[k] \in P /\ Cardinality(below[gaps[k]]) = Cardinality(below[x])
    BY <1>12, <2>2
  <2> HIDE DEF k
  <2>4. gaps[k] = x
    <3> DEFINE b == Cardinality(below[x])
               c == Cardinality(below[gaps[k]])
    <3>1. b \in Int /\ b = c /\ (x \in below[gaps[k]] => b < c) /\ (gaps[k] \in below[x] => c < b)
        BY <1>11, <2>1, <2>3
    <3> HIDE DEF b, c
    <3>2. x \notin below[gaps[k]] /\ gaps[k] \notin below[x]
        BY <3>1
    <3>. QED  BY <1>9, <2>1, <2>3, <3>2
  <2>. QED  BY <2>1, <2>2, <2>4
<1>. QED  BY <1>4, <1>12, <1>13, <1>14, <1>15, <1>16 DEF m, gaps

InGap(rs, i, g) == EndOf(rs[i]) <= g /\ g < rs[i + 1].first

\* Merging the count smallest gaps leaves that many runs less, which still store what the
\* runs did, up to where the last one ended, and beside it only those gaps.
LEMMA MergedRuns ==
    ASSUME NEW rs, AreRuns(rs), NEW count \in Nat, count < Len(rs)
    PROVE  LET ms == MergeSmallestGaps(rs, count)
           IN /\ AreRuns(ms) /\ Len(ms) = Len(rs) - count
              /\ \A g \in Nat : StoredGroup(rs, g) => StoredGroup(ms, g)
              /\ \A n \in Nat : (\A i \in DOMAIN rs : EndOf(rs[i]) <= n)
                                  => \A k \in DOMAIN ms : EndOf(ms[k]) <= n
              /\ \A g \in Nat : StoredGroup(ms, g) =>
                    \/ StoredGroup(rs, g)
                    \/ \E k \in 1 .. count : InGap(rs, Gaps(rs, SmallerGap)[k][2], g)
<1> DEFINE n == Len(rs)
           gaps == Gaps(rs, SmallerGap)
           merged == {gaps[k][2] : k \in 1 .. Min({count, Len(gaps)})}
           S == {i \in DOMAIN rs : (i - 1) \notin merged}
           m == Cardinality(S)
           starts == Ordered(S, <)
           LastOf(k) == IF k = Len(starts) THEN n ELSE starts[k + 1] - 1
           ms == MergeSmallestGaps(rs, count)
<1>1. n \in Nat /\ DOMAIN rs = 1 .. n /\ count <= n - 1 /\ n > 0
    BY RunsInOrder
<1>2. /\ Len(gaps) = n - 1 /\ \A k \in 1 .. n - 1 : gaps[k][2] \in 1 .. n - 1
      /\ \A j, k \in 1 .. n - 1 : gaps[j][2] = gaps[k][2] => j = k
    BY <1>1, GapsAre
<1>3. ms = [k \in DOMAIN starts |->
              [first |-> rs[starts[k]].first, num |-> EndOf(rs[LastOf(k)]) - rs[starts[k]].first]]
    BY DEF MergeSmallestGaps, MergeGaps
<1> HIDE DEF gaps
<1>4. merged = {gaps[k][2] : k \in 1 .. count}
  <2>1. Min({count, n - 1}) = count
    BY <1>1, MinIs
  <2>. QED  BY <1>2, <2>1
<1> HIDE DEF merged, ms
<1>5. S \in SUBSET Nat /\ S \in SUBSET Int /\ S \subseteq 1 .. n /\ 1 \in S
  <2>1. 0 \notin merged
    BY <1>1, <1>2, <1>4
  <2>. QED  BY <1>1, <2>1
<1>6. IsFiniteSet(S) /\ m = n - count
  <2> DEFINE moved == {j + 1 : j \in merged}
             f == [k \in 1 .. count |-> gaps[k][2] + 1]
             all == 1 .. n
  <2>1. moved \subseteq all /\ S = all \ moved
    <3>1. merged \subseteq 1 .. n - 1
        BY <1>1, <1>2, <1>4
    <3>2. \A i \in Int : i \in moved <=> i - 1 \in merged
        BY <1>1, <3>1
    <3>3. \A i \in moved : i \in Int /\ i \in all
        BY <1>1, <3>1
    <3>4. \A i : i \in S <=> i \in all /\ i - 1 \notin merged
        BY <1>1
    <3> HIDE DEF moved, S
    <3>5. \A i \in all : i \in Int
        BY <1>1
    <3> HIDE DEF all
    <3>6. ASSUME NEW i PROVE i \in S <=> i \in all \ moved
        BY <3>2, <3>4, <3>5
    <3>. QED  BY <3>3, <3>6
  <2>2. f \in [1 .. count -> moved] /\ \A x \in moved : \E k \in 1 .. count : f[k] = x
    BY <1>4
  <2>3. ASSUME NEW i \in 1 .. count, NEW j \in 1 .. count, f[i] = f[j] PROVE i = j
    <3>1. i \in 1 .. n - 1 /\ j \in 1 .. n - 1
        BY <1>1
    <3>2. gaps[i][2] \in Int /\ gaps[j][2] \in Int /\ gaps[i][2] + 1 = gaps[j][2] + 1
        BY <1>2, <2>3, <3>1
    <3>3. gaps[i][2] = gaps[j][2]
        BY <3>2
    <3>. QED  BY <1>2, <3>1, <3>3
  <2> HIDE DEF f, moved
  <2>4. f \in Bijection(1 .. count, moved)
    BY <2>2, <2>3 DEF Bijection, Injection, Surjection, IsInjective
  <2>5. ExistsBijection(1 .. count, moved)
    BY <2>4 DEF ExistsBijection
  <2>6. Cardinality(moved) = count
    BY <2>5, FS_CountingElements
  <2>7. IsFiniteSet(all) /\ Cardinality(all) = n
    <3> DEFINE one == 1
    <3>1. one \in Int /\ n \in Int /\ n - one + 1 = n /\ ~ (one > n)
        BY <1>1
    <3> HIDE DEF one, n
    <3>2. IsFiniteSet(one .. n) /\ Cardinality(one .. n) = IF one > n THEN 0 ELSE n - one + 1
        BY <3>1, FS_Interval
    <3>. QED  BY <3>1, <3>2 DEF one
  <2> HIDE DEF all, S
  <2>8. IsFiniteSet(all \ moved)
        /\ Cardinality(all \ moved) = Cardinality(all) - Cardinality(all \cap moved)
    BY <2>7, FS_Difference
  <2>9. all \cap moved = moved
    BY <2>1
  <2>. QED  BY <2>1, <2>6, <2>7, <2>8, <2>9
<1> DEFINE Says == /\ m \in Nat /\ starts \in [1 .. m -> S]
                   /\ \A i, j \in 1 .. m : i < j => starts[i] < starts[j]
                   /\ \A x \in S : \E i \in 1 .. m : starts[i] = x
<1>7. Says
  <2> HIDE DEF S
  <2>. QED  BY <1>5, <1>6, Ascending
<1> HIDE DEF S, m, starts
<1>8. DOMAIN starts = 1 .. m /\ Len(starts) = m /\ m \in Nat
  <2>1. ASSUME NEW q \in [1 .. m -> S] PROVE DOMAIN q = 1 .. m /\ Len(q) = m
    BY <1>7
  <2>. QED  BY <1>7, <2>1
<1>9. ASSUME NEW k \in 1 .. m
      PROVE  /\ starts[k] \in 1 .. n /\ LastOf(k) \in 1 .. n /\ starts[k] <= LastOf(k)
             /\ k < m => k + 1 \in 1 .. m /\ LastOf(k) = starts[k + 1] - 1
             /\ k = m => LastOf(k) = n
  <2>1. starts[k] \in 1 .. n
    BY <1>5, <1>7
  <2>2. CASE k = m
    BY <1>1, <1>8, <2>1, <2>2
  <2>3. CASE k < m
    <3>1. k + 1 \in 1 .. m /\ k # Len(starts)
        BY <1>8, <2>3
    <3>2. k < k + 1
        BY <1>8
    <3>3. starts[k] < starts[k + 1]
        BY <1>7, <3>1, <3>2
    <3>4. starts[k + 1] \in 1 .. n
        BY <1>5, <1>7, <3>1
    <3>. QED  BY <1>1, <2>1, <2>3, <3>1, <3>3, <3>4
  <2>. QED  BY <1>8, <2>2, <2>3
<1>10. \A k \in 1 .. m : ms[k] = [first |-> rs[starts[k]].first,
                                  num |-> EndOf(rs[LastOf(k)]) - rs[starts[k]].first]
    BY <1>3, <1>8
<1> HIDE DEF LastOf
<1>11. ASSUME NEW k \in 1 .. m
       PROVE  /\ ms[k] \in [first : Nat, num : Nat \ {0}]
              /\ ms[k].first = rs[starts[k]].first /\ EndOf(ms[k]) = EndOf(rs[LastOf(k)])
  <2> DEFINE a == rs[starts[k]].first
             b == EndOf(rs[starts[k]])
             c == EndOf(rs[LastOf(k)])
  <2>1. a \in Nat /\ b \in Nat /\ c \in Nat /\ a < b /\ b <= c
    BY <1>9, RunsInOrder
  <2>2. ms[k] = [first |-> a, num |-> c - a]
    BY <1>10
  <2> HIDE DEF a, b, c
  <2>3. c - a \in Nat \ {0} /\ a + (c - a) = c
    BY <2>1
  <2>4. ms[k].first = a /\ EndOf(ms[k]) = c /\ ms[k] \in [first : Nat, num : Nat \ {0}]
    BY <2>1, <2>2, <2>3 DEF EndOf
  <2>. QED  BY <2>4 DEF a, c
<1>12. ms \in Seq([first : Nat, num : Nat \ {0}]) /\ DOMAIN ms = 1 .. m /\ Len(ms) = m
  <2>1. ASSUME NEW R, NEW q \in [1 .. m -> R]
        PROVE  q \in Seq(R) /\ DOMAIN q = 1 .. m /\ Len(q) = m
    BY <1>8
  <2>2. ms \in [1 .. m -> [first : Nat, num : Nat \ {0}]]
    BY <1>3, <1>8, <1>11
  <2>. QED  BY <2>1, <2>2
<1>13. ASSUME NEW j \in 1 .. m, NEW k \in 1 .. m, j < k PROVE EndOf(ms[j]) <= ms[k].first
  <2>1. j < m
    BY <1>8, <1>13
  <2>2. LastOf(j) = starts[j + 1] - 1 /\ j + 1 \in 1 .. m
    BY <1>9, <2>1
  <2>3. starts[j + 1] <= starts[k] /\ starts[k] \in 1 .. n /\ starts[j + 1] \in 1 .. n
    <3>1. j + 1 = k \/ j + 1 < k
        BY <1>13
    <3>2. starts[k] \in 1 .. n /\ starts[j + 1] \in 1 .. n
        BY <1>9, <2>2
    <3>. QED  BY <1>1, <1>7, <2>2, <3>1, <3>2
  <2>4. LastOf(j) < starts[k] /\ LastOf(j) \in 1 .. n
    BY <1>1, <1>9, <2>2, <2>3
  <2>5. EndOf(rs[LastOf(j)]) <= rs[starts[k]].first
    BY <2>3, <2>4, RunsInOrder
  <2>. QED  BY <1>11, <2>5
<1>14. ASSUME NEW g \in Nat, StoredGroup(rs, g) PROVE StoredGroup(ms, g)
  <2>1. PICK i \in 1 .. n : rs[i].first <= g /\ g < EndOf(rs[i])
    BY <1>1, <1>14 DEF StoredGroup
  <2> DEFINE K == {k \in 1 .. m : starts[k] <= i}
  <2>2. K \in SUBSET Nat /\ K # {}
    <3>1. PICK k \in 1 .. m : starts[k] = 1
        BY <1>5, <1>7
    <3>. QED  BY <2>1, <3>1
  <2>3. PICK k \in K : \A l \in K : l <= k
    <3>1. \A l \in K : l <= m
        OBVIOUS
    <3> HIDE DEF K
    <3>. QED  BY <1>8, <2>2, <3>1, GreatestNatural
  <2>4. starts[k] <= i /\ i <= LastOf(k)
    <3>1. CASE k = m
        BY <1>1, <1>9, <3>1
    <3>2. CASE k < m
      <4>1. k + 1 \in 1 .. m /\ LastOf(k) = starts[k + 1] - 1 /\ starts[k + 1] \in 1 .. n
        BY <1>9, <3>2
      <4>2. k + 1 \notin K
        BY <1>8, <2>3
      <4>3. i < starts[k + 1]
        BY <1>1, <4>1, <4>2
      <4>. QED  BY <1>1, <4>1, <4>3
    <3>. QED  BY <1>8, <3>1, <3>2
  <2>5. rs[starts[k]].first <= rs[i].first /\ EndOf(rs[i]) <= EndOf(rs[LastOf(k)])
    BY <1>9, <2>4, RunsInOrder
  <2>6. ms[k].first <= g /\ g < EndOf(ms[k])
    <3>1. /\ rs[starts[k]].first \in Nat /\ rs[i].first \in Nat
          /\ EndOf(rs[i]) \in Nat /\ EndOf(rs[LastOf(k)]) \in Nat
        BY <1>9, RunsInOrder
    <3>2. rs[starts[k]].first <= g /\ g < EndOf(rs[LastOf(k)])
        BY <2>1, <2>5, <3>1
    <3>. QED  BY <1>11, <3>2
  <2>. QED  BY <1>12, <2>6 DEF StoredGroup
<1>15. ASSUME NEW e \in Nat, \A i \in DOMAIN rs : EndOf(rs[i]) <= e, NEW k \in 1 .. m
       PROVE  EndOf(ms[k]) <= e
    BY <1>1, <1>9, <1>11, <1>15
<1>16. ASSUME NEW g \in Nat, StoredGroup(ms, g), ~ StoredGroup(rs, g)
       PROVE  \E k \in 1 .. count : InGap(rs, gaps[k][2], g)
  <2>1. PICK k \in 1 .. m : ms[k].first <= g /\ g < EndOf(ms[k])
    BY <1>12, <1>16 DEF StoredGroup
  <2>2. /\ rs[starts[k]].first <= g /\ g < EndOf(rs[LastOf(k)]) /\ starts[k] <= LastOf(k)
        /\ starts[k] \in 1 .. n /\ LastOf(k) \in 1 .. n
    BY <1>9, <1>11, <2>1
  <2> DEFINE I == {i \in 1 .. n : i <= LastOf(k) /\ rs[i].first <= g}
  <2>3. I \in SUBSET Nat /\ starts[k] \in I /\ \A i \in I : i <= n
    BY <1>1, <2>2
  <2>4. PICK i \in I : \A j \in I : j <= i
    <3> HIDE DEF I
    <3>. QED  BY <1>1, <2>3, GreatestNatural
  <2>5. EndOf(rs[i]) <= g
    <3>1. i \in 1 .. n /\ ~ (rs[i].first <= g /\ g < EndOf(rs[i])) /\ EndOf(rs[i]) \in Nat
        BY <1>1, <1>16, RunsInOrder DEF StoredGroup
    <3>. QED  BY <3>1
  <2>6. i < LastOf(k) /\ i + 1 \in 1 .. n
    <3>1. EndOf(rs[i]) \in Nat /\ EndOf(rs[LastOf(k)]) \in Nat
        BY <2>2, RunsInOrder
    <3>2. i # LastOf(k)
        BY <2>2, <2>5, <3>1
    <3>. QED  BY <1>1, <2>2, <3>2
  <2>7. g < rs[i + 1].first
    <3>1. rs[i + 1].first \in Nat
        BY <2>6, RunsInOrder
    <3>2. i + 1 \notin I
        BY <2>3, <2>4
    <3>. QED  BY <2>2, <2>6, <3>1, <3>2
  <2>8. i + 1 \notin S
    <3>1. SUFFICES ASSUME NEW l \in 1 .. m, starts[l] = i + 1 PROVE FALSE
        BY <1>7
    <3>2. starts[k] < starts[l] /\ starts[k] \in Int /\ starts[l] \in Int
      <4>1. starts[k] <= i
        BY <2>3, <2>4
      <4>. QED  BY <1>1, <2>2, <3>1, <4>1
    <3>3. k < l
        BY <1>7, <1>8, <3>2
    <3>4. LastOf(k) = starts[k + 1] - 1 /\ k + 1 \in 1 .. m
        BY <1>8, <1>9, <3>3
    <3>5. starts[k + 1] <= starts[l] /\ starts[k + 1] \in Int
      <4>1. k + 1 = l \/ k + 1 < l
        BY <3>3
      <4>2. starts[k + 1] \in 1 .. n
        BY <1>9, <3>4
      <4>. QED  BY <1>7, <3>1, <3>2, <3>4, <4>1, <4>2
    <3>. QED  BY <1>1, <2>6, <3>1, <3>2, <3>4, <3>5
  <2>9. i \in merged
    <3>1. i + 1 \in DOMAIN rs /\ (i + 1) - 1 = i
        BY <1>1, <2>6
    <3>. QED  BY <2>8, <3>1 DEF S
  <2>10. PICK l \in 1 .. count : gaps[l][2] = i
    BY <1>4, <2>9
  <2>. QED  BY <2>5, <2>7, <2>10 DEF InGap
<1>. QED
  <2>1. AreRuns(ms)
    BY <1>12, <1>13 DEF AreRuns
  <2>. QED  BY <1>6, <1>12, <1>14, <1>15, <1>16, <2>1 DEF ms, gaps

\* A range table always has room for the runs that plan_ranges keeps, and they store what the
\* planned ones did.
LEMMA FittedRuns ==
    ASSUME NEW stored, AreRuns(stored), Len(stored) > 0
    PROVE  LET rs == FitRuns(stored)
           IN /\ AreRuns(rs) /\ Len(rs) > 0 /\ FixedRanges + Len(rs) <= MaxRanges
              /\ \A g \in Nat : StoredGroup(stored, g) => StoredGroup(rs, g)
              /\ \A n \in Nat : (\A i \in DOMAIN stored : EndOf(stored[i]) <= n)
                                  => \A k \in DOMAIN rs : EndOf(rs[k]) <= n
<1> DEFINE count == 3 + Len(stored) - MaxRanges
           rs == FitRuns(stored)
<1>1. Len(stored) \in Nat /\ MaxRanges \in Nat /\ MaxRanges > 3 /\ FixedRanges = 3
    BY RunsInOrder, NfsLayoutAssumption DEF FixedRanges, DiscHeaderRanges
<1>2. CASE FixedRanges + Len(stored) > MaxRanges
  <2>1. rs = MergeSmallestGaps(stored, count)
    BY <1>1, <1>2 DEF FitRuns
  <2>2. count \in Nat /\ count < Len(stored) /\ 3 + (Len(stored) - count) <= MaxRanges
        /\ Len(stored) - count > 0
    BY <1>1, <1>2
  <2> HIDE DEF count, rs
  <2>3. /\ AreRuns(rs) /\ Len(rs) = Len(stored) - count
        /\ \A g \in Nat : StoredGroup(stored, g) => StoredGroup(rs, g)
        /\ \A n \in Nat : (\A i \in DOMAIN stored : EndOf(stored[i]) <= n)
                            => \A k \in DOMAIN rs : EndOf(rs[k]) <= n
    BY <2>1, <2>2, MergedRuns
  <2>. QED  BY <1>1, <2>2, <2>3 DEF rs
<1>3. CASE ~ (FixedRanges + Len(stored) > MaxRanges)
  <2>1. rs = stored
    BY <1>3 DEF FitRuns
  <2>. QED  BY <1>1, <1>3, <2>1
<1>. QED  BY <1>2, <1>3

-----------------------------------------------------------------------------
(***************************************************************************)
(* Merging the smallest gaps is the cheapest way to fit the table.         *)
(***************************************************************************)
LEMMA Embeds ==
    ASSUME NEW S, NEW T, IsFiniteSet(S), IsFiniteSet(T), Cardinality(S) <= Cardinality(T)
    PROVE  \E f \in [S -> T] : \A x, y \in S : f[x] = f[y] => x = y
<1> DEFINE m == Cardinality(S)
           n == Cardinality(T)
<1>1. m \in Nat /\ n \in Nat /\ ExistsBijection(1 .. m, S) /\ ExistsBijection(1 .. n, T)
    BY FS_CardinalityType
<1>2. PICK a \in Bijection(1 .. m, S) : TRUE
    BY <1>1 DEF ExistsBijection
<1>3. PICK b \in Bijection(1 .. n, T) : TRUE
    BY <1>1 DEF ExistsBijection
<1> HIDE DEF m, n
<1>4. 1 .. m \subseteq 1 .. n
    BY <1>1 DEF m, n
<1>5. \A x \in S : \E k \in 1 .. m : a[k] = x
    BY <1>2 DEF Bijection, Surjection
<1>6. b \in [1 .. n -> T] /\ \A j, k \in 1 .. n : b[j] = b[k] => j = k
    BY <1>3 DEF Bijection, Injection, IsInjective
<1> DEFINE at == [x \in S |-> CHOOSE k \in 1 .. m : a[k] = x]
           f == [x \in S |-> b[at[x]]]
<1>7. \A x \in S : at[x] \in 1 .. m /\ a[at[x]] = x
    BY <1>5
<1> HIDE DEF at
<1>8. f \in [S -> T]
    BY <1>4, <1>6, <1>7
<1>9. ASSUME NEW x \in S, NEW y \in S, f[x] = f[y] PROVE x = y
  <2>1. at[x] = at[y]
    BY <1>4, <1>6, <1>7, <1>9
  <2>. QED  BY <1>7, <2>1
<1>. QED  BY <1>8, <1>9

LEMMA NotMore ==
    ASSUME NEW S, NEW T, IsFiniteSet(T), NEW f \in [S -> T],
           \A x, y \in S : f[x] = f[y] => x = y
    PROVE  IsFiniteSet(S) /\ Cardinality(S) <= Cardinality(T)
<1>1. f \in Injection(S, T)
    BY DEF Injection, IsInjective
<1>. QED  BY <1>1, FS_Injection

LEMMA Interval ==
    ASSUME NEW a \in Nat, NEW n \in Nat
    PROVE  IsFiniteSet(a .. n) /\ (a = 0 /\ n > 0 => Cardinality(0 .. n - 1) = n)
<1>1. IsFiniteSet(a .. n)
  <2>1. a \in Int /\ n \in Int
    OBVIOUS
  <2>. QED  BY <2>1, FS_Interval
<1>2. ASSUME n > 0 PROVE Cardinality(0 .. n - 1) = n
  <2> DEFINE z == 0
             m == n - 1
  <2>1. z \in Int /\ m \in Int /\ m - z + 1 = n /\ ~ (z > m)
    BY <1>2
  <2> HIDE DEF z, m
  <2>2. Cardinality(z .. m) = IF z > m THEN 0 ELSE m - z + 1
    BY <2>1, FS_Interval
  <2>. QED  BY <2>1, <2>2 DEF z, m
<1>. QED  BY <1>1, <1>2

\* A group is in one gap, or in a run, or in neither.
LEMMA GapApart ==
    ASSUME NEW rs, AreRuns(rs), NEW i \in 1 .. Len(rs) - 1, NEW g \in Nat, InGap(rs, i, g)
    PROVE  /\ ~ StoredGroup(rs, g)
           /\ \A j \in 1 .. Len(rs) - 1 : InGap(rs, j, g) => j = i
<1>1. Len(rs) \in Nat /\ i \in 1 .. Len(rs) /\ i + 1 \in 1 .. Len(rs) /\ DOMAIN rs = 1 .. Len(rs)
    BY RunsInOrder
<1>2. EndOf(rs[i]) <= g /\ g < rs[i + 1].first /\ EndOf(rs[i]) \in Nat /\ rs[i + 1].first \in Nat
    BY <1>1, RunsInOrder DEF InGap
<1>3. ASSUME NEW k \in 1 .. Len(rs), rs[k].first <= g, g < EndOf(rs[k]) PROVE FALSE
  <2>1. rs[k].first \in Nat /\ EndOf(rs[k]) \in Nat
    BY RunsInOrder
  <2>2. CASE k <= i
    <3>1. EndOf(rs[k]) <= EndOf(rs[i])
        BY <1>1, <2>2, RunsInOrder
    <3>. QED  BY <1>2, <1>3, <2>1, <3>1
  <2>3. CASE i + 1 <= k
    <3>1. rs[i + 1].first <= rs[k].first
        BY <1>1, <2>3, RunsInOrder
    <3>. QED  BY <1>2, <1>3, <2>1, <3>1
  <2>. QED  BY <1>1, <2>2, <2>3
<1>4. ASSUME NEW j \in 1 .. Len(rs) - 1, InGap(rs, j, g), j # i PROVE FALSE
  <2>1. /\ j \in 1 .. Len(rs) /\ j + 1 \in 1 .. Len(rs)
        /\ EndOf(rs[j]) <= g /\ g < rs[j + 1].first
        /\ EndOf(rs[j]) \in Nat /\ rs[j + 1].first \in Nat
    BY <1>1, <1>4, RunsInOrder DEF InGap
  <2>2. CASE j + 1 <= i
    <3>1. rs[j + 1].first <= rs[i].first /\ rs[i].first < EndOf(rs[i]) /\ rs[i].first \in Nat
        BY <1>1, <2>1, <2>2, RunsInOrder
    <3>. QED  BY <1>2, <2>1, <3>1
  <2>3. CASE i + 1 <= j
    <3>1. rs[i + 1].first <= rs[j].first /\ rs[j].first < EndOf(rs[j]) /\ rs[j].first \in Nat
        BY <1>1, <2>1, <2>3, RunsInOrder
    <3>. QED  BY <1>2, <2>1, <3>1
  <2>. QED  BY <1>1, <1>4, <2>2, <2>3
<1>. QED  BY <1>1, <1>3, <1>4 DEF StoredGroup

Starts(T) == {g \in T : (g - 1) \notin T}
Filled(rs, T) == {i \in 1 .. Len(rs) - 1 : \A g \in Nat : InGap(rs, i, g) => g \in T}

\* A set of groups that holds the runs has an interval of its own behind each gap it leaves.
LEMMA GapsCutIntervals ==
    ASSUME NEW rs, AreRuns(rs), Len(rs) > 0,
           NEW T \in SUBSET Nat, IsFiniteSet(T), \A g \in Nat : StoredGroup(rs, g) => g \in T
    PROVE  /\ IsFiniteSet(Filled(rs, T)) /\ IsFiniteSet(Starts(T))
           /\ Len(rs) <= Cardinality(Starts(T)) + Cardinality(Filled(rs, T))
<1> DEFINE n == Len(rs)
           S == Starts(T)
           F == Filled(rs, T)
           A == 0 .. n - 1
           Z == A \ F
           Fits(i, s) == s <= rs[i + 1].first /\ (i > 0 => EndOf(rs[i]) < s)
<1>1. n \in Nat /\ n > 0 /\ DOMAIN rs = 1 .. n
    BY RunsInOrder
<1>2. S \subseteq T /\ IsFiniteSet(S)
  <2>1. S \in SUBSET T
    BY DEF Starts
  <2>. QED  BY <2>1, FS_Subset
<1>3. ASSUME NEW i \in Z PROVE \E s \in S : Fits(i, s)
  <2> DEFINE h == rs[i + 1].first
             K == {k \in Nat : k <= h /\ \A l \in k .. h : l \in T}
  <2>1. i \in A /\ i \notin F /\ i + 1 \in 1 .. n
    BY <1>1
  <2>2. h \in Nat /\ h \in T
    <3>1. h \in Nat /\ h < EndOf(rs[i + 1])
        BY <2>1, RunsInOrder
    <3>2. StoredGroup(rs, h)
        BY <1>1, <2>1, <3>1 DEF StoredGroup
    <3>. QED  BY <3>1, <3>2
  <2> HIDE DEF h, F, Z
  <2>3. K \in SUBSET Nat /\ h \in K
    BY <2>2
  <2>4. PICK k \in K : \A l \in K : k <= l
    BY <2>3, LeastNatural
  <2>5. k \in T /\ k \in Nat /\ k <= h /\ \A l \in k .. h : l \in T
    BY <2>2, <2>4
  <2>6. k - 1 \notin T
    <3>1. SUFFICES ASSUME k - 1 \in T PROVE FALSE
        OBVIOUS
    <3>2. k - 1 \in Nat
        BY <3>1
    <3>3. \A l \in k - 1 .. h : l = k - 1 \/ l \in k .. h
        BY <2>2, <2>5
    <3>4. k - 1 \in K
        BY <2>2, <2>5, <3>1, <3>2, <3>3
    <3>. QED  BY <2>4, <2>5, <3>4
  <2>7. ASSUME i > 0 PROVE EndOf(rs[i]) < k
    <3>1. i \in 1 .. n - 1
        BY <1>1, <2>1, <2>7
    <3>2. PICK g \in Nat : InGap(rs, i, g) /\ g \notin T
        BY <2>1, <3>1 DEF F, Filled
    <3>3. EndOf(rs[i]) <= g /\ g < h
        BY <3>2 DEF InGap, h
    <3>4. ~ (k <= g)
      <4>1. k <= g => g \in k .. h
        BY <2>2, <2>5, <3>3
      <4>. QED  BY <2>5, <3>2, <4>1
    <3>5. EndOf(rs[i]) \in Nat
        BY <1>1, <3>1, RunsInOrder
    <3>. QED  BY <2>5, <3>3, <3>4, <3>5
  <2>. QED  BY <2>5, <2>6, <2>7 DEF Starts, h
<1> DEFINE f == [i \in Z |-> CHOOSE s \in S : Fits(i, s)]
<1>4. ASSUME NEW i \in Z PROVE f[i] \in S /\ Fits(i, f[i]) /\ f[i] \in Nat
  <2> HIDE DEF Fits, Z, S
  <2>1. f[i] \in S /\ Fits(i, f[i])
    BY <1>3
  <2>. QED  BY <1>2, <2>1
<1>5. ASSUME NEW i \in Z, NEW j \in Z, i < j PROVE f[i] < f[j]
  <2>1. f[i] \in Nat /\ f[j] \in Nat /\ f[i] <= rs[i + 1].first /\ (j > 0 => EndOf(rs[j]) < f[j])
    BY <1>4
  <2> HIDE DEF f
  <2>2. i \in Nat /\ j \in 1 .. n /\ i + 1 \in 1 .. n /\ i + 1 <= j
    BY <1>1, <1>5
  <2>3. rs[i + 1].first <= rs[j].first /\ rs[j].first < EndOf(rs[j])
    BY <2>2, RunsInOrder
  <2>4. rs[i + 1].first \in Nat /\ rs[j].first \in Nat /\ EndOf(rs[j]) \in Nat
    BY <2>2, RunsInOrder
  <2>. QED  BY <2>1, <2>2, <2>3, <2>4
<1>6. Cardinality(Z) <= Cardinality(S)
  <2>1. f \in [Z -> S]
    BY <1>4
  <2>2. ASSUME NEW i \in Z, NEW j \in Z, f[i] = f[j] PROVE i = j
    <3>1. i \in Int /\ j \in Int /\ f[i] \in Int /\ f[j] \in Int
        BY <1>4
    <3>2. (i < j => f[i] < f[j]) /\ (j < i => f[j] < f[i])
        BY <1>5
    <3> HIDE DEF f
    <3>. QED  BY <2>2, <3>1, <3>2
  <2> HIDE DEF f, Z, S
  <2>. QED  BY <1>2, <2>1, <2>2, NotMore
<1>7. IsFiniteSet(A) /\ Cardinality(A) = n
  <2>1. 0 \in Nat /\ n - 1 \in Nat
    BY <1>1
  <2>2. IsFiniteSet(0 .. n - 1)
    BY <2>1, Interval
  <2>. QED  BY <1>1, <2>1, <2>2, Interval
<1>8. F \in SUBSET A
    BY <1>1 DEF Filled
<1> HIDE DEF A, F
<1>9. IsFiniteSet(F) /\ Cardinality(F) \in Nat /\ Cardinality(Z) = n - Cardinality(F)
  <2>1. IsFiniteSet(F) /\ A \cap F = F
    BY <1>7, <1>8, FS_Subset
  <2>2. Cardinality(Z) = Cardinality(A) - Cardinality(A \cap F)
    BY <1>7, FS_Difference
  <2>. QED  BY <1>7, <2>1, <2>2, FS_CardinalityType
<1>10. Cardinality(S) \in Nat
    BY <1>2, FS_CardinalityType
<1> HIDE DEF Z, S
<1>. QED  BY <1>1, <1>2, <1>6, <1>9, <1>10 DEF F, S

\* Whatever set of groups holds the runs and has no more intervals than the merged runs are,
\* has no fewer groups: each merged gap fits into a gap of its own that the set fills.
LEMMA CheapestMerge ==
    ASSUME NEW rs, AreRuns(rs), NEW count \in Nat, count < Len(rs),
           NEW T \in SUBSET Nat, IsFiniteSet(T), \A g \in Nat : StoredGroup(rs, g) => g \in T,
           Cardinality(Starts(T)) <= Len(rs) - count
    PROVE  LET X == {g \in Nat : StoredGroup(MergeSmallestGaps(rs, count), g)}
           IN IsFiniteSet(X) /\ Cardinality(X) <= Cardinality(T)
<1> DEFINE n == Len(rs)
           gaps == Gaps(rs, SmallerGap)
           M == {gaps[k][2] : k \in 1 .. count}
           F == Filled(rs, T)
           X == {g \in Nat : StoredGroup(MergeSmallestGaps(rs, count), g)}
<1>1. n \in Nat /\ n > 0 /\ count <= n - 1
    BY RunsInOrder
<1>2. /\ \A k \in 1 .. n - 1 : gaps[k][2] \in 1 .. n - 1
      /\ \A j, k \in 1 .. n - 1 : gaps[j][2] = gaps[k][2] => j = k
      /\ \A i \in 1 .. n - 1 : \E k \in 1 .. n - 1 : gaps[k][2] = i
      /\ \A j, k \in 1 .. n - 1 :
            j < k => GapLength(rs, gaps[j][2]) <= GapLength(rs, gaps[k][2])
    BY <1>1, GapsAre
<1>3. \A g \in X : StoredGroup(rs, g) \/ \E k \in 1 .. count : InGap(rs, gaps[k][2], g)
    BY MergedRuns
<1> HIDE DEF gaps
<1>4. \A k \in 1 .. count : k \in 1 .. n - 1
    BY <1>1
<1>5. M \subseteq 1 .. n - 1 /\ F \subseteq 1 .. n - 1
  <2>1. \A k \in 1 .. count : gaps[k][2] \in 1 .. n - 1
    BY <1>2, <1>4
  <2>2. F \subseteq 1 .. n - 1
    BY DEF Filled
  <2> HIDE DEF F, n
  <2>. QED  BY <2>1, <2>2
<1>6. IsFiniteSet(M) /\ Cardinality(M) = count
  <2> DEFINE f == [k \in 1 .. count |-> gaps[k][2]]
  <2>1. f \in [1 .. count -> M] /\ \A x \in M : \E k \in 1 .. count : f[k] = x
    OBVIOUS
  <2>2. ASSUME NEW i \in 1 .. count, NEW j \in 1 .. count, f[i] = f[j] PROVE i = j
    BY <1>2, <1>4, <2>2
  <2> HIDE DEF f, M
  <2>3. f \in Bijection(1 .. count, M)
    BY <2>1, <2>2 DEF Bijection, Injection, Surjection, IsInjective
  <2>4. ExistsBijection(1 .. count, M)
    BY <2>3 DEF ExistsBijection
  <2>. QED  BY <2>4, FS_CountingElements, FS_NatBijection
<1>7. IsFiniteSet(F) /\ Cardinality(F) \in Nat /\ count <= Cardinality(F)
  <2>1. /\ IsFiniteSet(F) /\ IsFiniteSet(Starts(T))
        /\ n <= Cardinality(Starts(T)) + Cardinality(F)
    BY <1>1, GapsCutIntervals
  <2>2. Cardinality(F) \in Nat /\ Cardinality(Starts(T)) \in Nat
    BY <2>1, FS_CardinalityType
  <2> HIDE DEF F
  <2>. QED  BY <1>1, <2>1, <2>2
<1>8. ASSUME NEW i \in M, NEW j \in (1 .. n - 1) \ M
      PROVE  GapLength(rs, i) <= GapLength(rs, j)
  <2>1. PICK k \in 1 .. count : gaps[k][2] = i
    OBVIOUS
  <2>2. PICK l \in 1 .. n - 1 : gaps[l][2] = j
    BY <1>2
  <2>3. k < l
    <3>1. l \notin 1 .. count
        BY <1>8, <2>2
    <3>. QED  BY <1>1, <3>1
  <2>. QED  BY <1>2, <1>4, <2>1, <2>2, <2>3
<1> HIDE DEF M, F
<1>9. PICK h \in [M \ F -> F \ M] : \A i, j \in M \ F : h[i] = h[j] => i = j
  <2>1. /\ IsFiniteSet(M \ F) /\ IsFiniteSet(F \ M)
        /\ Cardinality(M \ F) = count - Cardinality(M \cap F)
        /\ Cardinality(F \ M) = Cardinality(F) - Cardinality(F \cap M)
    BY <1>6, <1>7, FS_Difference
  <2>2. M \cap F = F \cap M /\ Cardinality(F \cap M) \in Nat
    BY <1>7, FS_Intersection, FS_CardinalityType
  <2>3. Cardinality(M \ F) <= Cardinality(F \ M)
    <3> DEFINE a == Cardinality(F)
               b == Cardinality(F \cap M)
               c == Cardinality(M \ F)
               d == Cardinality(F \ M)
    <3>1. a \in Nat /\ b \in Nat /\ count <= a /\ c = count - b /\ d = a - b
        BY <1>7, <2>1, <2>2
    <3> HIDE DEF a, b, c, d
    <3>2. c <= d
        BY <3>1
    <3>. QED  BY <3>2 DEF c, d
  <2>. QED  BY <2>1, <2>3, Embeds
<1> DEFINE to == [i \in M |-> IF i \in F THEN i ELSE h[i]]
<1>10. /\ \A i \in M : to[i] \in F /\ (to[i] = i \/ to[i] \notin M)
       /\ \A i, j \in M : to[i] = to[j] => i = j
  <2>1. \A i \in M : i \notin F => h[i] \in F /\ h[i] \notin M
    BY <1>9
  <2>2. \A i \in M : to[i] = IF i \in F THEN i ELSE h[i]
    OBVIOUS
  <2> HIDE DEF to
  <2>3. ASSUME NEW i \in M, NEW j \in M, to[i] = to[j] PROVE i = j
    BY <1>9, <2>1, <2>2, <2>3
  <2>. QED  BY <2>1, <2>2, <2>3
<1> HIDE DEF to
<1>11. ASSUME NEW i \in M
       PROVE  /\ i \in 1 .. n - 1 /\ to[i] \in 1 .. n - 1
              /\ EndOf(rs[i]) \in Nat /\ EndOf(rs[to[i]]) \in Nat
              /\ rs[i + 1].first \in Nat /\ rs[to[i] + 1].first \in Nat
              /\ GapLength(rs, i) <= GapLength(rs, to[i])
  <2>1. i \in 1 .. n - 1 /\ to[i] \in 1 .. n - 1
    BY <1>5, <1>10
  <2>2. /\ i \in 1 .. n /\ i + 1 \in 1 .. n /\ to[i] \in 1 .. n /\ to[i] + 1 \in 1 .. n
    BY <1>1, <2>1
  <2>3. /\ EndOf(rs[i]) \in Nat /\ EndOf(rs[to[i]]) \in Nat
        /\ rs[i + 1].first \in Nat /\ rs[to[i] + 1].first \in Nat
    BY <2>2, RunsInOrder
  <2>4. GapLength(rs, i) \in Int
    BY <2>3 DEF GapLength
  <2>5. GapLength(rs, i) <= GapLength(rs, to[i])
    <3>1. CASE to[i] = i
        BY <2>4, <3>1
    <3>2. CASE to[i] \notin M
        BY <1>8, <2>1, <3>2
    <3>. QED  BY <1>10, <3>1, <3>2
  <2>. QED  BY <2>1, <2>3, <2>5
<1> DEFINE gap == [g \in X |-> CHOOSE i \in M : InGap(rs, i, g)]
           moved == [g \in X |-> EndOf(rs[to[gap[g]]]) + (g - EndOf(rs[gap[g]]))]
           e == [g \in X |-> IF StoredGroup(rs, g) THEN g ELSE moved[g]]
<1>12. ASSUME NEW g \in X, ~ StoredGroup(rs, g)
       PROVE  /\ g \in Nat /\ gap[g] \in M /\ InGap(rs, gap[g], g)
              /\ moved[g] \in Nat /\ InGap(rs, to[gap[g]], moved[g])
              /\ moved[g] - EndOf(rs[to[gap[g]]]) = g - EndOf(rs[gap[g]])
  <2>1. \E i \in M : InGap(rs, i, g)
    BY <1>3, <1>12 DEF M
  <2>2. g \in Nat /\ gap[g] \in M /\ InGap(rs, gap[g], g)
    BY <2>1
  <2>3. moved[g] = EndOf(rs[to[gap[g]]]) + (g - EndOf(rs[gap[g]]))
    OBVIOUS
  <2> HIDE DEF gap, moved
  <2> DEFINE i == gap[g]
             a == EndOf(rs[i])
             b == EndOf(rs[to[i]])
             c == rs[i + 1].first
             d == rs[to[i] + 1].first
  <2>4. /\ a \in Nat /\ b \in Nat /\ c \in Nat /\ d \in Nat /\ c - a <= d - b
        /\ a <= g /\ g < c /\ moved[g] = b + (g - a)
    BY <1>11, <2>2, <2>3 DEF InGap, GapLength
  <2> HIDE DEF a, b, c, d
  <2>5. moved[g] \in Nat /\ b <= moved[g] /\ moved[g] < d /\ moved[g] - b = g - a
    BY <2>2, <2>4
  <2>. QED  BY <2>2, <2>5 DEF a, b, d, InGap
<1> HIDE DEF gap, moved
<1>13. e \in [X -> T]
  <2>1. ASSUME NEW g \in X PROVE e[g] \in T
    <3>1. CASE StoredGroup(rs, g)
        BY <3>1
    <3>2. CASE ~ StoredGroup(rs, g)
      <4>1. to[gap[g]] \in F /\ moved[g] \in Nat /\ InGap(rs, to[gap[g]], moved[g])
        BY <1>10, <1>12, <3>2
      <4>2. moved[g] \in T
        BY <4>1 DEF F, Filled
      <4>. QED  BY <3>2, <4>2
    <3>. QED  BY <3>1, <3>2
  <2> HIDE DEF X
  <2>. QED  BY <2>1
<1>14. ASSUME NEW g \in X, ~ StoredGroup(rs, g) PROVE ~ StoredGroup(rs, moved[g])
  <2>1. to[gap[g]] \in 1 .. n - 1 /\ moved[g] \in Nat /\ InGap(rs, to[gap[g]], moved[g])
    BY <1>11, <1>12, <1>14
  <2>. QED  BY <2>1, GapApart
<1>15. ASSUME NEW g \in X, NEW x \in X, e[g] = e[x] PROVE g = x
  <2>1. CASE StoredGroup(rs, g) \/ StoredGroup(rs, x)
    BY <1>14, <1>15, <2>1
  <2>2. CASE ~ StoredGroup(rs, g) /\ ~ StoredGroup(rs, x)
    <3>1. moved[g] = moved[x]
        BY <1>15, <2>2
    <3>2. to[gap[g]] = to[gap[x]]
      <4>1. /\ to[gap[g]] \in 1 .. n - 1 /\ InGap(rs, to[gap[g]], moved[g])
            /\ to[gap[x]] \in 1 .. n - 1 /\ InGap(rs, to[gap[x]], moved[g])
            /\ moved[g] \in Nat
        BY <1>11, <1>12, <2>2, <3>1
      <4>. QED  BY <4>1, GapApart
    <3>3. gap[g] = gap[x]
        BY <1>10, <1>12, <2>2, <3>2
    <3>4. g - EndOf(rs[gap[g]]) = x - EndOf(rs[gap[g]])
        BY <1>12, <2>2, <3>1, <3>2, <3>3
    <3>5. g \in Nat /\ x \in Nat /\ EndOf(rs[gap[g]]) \in Nat
        BY <1>11, <1>12, <2>2
    <3>. QED  BY <3>4, <3>5
  <2>. QED  BY <2>1, <2>2
<1> HIDE DEF e, X
<1>16. IsFiniteSet(X) /\ Cardinality(X) <= Cardinality(T)
    BY <1>13, <1>15, NotMore
<1>. QED  BY <1>16 DEF X

LEMMA GroupsOfRuns ==
    ASSUME NEW rs, AreRuns(rs)
    PROVE  UNION {rs[k].first .. (EndOf(rs[k]) - 1) : k \in DOMAIN rs}
             = {g \in Nat : StoredGroup(rs, g)}
<1>1. /\ DOMAIN rs = 1 .. Len(rs)
      /\ \A k \in 1 .. Len(rs) : rs[k].first \in Nat /\ EndOf(rs[k]) \in Nat
    BY RunsInOrder
<1>2. ASSUME NEW k \in DOMAIN rs, NEW g
      PROVE  g \in rs[k].first .. (EndOf(rs[k]) - 1)
               <=> g \in Nat /\ rs[k].first <= g /\ g < EndOf(rs[k])
    BY <1>1
<1>. QED  BY <1>2 DEF StoredGroup

LEMMA CheapestRuns ==
    ASSUME NEW stored, AreRuns(stored), Len(stored) > 0,
           NEW T \in SUBSET Nat, IsFiniteSet(T), \A g \in Nat : StoredGroup(stored, g) => g \in T,
           FixedRanges + Cardinality(Starts(T)) <= MaxRanges
    PROVE  Cardinality({g \in Nat : StoredGroup(FitRuns(stored), g)}) <= Cardinality(T)
<1> DEFINE count == 3 + Len(stored) - MaxRanges
           X == {g \in Nat : StoredGroup(FitRuns(stored), g)}
<1>1. Len(stored) \in Nat /\ MaxRanges \in Nat /\ MaxRanges > 3 /\ FixedRanges = 3
    BY RunsInOrder, NfsLayoutAssumption DEF FixedRanges, DiscHeaderRanges
<1>2. Cardinality(Starts(T)) \in Nat
  <2>1. Starts(T) \in SUBSET T
    BY DEF Starts
  <2>. QED  BY <2>1, FS_Subset, FS_CardinalityType
<1>3. CASE FixedRanges + Len(stored) > MaxRanges
  <2>1. FitRuns(stored) = MergeSmallestGaps(stored, count)
    BY <1>1, <1>3 DEF FitRuns
  <2>2. count \in Nat /\ count < Len(stored) /\ Cardinality(Starts(T)) <= Len(stored) - count
    BY <1>1, <1>2, <1>3
  <2> HIDE DEF count
  <2>. QED  BY <2>1, <2>2, CheapestMerge
<1>4. CASE ~ (FixedRanges + Len(stored) > MaxRanges)
  <2>1. X \in SUBSET T
    BY <1>4 DEF FitRuns
  <2>. QED  BY <2>1, FS_Subset
<1>. QED  BY <1>3, <1>4

-----------------------------------------------------------------------------
(***************************************************************************)
(* Bytes, clusters and groups.                                             *)
(***************************************************************************)
LEMMA ProductAssociates == \A a, b, c \in Nat : (a * b) * c = a * (b * c)
OBVIOUS

\* The cluster and the group that hold a byte.
LEMMA GroupOf ==
    ASSUME NEW b \in Nat
    PROVE  /\ b \div ClusterData \in Nat /\ GroupOfByte(b) \in Nat
           /\ \A x \in Nat : /\ x <= b \div ClusterData <=> x * ClusterData <= b
                             /\ x <= GroupOfByte(b) <=> x * SectorsPerGroup <= b \div ClusterData
                             /\ x <= GroupOfByte(b) <=> x * GroupBytes <= b
<1> DEFINE c == b \div ClusterData
<1>1. ClusterData \in Nat \ {0} /\ SectorsPerGroup \in Nat \ {0}
    BY LayoutAssumption
<1>2. c \in Nat /\ \A x \in Nat : x <= c <=> x * ClusterData <= b
    BY <1>1, DivOrder
<1> HIDE DEF c
<1>3. c \div SectorsPerGroup \in Nat
      /\ \A x \in Nat : x <= c \div SectorsPerGroup <=> x * SectorsPerGroup <= c
    BY <1>1, <1>2, DivOrder
<1>4. ASSUME NEW x \in Nat
      PROVE  x <= c \div SectorsPerGroup <=> x * GroupBytes <= b
  <2>1. x * SectorsPerGroup \in Nat
    BY <1>1, Product
  <2>2. x * SectorsPerGroup <= c <=> (x * SectorsPerGroup) * ClusterData <= b
    BY <1>2, <2>1
  <2>3. (x * SectorsPerGroup) * ClusterData = x * GroupBytes
    BY <1>1, ProductAssociates DEF GroupBytes
  <2>. QED  BY <1>3, <2>2, <2>3
<1>. QED  BY <1>2, <1>3, <1>4 DEF GroupOfByte, c

LEMMA GroupOrder ==
    ASSUME NEW a \in Nat, NEW b \in Nat, a <= b PROVE GroupOfByte(a) <= GroupOfByte(b)
<1> DEFINE g == GroupOfByte(a)
<1>1. g \in Nat /\ g * GroupBytes <= a
  <2>1. g \in Nat /\ (g <= g <=> g * GroupBytes <= a)
    BY GroupOf
  <2>. QED  BY <2>1
<1>2. g * GroupBytes \in Nat
    BY <1>1, LayoutAssumption, Product DEF GroupBytes
<1>3. g * GroupBytes <= b
    BY <1>1, <1>2
<1> HIDE DEF g
<1>4. g <= GroupOfByte(b)
    BY <1>1, <1>3, GroupOf
<1>. QED  BY <1>4 DEF g

\* A byte of the partition is in one of its clusters and its groups.
LEMMA GroupBelow ==
    ASSUME NEW b \in Nat, NEW n \in Nat, b < n * ClusterData
    PROVE  /\ b \div ClusterData \in Nat /\ b \div ClusterData < n
           /\ NumGroups(n) \in Nat /\ GroupOfByte(b) < NumGroups(n)
<1> DEFINE c == b \div ClusterData
           g == GroupOfByte(b)
<1>1. c \in Nat /\ g \in Nat /\ c < n
  <2>1. n * ClusterData \in Nat
    BY LayoutAssumption, Product
  <2>2. c \in Nat /\ g \in Nat /\ (n <= c <=> n * ClusterData <= b)
    BY GroupOf
  <2>. QED  BY <2>1, <2>2
<1>2. g * SectorsPerGroup <= c
  <2>1. g <= g <=> g * SectorsPerGroup <= c
    BY <1>1, GroupOf
  <2>. QED  BY <1>1, <2>1
<1>3. g * SectorsPerGroup \in Nat
    BY <1>1, LayoutAssumption, Product
<1> HIDE DEF c, g
<1>4. g * SectorsPerGroup < n
    BY <1>1, <1>2, <1>3
<1>5. NumGroups(n) \in Nat /\ g < NumGroups(n)
  <2> HIDE DEF c, g
  <2>. QED  BY <1>1, <1>4, LayoutAssumption, CeilAbove DEF NumGroups
<1>. QED  BY <1>1, <1>5 DEF c, g

\* The groups of an extent are those of its bytes.
LEMMA ExtentHolds ==
    ASSUME NEW e, e.off \in Nat, e.len \in Nat, NEW b \in Nat, e.off <= b, b < e.off + e.len
    PROVE  GroupOfByte(b) \in ExtentGroups(e)
<1>1. e.len # 0 /\ e.off + e.len - 1 \in Nat /\ b <= e.off + e.len - 1
    OBVIOUS
<1>2. GroupOfByte(e.off) <= GroupOfByte(b)
    BY GroupOrder
<1>3. GroupOfByte(b) <= GroupOfByte(e.off + e.len - 1)
  <2> DEFINE last == e.off + e.len - 1
  <2> HIDE DEF last
  <2>1. last \in Nat /\ b <= last
    BY <1>1 DEF last
  <2>2. GroupOfByte(b) <= GroupOfByte(last)
    BY <2>1, GroupOrder
  <2>. QED  BY <2>2 DEF last
<1>4. GroupOfByte(b) \in Int /\ GroupOfByte(e.off) \in Int /\ GroupOfByte(e.off + e.len - 1) \in Int
    BY <1>1, GroupOf
<1>. QED  BY <1>1, <1>2, <1>3, <1>4 DEF ExtentGroups

-----------------------------------------------------------------------------
(***************************************************************************)
(* The plan of a disc, and the groups it stores.                           *)
(***************************************************************************)
Planned(d, p) ==
    IF d.authored THEN p = AuthoredPlan(d) ELSE PlanAccepts(d) /\ p = DiscPlan(d)

LEMMA DiscIs ==
    ASSUME NEW d \in Discs
    PROVE  /\ Clusters(d) \in Nat /\ d.start \in Nat /\ d.data \in Nat /\ d.end \in Nat
           /\ d.size \in Nat /\ d.tmdOff \in Nat /\ d.h3Off \in Nat /\ d.data + Clusters(d) = d.end
           /\ 10 <= d.start /\ d.start <= d.data
           /\ \A e \in DataExtents(d) : e.off \in Nat /\ e.len \in Nat
           /\ d.edits \in Seq([off : Nat, len : Nat, val : Int])
           /\ d.authored => /\ d.start < d.data /\ Clusters(d) > 0
                            /\ \A e \in DataExtents(d) : InBounds(e, Clusters(d))
<1>1. /\ d.start \in Nat /\ d.data \in Nat /\ d.end \in Nat /\ d.size \in Nat
      /\ d.tmdOff \in Nat /\ d.h3Off \in Nat
      /\ 10 <= d.start /\ d.start <= d.data /\ d.data <= d.end
      /\ \A e \in DataExtents(d) : e.off \in Nat /\ e.len \in Nat
      /\ d.edits \in Seq([off : Nat, len : Nat, val : Int])
      /\ d.authored => /\ d.start < d.data /\ d.data < d.end
                       /\ \A e \in DataExtents(d) : InBounds(e, Clusters(d))
    BY DiscsAssumption
<1>2. Clusters(d) \in Nat /\ d.data + Clusters(d) = d.end
      /\ (d.data < d.end => Clusters(d) > 0)
    BY <1>1 DEF Clusters
<1>. QED  BY <1>1, <1>2

\* The plan checks every extent against the partition.
LEMMA Bounded ==
    ASSUME NEW d \in Discs, NEW p, Planned(d, p), NEW e \in DataExtents(d),
           NEW l \in LogicalBytes(e)
    PROVE  l \in Nat /\ l < Clusters(d) * ClusterData
<1>1. e.off \in Nat /\ e.len \in Nat /\ InBounds(e, Clusters(d))
    BY DiscIs DEF Planned, PlanAccepts
<1>2. l \in Nat /\ l < e.off + e.len /\ e.len # 0
    BY <1>1 DEF LogicalBytes
<1>3. Clusters(d) * ClusterData \in Nat
    BY DiscIs, LayoutAssumption, Product
<1>. QED  BY <1>1, <1>2, <1>3 DEF InBounds

\* A group that trimming drops holds zeros only.
LEMMA TrimmedIsZero ==
    ASSUME NEW d \in Discs, NEW e \in ZeroExtents(d), NEW l \in Nat,
           GroupOfByte(l) \in ZeroTrimGroups(e)
    PROVE  l \in d.zero
<1> DEFINE g == GroupOfByte(l)
<1>1. e \in DataExtents(d) /\ LogicalBytes(e) \subseteq d.zero
    BY DEF ZeroExtents, DataExtents, IsZero
<1>2. e.off \in Nat /\ e.len \in Nat
    BY <1>1, DiscIs
<1>3. g \in Nat /\ GroupBytes \in Nat \ {0}
  <2>1. \A a, b \in Nat \ {0} : a * b \in Nat \ {0}
    OBVIOUS
  <2>. QED  BY <2>1, GroupOf, LayoutAssumption DEF GroupBytes
<1>4. g \in CeilDiv(e.off, GroupBytes) .. ((e.off + e.len) \div GroupBytes - 1)
  <2>1. g \in FullyContainedGroups(e)
    BY DEF ZeroTrimGroups
  <2>. QED  BY <2>1 DEF FullyContainedGroups
<1>5. g * GroupBytes <= l /\ l < (g + 1) * GroupBytes
  <2>1. (g <= g <=> g * GroupBytes <= l) /\ (g + 1 <= g <=> (g + 1) * GroupBytes <= l)
    BY <1>3, GroupOf
  <2>2. (g + 1) * GroupBytes \in Nat
    BY <1>3, Product
  <2>. QED  BY <1>3, <2>1, <2>2
<1>6. e.off <= g * GroupBytes
  <2>1. CeilDiv(e.off, GroupBytes) \in Nat
        /\ (g < CeilDiv(e.off, GroupBytes) <=> g * GroupBytes < e.off)
    BY <1>2, <1>3, CeilAbove
  <2>2. ~ (g < CeilDiv(e.off, GroupBytes))
    BY <1>3, <1>4, <2>1
  <2>3. g * GroupBytes \in Nat
    BY <1>3, Product
  <2>. QED  BY <1>2, <2>1, <2>2, <2>3
<1>7. (g + 1) * GroupBytes <= e.off + e.len
  <2> DEFINE n == e.off + e.len
             q == n \div GroupBytes
             h == g + 1
  <2>1. n \in Nat /\ h \in Nat
    BY <1>2, <1>3
  <2> HIDE DEF n, g
  <2>2. q \in Nat /\ (h <= q <=> h * GroupBytes <= n)
    <3> HIDE DEF h
    <3>. QED  BY <1>3, <2>1, DivOrder
  <2>3. g <= q - 1
    <3> HIDE DEF q
    <3>1. g \in CeilDiv(e.off, GroupBytes) .. q - 1
        BY <1>4 DEF q, n
    <3>. QED  BY <1>3, <2>2, <3>1
  <2> HIDE DEF q
  <2>4. h <= q
    BY <1>3, <2>2, <2>3
  <2>. QED  BY <2>2, <2>4 DEF n
<1>8. l \in LogicalBytes(e)
  <2> DEFINE a == g * GroupBytes
             b == (g + 1) * GroupBytes
  <2>1. a \in Nat /\ b \in Nat
    BY <1>3, Product
  <2> HIDE DEF a, b
  <2>2. e.off <= l /\ l < e.off + e.len
    BY <1>2, <1>5, <1>6, <1>7, <2>1 DEF a, b
  <2>. QED  BY <1>2, <2>2 DEF LogicalBytes
<1>. QED  BY <1>1, <1>8

\* Every byte of a file is in a group the plan stores, or one that trimming dropped.
LEMMA PlannedRuns ==
    ASSUME NEW d \in Discs, NEW p, Planned(d, p)
    PROVE  /\ AreRuns(p.stored)
           /\ NumGroups(Clusters(d)) \in Nat
           /\ \A i \in DOMAIN p.stored : EndOf(p.stored[i]) <= NumGroups(Clusters(d))
           /\ \A e \in DataExtents(d) : \A l \in LogicalBytes(e) :
                 StoredGroup(p.stored, GroupOfByte(l)) \/ l \in d.zero
<1> DEFINE n == NumGroups(Clusters(d))
<1>0. n \in Nat
  <2>1. SectorsPerGroup \in Nat \ {0} /\ Clusters(d) \in Nat
    BY LayoutAssumption, DiscIs
  <2>2. CeilDiv(Clusters(d), SectorsPerGroup) \in Nat
    <3> DEFINE z == 0
    <3>1. z \in Nat
        OBVIOUS
    <3> HIDE DEF z
    <3>. QED  BY <2>1, <3>1, CeilAbove
  <2>. QED  BY <2>2 DEF NumGroups
<1>1. CASE d.authored
  <2>1. p.stored = <<[first |-> 0, num |-> n]>>
    BY <1>1 DEF Planned, AuthoredPlan
  <2>2. n \in Nat \ {0}
    <3> DEFINE z == 0
    <3>1. z \in Nat /\ z * SectorsPerGroup = 0
        BY LayoutAssumption
    <3> HIDE DEF z
    <3>2. z * SectorsPerGroup < Clusters(d)
        BY <1>1, <3>1, DiscIs
    <3>3. z < CeilDiv(Clusters(d), SectorsPerGroup)
        BY <3>1, <3>2, DiscIs, LayoutAssumption, CeilAbove
    <3>. QED  BY <1>0, <3>3 DEF NumGroups, z
  <2> HIDE DEF n
  <2>3. DOMAIN p.stored = {1} /\ p.stored[1] = [first |-> 0, num |-> n] /\ EndOf(p.stored[1]) = n
    BY <2>1, <2>2 DEF EndOf
  <2>4. AreRuns(p.stored)
    <3>1. p.stored \in Seq([first : Nat, num : Nat \ {0}])
        BY <2>1, <2>2
    <3>. QED  BY <2>3, <3>1 DEF AreRuns
  <2>5. ASSUME NEW e \in DataExtents(d), NEW l \in LogicalBytes(e)
        PROVE  StoredGroup(p.stored, GroupOfByte(l))
    <3>1. l \in Nat /\ l < Clusters(d) * ClusterData
        BY Bounded
    <3>2. GroupOfByte(l) \in Nat /\ GroupOfByte(l) < n
        BY <3>1, DiscIs, GroupBelow, GroupOf DEF n
    <3>. QED  BY <2>3, <3>2 DEF StoredGroup
  <2>. QED  BY <2>2, <2>3, <2>4, <2>5 DEF n
<1>2. CASE ~ d.authored
  <2> DEFINE G == UsedGroups(DataExtents(d), Clusters(d), d.skip, ZeroExtents(d))
  <2>1. p.stored = Coalesce(G)
    BY <1>2 DEF Planned, DiscPlan, PlanGroupRuns
  <2>2. ASSUME NEW e \in DataExtents(d) PROVE \A g \in ExtentGroups(e) : g \in 0 .. n - 1
    <3>1. e.off \in Nat /\ e.len \in Nat /\ InBounds(e, Clusters(d))
        BY <1>2, DiscIs DEF Planned, PlanAccepts
    <3>2. CASE e.len = 0
        BY <3>2 DEF ExtentGroups
    <3>3. CASE e.len # 0
      <4> DEFINE last == e.off + e.len - 1
      <4>1. last \in Nat /\ last < Clusters(d) * ClusterData
        <5>1. Clusters(d) * ClusterData \in Nat
            BY DiscIs, LayoutAssumption, Product
        <5>. QED  BY <3>1, <3>3, <5>1 DEF InBounds
      <4>2. ExtentGroups(e) = GroupOfByte(e.off) .. GroupOfByte(last)
        BY <3>3 DEF ExtentGroups
      <4> HIDE DEF last
      <4>3. GroupOfByte(last) \in Nat /\ GroupOfByte(last) < n /\ GroupOfByte(e.off) \in Nat
        BY <3>1, <4>1, DiscIs, GroupBelow, GroupOf
      <4> HIDE DEF n
      <4>. QED  BY <1>0, <4>2, <4>3
    <3>. QED  BY <3>2, <3>3
  <2>3. G \in SUBSET Nat /\ \A g \in G : g < n
    <3>1. \A g \in G : g \in 0 .. n - 1
      <4> HIDE DEF n
      <4>. QED  BY <2>2 DEF UsedGroups, n
    <3> HIDE DEF n, G
    <3>. QED  BY <1>0, <3>1
  <2>4. AreRuns(p.stored) /\ Store(p.stored, G, n)
    <3> HIDE DEF G, n
    <3>. QED  BY <1>0, <2>1, <2>3, CoalesceIs
  <2>5. ASSUME NEW e \in DataExtents(d), NEW l \in LogicalBytes(e)
        PROVE  StoredGroup(p.stored, GroupOfByte(l)) \/ l \in d.zero
    <3> DEFINE g == GroupOfByte(l)
    <3>1. l \in Nat /\ l < Clusters(d) * ClusterData
        BY Bounded
    <3>2. g \in Nat /\ g < n
        BY <3>1, DiscIs, GroupBelow, GroupOf DEF n
    <3>3. g \in ExtentGroups(e)
      <4>1. e.off \in Nat /\ e.len \in Nat
        BY DiscIs
      <4>2. e.off <= l /\ l < e.off + e.len
        BY <4>1 DEF LogicalBytes
      <4>. QED  BY <3>1, <4>1, <4>2, ExtentHolds
    <3>4. CASE g \in G
        BY <2>4, <3>4 DEF Store
    <3>5. CASE g \notin G
      <4>1. \E z \in ZeroExtents(d) : g \in ZeroTrimGroups(z)
        <5>1. g \in 0 .. n - 1
            BY <1>0, <3>2
        <5> HIDE DEF g
        <5>. QED  BY <3>3, <3>5, <5>1 DEF UsedGroups, n
      <4>. QED  BY <3>1, <4>1, TrimmedIsZero
    <3>. QED  BY <3>4, <3>5
  <2>. QED  BY <1>0, <2>4, <2>5 DEF Store
<1>. QED  BY <1>1, <1>2

-----------------------------------------------------------------------------
(***************************************************************************)
(* The range table, and where in the stream each range is.                 *)
(***************************************************************************)
LEMMA StreamStartsAre ==
    ASSUME NEW rs, NEW n \in Nat, DOMAIN rs = 1 .. n, Len(rs) = n,
           \A k \in 1 .. n : rs[k].num \in Nat
    PROVE  LET at == StreamStarts(rs)
           IN /\ at[1] = 0 /\ \A k \in 1 .. n : at[k + 1] = at[k] + rs[k].num
              /\ \A k \in 1 .. n + 1 : at[k] \in Nat
              /\ \A j, k \in 1 .. n + 1 : j < k => at[j] + rs[j].num <= at[k]
<1> DEFINE Sums(f, m) == f = [k \in 1 .. m |-> IF k = 1 THEN 0 ELSE f[k - 1] + rs[k - 1].num]
           at == StreamStarts(rs)
<1>1. \E f : Sums(f, n + 1)
  <2> DEFINE T == {m \in Nat : m <= n => \E f : Sums(f, m + 1)}
  <2>1. 0 \in T
    <3> DEFINE f == [k \in 1 .. 1 |-> 0]
    <3>1. f = [k \in 1 .. 1 |-> IF k = 1 THEN 0 ELSE f[k - 1] + rs[k - 1].num]
        OBVIOUS
    <3>2. 0 + 1 = 1
        OBVIOUS
    <3> HIDE DEF f
    <3>. QED  BY <3>1, <3>2
  <2>2. ASSUME NEW m \in T PROVE m + 1 \in T
    <3>1. SUFFICES ASSUME m + 1 <= n PROVE \E f : Sums(f, m + 2)
        OBVIOUS
    <3>2. PICK f : Sums(f, m + 1)
        BY <3>1
    <3> DEFINE g == [k \in 1 .. m + 2 |-> IF k = 1 THEN 0 ELSE f[k - 1] + rs[k - 1].num]
    <3>3. ASSUME NEW k \in 1 .. m + 1 PROVE g[k] = f[k]
        BY <3>2
    <3>4. ASSUME NEW k \in 1 .. m + 2, k # 1 PROVE g[k - 1] = f[k - 1]
      <4>1. k - 1 \in 1 .. m + 1
        BY <3>4
      <4> HIDE DEF g
      <4>. QED  BY <3>3, <4>1
    <3>5. Sums(g, m + 2)
      <4>1. \A k \in 1 .. m + 2 : g[k] = IF k = 1 THEN 0 ELSE g[k - 1] + rs[k - 1].num
        BY <3>4
      <4> DEFINE h == [k \in 1 .. m + 2 |-> IF k = 1 THEN 0 ELSE g[k - 1] + rs[k - 1].num]
      <4>2. DOMAIN g = 1 .. m + 2 /\ g = [k \in 1 .. m + 2 |-> g[k]]
        OBVIOUS
      <4>3. \A k \in 1 .. m + 2 : g[k] = h[k]
        BY <4>1
      <4> HIDE DEF g
      <4>. QED  BY <4>2, <4>3
    <3>. QED  BY <3>5
  <2>0. T \in SUBSET Nat
    OBVIOUS
  <2> HIDE DEF T
  <2>3. n \in T
    BY <2>0, <2>1, <2>2, Induction
  <2>. QED  BY <2>3 DEF T
<1>2. Sums(at, n + 1)
    BY <1>1 DEF StreamStarts
<1> HIDE DEF at
<1>3. at[1] = 0 /\ \A k \in 1 .. n : at[k + 1] = at[k] + rs[k].num
  <2>1. at[1] = 0
    BY <1>2
  <2>2. ASSUME NEW k \in 1 .. n PROVE at[k + 1] = at[k] + rs[k].num
    <3>1. k + 1 \in 1 .. n + 1 /\ k + 1 # 1 /\ (k + 1) - 1 = k
        OBVIOUS
    <3>. QED  BY <1>2, <3>1
  <2>. QED  BY <2>1, <2>2
<1>4. \A k \in 1 .. n + 1 : at[k] \in Nat
  <2> DEFINE T == {m \in Nat : m <= n => at[m + 1] \in Nat}
  <2>1. 0 \in T
    BY <1>3
  <2>2. ASSUME NEW m \in T PROVE m + 1 \in T
    <3>1. SUFFICES ASSUME m + 1 <= n PROVE at[(m + 1) + 1] \in Nat
        OBVIOUS
    <3>2. m + 1 \in 1 .. n /\ at[m + 1] \in Nat
        BY <3>1
    <3>3. at[(m + 1) + 1] = at[m + 1] + rs[m + 1].num
        BY <1>3, <3>2
    <3>. QED  BY <3>2, <3>3
  <2>0. T \in SUBSET Nat
    OBVIOUS
  <2> HIDE DEF T
  <2>3. \A m \in Nat : m \in T
    BY <2>0, <2>1, <2>2, Induction
  <2>4. ASSUME NEW k \in 1 .. n + 1 PROVE at[k] \in Nat
    <3>1. k - 1 \in Nat /\ k - 1 <= n /\ (k - 1) + 1 = k
        OBVIOUS
    <3>2. k - 1 \in T
        BY <2>3, <3>1
    <3>. QED  BY <3>1, <3>2 DEF T
  <2>. QED  BY <2>4
<1>5. \A j, k \in 1 .. n + 1 : j < k => at[j] + rs[j].num <= at[k]
  <2> DEFINE T == {m \in Nat : \A j \in 1 .. n : j + m <= n => at[j] + rs[j].num <= at[j + m + 1]}
  <2>1. 0 \in T
    <3>1. ASSUME NEW j \in 1 .. n PROVE at[j] + rs[j].num <= at[j + 0 + 1]
      <4>1. j + 0 + 1 = j + 1 /\ j \in 1 .. n + 1 /\ j + 1 \in 1 .. n + 1
        OBVIOUS
      <4>. QED  BY <1>3, <1>4, <4>1
    <3>. QED  BY <3>1
  <2>2. ASSUME NEW m \in T PROVE m + 1 \in T
    <3>1. ASSUME NEW j \in 1 .. n, j + (m + 1) <= n
          PROVE  at[j] + rs[j].num <= at[j + (m + 1) + 1]
      <4>1. m \in Nat /\ j + m <= n /\ j + m + 1 \in 1 .. n /\ j \in 1 .. n + 1
            /\ j + (m + 1) + 1 = (j + m + 1) + 1 /\ (j + m + 1) + 1 \in 1 .. n + 1
            /\ j + m + 1 \in 1 .. n + 1
        BY <3>1
      <4>2. at[j] + rs[j].num <= at[j + m + 1]
        BY <4>1
      <4>3. at[(j + m + 1) + 1] = at[j + m + 1] + rs[j + m + 1].num
        BY <1>3, <4>1
      <4>4. /\ at[j] \in Nat /\ rs[j].num \in Nat /\ at[j + m + 1] \in Nat
            /\ rs[j + m + 1].num \in Nat
        BY <1>4, <4>1
      <4>. QED  BY <4>1, <4>2, <4>3, <4>4
    <3>. QED  BY <3>1
  <2>0. T \in SUBSET Nat
    OBVIOUS
  <2> HIDE DEF T
  <2>3. \A m \in Nat : m \in T
    BY <2>0, <2>1, <2>2, Induction
  <2>4. ASSUME NEW j \in 1 .. n + 1, NEW k \in 1 .. n + 1, j < k
        PROVE  at[j] + rs[j].num <= at[k]
    <3>1. k - j - 1 \in Nat /\ j \in 1 .. n /\ j + (k - j - 1) <= n /\ j + (k - j - 1) + 1 = k
        BY <2>4
    <3>2. k - j - 1 \in T
        BY <2>3, <3>1
    <3>. QED  BY <3>1, <3>2 DEF T
  <2>. QED  BY <2>4
<1>. QED  BY <1>3, <1>4, <1>5 DEF at

\* A group run in sectors: it begins inside the partition, and is clamped to its end.
LEMMA RunRangeIs ==
    ASSUME NEW d \in Discs, NEW run, run.first \in Nat, EndOf(run) \in Nat,
           run.first < EndOf(run), EndOf(run) <= NumGroups(Clusters(d))
    PROVE  LET r == RunRange(d, run)
           IN /\ run.first * SectorsPerGroup \in Nat /\ EndOf(run) * SectorsPerGroup \in Nat
              /\ run.first * SectorsPerGroup < Clusters(d)
              /\ r.start = d.data + run.first * SectorsPerGroup /\ r.start \in Nat
              /\ r.num \in Nat \ {0}
              /\ r.start + r.num = d.data + Min({EndOf(run) * SectorsPerGroup, Clusters(d)})
              /\ r.start + r.num <= d.data + EndOf(run) * SectorsPerGroup
              /\ r.start + r.num <= d.end
<1> DEFINE a == run.first * SectorsPerGroup
           b == EndOf(run) * SectorsPerGroup
           n == Clusters(d)
           r == RunRange(d, run)
<1>1. n \in Nat /\ d.data \in Nat /\ d.data + n = d.end /\ SectorsPerGroup \in Nat \ {0}
    BY DiscIs, LayoutAssumption
<1>2. a \in Nat /\ b \in Nat /\ a < b
  <2>1. \A x, y, z \in Nat : x < y /\ z # 0 => x * z < y * z
    OBVIOUS
  <2>2. a \in Nat /\ b \in Nat
    BY <1>1, Product
  <2> HIDE DEF n, a, b
  <2>3. a < b
    BY <1>1, <2>1 DEF a, b
  <2>. QED  BY <2>2, <2>3
<1>3. a < n
  <2>1. NumGroups(n) \in Nat /\ (run.first < NumGroups(n) <=> a < n)
    BY <1>1, CeilAbove DEF NumGroups
  <2> HIDE DEF a, n
  <2>. QED  BY <2>1 DEF n
<1>4. r = [start |-> d.data + Min({a, n}), num |-> Min({b, n}) - Min({a, n})]
    BY DEF RunRange
<1> HIDE DEF a, b, n, r
<1>5. Min({a, n}) = a /\ Min({b, n}) = IF b <= n THEN b ELSE n
    BY <1>1, <1>2, <1>3, MinIs
<1>6. r.start = d.data + a /\ r.num = Min({b, n}) - a
    BY <1>4, <1>5
<1>7. r.num \in Nat \ {0} /\ r.start \in Nat /\ r.start + r.num = d.data + Min({b, n})
      /\ r.start + r.num <= d.data + b /\ r.start + r.num <= d.end
    BY <1>1, <1>2, <1>3, <1>5, <1>6
<1>. QED  BY <1>2, <1>3, <1>6, <1>7 DEF a, b, n, r

\* The table: the disc header, the partition header, then the runs, in order.
LEMMA RangeTableIs ==
    ASSUME NEW d \in Discs, NEW rs, AreRuns(rs),
           \A k \in DOMAIN rs : EndOf(rs[k]) <= NumGroups(Clusters(d))
    PROVE  LET R == RangeTable(d, rs)
               n == Len(rs)
           IN /\ n \in Nat /\ Len(R) = 3 + n /\ DOMAIN R = 1 .. 3 + n
              /\ R[1] = [start |-> 0, num |-> 1] /\ R[2] = [start |-> 8, num |-> 2]
              /\ R[3] = [start |-> d.start, num |-> d.data - d.start]
              /\ \A k \in 1 .. n : R[3 + k] = RunRange(d, rs[k])
              /\ \A k \in 1 .. 3 + n : R[k].start \in Nat /\ R[k].num \in Nat
              /\ \A j, k \in 1 .. 3 + n : j < k => R[j].start + R[j].num <= R[k].start
<1> DEFINE R == RangeTable(d, rs)
           n == Len(rs)
           own == [k \in DOMAIN rs |-> RunRange(d, rs[k])]
           A == DiscHeaderRanges \o << [start |-> d.start, num |-> d.data - d.start] >>
<1>1. n \in Nat /\ DOMAIN rs = 1 .. n
    BY RunsInOrder
<1>2. /\ Len(A) = 3 /\ A[1] = [start |-> 0, num |-> 1] /\ A[2] = [start |-> 8, num |-> 2]
      /\ A[3] = [start |-> d.start, num |-> d.data - d.start]
    BY DEF DiscHeaderRanges
<1>3. d.start \in Nat /\ d.data \in Nat /\ 10 <= d.start /\ d.start <= d.data
    BY DiscIs
<1>4. ASSUME NEW k \in 1 .. n
      PROVE  /\ rs[k].first \in Nat /\ EndOf(rs[k]) \in Nat /\ rs[k].first < EndOf(rs[k])
             /\ EndOf(rs[k]) <= NumGroups(Clusters(d))
    BY <1>1, RunsInOrder
<1>5. R = A \o own
    BY DEF RangeTable
<1> DEFINE V == [start : Nat, num : Nat]
<1>6. A \in Seq(V)
  <2> DEFINE r == [start |-> d.start, num |-> d.data - d.start]
  <2>1. ASSUME NEW W, NEW p \in Seq(W), NEW q \in Seq(W) PROVE p \o q \in Seq(W)
    OBVIOUS
  <2>2. ASSUME NEW W, NEW x \in W PROVE <<x>> \in Seq(W)
    OBVIOUS
  <2>3. r \in V
    <3>1. d.data - d.start \in Nat
        BY <1>3
    <3>. QED  BY <1>3, <3>1
  <2>4. DiscHeaderRanges \in Seq(V)
    BY DEF DiscHeaderRanges
  <2> HIDE DEF V, r
  <2>5. A = DiscHeaderRanges \o <<r>>
    BY DEF r
  <2> HIDE DEF A
  <2>. QED  BY <2>1, <2>2, <2>3, <2>4, <2>5
<1>7. own \in Seq(V) /\ Len(own) = n
  <2>1. ASSUME NEW Q, NEW q \in [1 .. n -> Q] PROVE q \in Seq(Q) /\ Len(q) = n
    BY <1>1
  <2>2. ASSUME NEW k \in 1 .. n PROVE RunRange(d, rs[k]) \in V
    <3> DEFINE r == RunRange(d, rs[k])
    <3>1. r = [start |-> r.start, num |-> r.num]
        BY DEF RunRange
    <3>2. r.start \in Nat /\ r.num \in Nat
        BY <1>4, RunRangeIs
    <3> HIDE DEF r
    <3>3. r \in V
        BY <3>1, <3>2
    <3>. QED  BY <3>3 DEF r
  <2>. QED  BY <1>1, <2>1, <2>2
<1>8. /\ Len(R) = 3 + n /\ DOMAIN R = 1 .. 3 + n
      /\ R[1] = A[1] /\ R[2] = A[2] /\ R[3] = A[3]
      /\ \A k \in 1 .. n : R[3 + k] = own[k]
  <2> HIDE DEF A, own, V
  <2>2. /\ Len(A \o own) = Len(A) + Len(own) /\ DOMAIN (A \o own) = 1 .. Len(A) + Len(own)
        /\ \A k \in 1 .. Len(A) : (A \o own)[k] = A[k]
        /\ \A k \in 1 .. Len(own) : (A \o own)[Len(A) + k] = own[k]
    <3>1. A \in Seq(V) /\ own \in Seq(V)
        BY <1>6, <1>7
    <3>2. Len(A \o own) = Len(A) + Len(own)
        BY <3>1, Appended
    <3>3. DOMAIN (A \o own) = 1 .. Len(A) + Len(own)
        BY <3>1, Appended
    <3>4. \A k \in 1 .. Len(A) : (A \o own)[k] = A[k]
        BY <3>1, Appended
    <3>5. \A k \in 1 .. Len(own) : (A \o own)[Len(A) + k] = own[k]
        BY <3>1, Appended
    <3>. QED  BY <3>2, <3>3, <3>4, <3>5
  <2> HIDE DEF R
  <2>. QED  BY <1>2, <1>5, <1>7, <2>2
<1>9. \A k \in 1 .. n : R[3 + k] = RunRange(d, rs[k])
    BY <1>1, <1>8
<1> HIDE DEF R, A, own
<1>10. ASSUME NEW k \in 1 .. 3 + n
       PROVE  k = 1 \/ k = 2 \/ k = 3 \/ (k - 3 \in 1 .. n /\ R[k] = RunRange(d, rs[k - 3]))
  <2>1. k > 3 => k - 3 \in 1 .. n /\ 3 + (k - 3) = k
    BY <1>1
  <2>2. k > 3 => R[k] = RunRange(d, rs[k - 3])
    BY <1>9, <2>1
  <2>. QED  BY <1>1, <2>1, <2>2
<1>11. ASSUME NEW k \in 1 .. 3 + n PROVE R[k].start \in Nat /\ R[k].num \in Nat
  <2>1. CASE k \in {1, 2, 3}
    BY <1>2, <1>3, <1>8, <2>1
  <2>2. CASE k - 3 \in 1 .. n /\ R[k] = RunRange(d, rs[k - 3])
    BY <1>4, <2>2, RunRangeIs
  <2>. QED  BY <1>10, <2>1, <2>2
<1>12. ASSUME NEW j \in 1 .. 3 + n, NEW k \in 1 .. 3 + n, j < k
       PROVE  R[j].start + R[j].num <= R[k].start
  <2>1. CASE k \in {1, 2, 3}
    BY <1>2, <1>3, <1>8, <1>12, <2>1
  <2>2. CASE k - 3 \in 1 .. n /\ R[k] = RunRange(d, rs[k - 3])
    <3>1. d.data <= R[k].start /\ R[k].start \in Nat
      <4>1. /\ rs[k - 3].first * SectorsPerGroup \in Nat
            /\ R[k].start = d.data + rs[k - 3].first * SectorsPerGroup
        BY <1>4, <2>2, RunRangeIs
      <4> DEFINE a == rs[k - 3].first * SectorsPerGroup
      <4> HIDE DEF a
      <4>2. a \in Nat /\ R[k].start = d.data + a
        BY <4>1 DEF a
      <4>. QED  BY <1>3, <4>2
    <3>2. CASE j \in {1, 2, 3}
      <4>1. R[j].start + R[j].num <= d.data
        BY <1>2, <1>3, <1>8, <3>2
      <4>. QED  BY <1>3, <1>11, <3>1, <4>1
    <3>3. CASE j - 3 \in 1 .. n /\ R[j] = RunRange(d, rs[j - 3])
      <4> DEFINE b == EndOf(rs[j - 3])
                 f == rs[k - 3].first
      <4>1. b \in Nat /\ f \in Nat /\ b <= f
        <5>1. j - 3 < k - 3
            BY <1>12
        <5>. QED  BY <1>4, <2>2, <3>3, <5>1, RunsInOrder
      <4>2. R[j].start + R[j].num <= d.data + b * SectorsPerGroup
        BY <1>4, <3>3, RunRangeIs
      <4>3. R[k].start = d.data + f * SectorsPerGroup
        BY <1>4, <2>2, RunRangeIs
      <4> HIDE DEF b, f
      <4>4. b * SectorsPerGroup <= f * SectorsPerGroup
            /\ b * SectorsPerGroup \in Nat /\ f * SectorsPerGroup \in Nat
        BY <4>1, LayoutAssumption, ProductOrder, Product
      <4> DEFINE x == b * SectorsPerGroup
                 y == f * SectorsPerGroup
      <4> HIDE DEF x, y
      <4>5. x <= y /\ x \in Nat /\ y \in Nat /\ R[k].start = d.data + y
            /\ R[j].start + R[j].num <= d.data + x
        BY <4>2, <4>3, <4>4 DEF x, y
      <4> HIDE DEF n
      <4>6. R[j].start \in Nat /\ R[j].num \in Nat
        BY <1>11
      <4>. QED  BY <1>3, <4>5, <4>6
    <3>. QED  BY <1>10, <3>2, <3>3
  <2>. QED  BY <1>10, <2>1, <2>2
<1>. QED  BY <1>1, <1>2, <1>8, <1>9, <1>11, <1>12 DEF R

\* What plan_ranges makes of a plan.
Tabled(d, p, rs, R) ==
    /\ Planned(d, p) /\ p.stored # <<>>
    /\ rs = FitRuns(p.stored) /\ R = RangeTable(d, rs)

LEMMA TabledRuns ==
    ASSUME NEW d \in Discs, NEW p, NEW rs, NEW R, Tabled(d, p, rs, R)
    PROVE  /\ AreRuns(rs) /\ Len(rs) \in Nat \ {0} /\ DOMAIN rs = 1 .. Len(rs)
           /\ \A k \in DOMAIN rs : EndOf(rs[k]) <= NumGroups(Clusters(d))
           /\ \A e \in DataExtents(d) : \A l \in LogicalBytes(e) :
                 StoredGroup(rs, GroupOfByte(l)) \/ l \in d.zero
           /\ Len(R) = 3 + Len(rs) /\ DOMAIN R = 1 .. Len(R) /\ Len(R) <= MaxRanges
           /\ \A k \in 1 .. Len(R) : R[k].start \in Nat /\ R[k].num \in Nat
           /\ \A j, k \in 1 .. Len(R) : j < k => R[j].start + R[j].num <= R[k].start
<1>1. /\ AreRuns(p.stored) /\ NumGroups(Clusters(d)) \in Nat
      /\ \A i \in DOMAIN p.stored : EndOf(p.stored[i]) <= NumGroups(Clusters(d))
      /\ \A e \in DataExtents(d) : \A l \in LogicalBytes(e) :
            StoredGroup(p.stored, GroupOfByte(l)) \/ l \in d.zero
    BY PlannedRuns DEF Tabled
<1>2. Len(p.stored) > 0
  <2>1. ASSUME NEW W, NEW q \in Seq(W), q # <<>> PROVE Len(q) > 0
    BY <2>1
  <2>2. p.stored \in Seq([first : Nat, num : Nat \ {0}]) /\ p.stored # <<>>
    BY <1>1 DEF AreRuns, Tabled
  <2>. QED  BY <2>1, <2>2
<1>3. rs = FitRuns(p.stored) /\ R = RangeTable(d, rs)
    BY DEF Tabled
<1>4. /\ AreRuns(rs) /\ Len(rs) > 0 /\ FixedRanges + Len(rs) <= MaxRanges
      /\ \A g \in Nat : StoredGroup(p.stored, g) => StoredGroup(rs, g)
      /\ \A k \in DOMAIN rs : EndOf(rs[k]) <= NumGroups(Clusters(d))
    BY <1>1, <1>2, <1>3, FittedRuns
<1>5. Len(rs) \in Nat \ {0} /\ DOMAIN rs = 1 .. Len(rs)
    BY <1>4, RunsInOrder
<1>6. ASSUME NEW e \in DataExtents(d), NEW l \in LogicalBytes(e)
      PROVE  StoredGroup(rs, GroupOfByte(l)) \/ l \in d.zero
  <2>1. l \in Nat
    BY Bounded DEF Tabled
  <2>. QED  BY <1>1, <1>4, <2>1, GroupOf
<1>7. /\ Len(R) = 3 + Len(rs) /\ DOMAIN R = 1 .. 3 + Len(rs)
      /\ \A k \in 1 .. 3 + Len(rs) : R[k].start \in Nat /\ R[k].num \in Nat
      /\ \A j, k \in 1 .. 3 + Len(rs) : j < k => R[j].start + R[j].num <= R[k].start
    BY <1>3, <1>4, RangeTableIs
<1>8. FixedRanges = 3
    BY DEF FixedRanges, DiscHeaderRanges
<1>. QED  BY <1>4, <1>5, <1>6, <1>7, <1>8

\* The table itself, and where its runs begin and end.
RunsBehind(d, rs, R) == \A k \in 1 .. Len(rs) : R[3 + k] = RunRange(d, rs[k])

LEMMA TabledRanges ==
    ASSUME NEW d \in Discs, NEW p, NEW rs, NEW R, Tabled(d, p, rs, R)
    PROVE  /\ R[1] = [start |-> 0, num |-> 1] /\ R[2] = [start |-> 8, num |-> 2]
           /\ R[3] = [start |-> d.start, num |-> d.data - d.start]
           /\ \A k \in 1 .. Len(rs) :
                 /\ rs[k].first \in Nat /\ EndOf(rs[k]) \in Nat /\ rs[k].first < EndOf(rs[k])
                 /\ EndOf(rs[k]) <= NumGroups(Clusters(d)) /\ rs[k].num \in Nat \ {0}
           /\ RunsBehind(d, rs, R)
<1>1. R = RangeTable(d, rs)
    BY DEF Tabled
<1>2. /\ AreRuns(rs) /\ DOMAIN rs = 1 .. Len(rs)
      /\ \A k \in DOMAIN rs : EndOf(rs[k]) <= NumGroups(Clusters(d))
    BY TabledRuns
<1>3. /\ R[1] = [start |-> 0, num |-> 1] /\ R[2] = [start |-> 8, num |-> 2]
      /\ R[3] = [start |-> d.start, num |-> d.data - d.start]
      /\ \A k \in 1 .. Len(rs) : R[3 + k] = RunRange(d, rs[k])
  <2>1. /\ R[1] = [start |-> 0, num |-> 1] /\ R[2] = [start |-> 8, num |-> 2]
        /\ R[3] = [start |-> d.start, num |-> d.data - d.start]
    BY <1>1, <1>2, RangeTableIs
  <2>2. \A k \in 1 .. Len(rs) : R[3 + k] = RunRange(d, rs[k])
    BY <1>1, <1>2, RangeTableIs
  <2>. QED  BY <2>1, <2>2
<1>. QED  BY <1>2, <1>3, RunsInOrder DEF RunsBehind

LEMMA StartsAre ==
    ASSUME NEW d \in Discs, NEW p, NEW rs, NEW R, Tabled(d, p, rs, R)
    PROVE  LET at == StreamStarts(R)
           IN /\ at[1] = 0 /\ \A k \in 1 .. Len(R) : at[k + 1] = at[k] + R[k].num
              /\ \A k \in 1 .. Len(R) + 1 : at[k] \in Nat
              /\ \A j, k \in 1 .. Len(R) + 1 : j < k => at[j] + R[j].num <= at[k]
<1>1. Len(R) \in Nat /\ DOMAIN R = 1 .. Len(R) /\ \A k \in 1 .. Len(R) : R[k].num \in Nat
    BY TabledRuns
<1>. QED  BY <1>1, StreamStartsAre

-----------------------------------------------------------------------------
(***************************************************************************)
(* The sectors each range is to hold, and the stream that holds the first  *)
(* of them.                                                                *)
(***************************************************************************)
\* Cluster c of the data partition, rebuilt around its edited data.
ClusterSector(d, edits, c) ==
    [i \in 0 .. (SectorSlots - 1) |->
        IF i < HashSlots THEN RebuiltHash
        ELSE GroupData(d, c \div SectorsPerGroup, edits)[c * ClusterData + i - HashSlots]]

SectorOf(d, p, R, k, o) ==
    IF k <= 2 THEN Splice(d, R[k].start + o, p.discPatches)
    ELSE IF k = 3 THEN Splice(d, d.start + o, p.headerPatches)
    ELSE ClusterSector(d, p.edits, R[k].start - d.data + o)

Sectors(d, p, R) == {SectorOf(d, p, R, k, o) : k \in 1 .. Len(R), o \in Nat}

Holds(s, d, p, R) ==
    /\ s \in Seq(Sectors(d, p, R))
    /\ \A k \in 1 .. Len(R) : \A o \in 0 .. R[k].num - 1 :
          StreamStarts(R)[k] + o < Len(s)
            => s[StreamStarts(R)[k] + o + 1] = SectorOf(d, p, R, k, o)

\* Writing the next sectors of a range goes on holding them.
LEMMA Emitted ==
    ASSUME NEW d \in Discs, NEW p, NEW rs, NEW R, Tabled(d, p, rs, R),
           NEW s, Holds(s, d, p, R), NEW add, NEW w \in Nat \ {0},
           NEW k \in 1 .. Len(R), NEW o \in Nat, o + w <= R[k].num,
           Len(s) = StreamStarts(R)[k] + o,
           add \in Seq(Sectors(d, p, R)), Len(add) = w,
           \A j \in 1 .. w : add[j] = SectorOf(d, p, R, k, o + (j - 1))
    PROVE  /\ Holds(s \o add, d, p, R)
           /\ Len(s \o add) = StreamStarts(R)[k] + (o + w)
<1> DEFINE at == StreamStarts(R)
           n == Len(R)
           S == Sectors(d, p, R)
           t == s \o add
<1>1. /\ n \in Nat /\ \A j \in 1 .. n : R[j].num \in Nat
      /\ \A j \in 1 .. n : at[j] \in Nat
      /\ \A j, m \in 1 .. n : j < m => at[j] + R[j].num <= at[m]
  <2>1. Len(R) \in Nat /\ \A j \in 1 .. Len(R) : R[j].num \in Nat
    BY TabledRuns
  <2>2. /\ \A j \in 1 .. Len(R) + 1 : at[j] \in Nat
        /\ \A j, m \in 1 .. Len(R) + 1 : j < m => at[j] + R[j].num <= at[m]
    BY StartsAre
  <2>3. \A j \in 1 .. n : j \in 1 .. n + 1
    BY <2>1
  <2> HIDE DEF at
  <2>. QED  BY <2>1, <2>2, <2>3
<1>2. s \in Seq(S) /\ add \in Seq(S) /\ Len(s) = at[k] + o /\ Len(add) = w
    BY DEF Holds
<1> HIDE DEF S, at, n
<1>3. /\ t \in Seq(S) /\ Len(t) = Len(s) + w /\ Len(s) \in Nat
      /\ \A i \in 1 .. Len(s) : t[i] = s[i]
  <2>1. ASSUME NEW W, NEW q \in Seq(W), NEW r \in Seq(W)
        PROVE  q \o r \in Seq(W) /\ Len(q) \in Nat
    OBVIOUS
  <2>2. t \in Seq(S) /\ Len(s) \in Nat
    BY <1>2, <2>1
  <2>3. s \in Seq(S) /\ add \in Seq(S)
    BY <1>2
  <2>4. Len(s \o add) = Len(s) + Len(add)
    BY <2>3, Appended
  <2>5. \A i \in 1 .. Len(s) : (s \o add)[i] = s[i]
    BY <2>3, Appended
  <2>. QED  BY <1>2, <2>2, <2>4, <2>5
<1>7. \A i \in 1 .. w : t[Len(s) + i] = add[i]
  <2>1. s \in Seq(S) /\ add \in Seq(S)
    BY <1>2
  <2>2. Behind(s, add, s \o add)
    BY <2>1, AppendedBehind
  <2>3. Behind(s, add, t)
    BY <2>2 DEF t
  <2>. QED  BY <1>2, <2>3 DEF Behind
<1> HIDE DEF t
<1>4. k \in 1 .. n /\ at[k] \in Nat /\ R[k].num \in Nat
    BY <1>1 DEF n
<1>5. ASSUME NEW j \in 1 .. n, NEW u \in 0 .. R[j].num - 1, at[j] + u < Len(t)
      PROVE  t[at[j] + u + 1] = SectorOf(d, p, R, j, u)
  <2> DEFINE a == at[j]
             num == R[j].num
             b == at[k]
             len == Len(s)
  <2>1. a \in Nat /\ num \in Nat /\ b \in Nat /\ len \in Nat /\ R[k].num \in Nat
    BY <1>1, <1>3, <1>4
  <2>2. /\ u \in 0 .. num - 1 /\ j \in Int /\ k \in Int /\ len = b + o /\ o + w <= R[k].num
        /\ a + u < len + w
    <3>1. u \in 0 .. num - 1
        OBVIOUS
    <3>2. j \in Int /\ k \in Int
        BY <1>1, <1>4
    <3>3. len = b + o /\ o + w <= R[k].num /\ a + u < len + w
        BY <1>2, <1>3, <1>5
    <3>. QED  BY <3>1, <3>2, <3>3
  <2>3. /\ j < k => a + num <= b
        /\ k < j => b + R[k].num <= a
    BY <1>1, <1>4
  <2>4. CASE a + u < len
    <3>1. s[a + u + 1] = SectorOf(d, p, R, j, u)
        BY <2>4 DEF Holds, at, n
    <3>2. a + u + 1 \in 1 .. len
      <4> HIDE DEF a, num, b, len
      <4>. QED  BY <2>1, <2>2, <2>4
    <3>. QED  BY <1>3, <3>1, <3>2
  <2>5. CASE ~ (a + u < len)
    <3>1. j = k
      <4> HIDE DEF a, num, b, len
      <4>. QED  BY <2>1, <2>2, <2>3, <2>5
    <3>2. u - o + 1 \in 1 .. w /\ o + ((u - o + 1) - 1) = u /\ b + u + 1 = len + (u - o + 1)
      <4>1. a = b
        BY <3>1
      <4> HIDE DEF a, num, b, len
      <4>. QED  BY <2>1, <2>2, <2>5, <4>1
    <3>3. t[len + (u - o + 1)] = add[u - o + 1]
      <4> DEFINE i == u - o + 1
      <4> HIDE DEF i
      <4>1. i \in 1 .. w
        BY <3>2 DEF i
      <4>2. t[len + i] = add[i]
        BY <1>7, <4>1
      <4>. QED  BY <4>2 DEF i
    <3>4. add[u - o + 1] = SectorOf(d, p, R, k, u)
        BY <3>2
    <3>5. t[b + u + 1] = SectorOf(d, p, R, k, u)
      <4> HIDE DEF a, num, b, len
      <4>. QED  BY <3>2, <3>3, <3>4
    <3>. QED  BY <3>1, <3>5
  <2>. QED  BY <2>4, <2>5
<1>6. Len(t) = at[k] + (o + w)
    BY <1>2, <1>3, <1>4
<1>. QED
  <2>1. Holds(t, d, p, R)
    BY <1>3, <1>5 DEF Holds, at, n, S
  <2>. QED  BY <1>6, <2>1 DEF t, at

LEMMA EmittedOne ==
    ASSUME NEW d \in Discs, NEW p, NEW rs, NEW R, Tabled(d, p, rs, R),
           NEW s, Holds(s, d, p, R), NEW k \in 1 .. Len(R), NEW o \in Nat, o < R[k].num,
           Len(s) = StreamStarts(R)[k] + o, NEW x, x = SectorOf(d, p, R, k, o)
    PROVE  /\ Holds(s \o <<x>>, d, p, R)
           /\ Len(s \o <<x>>) = StreamStarts(R)[k] + (o + 1)
<1> DEFINE w == 1
           add == <<x>>
<1>1. x \in Sectors(d, p, R)
    BY DEF Sectors
<1>2. ASSUME NEW W, NEW y \in W PROVE <<y>> \in Seq(W) /\ Len(<<y>>) = w /\ <<y>>[1] = y
    OBVIOUS
<1>3. add \in Seq(Sectors(d, p, R)) /\ Len(add) = w /\ add[1] = x
    BY <1>1, <1>2
<1>4. w \in Nat \ {0} /\ o + w <= R[k].num
    BY TabledRuns
<1>5. ASSUME NEW j \in 1 .. w PROVE add[j] = SectorOf(d, p, R, k, o + (j - 1))
  <2>1. j = 1 /\ o + (j - 1) = o
    OBVIOUS
  <2> HIDE DEF add
  <2>. QED  BY <1>3, <2>1
<1> HIDE DEF add, w
<1>6. Holds(s \o add, d, p, R) /\ Len(s \o add) = StreamStarts(R)[k] + (o + w)
    BY <1>3, <1>4, <1>5, Emitted
<1>. QED  BY <1>6 DEF add, w

\* The clusters of a group, which recompute_group builds from the group's data.
LEMMA ClusteredIs ==
    ASSUME NEW d \in Discs, NEW edits, NEW g \in Nat, g * SectorsPerGroup < Clusters(d)
    PROVE  LET add == Clustered(d, g, GroupData(d, g, edits))
               w == Min({(g + 1) * SectorsPerGroup, Clusters(d)}) - g * SectorsPerGroup
           IN /\ w \in Nat \ {0} /\ g * SectorsPerGroup \in Nat
              /\ (g + 1) * SectorsPerGroup = g * SectorsPerGroup + SectorsPerGroup
              /\ DOMAIN add = 1 .. w
              /\ \A j \in 1 .. w : add[j] = ClusterSector(d, edits, g * SectorsPerGroup + (j - 1))
<1> DEFINE a == g * SectorsPerGroup
           b == (g + 1) * SectorsPerGroup
           n == Clusters(d)
           m == Min({b, n})
           w == m - a
           data == GroupData(d, g, edits)
           add == Clustered(d, g, data)
<1>1. n \in Nat /\ SectorsPerGroup \in Nat \ {0}
    BY DiscIs, LayoutAssumption
<1>2. a \in Nat /\ b = a + SectorsPerGroup
  <2>1. \A x, y \in Nat : x * y \in Nat /\ (x + 1) * y = x * y + y
    OBVIOUS
  <2>. QED  BY <1>1, <2>1
<1> HIDE DEF a, b, n
<1>3. a < n
    BY DEF a, n
<1>4. m = IF b <= n THEN b ELSE n
    BY <1>1, <1>2, MinIs
<1> HIDE DEF m
<1>5. w \in Nat \ {0} /\ w <= SectorsPerGroup /\ (m - 1) + 1 - a = w
    BY <1>1, <1>2, <1>3, <1>4
<1> HIDE DEF w, data, add
<1>6. add = [k \in 1 .. ((m - 1) + 1 - a) |->
               [i \in 0 .. (SectorSlots - 1) |->
                   IF i < HashSlots THEN RebuiltHash
                   ELSE data[(a + k - 1) * ClusterData + i - HashSlots]]]
    BY DEF add, Clustered, a, b, n, m
<1>7. DOMAIN add = 1 .. w
    BY <1>5, <1>6
<1>8. ASSUME NEW j \in 1 .. w PROVE add[j] = ClusterSector(d, edits, a + (j - 1))
  <2> DEFINE c == a + (j - 1)
  <2>1. c \div SectorsPerGroup = g
    <3> DEFINE r == j - 1
    <3>1. r \in 0 .. SectorsPerGroup - 1
        BY <1>1, <1>5
    <3> HIDE DEF r
    <3>2. (g * SectorsPerGroup + r) \div SectorsPerGroup = g
        BY <1>1, <3>1, DivUnique
    <3>. QED  BY <3>2 DEF a, r
  <2>2. a + j - 1 = c
    BY <1>2, <1>5
  <2> HIDE DEF c
  <2>3. add[j] = [i \in 0 .. (SectorSlots - 1) |->
                   IF i < HashSlots THEN RebuiltHash
                   ELSE data[(a + j - 1) * ClusterData + i - HashSlots]]
    BY <1>5, <1>6
  <2>4. ClusterSector(d, edits, c) = [i \in 0 .. (SectorSlots - 1) |->
                   IF i < HashSlots THEN RebuiltHash
                   ELSE data[c * ClusterData + i - HashSlots]]
    BY <2>1 DEF ClusterSector, data
  <2>5. add[j] = ClusterSector(d, edits, c)
    BY <2>2, <2>3, <2>4
  <2>. QED  BY <2>5 DEF c
<1>9. w \in Nat \ {0}
    BY <1>5
<1>. QED  BY <1>2, <1>7, <1>8, <1>9 DEF a, b, n, m, w, data, add

-----------------------------------------------------------------------------
(***************************************************************************)
(* Reading the mounted image.                                              *)
(***************************************************************************)
LEMMA SlotsAre == /\ SectorSlots \in Nat \ {0} /\ HashSlots \in Nat /\ ClusterData \in Nat \ {0}
                  /\ SectorSlots = HashSlots + ClusterData
BY NfsLayoutAssumption, LayoutAssumption

\* A slot in a range is read from the range's part of the stream.
LEMMA MountedIn ==
    ASSUME disc \in Discs, Tabled(disc, plan, runs, ranges),
           NEW k \in 1 .. Len(ranges), NEW o \in Nat, o < ranges[k].num,
           NEW i \in 0 .. SectorSlots - 1
    PROVE  Mounted((ranges[k].start + o) * SectorSlots + i) = stream[StartsAt(k) + o + 1][i]
<1> DEFINE s == ranges[k].start + o
           x == s * SectorSlots + i
           n == Len(ranges)
           hit == {j \in DOMAIN ranges : /\ ranges[j].start <= x \div SectorSlots
                                         /\ x \div SectorSlots < ranges[j].start + ranges[j].num}
<1>1. /\ n \in Nat /\ DOMAIN ranges = 1 .. n
      /\ \A j \in 1 .. n : ranges[j].start \in Nat /\ ranges[j].num \in Nat
      /\ \A j, m \in 1 .. n : j < m => ranges[j].start + ranges[j].num <= ranges[m].start
    BY TabledRuns
<1>2. s \in Nat
    BY <1>1
<1>3. x \div SectorSlots = s /\ x % SectorSlots = i
  <2> HIDE DEF s
  <2>. QED  BY <1>2, SlotsAre, DivUnique
<1> HIDE DEF x
<1>4. hit = {k}
  <2>1. \A j : j \in hit <=> /\ j \in 1 .. n /\ ranges[j].start <= s
                             /\ s < ranges[j].start + ranges[j].num
    BY <1>1, <1>3
  <2> HIDE DEF hit, n
  <2>2. k \in hit
    <3> DEFINE c == ranges[k].start
               e == ranges[k].num
    <3>1. k \in 1 .. n
        BY DEF n
    <3>2. c \in Nat /\ e \in Nat /\ s = c + o /\ o < e
        BY <1>1, <3>1
    <3> HIDE DEF s, c, e
    <3>3. c <= s /\ s < c + e
        BY <3>2
    <3>. QED  BY <2>1, <3>1, <3>3 DEF c, e
  <2>3. ASSUME NEW j \in hit PROVE j = k
    <3> DEFINE a == ranges[j].start
               b == ranges[j].num
               c == ranges[k].start
               e == ranges[k].num
    <3>1. j \in 1 .. n /\ k \in 1 .. n /\ a <= s /\ s < a + b
        BY <2>1, <2>2
    <3>2. (j < k => a + b <= c) /\ (k < j => c + e <= a)
        BY <1>1, <3>1
    <3>3. a \in Nat /\ b \in Nat /\ c \in Nat /\ e \in Nat /\ j \in Int /\ k \in Int
        BY <1>1, <3>1
    <3>4. s = c + o /\ o < e
        OBVIOUS
    <3> HIDE DEF a, b, c, e, s
    <3>. QED  BY <3>1, <3>2, <3>3, <3>4
  <2>. QED  BY <2>2, <2>3
<1>5. Min(hit) = k
  <2>1. k \in Int
    BY <1>1
  <2> HIDE DEF hit
  <2>. QED  BY <1>4, <2>1 DEF Min
<1>6. Mounted(x) = stream[StartsAt(k) + s - ranges[k].start + 1][i]
  <2>1. hit # {}
    BY <1>4
  <2>2. Mounted(x) = IF hit = {} THEN 0
                     ELSE stream[StartsAt(Min(hit)) + x \div SectorSlots
                                   - ranges[Min(hit)].start + 1][x % SectorSlots]
    BY DEF Mounted
  <2> HIDE DEF hit, s
  <2>. QED  BY <1>3, <1>5, <2>1, <2>2
<1>7. StartsAt(k) + s - ranges[k].start + 1 = StartsAt(k) + o + 1
  <2>1. ranges[k].start \in Nat
    BY <1>1
  <2>2. StartsAt(k) \in Nat
    <3>1. k \in 1 .. Len(ranges) + 1
        BY <1>1
    <3>. QED  BY <3>1, StartsAre DEF StartsAt
  <2> DEFINE a == StartsAt(k)
             b == ranges[k].start
  <2> HIDE DEF a, b
  <2>3. a + (b + o) - b + 1 = a + o + 1
    BY <2>1, <2>2 DEF a, b
  <2>. QED  BY <2>3 DEF a, b
<1>. QED  BY <1>6, <1>7 DEF x

\* A slot outside every range is read as zero.
LEMMA MountedOutside ==
    ASSUME disc \in Discs, Tabled(disc, plan, runs, ranges),
           NEW s \in Nat, NEW i \in 0 .. SectorSlots - 1,
           \A k \in 1 .. Len(ranges) :
              ~ (ranges[k].start <= s /\ s < ranges[k].start + ranges[k].num)
    PROVE  Mounted(s * SectorSlots + i) = 0
<1> DEFINE x == s * SectorSlots + i
<1>1. x \div SectorSlots = s
    BY SlotsAre, DivUnique
<1>2. DOMAIN ranges = 1 .. Len(ranges)
    BY TabledRuns
<1> HIDE DEF x
<1>3. Mounted(x) = 0
    BY <1>1, <1>2 DEF Mounted
<1>. QED  BY <1>3 DEF x

\* Once all is written, every slot of a range reads what the range is to hold.
LEMMA MountedHolds ==
    ASSUME disc \in Discs, Tabled(disc, plan, runs, ranges), Holds(stream, disc, plan, ranges),
           Len(stream) = StartsAt(Len(ranges) + 1),
           NEW k \in 1 .. Len(ranges), NEW o \in Nat, o < ranges[k].num,
           NEW i \in 0 .. SectorSlots - 1
    PROVE  Mounted((ranges[k].start + o) * SectorSlots + i)
             = SectorOf(disc, plan, ranges, k, o)[i]
<1> DEFINE at == StreamStarts(ranges)
           n == Len(ranges)
<1>1. Mounted((ranges[k].start + o) * SectorSlots + i) = stream[at[k] + o + 1][i]
    BY MountedIn DEF StartsAt
<1>2. n \in Nat /\ ranges[k].num \in Nat
    BY TabledRuns
<1>3. at[k] \in Nat /\ at[n + 1] \in Nat /\ at[k] + ranges[k].num <= at[n + 1]
  <2>1. /\ \A j \in 1 .. n + 1 : at[j] \in Nat
        /\ \A j, m \in 1 .. n + 1 : j < m => at[j] + ranges[j].num <= at[m]
    BY StartsAre
  <2>2. k \in 1 .. n + 1 /\ n + 1 \in 1 .. n + 1 /\ k < n + 1
    BY <1>2
  <2> HIDE DEF at, n
  <2>. QED  BY <2>1, <2>2
<1>4. at[k] + o < Len(stream)
  <2> DEFINE a == at[k]
             b == ranges[k].num
             c == at[n + 1]
  <2>1. a \in Nat /\ b \in Nat /\ c \in Nat /\ a + b <= c /\ o < b
    BY <1>2, <1>3
  <2>2. Len(stream) = c
    BY DEF StartsAt
  <2> HIDE DEF a, b, c
  <2>3. a + o < Len(stream)
    BY <2>1, <2>2
  <2>. QED  BY <2>3 DEF a
<1>5. o \in 0 .. ranges[k].num - 1
    BY <1>2
<1>6. stream[at[k] + o + 1] = SectorOf(disc, plan, ranges, k, o)
    BY <1>4, <1>5 DEF Holds
<1>. QED  BY <1>1, <1>6

\* A slot that a patch covers reads as the last such patch, whatever was there.
LEMMA PatchedOver ==
    ASSUME NEW ps, NEW i \in DOMAIN ps, NEW x, Covers(ps[i], x), NEW a, NEW b
    PROVE  PatchedAt(ps, x, a) = PatchedAt(ps, x, b)
BY DEF PatchedAt

LEMMA PatchedNot ==
    ASSUME NEW ps, NEW x, \A i \in DOMAIN ps : ~ Covers(ps[i], x), NEW a
    PROVE  PatchedAt(ps, x, a) = a
BY DEF PatchedAt

LEMMA PatchesAre ==
    ASSUME NEW d \in Discs, NEW p, Planned(d, p)
    PROVE  /\ \A i \in DOMAIN p.discPatches :
                 p.discPatches[i].off \in Nat /\ p.discPatches[i].len \in Nat
           /\ \A i \in DOMAIN p.headerPatches :
                 p.headerPatches[i].off \in Nat /\ p.headerPatches[i].len \in Nat
           /\ \A i \in DOMAIN p.edits : p.edits[i].off \in Nat /\ p.edits[i].len \in Nat
<1>1. CASE d.authored
  <2>1. p.discPatches = <<>> /\ p.headerPatches = <<>> /\ p.edits = <<>>
    BY <1>1 DEF Planned, AuthoredPlan
  <2>. QED  BY <2>1
<1>2. CASE ~ d.authored
  <2>1. p.discPatches = DiscPatches /\ p.headerPatches = HeaderPatches(d) /\ p.edits = d.edits
    BY <1>2 DEF Planned, DiscPlan
  <2>2. ASSUME NEW i \in DOMAIN DiscPatches
        PROVE  DiscPatches[i].off \in Nat /\ DiscPatches[i].len \in Nat
    <3>1. SectorSlots \in Nat
        BY SlotsAre
    <3>. QED  BY <3>1 DEF DiscPatches
  <2>3. ASSUME NEW i \in DOMAIN HeaderPatches(d)
        PROVE  HeaderPatches(d)[i].off \in Nat /\ HeaderPatches(d)[i].len \in Nat
    <3> DEFINE base == d.start * SectorSlots
    <3>1. base \in Nat /\ d.tmdOff \in Nat /\ d.h3Off \in Nat /\ H3Slots \in Nat
        BY SlotsAre, DiscIs, Product, NfsLayoutAssumption
    <3> HIDE DEF base
    <3>2. HeaderPatches(d) = << [off |-> base,         len |-> 1,       val |-> TicketSig],
                                [off |-> d.tmdOff,     len |-> 1,       val |-> TmdSig],
                                [off |-> d.tmdOff + 1, len |-> 1,       val |-> TmdHash],
                                [off |-> d.h3Off,      len |-> H3Slots, val |-> H3Table] >>
        BY DEF HeaderPatches, base
    <3>. QED  BY <3>1, <3>2
  <2>4. \A i \in DOMAIN d.edits : d.edits[i].off \in Nat /\ d.edits[i].len \in Nat
    <3>1. ASSUME NEW W, NEW q \in Seq(W) PROVE \A i \in DOMAIN q : q[i] \in W
        OBVIOUS
    <3>2. \A i \in DOMAIN d.edits : d.edits[i] \in [off : Nat, len : Nat, val : Int]
        BY <3>1, DiscIs
    <3>. QED  BY <3>2
  <2>. QED  BY <2>1, <2>2, <2>3, <2>4
<1>. QED  BY <1>1, <1>2

\* A slot is in the sectors between those that bound it.
LEMMA SectorWithin ==
    ASSUME NEW x \in Nat, NEW lo \in Nat, NEW hi \in Nat,
           lo * SectorSlots <= x, x < hi * SectorSlots
    PROVE  \E s \in Nat, i \in 0 .. SectorSlots - 1 :
              x = s * SectorSlots + i /\ lo <= s /\ s < hi
<1>1. SectorSlots \in Nat \ {0}
    BY SlotsAre
<1>2. PICK s \in Nat, i \in 0 .. SectorSlots - 1 : x = s * SectorSlots + i /\ s = x \div SectorSlots
  <2>1. \E s \in Nat, i \in 0 .. SectorSlots - 1 :
            x = s * SectorSlots + i /\ s = x \div SectorSlots /\ i = x % SectorSlots
    BY <1>1, DivMod
  <2>. QED  BY <2>1
<1>3. (lo <= s <=> lo * SectorSlots <= x) /\ (hi <= s <=> hi * SectorSlots <= x)
    BY <1>1, <1>2, DivOrder
<1>4. hi * SectorSlots \in Nat
    BY <1>1, Product
<1>5. lo <= s /\ s < hi
  <2> DEFINE h == hi * SectorSlots
  <2> HIDE DEF h
  <2>1. h \in Nat /\ x < h /\ (hi <= s <=> h <= x) /\ lo <= s
    BY <1>3, <1>4 DEF h
  <2>. QED  BY <2>1
<1>. QED  BY <1>2, <1>5

-----------------------------------------------------------------------------
(***************************************************************************)
(* What a finished image is.                                               *)
(***************************************************************************)
Finished == /\ disc \in Discs /\ Tabled(disc, plan, runs, ranges)
            /\ PatchesContained(disc, plan, runs)
            /\ Holds(stream, disc, plan, ranges) /\ Len(stream) = StartsAt(Len(ranges) + 1)

\* A patch of a range that is spliced is where it belongs.
LEMMA PatchMounted ==
    ASSUME Finished, NEW k \in 1 .. 3, NEW ps, NEW i \in DOMAIN ps,
           ps = IF k <= 2 THEN plan.discPatches ELSE plan.headerPatches,
           ps[i].off \in Nat, ps[i].len \in Nat,
           Within(ps[i], ranges[k].start * SectorSlots,
                  (ranges[k].start + ranges[k].num) * SectorSlots),
           NEW x \in ps[i].off .. (ps[i].off + ps[i].len - 1)
    PROVE  Mounted(x) = PatchedAt(ps, x, 0)
<1> DEFINE lo == ranges[k].start
           num == ranges[k].num
           hi == lo + num
<1>1. k \in 1 .. Len(ranges) /\ lo \in Nat /\ num \in Nat
  <2>1. Len(ranges) = 3 + Len(runs) /\ Len(runs) \in Nat
        /\ \A j \in 1 .. Len(ranges) : ranges[j].start \in Nat /\ ranges[j].num \in Nat
    BY TabledRuns DEF Finished
  <2>2. k \in 1 .. Len(ranges)
    BY <2>1
  <2>. QED  BY <2>1, <2>2
<1>2. x \in Nat /\ Covers(ps[i], x) /\ lo * SectorSlots <= x /\ x < hi * SectorSlots
  <2> DEFINE a == lo * SectorSlots
             b == hi * SectorSlots
  <2>1. a \in Nat /\ b \in Nat
    <3> HIDE DEF lo, num
    <3>1. hi \in Nat /\ SectorSlots \in Nat
        BY <1>1, SlotsAre
    <3> HIDE DEF hi
    <3>. QED  BY <1>1, <3>1, Product
  <2>2. a <= ps[i].off /\ ps[i].off + ps[i].len <= b
    BY DEF Within
  <2> HIDE DEF a, b
  <2>3. x \in Nat /\ ps[i].off <= x /\ x < ps[i].off + ps[i].len /\ a <= x /\ x < b
    BY <2>1, <2>2
  <2>. QED  BY <2>3 DEF Covers, a, b
<1>3. PICK s \in Nat, j \in 0 .. SectorSlots - 1 : x = s * SectorSlots + j /\ lo <= s /\ s < hi
  <2> HIDE DEF lo, num
  <2>1. hi \in Nat
    BY <1>1
  <2> HIDE DEF hi
  <2>. QED  BY <1>1, <1>2, <2>1, SectorWithin
<1> DEFINE o == s - lo
<1>4. o \in Nat /\ o < num /\ lo + o = s
  <2> HIDE DEF lo, num
  <2>. QED  BY <1>1, <1>3
<1>5. Mounted((lo + o) * SectorSlots + j) = SectorOf(disc, plan, ranges, k, o)[j]
  <2> HIDE DEF o
  <2>. QED  BY <1>1, <1>4, MountedHolds DEF Finished
<1>6. SectorOf(disc, plan, ranges, k, o) = Splice(disc, s, ps)
  <2>1. CASE k <= 2
    BY <1>4, <2>1 DEF SectorOf
  <2>2. CASE k = 3
    <3>1. ranges[3] = [start |-> disc.start, num |-> disc.data - disc.start]
        BY TabledRanges DEF Finished
    <3>2. disc.start + o = s
        BY <1>4, <2>2, <3>1
    <3> HIDE DEF o
    <3>. QED  BY <2>2, <3>2 DEF SectorOf
  <2>. QED  BY <2>1, <2>2
<1> HIDE DEF lo, o
<1>7. Mounted(x) = PatchedAt(ps, x, SourceSlot(disc, x))
  <2>1. Splice(disc, s, ps)[j] = PatchedAt(ps, s * SectorSlots + j,
                                           SourceSlot(disc, s * SectorSlots + j))
    BY DEF Splice
  <2>. QED  BY <1>3, <1>4, <1>5, <1>6, <2>1
<1>. QED  BY <1>2, <1>7, PatchedOver

LEMMA PatchesMounted ==
    ASSUME Finished, NEW ps \in {plan.discPatches, plan.headerPatches}, NEW i \in DOMAIN ps,
           NEW x \in ps[i].off .. (ps[i].off + ps[i].len - 1)
    PROVE  Mounted(x) = PatchedAt(ps, x, 0)
<1>1. ps[i].off \in Nat /\ ps[i].len \in Nat
    BY PatchesAre DEF Finished, Tabled
<1>2. ps[i].len > 0
    BY <1>1
<1>3. CASE ps = plan.discPatches
  <2>1. PICK k \in DOMAIN DiscHeaderRanges :
            LET r == DiscHeaderRanges[k]
            IN Within(ps[i], r.start * SectorSlots, (r.start + r.num) * SectorSlots)
    BY <1>2, <1>3 DEF Finished, PatchesContained
  <2>2. k \in 1 .. 2 /\ k \in 1 .. 3
    BY DEF DiscHeaderRanges
  <2>3. ranges[k] = DiscHeaderRanges[k]
    <3>1. disc \in Discs /\ Tabled(disc, plan, runs, ranges)
        BY DEF Finished
    <3>2. ranges[1] = [start |-> 0, num |-> 1] /\ ranges[2] = [start |-> 8, num |-> 2]
        BY <3>1, TabledRanges
    <3>. QED  BY <2>2, <3>2 DEF DiscHeaderRanges
  <2>. QED  BY <1>1, <1>3, <2>1, <2>2, <2>3, PatchMounted
<1>4. CASE ps = plan.headerPatches
  <2>1. Within(ps[i], disc.start * SectorSlots, disc.data * SectorSlots)
    BY <1>2, <1>4 DEF Finished, PatchesContained
  <2>2. ranges[3] = [start |-> disc.start, num |-> disc.data - disc.start]
    BY TabledRanges DEF Finished
  <2>3. disc.start \in Nat /\ disc.data \in Nat /\ disc.start <= disc.data
    BY DiscIs DEF Finished
  <2>4. ranges[3].start = disc.start /\ ranges[3].start + ranges[3].num = disc.data
    BY <2>2, <2>3
  <2> DEFINE k == 3
  <2>5. k \in 1 .. 3 /\ ~ (k <= 2) /\ ranges[k].start = disc.start
        /\ ranges[k].start + ranges[k].num = disc.data
    BY <2>4
  <2> HIDE DEF k
  <2>. QED  BY <1>1, <1>4, <2>1, <2>5, PatchMounted
<1>. QED  BY <1>3, <1>4

\* An edit whose groups are stored covers no byte of another group.
LEMMA UneditedByte ==
    ASSUME disc \in Discs, Planned(disc, plan), PatchesContained(disc, plan, runs),
           NEW l \in Nat, ~ StoredGroup(runs, GroupOfByte(l))
    PROVE  \A i \in DOMAIN plan.edits : ~ Covers(plan.edits[i], l)
<1>1. SUFFICES ASSUME NEW i \in DOMAIN plan.edits, Covers(plan.edits[i], l) PROVE FALSE
    OBVIOUS
<1>2. plan.edits[i].off \in Nat /\ plan.edits[i].len \in Nat
    BY PatchesAre
<1>3. GroupOfByte(l) \in ExtentGroups(plan.edits[i])
    BY <1>1, <1>2, ExtentHolds DEF Covers
<1>. QED  BY <1>3 DEF PatchesContained

\* Where a byte of the partition data is: its cluster's sector, behind the hash block.
LEMMA SlotIs ==
    ASSUME NEW d \in Discs, NEW l \in Nat
    PROVE  LET c == l \div ClusterData
               i == HashSlots + (l % ClusterData)
           IN /\ SlotOf(d, l) = (d.data + c) * SectorSlots + i
              /\ c \in Nat /\ i \in 0 .. SectorSlots - 1 /\ ~ (i < HashSlots)
              /\ c * ClusterData + i - HashSlots = l
<1> DEFINE c == l \div ClusterData
           q == l % ClusterData
           i == HashSlots + q
<1>1. c \in Nat /\ q \in 0 .. ClusterData - 1 /\ l = c * ClusterData + q
  <2>1. \E u \in Nat, v \in 0 .. ClusterData - 1 : l = u * ClusterData + v /\ u = c /\ v = q
    BY SlotsAre, DivMod
  <2> HIDE DEF c, q
  <2>. QED  BY <2>1
<1>2. SlotOf(d, l) = (d.data + c) * SectorSlots + HashSlots + q
    BY DEF SlotOf
<1> HIDE DEF c, q
<1>3. i \in 0 .. SectorSlots - 1 /\ ~ (i < HashSlots)
    BY <1>1, SlotsAre
<1>4. c * ClusterData + i - HashSlots = l
  <2> DEFINE a == c * ClusterData
  <2>1. a \in Nat
    BY <1>1, SlotsAre, Product
  <2> HIDE DEF a
  <2>2. a + i - HashSlots = a + q
    BY <1>1, <2>1, SlotsAre
  <2>. QED  BY <1>1, <2>2 DEF a
<1>5. SlotOf(d, l) = (d.data + c) * SectorSlots + i
  <2> DEFINE a == (d.data + c) * SectorSlots
  <2>1. a \in Nat
    <3>1. d.data + c \in Nat
        BY <1>1, DiscIs
    <3>. QED  BY <3>1, SlotsAre, Product
  <2> HIDE DEF a
  <2>2. a + HashSlots + q = a + i
    BY <1>1, <2>1, SlotsAre
  <2>. QED  BY <1>2, <2>2 DEF a
<1>6. c \in Nat
    BY <1>1
<1> HIDE DEF i
<1>. QED  BY <1>3, <1>4, <1>5, <1>6 DEF c, q, i

\* The group a byte's cluster is in, and where it lies in a run that stores it.
LEMMA ByteInRun ==
    ASSUME NEW d \in Discs, NEW l \in Nat, l < Clusters(d) * ClusterData,
           NEW run, run.first \in Nat, EndOf(run) \in Nat, run.first < EndOf(run),
           EndOf(run) <= NumGroups(Clusters(d))
    PROVE  LET c == l \div ClusterData
               r == RunRange(d, run)
           IN (run.first <= GroupOfByte(l) /\ GroupOfByte(l) < EndOf(run))
                <=> (r.start <= d.data + c /\ d.data + c < r.start + r.num)
<1> DEFINE c == l \div ClusterData
           r == RunRange(d, run)
           g == GroupOfByte(l)
           n == Clusters(d)
           a == run.first * SectorsPerGroup
           b == EndOf(run) * SectorsPerGroup
<1>1. c \in Nat /\ g \in Nat /\ c < n /\ n \in Nat /\ d.data \in Nat
    BY DiscIs, GroupBelow, GroupOf
<1>2. (run.first <= g <=> a <= c) /\ (EndOf(run) <= g <=> b <= c)
    BY GroupOf
<1>3. /\ a \in Nat /\ b \in Nat /\ r.start = d.data + a
      /\ r.start + r.num = d.data + Min({b, n})
    BY RunRangeIs
<1>4. Min({b, n}) = IF b <= n THEN b ELSE n
    BY <1>1, <1>3, MinIs
<1> HIDE DEF a, b, c, g, n, r
<1>5. (run.first <= g /\ g < EndOf(run)) <=> (r.start <= d.data + c /\ d.data + c < r.start + r.num)
    BY <1>1, <1>2, <1>3, <1>4
<1>. QED  BY <1>5 DEF c, g, r

LEMMA FilesMounted ==
    ASSUME Finished, NEW e \in DataExtents(disc), NEW l \in LogicalBytes(e)
    PROVE  Mounted(SlotOf(disc, l)) = PatchedAt(plan.edits, l, SourceSlot(disc, SlotOf(disc, l)))
<1> DEFINE c == l \div ClusterData
           i == HashSlots + (l % ClusterData)
           g == GroupOfByte(l)
<1>1. disc \in Discs /\ Tabled(disc, plan, runs, ranges) /\ Planned(disc, plan)
    BY DEF Finished, Tabled
<1>2. l \in Nat /\ l < Clusters(disc) * ClusterData
    BY <1>1, Bounded
<1>3. /\ SlotOf(disc, l) = (disc.data + c) * SectorSlots + i
      /\ c \in Nat /\ i \in 0 .. SectorSlots - 1 /\ ~ (i < HashSlots)
      /\ c * ClusterData + i - HashSlots = l
    BY <1>1, <1>2, SlotIs
<1>4. c < Clusters(disc) /\ g \in Nat /\ disc.data \in Nat /\ Clusters(disc) \in Nat
    BY <1>1, <1>2, DiscIs, GroupBelow, GroupOf
<1>5. StoredGroup(runs, g) \/ l \in disc.zero
    BY <1>1, TabledRuns
<1>6. Len(ranges) = 3 + Len(runs) /\ Len(runs) \in Nat /\ DOMAIN runs = 1 .. Len(runs)
    BY <1>1, TabledRuns
<1>7. ASSUME NEW k \in 1 .. Len(runs)
      PROVE  /\ ranges[3 + k] = RunRange(disc, runs[k])
             /\ (runs[k].first <= g /\ g < EndOf(runs[k]))
                  <=> /\ ranges[3 + k].start <= disc.data + c
                      /\ disc.data + c < ranges[3 + k].start + ranges[3 + k].num
  <2>1. /\ runs[k].first \in Nat /\ EndOf(runs[k]) \in Nat /\ runs[k].first < EndOf(runs[k])
        /\ EndOf(runs[k]) <= NumGroups(Clusters(disc)) /\ ranges[3 + k] = RunRange(disc, runs[k])
    <3>1. /\ runs[k].first \in Nat /\ EndOf(runs[k]) \in Nat /\ runs[k].first < EndOf(runs[k])
          /\ EndOf(runs[k]) <= NumGroups(Clusters(disc))
        BY <1>1, TabledRanges
    <3>2. ranges[3 + k] = RunRange(disc, runs[k])
      <4>1. RunsBehind(disc, runs, ranges)
        BY <1>1, TabledRanges
      <4>. QED  BY <4>1 DEF RunsBehind
    <3>. QED  BY <3>1, <3>2
  <2>. QED  BY <1>1, <1>2, <2>1, ByteInRun
<1> HIDE DEF i
<1>8. CASE StoredGroup(runs, g)
  <2>1. PICK k \in 1 .. Len(runs) : runs[k].first <= g /\ g < EndOf(runs[k])
    BY <1>6, <1>8 DEF StoredGroup
  <2> DEFINE m == 3 + k
             r == ranges[m]
             o == disc.data + c - r.start
  <2>2. m \in 1 .. Len(ranges) /\ ~ (m <= 2) /\ m # 3
    BY <1>6
  <2>3. r.start <= disc.data + c /\ disc.data + c < r.start + r.num
    BY <1>7, <2>1
  <2>4. r.start \in Nat /\ r.num \in Nat
    BY <1>1, <2>2, TabledRuns
  <2>5. o \in Nat /\ o < r.num /\ r.start + o = disc.data + c /\ r.start - disc.data + o = c
    <3> DEFINE a == r.start
               b == r.num
               f == disc.data
    <3>1. a \in Nat /\ b \in Nat /\ f \in Nat /\ c \in Nat /\ a <= f + c /\ f + c < a + b
        BY <1>3, <1>4, <2>3, <2>4
    <3>2. o = f + c - a
        OBVIOUS
    <3> HIDE DEF a, b, c, f, o
    <3>3. o \in Nat /\ o < b /\ a + o = f + c /\ a - f + o = c
        BY <3>1, <3>2
    <3>. QED  BY <3>3 DEF a, b, f
  <2> HIDE DEF o, m
  <2>6. Mounted((r.start + o) * SectorSlots + i) = SectorOf(disc, plan, ranges, m, o)[i]
    BY <1>3, <2>2, <2>5, MountedHolds DEF Finished
  <2>7. SectorOf(disc, plan, ranges, m, o) = ClusterSector(disc, plan.edits, c)
    BY <2>2, <2>5 DEF SectorOf
  <2>8. ClusterSector(disc, plan.edits, c)[i]
          = GroupData(disc, g, plan.edits)[c * ClusterData + i - HashSlots]
    BY <1>3 DEF ClusterSector, GroupOfByte
  <2>9. l \in (g * GroupBytes) .. ((g + 1) * GroupBytes - 1)
    <3>1. (g <= g <=> g * GroupBytes <= l) /\ (g + 1 <= g <=> (g + 1) * GroupBytes <= l)
      <4>1. \A h \in Nat : h <= g <=> h * GroupBytes <= l
        BY <1>2, GroupOf
      <4> HIDE DEF g
      <4>2. g \in Nat /\ g + 1 \in Nat
        BY <1>4
      <4>. QED  BY <4>1, <4>2
    <3>2. GroupBytes \in Nat
        BY LayoutAssumption, Product DEF GroupBytes
    <3>3. g * GroupBytes \in Nat /\ (g + 1) * GroupBytes \in Nat
        BY <1>4, <3>2, Product
    <3> DEFINE a == g * GroupBytes
               b == (g + 1) * GroupBytes
    <3> HIDE DEF a, b, g
    <3>4. a \in Nat /\ b \in Nat /\ (g <= g <=> a <= l) /\ (g + 1 <= g <=> b <= l)
        BY <3>1, <3>3 DEF a, b
    <3>5. l \in a .. b - 1
        BY <1>2, <1>4, <3>4
    <3>. QED  BY <3>5 DEF a, b
  <2>10. GroupData(disc, g, plan.edits)[l]
           = PatchedAt(plan.edits, l, SourceSlot(disc, SlotOf(disc, l)))
    <3> HIDE DEF g
    <3>. QED  BY <1>2, <2>9 DEF GroupData
  <2>. QED  BY <1>3, <2>5, <2>6, <2>7, <2>8, <2>10
<1>9. CASE ~ StoredGroup(runs, g)
  <2> DEFINE s == disc.data + c
  <2>1. s \in Nat
    BY <1>3, <1>4
  <2>2. ASSUME NEW k \in 1 .. Len(ranges)
        PROVE  ~ (ranges[k].start <= s /\ s < ranges[k].start + ranges[k].num)
    <3>1. CASE k \in {1, 2, 3}
      <4>1. /\ ranges[1] = [start |-> 0, num |-> 1] /\ ranges[2] = [start |-> 8, num |-> 2]
            /\ ranges[3] = [start |-> disc.start, num |-> disc.data - disc.start]
        BY <1>1, TabledRanges
      <4>2. disc.start \in Nat /\ 10 <= disc.start /\ disc.start <= disc.data
        BY <1>1, DiscIs
      <4>3. ranges[k].start + ranges[k].num <= disc.data
        BY <1>4, <3>1, <4>1, <4>2
      <4>4. s >= disc.data
        BY <1>3, <1>4
      <4>5. ranges[k].start \in Nat /\ ranges[k].num \in Nat
        BY <1>1, TabledRuns
      <4> HIDE DEF s
      <4>. QED  BY <1>4, <2>1, <4>3, <4>4, <4>5
    <3>2. CASE k > 3
      <4>1. k - 3 \in 1 .. Len(runs) /\ 3 + (k - 3) = k
        BY <1>6, <3>2
      <4>2. ~ (runs[k - 3].first <= g /\ g < EndOf(runs[k - 3]))
        BY <1>6, <1>9, <4>1 DEF StoredGroup
      <4> DEFINE m == k - 3
      <4> HIDE DEF m, c, g
      <4>3. m \in 1 .. Len(runs) /\ 3 + m = k /\ ~ (runs[m].first <= g /\ g < EndOf(runs[m]))
        BY <4>1, <4>2 DEF m
      <4>. QED  BY <1>7, <4>3
    <3>. QED  BY <1>6, <3>1, <3>2
  <2>3. Mounted(s * SectorSlots + i) = 0
    <3> HIDE DEF s
    <3>. QED  BY <1>1, <1>3, <2>1, <2>2, MountedOutside
  <2>4. SourceSlot(disc, SlotOf(disc, l)) = 0
    BY <1>5, <1>9 DEF SourceSlot
  <2>5. PatchedAt(plan.edits, l, 0) = 0
    <3>1. \A j \in DOMAIN plan.edits : ~ Covers(plan.edits[j], l)
        BY <1>1, <1>2, <1>9, UneditedByte DEF Finished
    <3> DEFINE z == 0
    <3> HIDE DEF z
    <3>2. PatchedAt(plan.edits, l, z) = z
        BY <3>1, PatchedNot
    <3>. QED  BY <3>2 DEF z
  <2>. QED  BY <1>3, <2>3, <2>4, <2>5
<1>. QED  BY <1>8, <1>9

-----------------------------------------------------------------------------
(***************************************************************************)
(* The passes that write the image.                                        *)
(***************************************************************************)
\* The table of the plan describes a whole group as it is written, edits included.
LEMMA PlannedTable ==
    ASSUME NEW d \in Discs, NEW p, Planned(d, p), d.size >= d.end,
           NEW g \in Nat, g < NumGroups(Clusters(d)), WholeGroup(d, g)
    PROVE  p.h3[g] = GroupData(d, g, p.edits)
<1>1. NumGroups(Clusters(d)) \in Nat
    BY PlannedRuns
<1>2. g \in 0 .. NumGroups(Clusters(d)) - 1
    BY <1>1
<1>3. CASE d.authored
  <2>1. p.h3 = [h \in 0 .. (NumGroups(Clusters(d)) - 1) |-> GroupData(d, h, <<>>)]
        /\ p.edits = <<>>
    BY <1>3 DEF Planned, AuthoredPlan
  <2>. QED  BY <1>2, <2>1
<1>4. CASE ~ d.authored
  <2>1. p.h3 = PlannedH3(d) /\ p.edits = d.edits
    BY <1>4 DEF Planned, DiscPlan
  <2>2. CASE g \in EditedGroups(d.edits)
    BY <1>2, <2>1, <2>2 DEF PlannedH3, SourceH3
  <2>3. CASE g \notin EditedGroups(d.edits)
    <3>1. p.h3[g] = SourceH3(d)[g]
        BY <1>2, <2>1, <2>3 DEF PlannedH3, SourceH3
    <3>2. d.data + (g + 1) * SectorsPerGroup <= d.size
      <4> DEFINE b == (g + 1) * SectorsPerGroup
      <4>1. b \in Nat
        BY LayoutAssumption, Product
      <4>2. b <= Clusters(d)
        BY DEF WholeGroup
      <4> HIDE DEF b
      <4>3. d.data + b <= d.size
        BY <4>1, <4>2, DiscIs
      <4>. QED  BY <4>3 DEF b
    <3>3. SourceH3(d)[g] = GroupData(d, g, <<>>)
        BY <1>2, <3>2 DEF SourceH3
    <3>4. ASSUME NEW l \in (g * GroupBytes) .. ((g + 1) * GroupBytes - 1), NEW v
          PROVE  PatchedAt(d.edits, l, v) = PatchedAt(<<>>, l, v)
      <4>1. l \in Nat /\ g * GroupBytes <= l /\ l < (g + 1) * GroupBytes
        <5> DEFINE a == g * GroupBytes
                   b == (g + 1) * GroupBytes
        <5>1. a \in Nat /\ b \in Nat
            BY LayoutAssumption, Product DEF GroupBytes
        <5> HIDE DEF a, b
        <5>2. l \in a .. b - 1
            BY DEF a, b
        <5>3. l \in Nat /\ a <= l /\ l < b
            BY <5>1, <5>2
        <5>. QED  BY <5>3 DEF a, b
      <4>2. GroupOfByte(l) = g
        <5> DEFINE h == GroupOfByte(l)
        <5>1. h \in Nat /\ \A x \in Nat : x <= h <=> x * GroupBytes <= l
            BY <4>1, GroupOf
        <5> HIDE DEF h
        <5>2. (g <= h <=> g * GroupBytes <= l) /\ (g + 1 <= h <=> (g + 1) * GroupBytes <= l)
            BY <5>1
        <5>3. (g + 1) * GroupBytes \in Nat
            BY LayoutAssumption, Product DEF GroupBytes
        <5>4. h = g
          <6> DEFINE b == (g + 1) * GroupBytes
          <6> HIDE DEF b
          <6>1. g <= h /\ b \in Nat /\ l < b /\ (g + 1 <= h <=> b <= l)
            BY <4>1, <5>2, <5>3 DEF b
          <6>. QED  BY <4>1, <5>1, <6>1
        <5>. QED  BY <5>4 DEF h
      <4>3. ASSUME NEW i \in DOMAIN d.edits PROVE ~ Covers(d.edits[i], l)
        <5>1. SUFFICES ASSUME Covers(d.edits[i], l) PROVE FALSE
            OBVIOUS
        <5>2. d.edits[i].off \in Nat /\ d.edits[i].len \in Nat
            BY <2>1, PatchesAre
        <5>3. g \in ExtentGroups(d.edits[i])
            BY <4>1, <4>2, <5>1, <5>2, ExtentHolds DEF Covers
        <5>. QED  BY <2>3, <5>3 DEF EditedGroups
      <4>4. PatchedAt(d.edits, l, v) = v
        BY <4>3, PatchedNot
      <4>5. PatchedAt(<<>>, l, v) = v
        <5> DEFINE none == <<>>
        <5>1. DOMAIN none = {}
            OBVIOUS
        <5> HIDE DEF none
        <5>2. PatchedAt(none, l, v) = v
            BY <5>1, PatchedNot
        <5>. QED  BY <5>2 DEF none
      <4>. QED  BY <4>4, <4>5
    <3>5. GroupData(d, g, <<>>) = GroupData(d, g, d.edits)
        BY <3>4 DEF GroupData
    <3>. QED  BY <2>1, <3>1, <3>3, <3>5
  <2>. QED  BY <2>2, <2>3
<1>. QED  BY <1>3, <1>4

\* The group that is next in a run fills the next sectors of the run's range.
LEMMA NextGroup ==
    ASSUME NEW d \in Discs, NEW p, NEW rs, NEW R, Tabled(d, p, rs, R),
           NEW t \in 1 .. Len(rs), NEW q \in 0 .. rs[t].num - 1
    PROVE  LET g == rs[t].first + q
               o == q * SectorsPerGroup
               add == Clustered(d, g, GroupData(d, g, p.edits))
           IN /\ g \in Nat /\ g < NumGroups(Clusters(d)) /\ o \in Nat
              /\ add \in Seq(Sectors(d, p, R)) /\ Len(add) \in Nat \ {0}
              /\ o + Len(add) <= R[3 + t].num
              /\ \A j \in 1 .. Len(add) : add[j] = SectorOf(d, p, R, 3 + t, o + (j - 1))
              /\ q + 1 < rs[t].num => o + Len(add) = (q + 1) * SectorsPerGroup
              /\ ~ (q + 1 < rs[t].num) => o + Len(add) = R[3 + t].num
<1> DEFINE f == rs[t].first
           e == EndOf(rs[t])
           n == Clusters(d)
           g == f + q
           o == q * SectorsPerGroup
           add == Clustered(d, g, GroupData(d, g, p.edits))
           r == RunRange(d, rs[t])
           fs == f * SectorsPerGroup
           gs == g * SectorsPerGroup
           hs == (g + 1) * SectorsPerGroup
           es == e * SectorsPerGroup
           w == Min({hs, n}) - gs
           G == NumGroups(n)
<1>1. /\ f \in Nat /\ e \in Nat /\ f < e /\ e <= G /\ rs[t].num \in Nat \ {0}
      /\ e = f + rs[t].num
    BY TabledRanges DEF EndOf
<1>2. R[3 + t] = r
  <2>1. RunsBehind(d, rs, R)
    BY TabledRanges
  <2>. QED  BY <2>1 DEF RunsBehind
<1>3. G \in Nat /\ n \in Nat /\ d.data \in Nat /\ SectorsPerGroup \in Nat \ {0}
    BY PlannedRuns, DiscIs, LayoutAssumption DEF Tabled
<1>4. g \in Nat /\ g < e /\ g < G /\ q \in Nat /\ g + 1 <= e
      /\ (q + 1 < rs[t].num <=> g + 1 < e)
  <2> DEFINE m == rs[t].num
  <2>1. /\ q \in 0 .. m - 1 /\ m \in Nat /\ e = f + m
        /\ f \in Nat /\ e \in Nat /\ e <= G /\ G \in Nat
    BY <1>1, <1>3
  <2> HIDE DEF f, e, G, m
  <2>2. g \in Nat /\ g < e /\ g < G /\ q \in Nat /\ g + 1 <= e /\ (q + 1 < m <=> g + 1 < e)
    BY <2>1
  <2>. QED  BY <2>2 DEF m
<1> HIDE DEF f, e, n, g, G
<1>5. gs \in Nat /\ hs = gs + SectorsPerGroup /\ gs = fs + o /\ fs \in Nat /\ o \in Nat
      /\ (q + 1) * SectorsPerGroup = o + SectorsPerGroup
  <2>1. \A x, y \in Nat : x * y \in Nat /\ (x + 1) * y = x * y + y
    OBVIOUS
  <2>2. \A x, y, z \in Nat : (x + y) * z = x * z + y * z
    OBVIOUS
  <2>. QED  BY <1>1, <1>3, <1>4, <2>1, <2>2 DEF g
<1>6. hs <= es /\ es \in Nat
  <2> DEFINE h == g + 1
  <2>1. h \in Nat /\ h <= e /\ e \in Nat /\ SectorsPerGroup \in Nat
    BY <1>1, <1>3, <1>4
  <2> HIDE DEF h
  <2>2. h * SectorsPerGroup <= e * SectorsPerGroup /\ e * SectorsPerGroup \in Nat
    BY <2>1, Product, ProductOrder
  <2>. QED  BY <2>2 DEF h
<1>7. gs < n
  <2>1. g < NumGroups(n) <=> g * SectorsPerGroup < n
    BY <1>3, <1>4, CeilAbove DEF NumGroups
  <2>. QED  BY <1>4, <2>1 DEF G
<1>8. g + 1 < e => hs < n
  <2>1. SUFFICES ASSUME g + 1 < e PROVE hs < n
    OBVIOUS
  <2> DEFINE h == g + 1
  <2>2. h \in Nat /\ h < G
    BY <1>1, <1>3, <1>4, <2>1
  <2> HIDE DEF h
  <2>3. h < NumGroups(n) <=> h * SectorsPerGroup < n
    BY <1>3, <2>2, CeilAbove DEF NumGroups
  <2>. QED  BY <2>2, <2>3 DEF G, h
<1>9. /\ w \in Nat \ {0} /\ DOMAIN add = 1 .. w
      /\ \A j \in 1 .. w : add[j] = ClusterSector(d, p.edits, gs + (j - 1))
    BY <1>4, <1>7, ClusteredIs DEF n
<1>10. r.start = d.data + fs /\ r.start \in Nat /\ r.num \in Nat
       /\ r.start + r.num = d.data + Min({es, n})
    BY <1>1, RunRangeIs DEF f, e, n, G
<1> HIDE DEF o, add, r, fs, gs, hs, es
<1>11. /\ Min({hs, n}) = IF hs <= n THEN hs ELSE n
       /\ Min({es, n}) = IF es <= n THEN es ELSE n
  <2>1. hs \in Int /\ es \in Int /\ n \in Int
    BY <1>3, <1>5, <1>6
  <2>. QED  BY <2>1, MinIs
<1>12. r.num = Min({es, n}) - fs
  <2> DEFINE a == r.start
             b == r.num
             m == Min({es, n})
  <2>1. m \in Nat
    BY <1>3, <1>6, <1>11
  <2>2. a = d.data + fs /\ a \in Nat /\ b \in Nat /\ a + b = d.data + m
    BY <1>10
  <2> HIDE DEF a, b, m
  <2>3. b = m - fs
    BY <1>3, <1>5, <2>1, <2>2
  <2>. QED  BY <2>3 DEF b, m
<1>13. o + w <= r.num /\ (g + 1 < e => o + w = o + SectorsPerGroup)
    BY <1>3, <1>5, <1>6, <1>8, <1>11, <1>12
<1>14. ~ (g + 1 < e) => o + w = r.num
  <2>1. ~ (g + 1 < e) => hs = es
    BY <1>1, <1>4 DEF hs, es
  <2>2. SUFFICES ASSUME ~ (g + 1 < e) PROVE o + w = r.num
    OBVIOUS
  <2> DEFINE m == Min({es, n})
  <2>3. m \in Nat /\ r.num = m - fs /\ w = m - gs
    BY <1>3, <1>6, <1>11, <1>12, <2>1, <2>2
  <2> HIDE DEF m, w
  <2>. QED  BY <1>5, <2>3
<1> HIDE DEF w
<1> DEFINE k == 3 + t
<1>15. k \in 1 .. Len(R) /\ ~ (k <= 2) /\ k # 3
  <2>1. Len(R) = 3 + Len(rs) /\ Len(rs) \in Nat
    BY TabledRuns
  <2>. QED  BY <2>1
<1>16. ASSUME NEW j \in 1 .. w
       PROVE  o + (j - 1) \in Nat /\ add[j] = SectorOf(d, p, R, k, o + (j - 1))
  <2>1. r.start - d.data + (o + (j - 1)) = gs + (j - 1) /\ o + (j - 1) \in Nat
    BY <1>3, <1>5, <1>9, <1>10
  <2>2. R[k] = r
    BY <1>2
  <2> HIDE DEF k
  <2>3. SectorOf(d, p, R, k, o + (j - 1))
          = ClusterSector(d, p.edits, r.start - d.data + (o + (j - 1)))
    BY <1>15, <2>2 DEF SectorOf
  <2>. QED  BY <1>9, <2>1, <2>3
<1>17. add \in Seq(Sectors(d, p, R)) /\ Len(add) = w
  <2>1. ASSUME NEW W, NEW s \in [1 .. w -> W] PROVE s \in Seq(W) /\ Len(s) = w
    BY <1>9
  <2>2. \A j \in 1 .. w : add[j] \in Sectors(d, p, R)
    <3> HIDE DEF k
    <3>. QED  BY <1>15, <1>16 DEF Sectors
  <2>3. add = [j \in 1 .. w |-> add[j]]
    <3>1. add = [j \in DOMAIN add |-> add[j]]
        BY DEF add, Clustered
    <3>. QED  BY <1>9, <3>1
  <2>4. add \in [1 .. w -> Sectors(d, p, R)]
    BY <2>2, <2>3
  <2>. QED  BY <2>1, <2>4
<1>18. q + 1 < rs[t].num => o + w = (q + 1) * SectorsPerGroup
    BY <1>4, <1>5, <1>13
<1>19. ~ (q + 1 < rs[t].num) => o + w = R[k].num
    BY <1>2, <1>4, <1>14
<1>. QED
  <2>1. /\ g \in Nat /\ g < NumGroups(n) /\ o \in Nat /\ add \in Seq(Sectors(d, p, R))
        /\ Len(add) \in Nat \ {0} /\ o + Len(add) <= R[k].num
        /\ \A j \in 1 .. Len(add) : add[j] = SectorOf(d, p, R, k, o + (j - 1))
        /\ q + 1 < rs[t].num => o + Len(add) = (q + 1) * SectorsPerGroup
        /\ ~ (q + 1 < rs[t].num) => o + Len(add) = R[k].num
    BY <1>2, <1>4, <1>5, <1>9, <1>13, <1>16, <1>17, <1>18, <1>19 DEF G
  <2>. QED  BY <2>1 DEF add, o, g, f, n

-----------------------------------------------------------------------------
(***************************************************************************)
(* The inductive invariant.                                                *)
(***************************************************************************)
Written == pc \in {"disc", "header", "groups", "done"}

\* How far the stream is.
Position ==
    /\ pc = "disc" => /\ turn \in 1 .. 2 /\ next \in 0 .. ranges[turn].num - 1
                      /\ Len(stream) = StartsAt(turn) + next
    /\ pc = "header" => /\ turn = 1 /\ next \in 0 .. ranges[3].num - 1
                        /\ Len(stream) = StartsAt(3) + next
    /\ pc = "groups" => /\ turn \in 1 .. Len(runs) /\ next \in 0 .. runs[turn].num - 1
                        /\ Len(stream) = StartsAt(3 + turn) + next * SectorsPerGroup
    /\ pc = "done" => Len(stream) = StartsAt(Len(ranges) + 1)

\* What each step rests on: the plan, the table made of it, the patches it contains, and the
\* sectors of each range, as far as the stream is.
IInv ==
    /\ disc \in Discs
    /\ pc \in {"plan", "ranges", "verify", "disc", "header", "groups", "done", "error"}
    /\ Len(ranges) <= MaxRanges
    /\ pc \notin {"plan", "error"} => Planned(disc, plan)
    /\ pc \in {"plan", "ranges", "verify"} => turn = 1 /\ next = 0 /\ stream = <<>>
    /\ pc = "verify" \/ Written => Tabled(disc, plan, runs, ranges)
    /\ Written => PatchesContained(disc, plan, runs) /\ Holds(stream, disc, plan, ranges)
    /\ Position
    /\ H3TableAgrees

LEMMA Initially == ASSUME Init PROVE IInv
<1>1. Len(ranges) <= MaxRanges
  <2>1. ranges = <<>> /\ MaxRanges \in Nat
    BY NfsLayoutAssumption DEF Init
  <2>. QED  BY <2>1
<1>. QED  BY <1>1 DEF Init, IInv, Written, Position, H3TableAgrees

\* Planning a disc, and its range table.
LEMMA PlanningSteps ==
    ASSUME IInv, PlanDisc \/ AuthorDisc \/ PlanRanges PROVE IInv'
<1>1. CASE PlanDisc
  <2>1. pc' = "error" \/ (pc' = "ranges" /\ Planned(disc', plan'))
    BY <1>1 DEF PlanDisc, Planned, Fail
  <2>2. UNCHANGED <<disc, runs, ranges, turn, next, stream, h3>> /\ pc = "plan"
    BY <1>1 DEF PlanDisc
  <2>. QED  BY <2>1, <2>2 DEF IInv, Written, Position, H3TableAgrees
<1>2. CASE AuthorDisc
  <2>1. pc' = "ranges" /\ Planned(disc', plan')
    BY <1>2 DEF AuthorDisc, Planned
  <2>2. UNCHANGED <<disc, runs, ranges, turn, next, stream, h3>> /\ pc = "plan"
    BY <1>2 DEF AuthorDisc
  <2>. QED  BY <2>1, <2>2 DEF IInv, Written, Position, H3TableAgrees
<1>3. CASE PlanRanges
  <2>1. UNCHANGED <<disc, plan, turn, next, stream, h3>> /\ pc = "ranges"
    BY <1>3 DEF PlanRanges
  <2>2. CASE pc' = "error" /\ UNCHANGED ranges
    BY <2>1, <2>2 DEF IInv, Written, Position, H3TableAgrees
  <2>3. CASE pc' = "verify" /\ Tabled(disc, plan, runs', ranges')
    <3>1. Len(ranges') <= MaxRanges
        BY <2>3, TabledRuns DEF IInv
    <3>2. Tabled(disc', plan', runs', ranges')
        BY <2>1, <2>3
    <3>. QED  BY <2>1, <2>3, <3>1, <3>2 DEF IInv, Written, Position, H3TableAgrees
  <2>4. Planned(disc, plan)
    BY <2>1 DEF IInv
  <2>. QED  BY <1>3, <2>2, <2>3, <2>4 DEF PlanRanges, Tabled, Fail
<1>. QED  BY <1>1, <1>2, <1>3

\* A disc whose patches are contained has a partition header.
LEMMA HeaderIsThere ==
    ASSUME NEW d \in Discs, NEW p, NEW rs, Planned(d, p), PatchesContained(d, p, rs)
    PROVE  d.start < d.data
<1>1. CASE d.authored
    BY <1>1, DiscIs
<1>2. CASE ~ d.authored
  <2> DEFINE a == d.start * SectorSlots
             b == d.data * SectorSlots
  <2>1. d.start \in Nat /\ d.data \in Nat /\ a \in Nat /\ b \in Nat
    BY DiscIs, SlotsAre, Product
  <2>2. p.headerPatches = HeaderPatches(d)
    BY <1>2 DEF Planned, DiscPlan
  <2>3. /\ 1 \in DOMAIN HeaderPatches(d)
        /\ HeaderPatches(d)[1] = [off |-> a, len |-> 1, val |-> TicketSig]
    BY DEF HeaderPatches
  <2>4. Within(p.headerPatches[1], a, b)
    BY <2>2, <2>3 DEF PatchesContained
  <2>5. a + 1 <= b
    BY <2>2, <2>3, <2>4 DEF Within
  <2>6. d.data <= d.start => b <= a
    BY <2>1, SlotsAre, ProductOrder
  <2> HIDE DEF a, b
  <2>. QED  BY <2>1, <2>5, <2>6
<1>. QED  BY <1>1, <1>2

\* The header is written before any sector.
LEMMA HeaderStep == ASSUME IInv, WriteHeader PROVE IInv'
<1>1. pc = "verify" /\ UNCHANGED <<disc, plan, runs, ranges, turn, next, stream, h3>>
    BY DEF WriteHeader
<1>2. CASE pc' = "error"
    BY <1>1, <1>2 DEF IInv, Written, Position, H3TableAgrees
<1>3. CASE pc' = "disc" /\ PatchesContained(disc, plan, runs)
  <2>1. disc \in Discs /\ Tabled(disc, plan, runs, ranges) /\ turn = 1 /\ next = 0 /\ stream = <<>>
    BY <1>1 DEF IInv
  <2>2. ranges[1] = [start |-> 0, num |-> 1]
    BY <2>1, TabledRanges
  <2>3. StartsAt(1) = 0
    BY <2>1, StartsAre DEF StartsAt
  <2>4. Len(stream) = 0
    BY <2>1
  <2>5. Len(stream) = StartsAt(turn) + next /\ next \in 0 .. ranges[turn].num - 1 /\ turn \in 1 .. 2
    BY <2>1, <2>2, <2>3, <2>4
  <2>6. Holds(stream, disc, plan, ranges)
    <3>1. stream \in Seq(Sectors(disc, plan, ranges))
        BY <2>1
    <3>2. ASSUME NEW k \in 1 .. Len(ranges), NEW o \in 0 .. ranges[k].num - 1
          PROVE  ~ (StreamStarts(ranges)[k] + o < Len(stream))
      <4> DEFINE a == StreamStarts(ranges)[k]
      <4>1. a \in Nat
        <5>1. Len(ranges) \in Nat
            BY <2>1, TabledRuns
        <5>2. k \in 1 .. Len(ranges) + 1
            BY <5>1
        <5>. QED  BY <2>1, <5>2, StartsAre
      <4>2. o \in Nat
        <5>1. ranges[k].num \in Nat
            BY <2>1, TabledRuns
        <5>. QED  BY <5>1
      <4> HIDE DEF a
      <4>3. ~ (a + o < 0)
        BY <4>1, <4>2
      <4>. QED  BY <2>4, <4>3 DEF a
    <3>. QED  BY <3>1, <3>2 DEF Holds
  <2>7. (StartsAt(turn))' = StartsAt(turn)
    BY <1>1 DEF StartsAt
  <2>8. Position'
    BY <1>1, <1>3, <2>5, <2>7 DEF Position
  <2>9. H3TableAgrees'
    BY <1>1 DEF IInv, H3TableAgrees
  <2>10. Len(ranges) <= MaxRanges /\ Planned(disc, plan)
    BY <2>1 DEF IInv, Tabled
  <2>. QED  BY <1>1, <1>3, <2>1, <2>6, <2>8, <2>9, <2>10 DEF IInv, Written
<1>. QED  BY <1>2, <1>3 DEF WriteHeader, Fail

LEMMA FailStep == ASSUME IInv, IoFails PROVE IInv'
BY DEF IInv, IoFails, Fail, Written, Position, H3TableAgrees

\* What a writing step has to show.
LEMMA Writing ==
    ASSUME IInv, pc \in {"disc", "header", "groups"},
           pc' \in {"disc", "header", "groups", "done"},
           UNCHANGED <<disc, plan, runs, ranges>>,
           Holds(stream', disc, plan, ranges), Position', H3TableAgrees'
    PROVE  IInv'
<1>1. /\ disc \in Discs /\ Len(ranges) <= MaxRanges /\ Planned(disc, plan)
      /\ Tabled(disc, plan, runs, ranges) /\ PatchesContained(disc, plan, runs)
    BY DEF IInv, Written, Tabled
<1>2. /\ disc' \in Discs /\ Len(ranges') <= MaxRanges /\ Planned(disc', plan')
      /\ Tabled(disc', plan', runs', ranges') /\ PatchesContained(disc', plan', runs')
      /\ Holds(stream', disc', plan', ranges')
    BY <1>1
<1>. QED  BY <1>2 DEF IInv, Written

\* Sectors behind one another: where the next range begins.
LEMMA NextRange ==
    ASSUME NEW d \in Discs, NEW p, NEW rs, NEW R, Tabled(d, p, rs, R), NEW k \in 1 .. Len(R)
    PROVE  StreamStarts(R)[k + 1] = StreamStarts(R)[k] + R[k].num
BY StartsAre

LEMMA DiscStep == ASSUME IInv, WriteDiscSector PROVE IInv'
<1> DEFINE k == turn
           r == DiscHeaderRanges[k]
           x == Splice(disc, r.start + next, plan.discPatches)
           add == <<x>>
           o == next
<1>1. /\ pc = "disc" /\ stream' = stream \o add /\ UNCHANGED <<disc, plan, runs, ranges, h3>>
      /\ Advance(r.num, Len(DiscHeaderRanges), "header")
    BY DEF WriteDiscSector, Emit
<1>2. /\ disc \in Discs /\ Tabled(disc, plan, runs, ranges) /\ Planned(disc, plan)
      /\ PatchesContained(disc, plan, runs) /\ Holds(stream, disc, plan, ranges)
      /\ k \in 1 .. 2 /\ o \in 0 .. ranges[k].num - 1 /\ Len(stream) = StreamStarts(ranges)[k] + o
    BY <1>1 DEF IInv, Written, Position, StartsAt
<1>3. /\ ranges[1] = [start |-> 0, num |-> 1] /\ ranges[2] = [start |-> 8, num |-> 2]
      /\ ranges[3] = [start |-> disc.start, num |-> disc.data - disc.start]
    BY <1>2, TabledRanges
<1>4. disc.start < disc.data /\ disc.start \in Nat /\ disc.data \in Nat
    BY <1>2, HeaderIsThere, DiscIs
<1>5. ranges[k] = r /\ Len(DiscHeaderRanges) = 2 /\ r.num \in Nat /\ o \in Nat /\ o < r.num
    BY <1>2, <1>3 DEF DiscHeaderRanges
<1>6. Len(ranges) = 3 + Len(runs) /\ Len(runs) \in Nat /\ k \in 1 .. Len(ranges)
  <2>1. Len(ranges) = 3 + Len(runs) /\ Len(runs) \in Nat
    BY <1>2, TabledRuns
  <2>. QED  BY <1>2, <2>1
<1>7. Holds(stream', disc, plan, ranges) /\ Len(stream') = StreamStarts(ranges)[k] + (o + 1)
  <2>1. x = SectorOf(disc, plan, ranges, k, o)
    BY <1>2, <1>5 DEF SectorOf
  <2>2. disc \in Discs /\ Tabled(disc, plan, runs, ranges) /\ Holds(stream, disc, plan, ranges)
    BY <1>2
  <2>3. /\ k \in 1 .. Len(ranges) /\ o \in Nat /\ o < ranges[k].num
        /\ Len(stream) = StreamStarts(ranges)[k] + o
    BY <1>2, <1>5, <1>6
  <2> HIDE DEF x, k, o
  <2>4. Holds(stream \o <<x>>, disc, plan, ranges)
        /\ Len(stream \o <<x>>) = StreamStarts(ranges)[k] + (o + 1)
    BY <2>1, <2>2, <2>3, EmittedOne
  <2>. QED  BY <1>1, <2>4
<1>8. /\ StreamStarts(ranges)[2] = StreamStarts(ranges)[1] + 1
      /\ StreamStarts(ranges)[3] = StreamStarts(ranges)[2] + 2
      /\ StreamStarts(ranges)[1] \in Nat /\ StreamStarts(ranges)[2] \in Nat
  <2>1. 1 \in 1 .. Len(ranges) /\ 2 \in 1 .. Len(ranges)
        /\ 1 \in 1 .. Len(ranges) + 1 /\ 2 \in 1 .. Len(ranges) + 1
    BY <1>6
  <2>2. /\ \A j \in 1 .. Len(ranges) :
              StreamStarts(ranges)[j + 1] = StreamStarts(ranges)[j] + ranges[j].num
        /\ \A j \in 1 .. Len(ranges) + 1 : StreamStarts(ranges)[j] \in Nat
    BY <1>2, StartsAre
  <2>3. StreamStarts(ranges)[1 + 1] = StreamStarts(ranges)[1] + ranges[1].num
        /\ StreamStarts(ranges)[2 + 1] = StreamStarts(ranges)[2] + ranges[2].num
    BY <2>1, <2>2
  <2>4. 1 + 1 = 2 /\ 2 + 1 = 3
    OBVIOUS
  <2>. QED  BY <1>3, <2>1, <2>2, <2>3, <2>4
<1>9. Position' /\ pc' \in {"disc", "header"}
  <2> DEFINE at == StreamStarts(ranges)
  <2> HIDE DEF at
  <2>0. ranges' = ranges /\ (StreamStarts(ranges))' = at
    BY <1>1 DEF at
  <2>1. CASE o + 1 < r.num
    <3>1. pc' = "disc" /\ turn' = turn /\ next' = next + 1
        BY <1>1, <2>1 DEF Advance
    <3>2. next' \in 0 .. ranges'[turn'].num - 1 /\ Len(stream') = at[turn'] + next'
        BY <1>5, <1>7, <2>0, <2>1, <3>1 DEF at
    <3>. QED  BY <1>2, <2>0, <3>1, <3>2 DEF Position, StartsAt
  <2>2. CASE ~ (o + 1 < r.num) /\ turn < 2
    <3>1. pc' = "disc" /\ turn' = turn + 1 /\ next' = 0 /\ turn = 1
        BY <1>1, <1>2, <1>5, <2>2 DEF Advance
    <3>2. turn' = 2 /\ next' \in 0 .. ranges'[turn'].num - 1
        BY <1>3, <2>0, <3>1
    <3>3. o + 1 = 1
        BY <1>3, <1>5, <3>1
    <3>4. Len(stream') = at[2] + 0
        BY <1>7, <1>8, <3>1, <3>3 DEF at
    <3>. QED  BY <2>0, <3>1, <3>2, <3>4 DEF Position, StartsAt
  <2>3. CASE ~ (o + 1 < r.num) /\ ~ (turn < 2)
    <3>1. pc' = "header" /\ turn' = 1 /\ next' = 0 /\ turn = 2
        BY <1>1, <1>2, <1>5, <2>3 DEF Advance
    <3>2. next' \in 0 .. ranges'[3].num - 1
        BY <1>3, <1>4, <2>0, <3>1
    <3>3. o + 1 = 2
        BY <1>3, <1>5, <2>3, <3>1
    <3>4. Len(stream') = at[3] + 0
        BY <1>7, <1>8, <3>1, <3>3 DEF at
    <3>. QED  BY <2>0, <3>1, <3>2, <3>4 DEF Position, StartsAt
  <2>. QED  BY <2>1, <2>2, <2>3
<1>10. H3TableAgrees'
    BY <1>1 DEF IInv, H3TableAgrees
<1>. QED  BY <1>1, <1>7, <1>9, <1>10, Writing

LEMMA HeaderSectorStep == ASSUME IInv, WriteHeaderSector PROVE IInv'
<1> DEFINE k == 3
           x == Splice(disc, disc.start + next, plan.headerPatches)
           add == <<x>>
           o == next
           num == disc.data - disc.start
<1>1. /\ pc = "header" /\ stream' = stream \o add /\ UNCHANGED <<disc, plan, runs, ranges, h3>>
      /\ Advance(num, 1, "groups")
    BY DEF WriteHeaderSector, Emit
<1>2. /\ disc \in Discs /\ Tabled(disc, plan, runs, ranges)
      /\ Holds(stream, disc, plan, ranges) /\ turn = 1
      /\ o \in 0 .. ranges[3].num - 1 /\ Len(stream) = StreamStarts(ranges)[3] + o
    BY <1>1 DEF IInv, Written, Position, StartsAt
<1>3. ranges[3] = [start |-> disc.start, num |-> num]
    BY <1>2, TabledRanges
<1>4. num \in Nat
    BY <1>2, DiscIs
<1>5. ranges[3].num = num /\ o \in Nat /\ o < num
    BY <1>2, <1>3, <1>4
<1>6. Len(ranges) = 3 + Len(runs) /\ Len(runs) \in Nat \ {0} /\ k \in 1 .. Len(ranges)
  <2>1. Len(ranges) = 3 + Len(runs) /\ Len(runs) \in Nat \ {0}
    BY <1>2, TabledRuns
  <2>. QED  BY <2>1
<1>7. Holds(stream', disc, plan, ranges) /\ Len(stream') = StreamStarts(ranges)[k] + (o + 1)
  <2>1. x = SectorOf(disc, plan, ranges, k, o)
    BY DEF SectorOf
  <2>2. disc \in Discs /\ Tabled(disc, plan, runs, ranges) /\ Holds(stream, disc, plan, ranges)
    BY <1>2
  <2>3. /\ k \in 1 .. Len(ranges) /\ o \in Nat /\ o < ranges[k].num
        /\ Len(stream) = StreamStarts(ranges)[k] + o
    BY <1>2, <1>5, <1>6
  <2> HIDE DEF x, k, o
  <2>4. Holds(stream \o <<x>>, disc, plan, ranges)
        /\ Len(stream \o <<x>>) = StreamStarts(ranges)[k] + (o + 1)
    BY <2>1, <2>2, <2>3, EmittedOne
  <2>. QED  BY <1>1, <2>4
<1>8. StreamStarts(ranges)[4] = StreamStarts(ranges)[3] + num
  <2>1. StreamStarts(ranges)[k + 1] = StreamStarts(ranges)[k] + ranges[k].num
    <3> HIDE DEF k
    <3>. QED  BY <1>2, <1>6, NextRange
  <2>. QED  BY <1>5, <2>1
<1>9. Position' /\ pc' \in {"header", "groups"}
  <2> DEFINE at == StreamStarts(ranges)
  <2> HIDE DEF at, num
  <2>0. ranges' = ranges /\ (StreamStarts(ranges))' = at /\ runs' = runs
    BY <1>1 DEF at
  <2>1. CASE o + 1 < num
    <3>1. pc' = "header" /\ turn' = turn /\ next' = next + 1
        BY <1>1, <2>1 DEF Advance
    <3>2. next' \in 0 .. ranges'[3].num - 1 /\ Len(stream') = at[3] + next'
        BY <1>4, <1>5, <1>7, <2>0, <2>1, <3>1 DEF at
    <3>. QED  BY <1>2, <2>0, <3>1, <3>2 DEF Position, StartsAt
  <2>2. CASE ~ (o + 1 < num)
    <3>1. pc' = "groups" /\ turn' = 1 /\ next' = 0
        BY <1>1, <1>2, <2>2 DEF Advance
    <3>2. runs[1].num \in Nat \ {0}
      <4>1. \A j \in 1 .. Len(runs) : runs[j].num \in Nat \ {0}
        BY <1>2, TabledRanges
      <4>2. 1 \in 1 .. Len(runs)
        BY <1>6
      <4>. QED  BY <4>1, <4>2
    <3>3. turn' \in 1 .. Len(runs') /\ next' \in 0 .. runs'[turn'].num - 1
        BY <1>6, <2>0, <3>1, <3>2
    <3>4. o + 1 = num
        BY <1>4, <1>5, <2>2
    <3>5. Len(stream') = at[4]
        BY <1>7, <1>8, <3>4 DEF at
    <3>6. at[4] \in Nat
      <4>1. 4 \in 1 .. Len(ranges) + 1
        BY <1>6
      <4>. QED  BY <1>2, <4>1, StartsAre DEF at
    <3>7. 3 + turn' = 4 /\ next' * SectorsPerGroup = 0
        BY <3>1, LayoutAssumption
    <3>8. Len(stream') = at[3 + turn'] + next' * SectorsPerGroup
        BY <3>5, <3>6, <3>7
    <3>. QED  BY <2>0, <3>1, <3>3, <3>8 DEF Position, StartsAt
  <2>. QED  BY <2>1, <2>2
<1>10. H3TableAgrees'
    BY <1>1 DEF IInv, H3TableAgrees
<1>. QED  BY <1>1, <1>7, <1>9, <1>10, Writing

LEMMA GroupStep == ASSUME IInv, WriteGroup PROVE IInv'
<1> DEFINE k == 3 + turn
           g == runs[turn].first + next
           data == GroupData(disc, g, plan.edits)
           add == Clustered(disc, g, data)
           o == next * SectorsPerGroup
           w == Len(add)
           num == runs[turn].num
           at == StreamStarts(ranges)
<1>1. /\ pc = "groups" /\ stream' = stream \o add /\ UNCHANGED <<disc, plan, runs, ranges>>
      /\ h3' = h3 + (IF WholeGroup(disc, g) /\ g < MaxH3Groups /\ plan.h3[g] # data
                     THEN 1 ELSE 0)
      /\ Advance(num, Len(runs), "done")
    BY DEF WriteGroup, Emit
<1>2. /\ disc \in Discs /\ Tabled(disc, plan, runs, ranges) /\ Planned(disc, plan)
      /\ Holds(stream, disc, plan, ranges)
      /\ turn \in 1 .. Len(runs) /\ next \in 0 .. num - 1 /\ Len(stream) = at[k] + o
    BY <1>1 DEF IInv, Written, Position, StartsAt
<1>3. Len(ranges) = 3 + Len(runs) /\ Len(runs) \in Nat \ {0} /\ k \in 1 .. Len(ranges)
      /\ (turn < Len(runs) => turn + 1 \in 1 .. Len(runs))
      /\ (~ (turn < Len(runs)) => k = Len(ranges))
  <2>1. Len(ranges) = 3 + Len(runs) /\ Len(runs) \in Nat \ {0}
    BY <1>2, TabledRuns
  <2>. QED  BY <1>2, <2>1
<1>4. \A j \in 1 .. Len(runs) : runs[j].num \in Nat \ {0}
    BY <1>2, TabledRanges
<1> DEFINE Said == /\ g \in Nat /\ g < NumGroups(Clusters(disc)) /\ o \in Nat
                   /\ add \in Seq(Sectors(disc, plan, ranges)) /\ w \in Nat \ {0}
                   /\ o + w <= ranges[k].num
                   /\ \A j \in 1 .. w : add[j] = SectorOf(disc, plan, ranges, k, o + (j - 1))
                   /\ next + 1 < num => o + w = (next + 1) * SectorsPerGroup
                   /\ ~ (next + 1 < num) => o + w = ranges[k].num
<1>5. Said
    BY <1>2, NextGroup
<1> HIDE DEF add, g, o, k, w
<1>6. Holds(stream', disc, plan, ranges) /\ Len(stream') = at[k] + (o + w)
  <2>1. disc \in Discs /\ Tabled(disc, plan, runs, ranges) /\ Holds(stream, disc, plan, ranges)
    BY <1>2
  <2>2. /\ w \in Nat \ {0} /\ o + w <= ranges[k].num /\ Len(stream) = StreamStarts(ranges)[k] + o
        /\ k \in 1 .. Len(ranges) /\ o \in Nat
    BY <1>2, <1>3, <1>5
  <2>3. add \in Seq(Sectors(disc, plan, ranges)) /\ Len(add) = w
    BY <1>5 DEF w
  <2>4. \A j \in 1 .. w : add[j] = SectorOf(disc, plan, ranges, k, o + (j - 1))
    BY <1>5
  <2>5. Holds(stream \o add, disc, plan, ranges)
        /\ Len(stream \o add) = StreamStarts(ranges)[k] + (o + w)
    BY <2>1, <2>2, <2>3, <2>4, Emitted
  <2>. QED  BY <1>1, <2>5
<1>7. at[k + 1] = at[k] + ranges[k].num
    BY <1>2, <1>3, NextRange
<1>8. at[k + 1] \in Nat
  <2>1. k + 1 \in 1 .. Len(ranges) + 1
    BY <1>3
  <2>. QED  BY <1>2, <2>1, StartsAre
<1>9. Position' /\ pc' \in {"groups", "done"}
  <2> HIDE DEF at, num, Said
  <2>0. ranges' = ranges /\ (StreamStarts(ranges))' = at /\ runs' = runs
    BY <1>1 DEF at
  <2>1. CASE next + 1 < num
    <3>1. pc' = "groups" /\ turn' = turn /\ next' = next + 1
        BY <1>1, <2>1 DEF Advance
    <3>2. num \in Nat
        BY <1>2, <1>4 DEF num
    <3>3. next' \in 0 .. runs'[turn'].num - 1
        BY <1>2, <2>0, <2>1, <3>1, <3>2 DEF num
    <3>4. Len(stream') = at[3 + turn'] + next' * SectorsPerGroup
        BY <1>5, <1>6, <2>1, <3>1 DEF Said, k
    <3>. QED  BY <1>2, <2>0, <3>1, <3>3, <3>4 DEF Position, StartsAt
  <2>2. CASE ~ (next + 1 < num) /\ turn < Len(runs)
    <3>1. pc' = "groups" /\ turn' = turn + 1 /\ next' = 0
        BY <1>1, <2>2 DEF Advance
    <3>2. turn' \in 1 .. Len(runs') /\ next' \in 0 .. runs'[turn'].num - 1
        BY <1>3, <1>4, <2>0, <2>2, <3>1
    <3>3. Len(stream') = at[k + 1]
        BY <1>5, <1>6, <1>7, <2>2 DEF Said
    <3>4. 3 + turn' = k + 1 /\ next' * SectorsPerGroup = 0
        BY <1>2, <3>1, LayoutAssumption DEF k
    <3>5. Len(stream') = at[3 + turn'] + next' * SectorsPerGroup
        BY <1>8, <3>3, <3>4
    <3>. QED  BY <2>0, <3>1, <3>2, <3>5 DEF Position, StartsAt
  <2>3. CASE ~ (next + 1 < num) /\ ~ (turn < Len(runs))
    <3>1. pc' = "done"
        BY <1>1, <2>3 DEF Advance
    <3>2. Len(stream') = at[Len(ranges) + 1]
        BY <1>3, <1>5, <1>6, <1>7, <2>3 DEF Said
    <3>. QED  BY <2>0, <3>1, <3>2 DEF Position, StartsAt
  <2>. QED  BY <2>1, <2>2, <2>3
<1>10. H3TableAgrees'
  <2>1. SUFFICES ASSUME disc.size >= disc.end PROVE h3' = 0
    BY <1>1 DEF H3TableAgrees
  <2>2. h3 = 0
    BY <2>1 DEF IInv, H3TableAgrees
  <2>3. WholeGroup(disc, g) => plan.h3[g] = GroupData(disc, g, plan.edits)
    BY <1>2, <1>5, <2>1, PlannedTable
  <2>. QED  BY <1>1, <2>2, <2>3
<1>. QED  BY <1>1, <1>6, <1>9, <1>10, Writing

LEMMA Inductive == ASSUME IInv, [Next]_vars PROVE IInv'
<1>1. CASE PlanDisc \/ AuthorDisc \/ PlanRanges
    BY <1>1, PlanningSteps
<1>2. CASE WriteHeader
    BY <1>2, HeaderStep
<1>3. CASE WriteDiscSector
    BY <1>3, DiscStep
<1>4. CASE WriteHeaderSector
    BY <1>4, HeaderSectorStep
<1>5. CASE WriteGroup
    BY <1>5, GroupStep
<1>6. CASE IoFails
    BY <1>6, FailStep
<1>7. CASE UNCHANGED vars
  <2>1. (StartsAt(turn))' = StartsAt(turn) /\ (StartsAt(3))' = StartsAt(3)
        /\ (StartsAt(3 + turn))' = StartsAt(3 + turn)
        /\ (StartsAt(Len(ranges) + 1))' = StartsAt(Len(ranges) + 1)
    BY <1>7 DEF vars, StartsAt
  <2>2. Position'
    BY <1>7, <2>1 DEF IInv, vars, Position
  <2>. QED  BY <1>7, <2>2 DEF IInv, vars, Written, H3TableAgrees
<1>. QED  BY <1>1, <1>2, <1>3, <1>4, <1>5, <1>6, <1>7 DEF Next

\* What every step of a build rests on: the plan checked against the partition, the table made
\* of it, the patches found inside the table, and each sector in its place.
THEOREM Invariance == Spec => []IInv
<1>1. Init => IInv
    BY Initially
<1>2. IInv /\ [Next]_vars => IInv'
    BY Inductive
<1>. QED  BY <1>1, <1>2, PTL DEF Spec

LEMMA DoneIsFinished == ASSUME IInv, pc = "done" PROVE Finished
BY DEF IInv, Written, Position, Finished, Tabled

\* Every file and boot structure of the source disc, edited as planned, is at its offset on the
\* mounted disc, whatever was skipped, trimmed or merged (used_data_group_runs, plan_ranges,
\* build_nfs).
THEOREM FilesIntact == Spec => []FilesMountIntact
<1>1. IInv => FilesMountIntact
    BY DoneIsFinished, FilesMounted DEF FilesMountIntact
<1>. QED  BY <1>1, Invariance, PTL

\* Every patch of the disc header and the partition header is on the mounted disc, whole and
\* in its place (verify_patches_contained and splice).
THEOREM PatchesKept == Spec => []NoPatchDropped
<1>1. IInv => NoPatchDropped
    BY DoneIsFinished, PatchesMounted DEF NoPatchDropped
<1>. QED  BY <1>1, Invariance, PTL

\* The H3 table of the plan is that of the data the build writes (H3Check.mismatched).
THEOREM TableAgrees == Spec => []H3TableAgrees
<1>1. IInv => H3TableAgrees
    BY DEF IInv
<1>. QED  BY <1>1, Invariance, PTL

LEMMA NotEmpty ==
    ASSUME NEW d \in Discs, NEW p, NEW rs, NEW R, Tabled(d, p, rs, R), d.start < d.data,
           NEW k \in 1 .. Len(R)
    PROVE  R[k].num > 0
<1>1. CASE k \in {1, 2, 3}
  <2>1. /\ R[1] = [start |-> 0, num |-> 1] /\ R[2] = [start |-> 8, num |-> 2]
        /\ R[3] = [start |-> d.start, num |-> d.data - d.start]
    BY TabledRanges
  <2>2. d.data - d.start > 0
    BY DiscIs
  <2>. QED  BY <1>1, <2>1, <2>2
<1>2. CASE k > 3
  <2> DEFINE m == k - 3
  <2>1. Len(R) = 3 + Len(rs) /\ Len(rs) \in Nat
    BY TabledRuns
  <2>2. m \in 1 .. Len(rs) /\ 3 + m = k
    BY <1>2, <2>1
  <2> HIDE DEF m
  <2>3. RunsBehind(d, rs, R)
    BY TabledRanges
  <2>4. R[3 + m] = RunRange(d, rs[m])
    BY <2>2, <2>3 DEF RunsBehind
  <2>5. /\ rs[m].first \in Nat /\ EndOf(rs[m]) \in Nat /\ rs[m].first < EndOf(rs[m])
        /\ EndOf(rs[m]) <= NumGroups(Clusters(d))
    BY <2>2, TabledRanges
  <2>6. RunRange(d, rs[m]).num \in Nat \ {0}
    BY <2>5, RunRangeIs
  <2>. QED  BY <2>2, <2>4, <2>6
<1>3. Len(R) \in Nat
    BY TabledRuns
<1>. QED  BY <1>1, <1>2, <1>3

\* A range that is not full leaves the stream short of the end.
LEMMA NotFull ==
    ASSUME NEW d \in Discs, NEW p, NEW rs, NEW R, Tabled(d, p, rs, R),
           NEW k \in 1 .. Len(R), NEW o \in Nat, o < R[k].num
    PROVE  StreamStarts(R)[k] + o < StreamStarts(R)[Len(R) + 1]
<1> DEFINE at == StreamStarts(R)
           n == Len(R)
           a == at[k]
           b == at[n + 1]
           c == R[k].num
<1>1. n \in Nat /\ c \in Nat
    BY TabledRuns
<1>2. k \in 1 .. n + 1 /\ n + 1 \in 1 .. n + 1 /\ k < n + 1
    BY <1>1
<1>3. /\ \A j \in 1 .. n + 1 : at[j] \in Nat
      /\ \A j, m \in 1 .. n + 1 : j < m => at[j] + R[j].num <= at[m]
    BY StartsAre
<1>4. a \in Nat /\ b \in Nat /\ a + c <= b
  <2> HIDE DEF at, n
  <2>. QED  BY <1>2, <1>3
<1>5. o < c
    OBVIOUS
<1> HIDE DEF a, b, c
<1>6. a + o < b
    BY <1>1, <1>4, <1>5
<1>. QED  BY <1>6 DEF a, b

\* The header that is written first promises what the passes write: the table fits, its ranges
\* are ascending, disjoint and not empty, and the stream ends where the last of them does
\* (plan_ranges, EggsHeader::new, build_nfs).
THEOREM FillsRanges == Spec => []StreamFillsRanges
<1>1. ASSUME IInv PROVE StreamFillsRanges
  <2>1. Len(ranges) <= MaxRanges
    BY <1>1 DEF IInv
  <2>2. ASSUME Written
        PROVE  /\ disc \in Discs /\ Tabled(disc, plan, runs, ranges) /\ disc.start < disc.data
               /\ Len(ranges) = 3 + Len(runs) /\ Len(runs) \in Nat
               /\ DOMAIN ranges = 1 .. Len(ranges)
    <3>1. disc \in Discs /\ Tabled(disc, plan, runs, ranges) /\ Planned(disc, plan)
          /\ PatchesContained(disc, plan, runs)
        BY <1>1, <2>2 DEF IInv, Tabled
    <3>. QED  BY <3>1, HeaderIsThere, TabledRuns
  <2>3. ASSUME Written PROVE \A k \in DOMAIN ranges : ranges[k].num > 0
    BY <2>2, <2>3, NotEmpty
  <2>4. ASSUME Written, NEW k \in 1 .. (Len(ranges) - 1)
        PROVE  ranges[k].start + ranges[k].num <= ranges[k + 1].start
    <3>1. k \in 1 .. Len(ranges) /\ k + 1 \in 1 .. Len(ranges) /\ k < k + 1
        BY <2>2, <2>4
    <3>2. \A j, m \in 1 .. Len(ranges) :
            j < m => ranges[j].start + ranges[j].num <= ranges[m].start
        BY <2>2, <2>4, TabledRuns
    <3>. QED  BY <3>1, <3>2
  <2>5. ASSUME NEW k \in 1 .. Len(ranges), NEW o \in Nat, o < ranges[k].num, Written,
               Len(stream) = StartsAt(k) + o
        PROVE  Len(stream) < StartsAt(Len(ranges) + 1)
    BY <2>2, <2>5, NotFull DEF StartsAt
  <2>6. CASE pc = "disc"
    <3>1. Written
        BY <2>6 DEF Written
    <3>2. /\ turn \in 1 .. 2 /\ next \in 0 .. ranges[turn].num - 1
          /\ Len(stream) = StartsAt(turn) + next
        BY <1>1, <2>6 DEF IInv, Position
    <3>3. turn \in 1 .. Len(ranges)
        BY <2>2, <3>1, <3>2
    <3>4. ranges[turn].num \in Nat
        BY <2>2, <3>1, <3>3, TabledRuns
    <3>5. next \in Nat /\ next < ranges[turn].num
        BY <3>2, <3>4
    <3>6. Len(stream) < StartsAt(Len(ranges) + 1)
        BY <2>5, <3>1, <3>2, <3>3, <3>5
    <3>. QED  BY <2>1, <2>3, <2>4, <2>6, <3>1, <3>6 DEF StreamFillsRanges
  <2>7. CASE pc = "header"
    <3> DEFINE k == 3
    <3>1. Written
        BY <2>7 DEF Written
    <3>2. next \in 0 .. ranges[k].num - 1 /\ Len(stream) = StartsAt(k) + next
        BY <1>1, <2>7 DEF IInv, Position
    <3>3. k \in 1 .. Len(ranges)
        BY <2>2, <3>1
    <3> HIDE DEF k
    <3>4. ranges[k].num \in Nat
        BY <2>2, <3>1, <3>3, TabledRuns
    <3>5. next \in Nat /\ next < ranges[k].num
        BY <3>2, <3>4
    <3>6. Len(stream) < StartsAt(Len(ranges) + 1)
        BY <2>5, <3>1, <3>2, <3>3, <3>5
    <3>. QED  BY <2>1, <2>3, <2>4, <2>7, <3>1, <3>6 DEF StreamFillsRanges
  <2>8. CASE pc = "groups"
    <3> DEFINE k == 3 + turn
               o == next * SectorsPerGroup
               add == Clustered(disc, runs[turn].first + next,
                                GroupData(disc, runs[turn].first + next, plan.edits))
    <3>1. Written
        BY <2>8 DEF Written
    <3>2. /\ turn \in 1 .. Len(runs) /\ next \in 0 .. runs[turn].num - 1
          /\ Len(stream) = StartsAt(k) + o
        BY <1>1, <2>8 DEF IInv, Position
    <3>3. k \in 1 .. Len(ranges)
        BY <2>2, <3>1, <3>2
    <3>4. o \in Nat /\ Len(add) \in Nat \ {0} /\ o + Len(add) <= ranges[k].num
        BY <2>2, <3>1, <3>2, NextGroup
    <3> HIDE DEF k, o, add
    <3>5. ranges[k].num \in Nat
        BY <2>2, <3>1, <3>3, TabledRuns
    <3>6. o < ranges[k].num
        BY <3>4, <3>5
    <3>7. Len(stream) < StartsAt(Len(ranges) + 1)
        BY <2>5, <3>1, <3>2, <3>3, <3>4, <3>6
    <3>. QED  BY <2>1, <2>3, <2>4, <2>8, <3>1, <3>7 DEF StreamFillsRanges
  <2>9. CASE pc = "done"
    <3>1. Written /\ Len(stream) = StartsAt(Len(ranges) + 1)
        BY <1>1, <2>9 DEF IInv, Position, Written
    <3>. QED  BY <2>1, <2>3, <2>4, <2>9, <3>1 DEF StreamFillsRanges
  <2>. QED  BY <2>1, <2>6, <2>7, <2>8, <2>9 DEF StreamFillsRanges
<1>. QED  BY <1>1, Invariance, PTL

\* The groups that plan_ranges stores are no more than those of any other set of groups that
\* covers what is used and fits the table (merge_smallest_gaps).
THEOREM Cheapest == Spec => []MergeIsCheapest
<1>1. IInv => MergeIsCheapest
  <2>1. SUFFICES ASSUME IInv, pc = "verify"
                 PROVE  LET all == 0 .. (NumGroups(Clusters(disc)) - 1)
                            Groups(rs) ==
                                UNION {rs[k].first .. (EndOf(rs[k]) - 1) : k \in DOMAIN rs}
                        IN \A T \in SUBSET all :
                             (Groups(plan.stored) \subseteq T
                                /\ FixedRanges + Len(Coalesce(T)) <= MaxRanges)
                               => Cardinality(Groups(runs)) <= Cardinality(T)
    BY DEF MergeIsCheapest
  <2> DEFINE all == 0 .. (NumGroups(Clusters(disc)) - 1)
             Groups(rs) == UNION {rs[k].first .. (EndOf(rs[k]) - 1) : k \in DOMAIN rs}
  <2>2. /\ disc \in Discs /\ Planned(disc, plan) /\ plan.stored # <<>>
        /\ runs = FitRuns(plan.stored)
    BY <2>1 DEF IInv, Tabled
  <2>3. AreRuns(plan.stored) /\ NumGroups(Clusters(disc)) \in Nat
    BY <2>2, PlannedRuns
  <2>4. Len(plan.stored) > 0
    BY <2>2, <2>3 DEF AreRuns
  <2>5. AreRuns(runs)
    BY <2>2, <2>3, <2>4, FittedRuns
  <2>6. ASSUME NEW T \in SUBSET all, Groups(plan.stored) \subseteq T,
               FixedRanges + Len(Coalesce(T)) <= MaxRanges
        PROVE  Cardinality(Groups(runs)) <= Cardinality(T)
    <3> DEFINE last == NumGroups(Clusters(disc)) - 1
               S == Starts(T)
    <3>1. T \in SUBSET Nat /\ IsFiniteSet(T)
      <4>1. \A g \in T : g \in Nat /\ g <= last /\ last \in Nat
        BY <2>3
      <4> HIDE DEF last
      <4>2. T = {} \/ last \in Nat
        BY <4>1
      <4>. QED  BY <4>1, <4>2, FS_BoundedSetOfNaturals, FS_EmptySet
    <3>2. \A g \in Nat : StoredGroup(plan.stored, g) => g \in T
      <4>1. Groups(plan.stored) = {g \in Nat : StoredGroup(plan.stored, g)}
        BY <2>3, GroupsOfRuns
      <4>. QED  BY <2>6, <4>1
    <3>3. Len(Coalesce(T)) = Cardinality(S)
      <4>1. IsFiniteSet(S) /\ S \in SUBSET T
        <5>1. S \in SUBSET T
            BY DEF Starts
        <5>. QED  BY <3>1, <5>1, FS_Subset
      <4>2. Cardinality(S) \in Nat
        BY <4>1, FS_CardinalityType
      <4> DEFINE c == Cardinality(S)
                 s == Ordered(S, <)
      <4>3. S = {g \in T : (g - 1) \notin T}
        BY DEF Starts
      <4> HIDE DEF S
      <4>4. DOMAIN s = 1 .. c
        BY DEF Ordered
      <4>5. Coalesce(T) = [i \in 1 .. c |->
                             [first |-> s[i], num |-> LastFrom(T, s[i]) + 1 - s[i]]]
        BY <4>3, <4>4 DEF Coalesce
      <4> HIDE DEF s, c
      <4>6. ASSUME NEW m \in Nat, NEW q, DOMAIN q = 1 .. m PROVE Len(q) = m
        BY <4>6
      <4>7. DOMAIN Coalesce(T) = 1 .. c /\ c \in Nat
        BY <4>2, <4>5 DEF c
      <4>. QED  BY <4>6, <4>7 DEF c
    <3>4. Cardinality({g \in Nat : StoredGroup(runs, g)}) <= Cardinality(T)
      <4>1. FixedRanges + Cardinality(Starts(T)) <= MaxRanges
        BY <2>6, <3>3
      <4>. QED  BY <2>2, <2>3, <2>4, <3>1, <3>2, <4>1, CheapestRuns
    <3>5. Groups(runs) = {g \in Nat : StoredGroup(runs, g)}
      BY <2>5, GroupsOfRuns
    <3>. QED  BY <3>4, <3>5
  <2>. QED  BY <2>6
<1>. QED  BY Invariance, <1>1, PTL

-----------------------------------------------------------------------------
(***************************************************************************)
(* How the stream is cut into hif files: SplitWriter, for every file size, *)
(* every sequence of buffers and every stream length.                      *)
(***************************************************************************)
\* The current file was opened for a byte that is either in it or still to come.
FirstByte == asked > 0 => (InCurrent > 0 \/ unwritten > 0)

CutInv == TypeOK /\ SplitsExactly /\ FirstByte /\ (state = "finished" => unwritten = 0)

\* One write: what fits into the file, or all that is left.
LEMMA TakeFits ==
  ASSUME NEW room \in Nat, NEW left \in Nat, room > 0, left > 0,
         NEW take, take = IF room < left THEN room ELSE left
  PROVE  take \in Nat /\ take > 0 /\ take <= left /\ take <= room
  OBVIOUS

LEMMA TakenFrom ==
  ASSUME NEW w \in Nat, NEW h \in Nat, NEW a \in Nat, NEW d \in Nat, w + h = a - d,
         NEW t \in Nat, t <= d
  PROVE  d - t \in Nat /\ w + (h + t) = a - (d - t)
  OBVIOUS

LEMMA ReplaceLast ==
  ASSUME NEW s \in Seq(Nat), s # <<>>, NEW x \in Nat,
         NEW t, t = [s EXCEPT ![Len(s)] = x]
  PROVE  /\ t \in Seq(Nat) /\ t # <<>> /\ Len(t) = Len(s) /\ t[Len(s)] = x
         /\ \A i \in 1 .. (Len(s) - 1) : t[i] = s[i]
  OBVIOUS

LEMMA CutInitially == SplitInit => CutInv
  BY SplitAssumption DEF SplitInit, CutInv, TypeOK, SplitsExactly, FirstByte,
         InCurrent

LEMMA CutInductive ==
    ASSUME CutInv, [SplitNext]_splitVars PROVE CutInv'
<1> USE SplitAssumption DEF CutInv
<1> DEFINE n == Len(hifs)
<1>0. /\ hifs \in Seq(Nat) /\ hifs # <<>> /\ n \in Nat /\ n > 0 /\ hifs[n] \in Nat
      /\ unwritten \in Nat /\ asked \in Nat
      /\ hifs[n] <= FileSize /\ FileSize \in Nat
      /\ \A i \in 1 .. (n - 1) : hifs[i] = FileSize
  BY DEF TypeOK, SplitsExactly, InCurrent
<1> DEFINE whole == (n - 1) * FileSize
<1>a. whole \in Nat /\ whole + hifs[n] = asked - unwritten
  BY <1>0 DEF SplitsExactly, InCurrent
<1> HIDE DEF whole
<1>1. ASSUME NEW k \in ChunkSizes, WriteAll(k) PROVE CutInv'
  <2>1. k \in Nat /\ k > 0
    OBVIOUS
  <2>2. hifs' = hifs /\ unwritten' = k /\ asked' = asked + k /\ state' = "open" /\ unwritten = 0
    BY <1>1 DEF WriteAll
  <2>3. QED
    BY <1>0, <1>a, <2>1, <2>2 DEF whole, TypeOK, SplitsExactly, FirstByte, InCurrent
<1>2. CASE Fill
  <2> DEFINE take == IF FileSize - hifs[n] < unwritten THEN FileSize - hifs[n] ELSE unwritten
  <2>1. /\ hifs' = [hifs EXCEPT ![n] = hifs[n] + take]
        /\ unwritten' = unwritten - take /\ asked' = asked /\ state' = state /\ state = "open"
        /\ unwritten > 0 /\ hifs[n] < FileSize
    BY <1>2 DEF Fill, InCurrent
  <2>2. take \in Nat /\ take > 0 /\ take <= unwritten /\ hifs[n] + take <= FileSize
    <3>1. FileSize - hifs[n] \in Nat /\ FileSize - hifs[n] > 0
      BY <1>0, <2>1
    <3>2. take \in Nat /\ take > 0 /\ take <= unwritten /\ take <= FileSize - hifs[n]
      BY <1>0, <2>1, <3>1, TakeFits
    <3> HIDE DEF take, n
    <3>3. QED
      BY <1>0, <3>2
  <2> HIDE DEF take
  <2>3. /\ hifs' \in Seq(Nat) /\ hifs' # <<>> /\ Len(hifs') = n /\ hifs'[n] = hifs[n] + take
        /\ \A i \in 1 .. (n - 1) : hifs'[i] = hifs[i]
    <3>1. hifs[n] + take \in Nat
      BY <1>0, <2>2
    <3>2. QED
      BY <1>0, <2>1, <3>1, ReplaceLast
  <2>a. unwritten - take \in Nat /\ whole + (hifs[n] + take) = asked - (unwritten - take)
    <3>1. /\ whole \in Nat /\ hifs[n] \in Nat /\ asked \in Nat /\ unwritten \in Nat /\ take \in Nat
          /\ whole + hifs[n] = asked - unwritten /\ take <= unwritten
      BY <1>0, <1>a, <2>2
    <3> HIDE DEF n
    <3>2. QED
      BY ONLY <3>1, TakenFrom
  <2>4. TypeOK'
    BY <1>0, <2>1, <2>3, <2>a DEF TypeOK
  <2>5. SplitsExactly'
    <3>1. InCurrent' = hifs[n] + take
      BY <2>3 DEF InCurrent
    <3>2. \A i \in 1 .. (Len(hifs') - 1) : hifs'[i] = FileSize
      BY <1>0, <2>3
    <3>4. (Len(hifs') - 1) * FileSize + InCurrent' = asked' - unwritten'
      BY <2>1, <2>3, <2>a, <3>1 DEF whole
    <3>5. QED
      BY <2>2, <3>1, <3>2, <3>4 DEF SplitsExactly
  <2>6. FirstByte'
    <3>1. InCurrent' > 0
      BY <1>0, <2>2, <2>3 DEF InCurrent
    <3>2. QED
      BY <3>1 DEF FirstByte
  <2>7. QED
    BY <2>1, <2>4, <2>5, <2>6
<1>3. CASE Roll
  <2>1. /\ hifs[n] = FileSize /\ unwritten > 0 /\ hifs' = Append(hifs, 0)
        /\ unwritten' = unwritten /\ asked' = asked /\ state' = state /\ state = "open"
    BY <1>3 DEF Roll, InCurrent
  <2>2. /\ hifs' \in Seq(Nat) /\ hifs' # <<>> /\ Len(hifs') = n + 1 /\ hifs'[n + 1] = 0
        /\ \A i \in 1 .. n : hifs'[i] = hifs[i]
    BY <1>0, <2>1
  <2>3. TypeOK'
    BY <1>0, <2>1, <2>2 DEF TypeOK
  <2>4. SplitsExactly'
    <3>1. InCurrent' = 0
      BY <2>2 DEF InCurrent
    <3>2. \A i \in 1 .. n : hifs'[i] = FileSize
      BY <1>0, <2>1, <2>2
    <3>3. (Len(hifs') - 1) = n
      BY <1>0, <2>2
    <3>4. whole + FileSize = n * FileSize
      BY <1>0 DEF whole
    <3>5. n * FileSize + 0 = asked - unwritten
      <4>1. whole + FileSize = asked - unwritten
        BY <1>a, <2>1
      <4>2. n * FileSize \in Nat
        BY <1>0
      <4>3. QED
        BY <3>4, <4>1, <4>2
    <3>6. QED
      BY <1>0, <2>1, <3>1, <3>2, <3>3, <3>5 DEF SplitsExactly
  <2>5. QED
    BY <2>1, <2>3, <2>4 DEF FirstByte
<1>4. CASE Fails
  BY <1>4 DEF Fails, TypeOK, SplitsExactly, FirstByte, InCurrent
<1>5. CASE Finish
  BY <1>5 DEF Finish, TypeOK, SplitsExactly, FirstByte, InCurrent
<1>6. CASE UNCHANGED splitVars
  BY <1>6 DEF splitVars, TypeOK, SplitsExactly, FirstByte, InCurrent
<1>7. QED
  BY <1>1, <1>2, <1>3, <1>4, <1>5, <1>6 DEF SplitNext

\* The type invariant: at least one file is open, and no count is negative.
THEOREM CutTypes == SplitSpec => []TypeOK
<1>1. CutInv => TypeOK
  BY DEF CutInv
<1>2. SplitInit => CutInv
  BY CutInitially
<1>3. CutInv /\ [SplitNext]_splitVars => CutInv'
  BY CutInductive
<1>4. QED
  BY <1>1, <1>2, <1>3, PTL DEF SplitSpec

\* The stream is cut exactly at multiples of FileSize.
THEOREM CutExactly == SplitSpec => []SplitsExactly
<1>1. CutInv => SplitsExactly
  BY DEF CutInv
<1>2. SplitInit => CutInv
  BY CutInitially
<1>3. CutInv /\ [SplitNext]_splitVars => CutInv'
  BY CutInductive
<1>4. QED
  BY <1>1, <1>2, <1>3, PTL DEF SplitSpec

\* A finished stream has no empty trailing file.
THEOREM NoTail == SplitSpec => []NoEmptyTail
<1>1. CutInv => NoEmptyTail
  BY DEF CutInv, FirstByte, NoEmptyTail
<1>2. SplitInit => CutInv
  BY CutInitially
<1>3. CutInv /\ [SplitNext]_splitVars => CutInv'
  BY CutInductive
<1>4. QED
  BY <1>1, <1>2, <1>3, PTL DEF SplitSpec
=============================================================================
