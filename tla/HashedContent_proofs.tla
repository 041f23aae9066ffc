------------------------ MODULE HashedContent_proofs ------------------------
(***************************************************************************)
(* Proofs about the encoding of a hashed content: streaming it in groups   *)
(* gives what encoding it whole would, and decoding gives it back, for     *)
(* every plan of the content, size of a block and arity of the hash tree.  *)
(***************************************************************************)
EXTENDS HashedContent, Integers, FiniteSetTheorems, WellFoundedInduction, TLAPS

(***************************************************************************)
(* Arithmetic.                                                             *)
(***************************************************************************)
LEMMA DivMod ==
    ASSUME NEW a \in Nat, NEW d \in Nat \ {0}
    PROVE  \E q \in Nat, r \in 0 .. d - 1 : a = q * d + r /\ q = a \div d /\ r = a % d
OBVIOUS

LEMMA DivUnique ==
    ASSUME NEW d \in Nat \ {0}, NEW q \in Nat, NEW r \in 0 .. d - 1
    PROVE  (q * d + r) \div d = q /\ (q * d + r) % d = r
OBVIOUS

LEMMA Product == \A a, b \in Nat : a * b \in Nat
OBVIOUS

LEMMA ProductOrder == ASSUME NEW a \in Nat, NEW b \in Nat, NEW c \in Nat, a <= b
                      PROVE  a * c <= b * c
OBVIOUS

LEMMA DivShift ==
    ASSUME NEW d \in Nat \ {0}, NEW q \in Nat, NEW t \in Nat
    PROVE  (q * d + t) \div d = q + (t \div d) /\ t \div d \in Nat
<1>1. PICK u \in Nat, r \in 0 .. d - 1 : t = u * d + r /\ u = t \div d
  <2>1. \E u \in Nat, r \in 0 .. d - 1 : t = u * d + r /\ u = t \div d /\ r = t % d
    BY DivMod
  <2>. QED  BY <2>1
<1>2. q + u \in Nat /\ q * d + t = (q + u) * d + r
  <2>1. \A x, y, z \in Nat : (x + y) * z = x * z + y * z /\ x * z \in Nat /\ y * z \in Nat
    OBVIOUS
  <2>2. (q + u) * d = q * d + u * d /\ q * d \in Nat /\ u * d \in Nat
    BY <2>1
  <2>. QED  BY <1>1, <2>2
<1>3. ((q + u) * d + r) \div d = q + u
    BY <1>2, DivUnique
<1>. QED  BY <1>1, <1>2, <1>3

\* What is below a rounded-up quotient.
LEMMA CeilSays ==
    ASSUME NEW n \in Nat, NEW d \in Nat \ {0}
    PROVE  /\ DivCeil(n, d) \in Nat
           /\ \A y \in Nat \ {0} : y <= DivCeil(n, d) <=> (y - 1) * d < n
<1> DEFINE m == n + d - 1
<1>1. m \in Nat
    OBVIOUS
<1>2. PICK q \in Nat, r \in 0 .. d - 1 : m = q * d + r /\ q = m \div d
  <2>1. \E q \in Nat, r \in 0 .. d - 1 : m = q * d + r /\ q = m \div d /\ r = m % d
    BY <1>1, DivMod
  <2>. QED  BY <2>1
<1>3. DivCeil(n, d) = q
    BY <1>2 DEF DivCeil
<1>4. ASSUME NEW y \in Nat \ {0} PROVE y <= q <=> (y - 1) * d < n
  <2>1. CASE y <= q
    <3>1. y * d <= q * d
        BY <2>1, ProductOrder
    <3>2. y * d = (y - 1) * d + d /\ y * d \in Nat /\ q * d \in Nat /\ (y - 1) * d \in Nat
      <4>1. \A x, z \in Nat :
                /\ x * z \in Nat
                /\ x > 0 => x * z = (x - 1) * z + z /\ (x - 1) * z \in Nat
        OBVIOUS
      <4>. QED  BY <4>1
    <3>. QED  BY <1>2, <2>1, <3>1, <3>2
  <2>2. CASE q < y
    <3>1. q * d <= (y - 1) * d
        BY <2>2, ProductOrder
    <3>2. q * d \in Nat /\ (y - 1) * d \in Nat
      <4>1. y - 1 \in Nat
        OBVIOUS
      <4>. QED  BY <4>1, Product
    <3>. QED  BY <1>2, <2>2, <3>1, <3>2
  <2>. QED  BY <2>1, <2>2
<1>. QED  BY <1>3, <1>4

LEMMA CeilAbove ==
    ASSUME NEW n \in Nat, NEW d \in Nat \ {0}, NEW x \in Nat
    PROVE  x < DivCeil(n, d) <=> x * d < n
<1> DEFINE y == x + 1
<1>1. y \in Nat \ {0} /\ y - 1 = x /\ DivCeil(n, d) \in Nat
    BY CeilSays
<1> HIDE DEF y
<1>2. y <= DivCeil(n, d) <=> (y - 1) * d < n
    BY <1>1, CeilSays
<1>3. y <= DivCeil(n, d) <=> x < DivCeil(n, d)
    BY <1>1 DEF y
<1>. QED  BY <1>1, <1>2, <1>3

LEMMA CeilShift ==
    ASSUME NEW d \in Nat \ {0}, NEW q \in Nat, NEW t \in Nat
    PROVE  DivCeil(q * d + t, d) = q + DivCeil(t, d)
<1>1. q * d + t + d - 1 = q * d + (t + d - 1) /\ t + d - 1 \in Nat
    BY Product
<1>2. (q * d + (t + d - 1)) \div d = q + ((t + d - 1) \div d)
    BY <1>1, DivShift
<1>. QED  BY <1>1, <1>2 DEF DivCeil

\* Numbers with the same positive numbers below them are the same.
LEMMA SameBelow ==
    ASSUME NEW a \in Nat, NEW b \in Nat, \A y \in Nat \ {0} : y <= a <=> y <= b
    PROVE  a = b
<1>1. CASE a = 0
    BY <1>1
<1>2. CASE a # 0
  <2>1. a <= b
    BY <1>2
  <2>. QED  BY <1>2, <2>1
<1>. QED  BY <1>1, <1>2

\* Three levels of Arity each are a level of a group.
LEMMA CeilThrice ==
    ASSUME NEW n \in Nat
    PROVE  DivCeil(SuperSections(n), Arity) = DivCeil(n, GroupBlocks)
<1>1. Arity \in Nat \ {0} /\ GroupBlocks \in Nat \ {0}
  <2>1. \A a \in Nat \ {0} : a * a * a \in Nat \ {0}
    OBVIOUS
  <2>. QED  BY <2>1, HashAssumption DEF GroupBlocks
<1>2. Sections(n) \in Nat /\ SuperSections(n) \in Nat /\ DivCeil(SuperSections(n), Arity) \in Nat
      /\ DivCeil(n, GroupBlocks) \in Nat
    BY <1>1, CeilSays DEF Sections, SuperSections
<1>3. ASSUME NEW y \in Nat \ {0}
      PROVE  y <= DivCeil(SuperSections(n), Arity) <=> y <= DivCeil(n, GroupBlocks)
  <2> DEFINE a == (y - 1) * Arity
             b == a * Arity
  <2>1. y - 1 \in Nat /\ a \in Nat /\ b \in Nat /\ b * Arity \in Nat
    BY <1>1, Product
  <2>2. (y - 1) * GroupBlocks = b * Arity
    <3>1. \A x, z \in Nat : x * (z * z * z) = ((x * z) * z) * z
        OBVIOUS
    <3>. QED  BY <1>1, <2>1, <3>1 DEF GroupBlocks
  <2> HIDE DEF b
  <2>3. y <= DivCeil(SuperSections(n), Arity) <=> a < SuperSections(n)
    BY <1>1, <1>2, CeilSays
  <2> HIDE DEF a
  <2>4. a < SuperSections(n) <=> a * Arity < Sections(n)
    <3>1. SuperSections(n) = DivCeil(Sections(n), Arity)
        BY DEF SuperSections, Sections
    <3>. QED  BY <1>1, <1>2, <2>1, <3>1, CeilAbove
  <2>5. b < Sections(n) <=> b * Arity < n
    BY <1>1, <2>1, CeilAbove DEF Sections
  <2>6. a < SuperSections(n) <=> b * Arity < n
    BY <2>4, <2>5 DEF b
  <2>8. y <= DivCeil(n, GroupBlocks) <=> (y - 1) * GroupBlocks < n
    BY <1>1, CeilSays
  <2>. QED  BY <2>2, <2>3, <2>6, <2>8
<1>. QED  BY <1>2, <1>3, SameBelow

-----------------------------------------------------------------------------
(***************************************************************************)
(* The hash tree of a group is the part of the tree of the whole content   *)
(* above its blocks.  A level of the group has n of the N hashes that the  *)
(* level of the whole has, behind its first s * Arity.                     *)
(***************************************************************************)
IsPart(part, n, whole, N, s, wide) ==
    \A x \in 1 .. wide * Arity :
        (x <= n <=> s * Arity + x <= N) /\ (x <= n => part[x] = whole[s * Arity + x])

LEMMA SectionShift ==
    ASSUME NEW part, NEW whole, NEW n \in Nat, NEW N \in Nat, NEW s \in Nat, NEW wide \in Nat,
           IsPart(part, n, whole, N, s, wide), NEW c \in 0 .. wide - 1
    PROVE  Section(part, n, c * Arity) = Section(whole, N, (s + c) * Arity)
<1>1. Arity \in Nat
    BY HashAssumption
<1>2. ASSUME NEW j \in 1 .. Arity
      PROVE  /\ c * Arity + j <= n <=> (s + c) * Arity + j <= N
             /\ c * Arity + j <= n => part[c * Arity + j] = whole[(s + c) * Arity + j]
  <2> DEFINE x == c * Arity + j
  <2>1. c \in Nat /\ c + 1 \in Nat /\ c + 1 <= wide
    OBVIOUS
  <2>2. (c + 1) * Arity <= wide * Arity
    BY <1>1, <2>1, ProductOrder
  <2>3. /\ c * Arity \in Nat /\ (c + 1) * Arity = c * Arity + Arity /\ wide * Arity \in Nat
        /\ s * Arity \in Nat /\ (s + c) * Arity = s * Arity + c * Arity
    <3>1. \A u, v, w \in Nat : u * w \in Nat /\ (u + 1) * w = u * w + w
                                  /\ (u + v) * w = u * w + v * w
        OBVIOUS
    <3>. QED  BY <1>1, <2>1, <3>1
  <2>4. x \in 1 .. wide * Arity
    BY <1>1, <2>2, <2>3
  <2>5. (s + c) * Arity + j = s * Arity + x
    BY <2>3
  <2> HIDE DEF x
  <2>. QED  BY <2>4, <2>5 DEF x, IsPart
<1>. QED  BY <1>2 DEF Section

LEMMA LevelShift ==
    ASSUME NEW part, NEW whole, NEW n \in Nat, NEW N \in Nat, NEW s \in Nat, NEW wide \in Nat,
           IsPart(part, n, whole, N, s, wide)
    PROVE  \A y \in 1 .. wide :
               /\ y <= Sections(n) <=> s + y <= Sections(N)
               /\ y <= Sections(n) => Level(part, n)[y] = Level(whole, N)[s + y]
<1>1. Arity \in Nat \ {0} /\ Sections(n) \in Nat /\ Sections(N) \in Nat
    BY HashAssumption, CeilSays DEF Sections
<1>2. ASSUME NEW y \in 1 .. wide
      PROVE  /\ y <= Sections(n) <=> s + y <= Sections(N)
             /\ y <= Sections(n) => Level(part, n)[y] = Level(whole, N)[s + y]
  <2> DEFINE c == y - 1
             x == c * Arity + 1
  <2>1. c \in 0 .. wide - 1 /\ c \in Nat /\ s + y - 1 = s + c
    OBVIOUS
  <2>2. c * Arity \in Nat /\ s * Arity \in Nat /\ (s + c) * Arity = s * Arity + c * Arity
    <3>1. \A u, v, w \in Nat : u * w \in Nat /\ (u + v) * w = u * w + v * w
        OBVIOUS
    <3>. QED  BY <1>1, <2>1, <3>1
  <2>3. x \in 1 .. wide * Arity
    <3>1. (c + 1) * Arity <= wide * Arity
        BY <1>1, <2>1, ProductOrder
    <3>2. (c + 1) * Arity = c * Arity + Arity /\ wide * Arity \in Nat
      <4>1. \A u, w \in Nat : u * w \in Nat /\ (u + 1) * w = u * w + w
        OBVIOUS
      <4>. QED  BY <1>1, <2>1, <4>1
    <3>. QED  BY <1>1, <2>2, <3>1, <3>2
  <2>4. y <= Sections(n) <=> c * Arity < n
    BY <1>1, CeilSays DEF Sections
  <2>5. s + y <= Sections(N) <=> (s + c) * Arity < N
    <3>1. s + y \in Nat \ {0}
        OBVIOUS
    <3>. QED  BY <1>1, <2>1, <3>1, CeilSays DEF Sections
  <2>6. x <= n <=> s * Arity + x <= N
    BY <2>3 DEF IsPart
  <2>7. y <= Sections(n) <=> s + y <= Sections(N)
    BY <2>2, <2>4, <2>5, <2>6
  <2> HIDE DEF c, x
  <2>8. Section(part, n, c * Arity) = Section(whole, N, (s + c) * Arity)
    BY <2>1, SectionShift
  <2>9. ASSUME y <= Sections(n) PROVE Level(part, n)[y] = Level(whole, N)[s + y]
    <3>1. y \in 1 .. DivCeil(n, Arity) /\ s + y \in 1 .. DivCeil(N, Arity)
        BY <1>1, <2>7, <2>9 DEF Sections
    <3>2. Level(part, n)[y] = Hash(Section(part, n, c * Arity))
        BY <3>1 DEF Level, c
    <3>3. Level(whole, N)[s + y] = Hash(Section(whole, N, (s + y - 1) * Arity))
        BY <3>1 DEF Level
    <3>. QED  BY <2>1, <2>8, <3>2, <3>3
  <2>. QED  BY <2>7, <2>9
<1>. QED  BY <1>2

LEMMA DivBelow ==
    ASSUME NEW t \in Nat, NEW d \in Nat \ {0}, NEW w \in Nat, t < w * d
    PROVE  t \div d \in 0 .. w - 1
<1>1. PICK q \in Nat, r \in 0 .. d - 1 : t = q * d + r /\ q = t \div d
  <2>1. \E q \in Nat, r \in 0 .. d - 1 : t = q * d + r /\ q = t \div d /\ r = t % d
    BY DivMod
  <2>. QED  BY <2>1
<1>2. w <= q => w * d <= q * d
    BY ProductOrder
<1>3. w * d \in Nat /\ q * d \in Nat
    BY Product
<1>. QED  BY <1>1, <1>2, <1>3

LEMMA Sizes ==
    /\ Arity \in Nat \ {0} /\ Block \in Nat \ {0}
    /\ Arity * Arity \in Nat \ {0} /\ GroupBlocks \in Nat \ {0} /\ GroupBytes \in Nat \ {0}
    /\ GroupBlocks = (Arity * Arity) * Arity
    /\ \A x \in Nat : /\ x * Arity \in Nat /\ (x * Arity) * Arity \in Nat
                      /\ x * (Arity * Arity) = (x * Arity) * Arity
                      /\ x * GroupBlocks = ((x * Arity) * Arity) * Arity /\ x * GroupBlocks \in Nat
                      /\ x * GroupBytes = (x * GroupBlocks) * Block /\ x * GroupBytes \in Nat
<1>1. Arity \in Nat \ {0} /\ Block \in Nat \ {0}
    BY HashAssumption
<1>2. \A a, b \in Nat \ {0} : a * b \in Nat \ {0}
    OBVIOUS
<1>3. Arity * Arity \in Nat \ {0} /\ GroupBlocks \in Nat \ {0} /\ GroupBytes \in Nat \ {0}
    BY <1>1, <1>2 DEF GroupBlocks, GroupBytes
<1>4. \A x, a, b \in Nat : x * (a * b) = (x * a) * b /\ x * a \in Nat
    OBVIOUS
<1>5. ASSUME NEW x \in Nat
      PROVE  /\ x * Arity \in Nat /\ (x * Arity) * Arity \in Nat
             /\ x * (Arity * Arity) = (x * Arity) * Arity
             /\ x * GroupBlocks = ((x * Arity) * Arity) * Arity /\ x * GroupBlocks \in Nat
             /\ x * GroupBytes = (x * GroupBlocks) * Block /\ x * GroupBytes \in Nat
  <2>1. x * Arity \in Nat /\ x * GroupBlocks \in Nat /\ x * GroupBytes \in Nat
    BY <1>1, <1>3, <1>4
  <2>2. x * (Arity * Arity) = (x * Arity) * Arity
    BY <1>1, <1>4
  <2>3. x * ((Arity * Arity) * Arity) = (x * (Arity * Arity)) * Arity
    BY <1>1, <1>3, <1>4
  <2>4. x * (GroupBlocks * Block) = (x * GroupBlocks) * Block
    BY <1>1, <1>3, <1>4
  <2>. QED  BY <1>1, <1>4, <2>1, <2>2, <2>3, <2>4 DEF GroupBlocks, GroupBytes
<1>. QED  BY <1>1, <1>3, <1>5 DEF GroupBlocks

\* The n blocks of part are those of group x of a whole of N blocks.
IsGroup(part, n, whole, N, x) ==
    /\ n \in 1 .. GroupBlocks /\ N \in Nat /\ x \in Nat
    /\ \A b \in 1 .. GroupBlocks : b <= n <=> x * GroupBlocks + b <= N
    /\ \A k \in 1 .. n * Block : part[k] = whole[x * GroupBytes + k]

LEMMA BlockShift ==
    ASSUME NEW part, NEW n, NEW whole, NEW N, NEW x, IsGroup(part, n, whole, N, x), NEW b \in 1 .. n
    PROVE  BlockOf(part, b) = BlockOf(whole, x * GroupBlocks + b)
<1>1. n \in Nat /\ x \in Nat /\ Block \in Nat /\ b - 1 \in Nat /\ b \in Nat
      /\ x * GroupBlocks \in Nat /\ x * GroupBytes = (x * GroupBlocks) * Block
      /\ x * GroupBytes \in Nat
    BY Sizes DEF IsGroup
<1> DEFINE c == x * GroupBlocks + b
<1>2. ASSUME NEW k \in 1 .. Block
      PROVE  part[(b - 1) * Block + k] = whole[(c - 1) * Block + k]
  <2>1. (b - 1) * Block \in Nat /\ b * Block = (b - 1) * Block + Block /\ n * Block \in Nat
    <3>1. \A u, d \in Nat : u * d \in Nat /\ (u + 1) * d = u * d + d
        OBVIOUS
    <3>2. b = (b - 1) + 1
        BY <1>1
    <3>. QED  BY <1>1, <3>1, <3>2
  <2>2. b * Block <= n * Block
    BY <1>1, ProductOrder
  <2>3. (b - 1) * Block + k \in 1 .. n * Block
    BY <1>1, <2>1, <2>2
  <2>4. (c - 1) * Block = x * GroupBytes + (b - 1) * Block
    <3>1. \A u, d, e \in Nat : (u + d) * e = u * e + d * e
        OBVIOUS
    <3>2. c - 1 = x * GroupBlocks + (b - 1)
        BY <1>1
    <3>. QED  BY <1>1, <3>1, <3>2
  <2> HIDE DEF c
  <2>5. x * GroupBytes + ((b - 1) * Block + k) = (c - 1) * Block + k
    BY <1>1, <2>1, <2>4
  <2> DEFINE at == (b - 1) * Block + k
  <2>6. part[at] = whole[x * GroupBytes + at]
    BY <2>3 DEF IsGroup
  <2>. QED  BY <2>5, <2>6
<1>3. \A k \in 1 .. Block : part[(b - 1) * Block + k] = whole[(c - 1) * Block + k]
    BY <1>2
<1> HIDE DEF c
<1>4. BlockOf(part, b) = BlockOf(whole, c)
    BY <1>3 DEF BlockOf
<1>. QED  BY <1>4 DEF c

\* The three levels above the blocks.
LEMMA TreeShift ==
    ASSUME NEW part, NEW n, NEW whole, NEW N, NEW x, IsGroup(part, n, whole, N, x)
    PROVE  LET h0 == H0(part, n)
               h1 == Level(h0, n)
               h2 == Level(h1, Sections(n))
               w0 == H0(whole, N)
               w1 == Level(w0, N)
               w2 == Level(w1, Sections(N))
           IN /\ IsPart(h0, n, w0, N, (x * Arity) * Arity, Arity * Arity)
              /\ IsPart(h1, Sections(n), w1, Sections(N), x * Arity, Arity)
              /\ IsPart(h2, SuperSections(n), w2, SuperSections(N), x, 1)
              /\ {Sections(n), Sections(N), SuperSections(n), SuperSections(N)} \subseteq Nat
<1> DEFINE h0 == H0(part, n)
           h1 == Level(h0, n)
           h2 == Level(h1, Sections(n))
           w0 == H0(whole, N)
           w1 == Level(w0, N)
           w2 == Level(w1, Sections(N))
<1>1. /\ n \in Nat /\ N \in Nat /\ x \in Nat /\ x * Arity \in Nat /\ (x * Arity) * Arity \in Nat
      /\ Arity \in Nat \ {0} /\ Arity * Arity \in Nat /\ n <= GroupBlocks /\ GroupBlocks \in Nat
      /\ x * GroupBlocks \in Nat
    BY Sizes DEF IsGroup
<1>2. {Sections(n), Sections(N), SuperSections(n), SuperSections(N)} \subseteq Nat
    BY <1>1, CeilSays DEF Sections, SuperSections
<1>3. IsPart(h0, n, w0, N, (x * Arity) * Arity, Arity * Arity)
  <2>1. (Arity * Arity) * Arity = GroupBlocks
        /\ ((x * Arity) * Arity) * Arity = x * GroupBlocks
    BY <1>1, Sizes
  <2>2. ASSUME NEW b \in 1 .. GroupBlocks
        PROVE  /\ b <= n <=> x * GroupBlocks + b <= N
               /\ b <= n => h0[b] = w0[x * GroupBlocks + b]
    <3>1. b <= n <=> x * GroupBlocks + b <= N
        BY DEF IsGroup
    <3>2. ASSUME b <= n PROVE h0[b] = w0[x * GroupBlocks + b]
      <4>1. b \in 1 .. n /\ x * GroupBlocks + b \in 1 .. N
        BY <1>1, <3>1, <3>2
      <4>2. BlockOf(part, b) = BlockOf(whole, x * GroupBlocks + b)
        BY <4>1, BlockShift
      <4>. QED  BY <4>1, <4>2 DEF H0
    <3>. QED  BY <3>1, <3>2
  <2> HIDE DEF h0, w0
  <2>. QED  BY <2>1, <2>2 DEF IsPart
<1> HIDE DEF h0, w0
<1>4. IsPart(h1, Sections(n), w1, Sections(N), x * Arity, Arity)
  <2>1. \A y \in 1 .. Arity * Arity :
               /\ y <= Sections(n) <=> (x * Arity) * Arity + y <= Sections(N)
               /\ y <= Sections(n) => h1[y] = w1[(x * Arity) * Arity + y]
    BY <1>1, <1>3, LevelShift
  <2> HIDE DEF h1, w1
  <2>. QED  BY <2>1 DEF IsPart
<1> HIDE DEF h1, w1
<1>5. IsPart(h2, SuperSections(n), w2, SuperSections(N), x, 1)
  <2>1. \A y \in 1 .. Arity :
               /\ y <= Sections(Sections(n)) <=> x * Arity + y <= Sections(Sections(N))
               /\ y <= Sections(Sections(n)) => h2[y] = w2[x * Arity + y]
    <3> DEFINE s == x * Arity
               m == Sections(n)
               M == Sections(N)
    <3>1. s \in Nat /\ m \in Nat /\ M \in Nat /\ Arity \in Nat /\ IsPart(h1, m, w1, M, s, Arity)
        BY <1>1, <1>2, <1>4
    <3> HIDE DEF s, m, M
    <3>2. \A y \in 1 .. Arity :
               /\ y <= Sections(m) <=> s + y <= Sections(M)
               /\ y <= Sections(m) => Level(h1, m)[y] = Level(w1, M)[s + y]
        BY <3>1, LevelShift
    <3>. QED  BY <3>2 DEF s, m, M
  <2>2. 1 * Arity = Arity
    BY <1>1
  <2> HIDE DEF h2, w2
  <2>. QED  BY <2>1, <2>2 DEF IsPart, SuperSections
<1>. QED  BY <1>2, <1>3, <1>4, <1>5 DEF h0, h1, h2, w0, w1, w2

\* What encode_hashed_to_writer makes of a group is a part of what encoding the whole gives.
LEMMA GroupShift ==
    ASSUME NEW part, NEW n, NEW whole, NEW N, NEW x, IsGroup(part, n, whole, N, x)
    PROVE  LET h0 == H0(part, n)
               h1 == Level(h0, n)
               h2 == Level(h1, Sections(n))
               w0 == H0(whole, N)
               w1 == Level(w0, N)
               w2 == Level(w1, Sections(N))
           IN /\ \A b \in 1 .. n :
                    /\ Header(h0, h1, h2, n, b) = Header(w0, w1, w2, N, x * GroupBlocks + b)
                    /\ h0[b] = w0[x * GroupBlocks + b]
                    /\ BlockOf(part, b) = BlockOf(whole, x * GroupBlocks + b)
              /\ x + 1 \in 1 .. DivCeil(SuperSections(N), Arity)
              /\ H3Of(h2, n) = Level(w2, SuperSections(N))[x + 1]
<1> DEFINE h0 == H0(part, n)
           h1 == Level(h0, n)
           h2 == Level(h1, Sections(n))
           w0 == H0(whole, N)
           w1 == Level(w0, N)
           w2 == Level(w1, Sections(N))
<1>1. /\ n \in Nat /\ N \in Nat /\ x \in Nat /\ x * Arity \in Nat /\ (x * Arity) * Arity \in Nat
      /\ Arity \in Nat \ {0} /\ Arity * Arity \in Nat \ {0} /\ n <= GroupBlocks
      /\ GroupBlocks \in Nat \ {0} /\ x * GroupBlocks \in Nat /\ 1 <= n
      /\ GroupBlocks = (Arity * Arity) * Arity
    BY Sizes DEF IsGroup
<1>2. /\ IsPart(h0, n, w0, N, (x * Arity) * Arity, Arity * Arity)
      /\ IsPart(h1, Sections(n), w1, Sections(N), x * Arity, Arity)
      /\ IsPart(h2, SuperSections(n), w2, SuperSections(N), x, 1)
      /\ {Sections(n), Sections(N), SuperSections(n), SuperSections(N)} \subseteq Nat
    BY TreeShift
<1>3. ASSUME NEW b \in 1 .. n
      PROVE  h0[b] = w0[x * GroupBlocks + b]
  <2>1. b \in 1 .. (Arity * Arity) * Arity /\ ((x * Arity) * Arity) * Arity = x * GroupBlocks
    BY <1>1, Sizes
  <2> HIDE DEF h0, w0
  <2>. QED  BY <1>2, <2>1 DEF IsPart
<1> HIDE DEF h0, h1, h2, w0, w1, w2
<1> DEFINE s1 == x * Arity
           s0 == s1 * Arity
           a2 == Arity * Arity
           n1 == Sections(n)
           N1 == Sections(N)
           n2 == SuperSections(n)
           N2 == SuperSections(N)
           one == 1
<1>8. /\ IsPart(h0, n, w0, N, s0, a2) /\ IsPart(h1, n1, w1, N1, s1, Arity)
      /\ IsPart(h2, n2, w2, N2, x, one) /\ n1 \in Nat /\ N1 \in Nat /\ n2 \in Nat /\ N2 \in Nat
      /\ s0 \in Nat /\ s1 \in Nat /\ a2 \in Nat \ {0}
    BY <1>1, <1>2
<1>9. x * GroupBlocks = s0 * Arity /\ x * GroupBlocks = s1 * a2 /\ GroupBlocks = a2 * Arity
      /\ GroupBlocks = Arity * a2
  <2>1. s1 * (Arity * Arity) = (s1 * Arity) * Arity
    BY <1>1, Sizes
  <2>2. x * GroupBlocks = ((x * Arity) * Arity) * Arity
    BY <1>1, Sizes
  <2>3. \A y \in Nat : Arity * y = y * Arity
    BY <1>1
  <2>. QED  BY <1>1, <2>1, <2>2, <2>3
<1>10. n \in Nat /\ N \in Nat /\ x \in Nat /\ Arity \in Nat \ {0} /\ GroupBlocks \in Nat \ {0}
    BY <1>1
<1>11. one \in Nat /\ 0 \in 0 .. one - 1 /\ \A y \in Nat : one * y = y
    OBVIOUS
<1> HIDE DEF s0, s1, a2, n1, n2, N1, N2, one
<1>4. ASSUME NEW b \in 1 .. n
      PROVE  Header(h0, h1, h2, n, b) = Header(w0, w1, w2, N, x * GroupBlocks + b)
  <2> DEFINE t == b - 1
             c == x * GroupBlocks + b
             c0 == t \div Arity
             c1 == t \div a2
             c2 == t \div GroupBlocks
  <2>1. t \in Nat /\ t < GroupBlocks /\ c - 1 = x * GroupBlocks + t
    BY <1>1
  <2>2. Header(h0, h1, h2, n, b) =
            <<Section(h0, n, c0 * Arity), Section(h1, n1, c1 * Arity),
              Section(h2, n2, c2 * Arity)>>
    BY DEF Header, a2, n1, n2
  <2> HIDE DEF t, c
  <2>3. Header(w0, w1, w2, N, c) =
            <<Section(w0, N, ((c - 1) \div Arity) * Arity),
              Section(w1, N1, ((c - 1) \div a2) * Arity),
              Section(w2, N2, ((c - 1) \div GroupBlocks) * Arity)>>
    BY DEF Header, a2, N1, N2
  <2>4. c0 \in 0 .. a2 - 1
    BY <1>1, <1>8, <1>9, <2>1, DivBelow
  <2>5. c1 \in 0 .. Arity - 1
    BY <1>1, <1>8, <1>9, <2>1, DivBelow
  <2>6. c2 \in 0 .. one - 1
    <3>1. t < one * GroupBlocks
        BY <1>1, <1>11, <2>1
    <3>. QED  BY <1>1, <1>11, <2>1, <3>1, DivBelow
  <2>7. (c - 1) \div Arity = s0 + c0
    <3>1. (s0 * Arity + t) \div Arity = s0 + (t \div Arity)
        BY <1>10, <1>8, <2>1, DivShift
    <3>. QED  BY <1>9, <2>1, <3>1
  <2>8. (c - 1) \div a2 = s1 + c1
    <3>1. (s1 * a2 + t) \div a2 = s1 + (t \div a2)
        BY <1>8, <2>1, DivShift
    <3>. QED  BY <1>9, <2>1, <3>1
  <2>9. (c - 1) \div GroupBlocks = x + c2
    <3>1. (x * GroupBlocks + t) \div GroupBlocks = x + (t \div GroupBlocks)
        BY <1>10, <2>1, DivShift
    <3>. QED  BY <2>1, <3>1
  <2> HIDE DEF c0, c1, c2
  <2>10. Section(h0, n, c0 * Arity) = Section(w0, N, (s0 + c0) * Arity)
    BY <1>8, <1>10, <2>4, SectionShift
  <2>11. Section(h1, n1, c1 * Arity) = Section(w1, N1, (s1 + c1) * Arity)
    BY <1>8, <1>10, <2>5, SectionShift
  <2>12. Section(h2, n2, c2 * Arity) = Section(w2, N2, (x + c2) * Arity)
    BY <1>8, <1>10, <2>6, <1>11, SectionShift
  <2>. QED  BY <2>2, <2>3, <2>7, <2>8, <2>9, <2>10, <2>11, <2>12 DEF c
<1>5. x + 1 \in 1 .. DivCeil(SuperSections(N), Arity)
  <2>1. x * GroupBlocks + 1 <= N
    BY <1>1 DEF IsGroup
  <2>2. x * GroupBlocks < N
    BY <1>1, <2>1
  <2>3. x < DivCeil(N, GroupBlocks) /\ DivCeil(N, GroupBlocks) \in Nat
    BY <1>1, <2>2, CeilAbove, CeilSays
  <2>. QED  BY <1>1, <2>3, CeilThrice
<1>6. H3Of(h2, n) = Level(w2, SuperSections(N))[x + 1]
  <2> DEFINE c == x + 1
  <2> DEFINE z == 0
  <2>0. z \in 0 .. one - 1 /\ z * Arity = 0 /\ x + z = x
    BY <1>10, <1>11
  <2> HIDE DEF z
  <2>1. Section(h2, n2, z * Arity) = Section(w2, N2, (x + z) * Arity)
    <3>1. one \in Nat /\ z \in 0 .. one - 1 /\ n2 \in Nat /\ N2 \in Nat /\ x \in Nat
        BY <1>8, <1>10, <1>11, <2>0
    <3>2. IsPart(h2, n2, w2, N2, x, one)
        BY <1>8
    <3> HIDE DEF c
    <3>. QED  BY <3>1, <3>2, SectionShift
  <2>2. c - 1 = x
    BY <1>1
  <2>3. c \in 1 .. DivCeil(N2, Arity)
    BY <1>5 DEF N2
  <2> HIDE DEF c
  <2>4. Level(w2, N2)[c] = Hash(Section(w2, N2, (c - 1) * Arity))
    BY <2>3 DEF Level
  <2>5. H3Of(h2, n) = Hash(Section(h2, n2, 0))
    BY DEF H3Of, n2
  <2>. QED  BY <2>0, <2>1, <2>2, <2>4, <2>5 DEF c, N2
<1>7. \A b \in 1 .. n : BlockOf(part, b) = BlockOf(whole, x * GroupBlocks + b)
    BY BlockShift
<1>. QED  BY <1>3, <1>4, <1>5, <1>6, <1>7 DEF h0, h1, h2, w0, w1, w2

-----------------------------------------------------------------------------
(***************************************************************************)
(* The plan of a content: which byte is where.                             *)
(***************************************************************************)
Byte == ({"zero", "cipher"} \cup STRING) \X Nat

Over(k) == {i \in DOMAIN content.files : FileAt(i).off < k /\ k <= End(FileAt(i))}
PlanAt(k) ==
    IF Over(k) = {} THEN ZeroByte
    ELSE LET f == FileAt(CHOOSE i \in Over(k) : TRUE) IN FileByte(f, k - f.off)

LEMMA PlaintextIs == Plaintext = [k \in 1 .. PlainBlocks * Block |-> PlanAt(k)]
BY DEF Plaintext, PlanAt, Over

LEMMA FilesAre ==
    ASSUME content \in Contents
    PROVE  /\ content.len \in Nat /\ Len(content.files) \in Nat
           /\ DOMAIN content.files = 1 .. Len(content.files)
           /\ \A i \in DOMAIN content.files :
                 /\ FileAt(i).off \in Nat /\ FileAt(i).size \in Nat /\ FileAt(i).id \in STRING
                 /\ End(FileAt(i)) \in Nat /\ FileAt(i).off <= End(FileAt(i))
                 /\ End(FileAt(i)) <= content.len
           /\ \A i, j \in DOMAIN content.files : i < j => End(FileAt(i)) <= FileAt(j).off
<1>1. /\ content.len \in Nat /\ content.files \in Seq([id : STRING, off : Nat, size : Nat])
      /\ \A i \in DOMAIN content.files :
            content.files[i].off + content.files[i].size <= content.len
      /\ \A i, j \in DOMAIN content.files :
            i < j => content.files[i].off + content.files[i].size <= content.files[j].off
    BY ContentsAssumption
<1>2. Len(content.files) \in Nat /\ DOMAIN content.files = 1 .. Len(content.files)
    BY <1>1
<1>3. \A i \in DOMAIN content.files : content.files[i] \in [id : STRING, off : Nat, size : Nat]
  <2>1. ASSUME NEW S, NEW q \in Seq(S) PROVE \A i \in DOMAIN q : q[i] \in S
    OBVIOUS
  <2>. QED  BY <1>1, <2>1, Zenon
<1>4. ASSUME NEW i \in DOMAIN content.files
      PROVE  /\ FileAt(i).off \in Nat /\ FileAt(i).size \in Nat /\ FileAt(i).id \in STRING
             /\ End(FileAt(i)) \in Nat /\ FileAt(i).off <= End(FileAt(i))
             /\ End(FileAt(i)) <= content.len
  <2> DEFINE f == content.files[i]
  <2>1. f \in [id : STRING, off : Nat, size : Nat] /\ f.off + f.size <= content.len
    BY <1>1, <1>3
  <2> HIDE DEF f
  <2>2. f.off \in Nat /\ f.size \in Nat /\ f.id \in STRING
    BY <2>1
  <2>3. f.off + f.size \in Nat /\ f.off <= f.off + f.size
    BY <2>2
  <2>. QED  BY <2>1, <2>2, <2>3 DEF FileAt, End, f
<1>. QED  BY <1>1, <1>2, <1>4 DEF FileAt, End

LEMMA PlanInFile ==
    ASSUME content \in Contents, NEW k \in Nat, NEW i \in Over(k)
    PROVE  PlanAt(k) = FileByte(FileAt(i), k - FileAt(i).off)
<1>1. ASSUME NEW j \in Over(k) PROVE j = i
  <2>1. /\ i \in DOMAIN content.files /\ j \in DOMAIN content.files
        /\ FileAt(i).off < k /\ k <= End(FileAt(i)) /\ FileAt(j).off < k /\ k <= End(FileAt(j))
    BY DEF Over
  <2>2. /\ FileAt(i).off \in Nat /\ End(FileAt(i)) \in Nat /\ FileAt(j).off \in Nat
        /\ End(FileAt(j)) \in Nat /\ i \in Nat /\ j \in Nat
    BY <2>1, FilesAre
  <2>3. ~ (i < j) /\ ~ (j < i)
    BY <2>1, <2>2, FilesAre
  <2>. QED  BY <2>2, <2>3
<1>2. (CHOOSE j \in Over(k) : TRUE) = i
    BY <1>1
<1>. QED  BY <1>2 DEF PlanAt

LEMMA PlanInGap ==
    ASSUME NEW k, \A i \in DOMAIN content.files : ~ (FileAt(i).off < k /\ k <= End(FileAt(i)))
    PROVE  PlanAt(k) = ZeroByte
BY DEF PlanAt, Over

LEMMA PlanBehind == ASSUME content \in Contents, NEW k \in Nat, content.len < k
                    PROVE  PlanAt(k) = ZeroByte
<1>1. ASSUME NEW i \in DOMAIN content.files PROVE ~ (k <= End(FileAt(i)))
    BY FilesAre
<1>. QED  BY <1>1, PlanInGap

LEMMA SamePlan ==
    ASSUME UNCHANGED content
    PROVE  WholeEncode' = WholeEncode /\ \A k : PlanAt(k)' = PlanAt(k)
BY DEF WholeEncode, Plaintext, PlainBlocks, PlanAt, Over, FileAt

LEMMA FiniteInterval == \A n \in Nat : IsFiniteSet(1 .. n)
<1>1. ASSUME NEW n \in Nat PROVE IsFiniteSet(1 .. n)
  <2>1. 1 \in Int /\ n \in Int
    OBVIOUS
  <2>. QED  BY <2>1, FS_Interval, Zenon
<1>. QED  BY <1>1

\* A set of naturals that is not empty has a least element.
LEMMA LeastNatural ==
    ASSUME NEW T \in SUBSET Nat, T # {}
    PROVE  \E x \in T : \A y \in T : x <= y
<1> DEFINE U == {1 .. x : x \in T}
<1>1. U \subseteq FiniteSubsetsOf(Nat) /\ U # {}
  <2>1. ASSUME NEW x \in T PROVE 1 .. x \in SUBSET Nat /\ IsFiniteSet(1 .. x)
    BY FiniteInterval
  <2>. QED  BY <2>1 DEF FiniteSubsetsOf
<1>2. PICK u \in U : \A v \in U : ~ (<<v, u>> \in StrictSubsetOrdering(Nat))
    BY <1>1, FS_StrictSubsetOrderingWellFounded, WFMin
<1>3. PICK x \in T : u = 1 .. x
    BY <1>2
<1>4. ASSUME NEW y \in T, y < x PROVE FALSE
  <2>1. 1 .. y \subseteq 1 .. x /\ 1 .. y # 1 .. x /\ 1 .. y \in SUBSET Nat /\ 1 .. x \in SUBSET Nat
    <3>1. x \in 1 .. x /\ x \notin 1 .. y
        BY <1>4
    <3>. QED  BY <1>4, <3>1
  <2>2. <<1 .. y, 1 .. x>> \in StrictSubsetOrdering(Nat)
    BY <2>1 DEF StrictSubsetOrdering
  <2>. QED  BY <1>2, <1>3, <2>2
<1>. QED  BY <1>4

-----------------------------------------------------------------------------
(***************************************************************************)
(* The invariant: the reader has passed the files before fileIdx, the      *)
(* buffer holds what the plan has behind the groups written, and those are *)
(* the first of the whole encoding.                                        *)
(***************************************************************************)
Reader ==
    /\ content \in Contents
    /\ readPos \in 0 .. content.len
    /\ fileIdx \in 1 .. Len(content.files) + 1
    /\ \A i \in 1 .. fileIdx - 1 : End(FileAt(i)) <= readPos

Buffer ==
    /\ buf \in Seq(Byte) /\ Block <= Len(buf) /\ Len(buf) <= GroupBytes
    /\ filled \in 0 .. Len(buf)
    /\ BufferProportional

\* x whole groups are written.
Written(x) ==
    /\ h3 = [n \in 1 .. x |-> WholeEncode.h3[n]]
    /\ app = [b \in 1 .. x * GroupBlocks |-> WholeEncode.app[b]]
    /\ readPos = x * GroupBytes + filled
    /\ \A k \in 1 .. filled : buf[k] = PlanAt(x * GroupBytes + k)
    /\ pc = "filled" => filled > 0 \/ x = 0

Progress ==
    /\ pc \in {"read", "eof", "filled", "done", "failed"}
    /\ pc \in {"read", "eof", "filled"} => \E x \in Nat : Written(x)
    /\ pc = "eof" => readPos = content.len /\ filled < Len(buf)
    /\ pc = "filled" => filled = GroupBytes \/ readPos = content.len
    /\ pc = "done" => app = WholeEncode.app /\ h3 = WholeEncode.h3

IInv == Reader /\ Buffer /\ Progress

LEMMA ZerosAre ==
    ASSUME NEW n \in Nat
    PROVE  Zeros(n) \in Seq(Byte) /\ Len(Zeros(n)) = n /\ \A k \in 1 .. n : Zeros(n)[k] = ZeroByte
BY DEF Zeros, ZeroByte, Byte

LEMMA InitIInv == ASSUME Init PROVE IInv
<1>1. /\ content \in Contents /\ pc = "read" /\ readPos = 0 /\ fileIdx = 1 /\ filled = 0
      /\ buf = Zeros(Block) /\ app = <<>> /\ h3 = <<>>
    BY DEF Init, FirstBuffer
<1>2. Reader
    BY <1>1, FilesAre DEF Reader
<1>3. Block <= GroupBytes
  <2>1. \A a, b \in Nat \ {0} : b <= a * b
    OBVIOUS
  <2>. QED  BY <2>1, Sizes DEF GroupBytes
<1>4. Buffer
    BY <1>1, <1>3, ZerosAre, Sizes DEF Buffer, BufferProportional
<1>5. 0 * GroupBlocks = 0 /\ 0 * GroupBytes = 0
    BY Sizes
<1>6. Written(0)
    BY <1>1, <1>5 DEF Written
<1>. QED  BY <1>1, <1>2, <1>4, <1>6 DEF IInv, Progress

LEMMA CurrentIs ==
    ASSUME Reader
    PROVE  /\ CurrentFile \in fileIdx .. Len(content.files) + 1
           /\ \A j \in 1 .. CurrentFile - 1 : End(FileAt(j)) <= readPos
           /\ CurrentFile \in DOMAIN content.files => readPos < End(FileAt(CurrentFile))
<1> DEFINE ahead == {j \in fileIdx .. Len(content.files) : ~ Passed(FileAt(j))}
           last == Len(content.files)
<1>1. /\ content \in Contents /\ fileIdx \in 1 .. last + 1 /\ last \in Nat
      /\ readPos \in Nat /\ DOMAIN content.files = 1 .. last
      /\ \A j \in 1 .. last : End(FileAt(j)) \in Nat
      /\ \A j \in 1 .. fileIdx - 1 : End(FileAt(j)) <= readPos
    BY FilesAre DEF Reader
<1>2. \A j \in fileIdx .. last : j \notin ahead => End(FileAt(j)) <= readPos
    BY <1>1 DEF Passed
<1>3. \A j \in ahead : readPos < End(FileAt(j))
    BY <1>1 DEF Passed
<1>4. CASE ahead = {}
  <2>1. CurrentFile = last + 1
    BY <1>4 DEF CurrentFile
  <2>2. ASSUME NEW j \in 1 .. last PROVE End(FileAt(j)) <= readPos
    <3>1. CASE j < fileIdx
        BY <1>1, <3>1
    <3>2. CASE j >= fileIdx
        BY <1>1, <1>2, <1>4, <3>2
    <3>. QED  BY <1>1, <3>1, <3>2
  <2>. QED  BY <1>1, <2>1, <2>2
<1>5. CASE ahead # {}
  <2>1. ahead \in SUBSET Nat
    BY <1>1
  <2>2. \E i \in ahead : \A j \in ahead : i <= j
    BY <1>5, <2>1, LeastNatural
  <2>3. CurrentFile = CHOOSE i \in ahead : \A j \in ahead : i <= j
    BY <1>5 DEF CurrentFile
  <2>4. CurrentFile \in ahead /\ \A j \in ahead : CurrentFile <= j
    BY <2>2, <2>3
  <2>5. CurrentFile \in fileIdx .. last /\ CurrentFile \in Nat
    BY <1>1, <2>4
  <2>6. ASSUME NEW j \in 1 .. CurrentFile - 1 PROVE End(FileAt(j)) <= readPos
    <3>1. CASE j < fileIdx
        BY <1>1, <3>1, <2>5
    <3>2. CASE j >= fileIdx
      <4>1. j \in fileIdx .. last /\ ~ (CurrentFile <= j)
        BY <1>1, <2>5, <3>2
      <4>. QED  BY <1>2, <2>4, <4>1
    <3>. QED  BY <1>1, <2>5, <3>1, <3>2
  <2> HIDE DEF ahead
  <2>. QED  BY <1>1, <1>3, <2>4, <2>5, <2>6
<1>. QED  BY <1>4, <1>5

\* A function cut in two and put together.
LEMMA Joined ==
    ASSUME NEW F, NEW m \in Nat, NEW n \in Nat
    PROVE  [b \in 1 .. m |-> F[b]] \o [b \in 1 .. n |-> F[m + b]] = [b \in 1 .. m + n |-> F[b]]
OBVIOUS

LEMMA Longer ==
    ASSUME NEW F, NEW m \in Nat
    PROVE  Append([b \in 1 .. m |-> F[b]], F[m + 1]) = [b \in 1 .. m + 1 |-> F[b]]
OBVIOUS

LEMMA LesserIs ==
    ASSUME NEW m \in Nat, NEW n \in Nat
    PROVE  /\ Lesser(m, n) \in Nat /\ Lesser(m, n) <= m /\ Lesser(m, n) <= n
           /\ 1 <= m /\ 1 <= n => 1 <= Lesser(m, n)
BY DEF Lesser

LEMMA WantIs ==
    ASSUME content.len \in Nat, readPos \in Nat, readPos < content.len,
           Len(buf) \in Nat, filled \in Nat, filled < Len(buf)
    PROVE  /\ Want \in Nat /\ 1 <= Want
           /\ filled + Want <= Len(buf) /\ readPos + Want <= content.len
<1> DEFINE a == Len(buf) - filled
           b == content.len - readPos
<1>1. a \in Nat /\ b \in Nat /\ 1 <= a /\ 1 <= b
    OBVIOUS
<1>2. Want = Lesser(a, b)
    BY DEF Want
<1>3. filled + a = Len(buf) /\ readPos + b = content.len
    OBVIOUS
<1> HIDE DEF a, b
<1>4. Want \in Nat /\ 1 <= Want /\ Want <= a /\ Want <= b
    BY <1>1, <1>2, LesserIs
<1>. QED  BY <1>1, <1>3, <1>4

\* Bytes that a read returns are those the plan has at its position.
LEMMA FillKeeps ==
    ASSUME IInv, Reading, NEW bytes \in Seq(Byte), Fill(bytes), Len(bytes) \in 1 .. Want,
           readPos' = readPos + Len(bytes), fileIdx' \in 1 .. Len(content.files) + 1,
           \A i \in 1 .. fileIdx' - 1 : End(FileAt(i)) <= readPos',
           \A k \in 1 .. Len(bytes) : bytes[k] = PlanAt(readPos + k)
    PROVE  IInv'
<1> DEFINE n == Len(bytes)
<1>1. /\ content.len \in Nat /\ readPos \in 0 .. content.len /\ readPos < content.len
      /\ Len(buf) \in Nat /\ buf \in Seq(Byte) /\ filled \in 0 .. Len(buf) /\ filled < Len(buf)
      /\ pc = "read" /\ content \in Contents
    BY FilesAre DEF IInv, Reader, Buffer, Reading
<1>2. /\ n \in Nat /\ 1 <= n /\ filled + n <= Len(buf) /\ readPos + n <= content.len
      /\ n = Len(bytes)
  <2>1. readPos \in Nat /\ filled \in Nat
    BY <1>1
  <2>2. /\ Want \in Nat /\ 1 <= Want
        /\ filled + Want <= Len(buf) /\ readPos + Want <= content.len
    BY <1>1, <2>1, WantIs
  <2>3. n <= Want /\ 1 <= n /\ n \in Nat
    BY <2>2
  <2> HIDE DEF n
  <2>. QED  BY <1>1, <2>1, <2>2, <2>3 DEF n
<1>3. /\ UNCHANGED <<content, app, h3>> /\ filled' = filled + n /\ pc' = "read"
      /\ buf' = [k \in DOMAIN buf |-> IF k \in filled + 1 .. filled + n
                                         THEN bytes[k - filled] ELSE buf[k]]
    BY <1>2 DEF Fill
<1> HIDE DEF n
<1>31. content' = content /\ filled' = filled + n /\ pc' = "read"
    BY <1>3
<1>32. readPos' = readPos + n /\ readPos' \in 0 .. content.len
    BY <1>1, <1>2
<1>4. Reader'
  <2>1. \A i \in 1 .. fileIdx' - 1 : End(FileAt(i))' <= readPos'
    BY <1>31 DEF End, FileAt
  <2>. QED  BY <1>1, <1>31, <1>32, <2>1 DEF Reader
<1>5. DOMAIN buf = 1 .. Len(buf) /\ \A k \in 1 .. Len(buf) : buf[k] \in Byte
    BY <1>1
<1>6. \A k \in filled + 1 .. filled + n : k - filled \in 1 .. n /\ bytes[k - filled] \in Byte
    BY <1>1, <1>2
<1>7. buf' \in [1 .. Len(buf) -> Byte]
    BY <1>3, <1>5, <1>6
<1>8. buf' \in Seq(Byte) /\ Len(buf') = Len(buf)
  <2>1. ASSUME NEW S, NEW q \in Nat, NEW b \in [1 .. q -> S] PROVE b \in Seq(S) /\ Len(b) = q
    OBVIOUS
  <2>. QED  BY <1>1, <1>7, <2>1
<1>9. Buffer'
  <2>1. Block <= Len(buf') /\ Len(buf') <= GroupBytes /\ BufferProportional'
    BY <1>8, <1>31 DEF IInv, Buffer, BufferProportional
  <2>2. filled' \in 0 .. Len(buf')
    BY <1>1, <1>2, <1>8, <1>31
  <2>. QED  BY <1>8, <2>1, <2>2 DEF Buffer
<1>10. PICK x \in Nat : Written(x)
    BY <1>1 DEF IInv, Progress
<1>11. ASSUME NEW k \in 1 .. filled' PROVE buf'[k] = PlanAt(x * GroupBytes + k)
  <2>1. k \in 1 .. Len(buf) /\ k \in Nat /\ x * GroupBytes \in Nat /\ k <= filled + n
    <3>1. x * GroupBytes \in Nat
        BY Sizes
    <3>. QED  BY <1>1, <1>2, <1>31, <3>1
  <2>2. CASE k <= filled
    BY <1>1, <1>3, <1>5, <1>10, <2>1, <2>2 DEF Written
  <2>3. CASE k > filled
    <3>1. k - filled \in 1 .. n /\ k \in filled + 1 .. filled + n
        BY <1>1, <1>2, <1>3, <2>1, <2>3
    <3>2. readPos + (k - filled) = x * GroupBytes + k
        BY <1>1, <1>10, <2>1 DEF Written
    <3>3. buf'[k] = bytes[k - filled]
        BY <1>3, <1>5, <2>1, <3>1
    <3>. QED  BY <3>1, <3>2, <3>3 DEF n
  <2>. QED  BY <1>1, <2>1, <2>2, <2>3
<1>12. Written(x)'
  <2>1. readPos' = x * GroupBytes + filled'
    BY <1>1, <1>2, <1>3, <1>10, Sizes DEF Written, n
  <2>2. \A k \in 1 .. filled' : buf'[k] = PlanAt(x * GroupBytes + k)'
    BY <1>3, <1>11, SamePlan
  <2>3. WholeEncode' = WholeEncode
    BY <1>3, SamePlan
  <2>4. pc' # "filled"
    BY <1>3
  <2>. QED  BY <1>3, <1>10, <2>1, <2>2, <2>3, <2>4 DEF Written
<1>. QED  BY <1>3, <1>4, <1>9, <1>12 DEF IInv, Progress

LEMMA GapKeeps == ASSUME IInv, ReadGap PROVE IInv'
<1> DEFINE i == CurrentFile
           n == GapLength(i)
           last == Len(content.files)
<1>1. /\ Reader /\ Reading /\ ~ InFile /\ Fill(Zeros(n)) /\ readPos' = readPos + n /\ fileIdx' = i
    BY DEF IInv, ReadGap
<1>2. /\ content \in Contents /\ content.len \in Nat /\ readPos \in Nat /\ readPos < content.len
      /\ Len(buf) \in Nat /\ filled \in Nat /\ filled < Len(buf)
      /\ fileIdx \in 1 .. last + 1 /\ last \in Nat /\ DOMAIN content.files = 1 .. last
    BY <1>1, FilesAre DEF IInv, Reader, Buffer, Reading
<1>3. Want \in Nat /\ 1 <= Want
    BY <1>2, WantIs
<1>4. /\ i \in fileIdx .. last + 1 /\ i \in Nat
      /\ \A j \in 1 .. i - 1 : End(FileAt(j)) <= readPos
    BY <1>1, <1>2, CurrentIs
<1>5. i \in DOMAIN content.files => FileAt(i).off \in Nat /\ readPos < FileAt(i).off
    BY <1>1, <1>2, FilesAre DEF InFile
<1> HIDE DEF i
<1>6. /\ n \in 1 .. Want /\ n \in Nat
      /\ i \in DOMAIN content.files => readPos + n <= FileAt(i).off
  <2>1. CASE i \in DOMAIN content.files
    <3>1. n = Lesser(Want, FileAt(i).off - readPos)
        BY <2>1 DEF GapLength
    <3> DEFINE off == FileAt(i).off
               gap == off - readPos
    <3>2. off \in Nat /\ gap \in Nat /\ 1 <= gap /\ readPos + gap = off
        BY <1>2, <1>5, <2>1
    <3> HIDE DEF gap
    <3>3. n \in Nat /\ n <= Want /\ n <= gap /\ 1 <= n
        BY <1>3, <3>1, <3>2, LesserIs DEF gap
    <3> HIDE DEF n, off
    <3>4. readPos + n <= off
        BY <1>2, <3>2, <3>3
    <3>. QED  BY <1>3, <3>3, <3>4 DEF off
  <2>2. CASE ~ (i \in DOMAIN content.files)
    <3>1. n = Want
        BY <2>2 DEF GapLength
    <3>. QED  BY <1>3, <2>2, <3>1
  <2>. QED  BY <2>1, <2>2
<1> HIDE DEF n, last
<1>7. ASSUME NEW k \in 1 .. n PROVE PlanAt(readPos + k) = ZeroByte
  <2>1. ASSUME NEW j \in DOMAIN content.files
        PROVE  ~ (FileAt(j).off < readPos + k /\ readPos + k <= End(FileAt(j)))
    <3>1. /\ j \in 1 .. last /\ j \in Nat /\ k \in Nat /\ 1 <= k /\ k <= n
          /\ FileAt(j).off \in Nat /\ End(FileAt(j)) \in Nat
        BY <1>2, <1>6, FilesAre
    <3>2. CASE j < i
        BY <1>2, <1>4, <3>1, <3>2
    <3>3. CASE j = i
        BY <1>2, <1>6, <3>1, <3>3
    <3>4. CASE i < j
      <4>1. i \in DOMAIN content.files
        BY <1>2, <1>4, <3>1, <3>4
      <4>2. /\ End(FileAt(i)) <= FileAt(j).off /\ End(FileAt(i)) \in Nat
            /\ FileAt(i).off \in Nat /\ FileAt(i).off <= End(FileAt(i))
        BY <1>2, <3>4, <4>1, FilesAre
      <4>. QED  BY <1>2, <1>6, <3>1, <4>1, <4>2
    <3>. QED  BY <1>4, <3>1, <3>2, <3>3, <3>4
  <2>. QED  BY <2>1, PlanInGap
<1>8. Zeros(n) \in Seq(Byte) /\ Len(Zeros(n)) = n /\ \A k \in 1 .. n : Zeros(n)[k] = ZeroByte
    BY <1>6, ZerosAre
<1>9. /\ fileIdx' \in 1 .. Len(content.files) + 1
      /\ \A j \in 1 .. fileIdx' - 1 : End(FileAt(j)) <= readPos'
  <2>1. \A j \in 1 .. i - 1 : j \in 1 .. last /\ End(FileAt(j)) \in Nat
    BY <1>2, <1>4, FilesAre
  <2>. QED  BY <1>1, <1>2, <1>4, <1>6, <2>1 DEF last
<1>. QED  BY <1>1, <1>6, <1>7, <1>8, <1>9, FillKeeps

LEMMA FileKeeps == ASSUME IInv, ReadFile PROVE IInv'
<1> DEFINE i == CurrentFile
           f == FileAt(i)
           n == FileLength(f)
           last == Len(content.files)
           bytes == [k \in 1 .. n |-> FileByte(f, readPos - f.off + k)]
<1>1. /\ Reader /\ Reading /\ InFile /\ Fill(bytes) /\ readPos' = readPos + n
      /\ fileIdx' = IF readPos + n >= End(f) THEN i + 1 ELSE i
    BY DEF IInv, ReadFile
<1>2. /\ content \in Contents /\ content.len \in Nat /\ readPos \in Nat /\ readPos < content.len
      /\ Len(buf) \in Nat /\ filled \in Nat /\ filled < Len(buf)
      /\ fileIdx \in 1 .. last + 1 /\ last \in Nat /\ DOMAIN content.files = 1 .. last
    BY <1>1, FilesAre DEF IInv, Reader, Buffer, Reading
<1>3. Want \in Nat /\ 1 <= Want
    BY <1>2, WantIs
<1>4. /\ i \in DOMAIN content.files /\ i \in Nat /\ i \in 1 .. last /\ readPos < End(f)
      /\ \A j \in 1 .. i - 1 : End(FileAt(j)) <= readPos
    BY <1>1, <1>2, CurrentIs DEF InFile
<1>5. f.off \in Nat /\ f.off <= readPos /\ End(f) \in Nat /\ f.id \in STRING
    BY <1>1, <1>2, <1>4, FilesAre DEF InFile
<1> HIDE DEF i, last
<1> HIDE DEF f
<1>6. n \in 1 .. Want /\ n \in Nat /\ readPos + n <= End(f)
    BY <1>2, <1>3, <1>4, <1>5 DEF FileLength, Lesser
<1> HIDE DEF n
<1>7. ASSUME NEW k \in 1 .. n
      PROVE  FileByte(f, readPos - f.off + k) = PlanAt(readPos + k)
  <2>1. i \in Over(readPos + k) /\ readPos + k \in Nat
    BY <1>2, <1>4, <1>5, <1>6 DEF Over, f
  <2>2. PlanAt(readPos + k) = FileByte(f, (readPos + k) - f.off)
    BY <1>2, <2>1, PlanInFile DEF f
  <2>3. (readPos + k) - f.off = readPos - f.off + k
    BY <1>2, <1>5, <1>6
  <2>. QED  BY <2>2, <2>3
<1>8. bytes \in Seq(Byte) /\ Len(bytes) = n
  <2>1. ASSUME NEW k \in 1 .. n PROVE FileByte(f, readPos - f.off + k) \in Byte
    <3>1. readPos - f.off + k \in Nat
      <4>1. \A a, b, c \in Nat : b <= a => a - b + c \in Nat
        OBVIOUS
      <4>2. readPos \in Nat /\ f.off \in Nat /\ k \in Nat /\ f.off <= readPos
        BY <1>2, <1>5, <1>6
      <4>. QED  BY <4>1, <4>2
    <3>. QED  BY <1>5, <3>1 DEF FileByte, Byte
  <2>. QED  BY <1>6, <2>1
<1>9. \A k \in 1 .. Len(bytes) : bytes[k] = PlanAt(readPos + k)
    BY <1>7, <1>8
<1> HIDE DEF bytes
<1>10. fileIdx' \in 1 .. last + 1 /\ \A j \in 1 .. fileIdx' - 1 : End(FileAt(j)) <= readPos'
  <2>1. \A j \in 1 .. i : j \in 1 .. last /\ End(FileAt(j)) \in Nat
    <3>1. ASSUME NEW j \in 1 .. i PROVE j \in 1 .. last
        BY <1>2, <1>4
    <3>. QED  BY <1>2, <3>1, FilesAre
  <2>2. ASSUME NEW j \in 1 .. fileIdx' - 1 PROVE End(FileAt(j)) <= readPos'
    <3>1. j \in 1 .. i /\ (j = i => readPos + n >= End(f))
        BY <1>1, <1>2, <1>4, <1>5, <1>6
    <3>2. CASE j = i
        BY <1>1, <3>1, <3>2 DEF f
    <3>3. CASE j # i
      <4>1. j \in 1 .. i - 1 /\ j \in 1 .. i
        BY <1>4, <3>1, <3>3
      <4>2. End(FileAt(j)) <= readPos /\ End(FileAt(j)) \in Nat
        BY <1>4, <2>1, <4>1
      <4>. QED  BY <1>1, <1>2, <1>6, <4>2
    <3>. QED  BY <3>2, <3>3
  <2>. QED  BY <1>1, <1>2, <1>4, <2>2
<1>. QED  BY <1>1, <1>6, <1>8, <1>9, <1>10, FillKeeps DEF last

\* A step that leaves what was read and written as it is keeps all of it.
LEMMA Unmoved ==
    ASSUME IInv, UNCHANGED <<content, readPos, fileIdx, filled, buf, app, h3>>
    PROVE  /\ Reader' /\ Buffer'
           /\ \A x \in Nat : Written(x) /\ (pc' = "filled" => filled > 0 \/ x = 0) => Written(x)'
<1>1. Reader'
    BY DEF IInv, Reader, End, FileAt
<1>2. Buffer'
    BY DEF IInv, Buffer, BufferProportional
<1>3. ASSUME NEW x \in Nat, Written(x), pc' = "filled" => filled > 0 \/ x = 0 PROVE Written(x)'
  <2>1. WholeEncode' = WholeEncode /\ \A k : PlanAt(k)' = PlanAt(k)
    BY SamePlan
  <2>. QED  BY <1>3, <2>1 DEF Written
<1>. QED  BY <1>1, <1>2, <1>3

LEMMA ReadFailsKeeps == ASSUME IInv, ReadFails PROVE IInv'
<1>1. pc' = "failed" /\ UNCHANGED <<content, readPos, fileIdx, filled, buf, app, h3>>
    BY DEF ReadFails, reader
<1>. QED  BY <1>1, Unmoved DEF IInv, Progress

LEMMA WriteFailsKeeps == ASSUME IInv, WriteFails PROVE IInv'
<1>1. pc' = "failed" /\ UNCHANGED <<content, readPos, fileIdx, filled, buf, app, h3>>
    BY DEF WriteFails, reader
<1>. QED  BY <1>1, Unmoved DEF IInv, Progress

LEMMA TamperKeeps == ASSUME IInv, Tamper PROVE IInv'
<1>1. UNCHANGED <<content, readPos, fileIdx, filled, buf, app, h3, pc>>
    BY DEF Tamper, reader
<1>2. Reader' /\ Buffer' /\ \A x \in Nat : Written(x) => Written(x)'
    BY <1>1, Unmoved DEF Written
<1>3. WholeEncode' = WholeEncode
    BY <1>1, SamePlan
<1>. QED  BY <1>1, <1>2, <1>3 DEF IInv, Progress

LEMMA ReadEndKeeps == ASSUME IInv, ReadEnd PROVE IInv'
<1>1. /\ pc = "read" /\ pc' = "eof" /\ readPos >= content.len /\ filled < Len(buf)
      /\ UNCHANGED <<content, readPos, fileIdx, filled, buf, app, h3>>
    BY DEF ReadEnd, reader
<1>2. content.len \in Nat /\ readPos \in 0 .. content.len
    BY FilesAre DEF IInv, Reader
<1>3. readPos' = content'.len /\ filled' < Len(buf')
    BY <1>1, <1>2
<1>4. PICK x \in Nat : Written(x)
    BY <1>1 DEF IInv, Progress
<1>5. Reader' /\ Buffer' /\ Written(x)'
    BY <1>1, <1>4, Unmoved
<1>. QED  BY <1>1, <1>3, <1>5 DEF IInv, Progress

LEMMA BufferIs ==
    ASSUME IInv
    PROVE  /\ content \in Contents /\ content.len \in Nat /\ readPos \in 0 .. content.len
           /\ buf \in Seq(Byte) /\ Len(buf) \in Nat /\ DOMAIN buf = 1 .. Len(buf)
           /\ filled \in 0 .. Len(buf) /\ Block <= Len(buf) /\ Len(buf) <= GroupBytes
           /\ BufferProportional
BY FilesAre DEF IInv, Reader, Buffer

LEMMA GroupReadKeeps == ASSUME IInv, GroupRead PROVE IInv'
<1>1. /\ pc = "eof" \/ (pc = "read" /\ filled = Len(buf))
      /\ filled < Len(buf) \/ Len(buf) = GroupBytes
      /\ filled > 0 \/ app = <<>>
      /\ pc' = "filled" /\ UNCHANGED <<content, readPos, fileIdx, filled, buf, app, h3>>
    BY DEF GroupRead, ReadUpToEnds, reader
<1>2. PICK x \in Nat : Written(x)
    BY <1>1 DEF IInv, Progress
<1>3. filled > 0 \/ x = 0
  <2>1. CASE app = <<>>
    <3>1. app = [b \in 1 .. x * GroupBlocks |-> WholeEncode.app[b]] /\ x * GroupBlocks \in Nat
        BY <1>2, Sizes DEF Written
    <3>2. x * GroupBlocks = 0
        BY <2>1, <3>1
    <3>3. \A a \in Nat, g \in Nat \ {0} : a * g = 0 => a = 0
        OBVIOUS
    <3>. QED  BY <3>2, <3>3, Sizes
  <2>. QED  BY <1>1, <2>1
<1>4. Reader' /\ Buffer' /\ Written(x)'
    BY <1>1, <1>2, <1>3, Unmoved
<1>5. filled = GroupBytes \/ readPos = content.len
    BY <1>1, BufferIs DEF IInv, Progress
<1>6. filled' = GroupBytes \/ readPos' = content'.len
    BY <1>1, <1>5
<1>. QED  BY <1>1, <1>4, <1>6 DEF IInv, Progress

LEMMA GrowKeeps == ASSUME IInv, GrowBuffer PROVE IInv'
<1> DEFINE more == NewLength - Len(buf)
<1>1. /\ pc = "eof" \/ pc = "read"
      /\ filled = Len(buf) /\ Len(buf) < GroupBytes
      /\ buf' = buf \o Zeros(more)
      /\ UNCHANGED <<content, pc, readPos, fileIdx, filled, app, h3>>
    BY DEF GrowBuffer, ReadUpToEnds, reader
<1>2. PICK x \in Nat : Written(x)
    BY <1>1 DEF IInv, Progress
<1>3. pc = "read"
    BY <1>1, BufferIs DEF IInv, Progress
<1>4. /\ x * GroupBytes \in Nat /\ readPos = x * GroupBytes + filled
      /\ Block \in Nat /\ GroupBytes \in Nat
    BY <1>2, Sizes DEF Written
<1>5. /\ more \in Nat /\ Len(buf) + more <= 2 * Len(buf) /\ Len(buf) + more <= GroupBytes
    BY <1>1, <1>4, BufferIs DEF NewLength, Lesser
<1> HIDE DEF more
<1>6. /\ buf' \in Seq(Byte) /\ Len(buf') = Len(buf) + more
      /\ \A k \in 1 .. Len(buf) : buf'[k] = buf[k]
  <2>1. Zeros(more) \in Seq(Byte) /\ Len(Zeros(more)) = more
    BY <1>5, ZerosAre
  <2>2. buf \in Seq(Byte)
    BY BufferIs
  <2>3. ASSUME NEW S, NEW p \in Seq(S), NEW q \in Seq(S)
        PROVE  /\ p \o q \in Seq(S) /\ Len(p \o q) = Len(p) + Len(q)
               /\ \A k \in 1 .. Len(p) : (p \o q)[k] = p[k]
    OBVIOUS
  <2>. QED  BY <1>1, <2>1, <2>2, <2>3
<1>7. Len(buf) <= content.len
    BY <1>1, <1>4, BufferIs
<1>8. Buffer'
  <2>1. Len(buf') <= 2 * content'.len
    BY <1>1, <1>5, <1>6, <1>7, BufferIs
  <2>2. Block <= Len(buf') /\ Len(buf') <= GroupBytes /\ filled' \in 0 .. Len(buf')
    BY <1>1, <1>4, <1>5, <1>6, BufferIs
  <2>. QED  BY <1>6, <2>1, <2>2 DEF Buffer, BufferProportional
<1>9. Reader'
    BY <1>1 DEF IInv, Reader, End, FileAt
<1>10. Written(x)'
  <2>1. WholeEncode' = WholeEncode /\ \A k : PlanAt(k)' = PlanAt(k)
    BY <1>1, SamePlan
  <2>2. \A k \in 1 .. filled : buf'[k] = PlanAt(x * GroupBytes + k)
    BY <1>1, <1>2, <1>6 DEF Written
  <2>. QED  BY <1>1, <1>2, <1>3, <2>1, <2>2 DEF Written
<1>. QED  BY <1>1, <1>3, <1>8, <1>9, <1>10 DEF IInv, Progress

-----------------------------------------------------------------------------
(***************************************************************************)
(* The whole encoding, and the group of it that is in the buffer.          *)
(***************************************************************************)
W0 == H0(Plaintext, PlainBlocks)
W1 == Level(W0, PlainBlocks)
W2 == Level(W1, Sections(PlainBlocks))

LEMMA WholeIs ==
    ASSUME content \in Contents
    PROVE  /\ PlainBlocks \in Nat
           /\ WholeEncode.app = [b \in 1 .. PlainBlocks |-> WholeEncode.app[b]]
           /\ WholeEncode.h3 = [g \in 1 .. DivCeil(PlainBlocks, GroupBlocks) |-> WholeEncode.h3[g]]
           /\ WholeEncode.h3 = Level(W2, SuperSections(PlainBlocks))
           /\ \A b \in 1 .. PlainBlocks :
                 WholeEncode.app[b] = [header |-> Header(W0, W1, W2, PlainBlocks, b),
                                       iv |-> W0[b], data |-> BlockOf(Plaintext, b)]
<1>1. PlainBlocks \in Nat
    BY FilesAre, Sizes, CeilSays DEF PlainBlocks
<1>2. /\ WholeEncode.app = [b \in 1 .. PlainBlocks |->
                               [header |-> Header(W0, W1, W2, PlainBlocks, b),
                                iv |-> W0[b], data |-> BlockOf(Plaintext, b)]]
      /\ WholeEncode.h3 = Level(W2, SuperSections(PlainBlocks))
    BY DEF WholeEncode, W0, W1, W2
<1>3. DivCeil(SuperSections(PlainBlocks), Arity) = DivCeil(PlainBlocks, GroupBlocks)
    BY <1>1, CeilThrice
<1>4. WholeEncode.h3 = [g \in 1 .. DivCeil(PlainBlocks, GroupBlocks) |-> WholeEncode.h3[g]]
    BY <1>2, <1>3 DEF Level
<1>. QED  BY <1>1, <1>2, <1>4

\* n bytes behind x whole groups make n / Block blocks behind theirs, and the last one is the
\* content's last.
LEMMA BlocksOf ==
    ASSUME NEW x \in Nat, NEW n \in 1 .. GroupBytes
    PROVE  /\ DivCeil(n, Block) \in 1 .. GroupBlocks
           /\ DivCeil(x * GroupBytes + n, Block) = x * GroupBlocks + DivCeil(n, Block)
           /\ n = GroupBytes => DivCeil(n, Block) = GroupBlocks
           /\ n <= DivCeil(n, Block) * Block
<1>1. /\ n \in Nat /\ x * GroupBlocks \in Nat /\ x * GroupBytes = (x * GroupBlocks) * Block
      /\ Block \in Nat \ {0} /\ GroupBlocks \in Nat \ {0} /\ GroupBytes = GroupBlocks * Block
      /\ GroupBytes \in Nat
    BY Sizes DEF GroupBytes
<1> DEFINE c == DivCeil(n, Block)
<1>2. c \in Nat /\ \A y \in Nat \ {0} : y <= c <=> (y - 1) * Block < n
    BY <1>1, CeilSays
<1>3. DivCeil(x * GroupBytes + n, Block) = x * GroupBlocks + c
  <2> DEFINE q == x * GroupBlocks
  <2>1. q \in Nat
    BY <1>1
  <2> HIDE DEF q
  <2>2. DivCeil(q * Block + n, Block) = q + DivCeil(n, Block)
    BY <1>1, <2>1, CeilShift
  <2>. QED  BY <1>1, <2>2 DEF q
<1>4. \A y \in Nat : y < c <=> y * Block < n
    BY <1>1, CeilAbove
<1> HIDE DEF c
<1>5. 0 < c
  <2>1. 0 * Block < n
    BY <1>1
  <2>. QED  BY <1>4, <2>1
<1>6. c <= GroupBlocks
  <2>1. ~ (GroupBlocks * Block < n)
    BY <1>1
  <2>. QED  BY <1>1, <1>2, <1>4, <2>1
<1>7. n <= c * Block
  <2>1. ~ (c * Block < n) /\ c * Block \in Nat
    BY <1>1, <1>2, <1>4, Product
  <2>. QED  BY <1>1, <2>1
<1>8. n = GroupBytes => c = GroupBlocks
  <2>1. ASSUME n = GroupBytes, c < GroupBlocks PROVE FALSE
    <3>1. \A u, v \in Nat, d \in Nat \ {0} : u < v => u * d < v * d
        OBVIOUS
    <3>2. c * Block < GroupBlocks * Block
        BY <1>1, <1>2, <2>1, <3>1
    <3>. QED  BY <1>1, <1>2, <1>4, <2>1, <3>2
  <2>. QED  BY <1>1, <1>2, <1>6, <2>1
<1>. QED  BY <1>1, <1>2, <1>3, <1>5, <1>6, <1>7, <1>8 DEF c

LEMMA CleanEofKeeps == ASSUME IInv, CleanEof PROVE IInv'
<1>1. /\ pc = "eof" \/ (pc = "read" /\ filled = Len(buf))
      /\ filled = 0 /\ app # <<>> /\ pc' = "done"
      /\ UNCHANGED <<content, readPos, fileIdx, filled, buf, app, h3>>
    BY DEF CleanEof, ReadUpToEnds, reader
<1>2. PICK x \in Nat : Written(x)
    BY <1>1 DEF IInv, Progress
<1>3. pc = "eof" /\ readPos = content.len
    BY <1>1, BufferIs, Sizes DEF IInv, Progress
<1>4. /\ app = [b \in 1 .. x * GroupBlocks |-> WholeEncode.app[b]]
      /\ h3 = [n \in 1 .. x |-> WholeEncode.h3[n]]
      /\ content.len = x * GroupBytes
    BY <1>1, <1>2, <1>3, Sizes DEF Written
<1>5. x # 0 /\ x - 1 \in Nat
  <2>1. x = 0 => app = <<>>
    <3>1. 0 * GroupBlocks = 0
        BY Sizes
    <3>. QED  BY <1>4, <3>1
  <2>. QED  BY <1>1, <2>1
<1>6. PlainBlocks = x * GroupBlocks /\ content.len # 0
  <2> DEFINE y == x - 1
  <2>1. /\ y \in Nat /\ x * GroupBytes = y * GroupBytes + GroupBytes
        /\ x * GroupBlocks = y * GroupBlocks + GroupBlocks /\ y * GroupBytes \in Nat
    <3>1. \A a, b \in Nat : (a - 1) * b + b = a * b
        OBVIOUS
    <3>. QED  BY <1>5, <3>1, Sizes
  <2> HIDE DEF y
  <2>2. GroupBytes \in 1 .. GroupBytes
    BY Sizes
  <2>3. DivCeil(y * GroupBytes + GroupBytes, Block) = y * GroupBlocks + GroupBlocks
    BY <2>1, <2>2, BlocksOf
  <2>4. content.len # 0
    BY <1>4, <2>1, Sizes
  <2>. QED  BY <1>4, <2>1, <2>3, <2>4 DEF PlainBlocks
<1>7. DivCeil(PlainBlocks, GroupBlocks) = x
  <2> DEFINE z == 0
  <2>1. z \in Nat /\ DivCeil(z, GroupBlocks) = 0 /\ x * GroupBlocks + z = x * GroupBlocks
    <3>1. \A d \in Nat \ {0} : (0 + d - 1) \div d = 0
        OBVIOUS
    <3>. QED  BY <3>1, Sizes DEF DivCeil
  <2> HIDE DEF z
  <2>2. DivCeil(x * GroupBlocks + z, GroupBlocks) = x + DivCeil(z, GroupBlocks)
    BY <2>1, CeilShift, Sizes
  <2>. QED  BY <1>6, <2>1, <2>2
<1>8. app = WholeEncode.app /\ h3 = WholeEncode.h3
    BY <1>4, <1>6, <1>7, WholeIs, BufferIs
<1>9. WholeEncode' = WholeEncode
    BY <1>1, SamePlan
<1>10. app' = WholeEncode'.app /\ h3' = WholeEncode'.h3
    BY <1>1, <1>8, <1>9
<1>11. Reader' /\ Buffer'
    BY Unmoved, <1>1
<1>. QED  BY <1>1, <1>10, <1>11 DEF IInv, Progress

\* The last group ends the content; the one before it is full.
LEMMA GroupSizes ==
    ASSUME IInv, pc = "filled", NEW x \in Nat, Written(x)
    PROVE  /\ UsedBlocks \in 1 .. GroupBlocks /\ filled <= UsedBlocks * Block
           /\ \A b \in 1 .. GroupBlocks : b <= UsedBlocks <=> x * GroupBlocks + b <= PlainBlocks
           /\ filled = GroupBytes => UsedBlocks * Block = filled /\ UsedBlocks = GroupBlocks
           /\ filled < GroupBytes => /\ readPos = content.len
                                     /\ PlainBlocks = x * GroupBlocks + UsedBlocks
<1>1. /\ content.len \in Nat /\ readPos \in Nat /\ readPos <= content.len /\ filled \in Nat
      /\ readPos = x * GroupBytes + filled /\ filled <= GroupBytes
      /\ filled = GroupBytes \/ readPos = content.len
      /\ filled > 0 \/ x = 0
    BY BufferIs, Sizes DEF IInv, Progress, Written
<1>2. /\ x * GroupBlocks \in Nat /\ x * GroupBytes \in Nat /\ Block \in Nat \ {0}
      /\ GroupBlocks \in Nat \ {0} /\ GroupBytes \in Nat \ {0} /\ GroupBytes = GroupBlocks * Block
    BY Sizes DEF GroupBytes
<1>3. CASE filled = 0
  <2>1. x = 0 /\ 0 * GroupBytes = 0 /\ 0 * GroupBlocks = 0
    BY <1>1, <1>2, <1>3
  <2>2. content.len = 0 /\ readPos = content.len
    BY <1>1, <1>2, <1>3, <2>1
  <2>3. PlainBlocks = 1 /\ UsedBlocks = 1
    BY <1>3, <2>2 DEF PlainBlocks, UsedBlocks
  <2>4. filled <= UsedBlocks * Block
    BY <1>2, <1>3, <2>3
  <2>. QED  BY <1>1, <1>2, <1>3, <2>1, <2>2, <2>3, <2>4
<1>4. CASE filled # 0
  <2>1. filled \in 1 .. GroupBytes /\ UsedBlocks = DivCeil(filled, Block)
    BY <1>1, <1>2, <1>4 DEF UsedBlocks
  <2> DEFINE m == UsedBlocks
  <2>2. /\ m \in 1 .. GroupBlocks /\ filled <= m * Block
        /\ DivCeil(x * GroupBytes + filled, Block) = x * GroupBlocks + m
        /\ filled = GroupBytes => m = GroupBlocks
    BY <2>1, BlocksOf
  <2>3. content.len # 0
    BY <1>1, <1>2, <1>4
  <2>4. CASE readPos = content.len
    <3>1. PlainBlocks = x * GroupBlocks + m
        BY <1>1, <2>2, <2>3, <2>4 DEF PlainBlocks
    <3> HIDE DEF m
    <3>2. \A b \in 1 .. GroupBlocks : b <= m <=> x * GroupBlocks + b <= PlainBlocks
        BY <1>2, <2>2, <3>1
    <3>. QED  BY <1>1, <1>2, <2>2, <2>4, <3>1, <3>2 DEF m
  <2>5. CASE readPos # content.len
    <3>1. filled = GroupBytes /\ m = GroupBlocks
        BY <1>1, <2>2, <2>5
    <3>2. PlainBlocks = DivCeil(content.len, Block)
        BY <2>3 DEF PlainBlocks
    <3>3. PlainBlocks \in Nat /\ \A y \in Nat : y < PlainBlocks <=> y * Block < content.len
        BY <1>1, <1>2, <3>2, CeilAbove, CeilSays
    <3>4. ASSUME NEW b \in 1 .. GroupBlocks PROVE x * GroupBlocks + b <= PlainBlocks
      <4> DEFINE y == x * GroupBlocks + b - 1
      <4>1. /\ y \in Nat /\ y * Block <= x * GroupBytes + GroupBytes /\ y * Block \in Nat
            /\ y + 1 = x * GroupBlocks + b
        <5>1. y \in Nat /\ y <= x * GroupBlocks + GroupBlocks /\ y + 1 = x * GroupBlocks + b
            BY <1>2
        <5>2. (x * GroupBlocks + GroupBlocks) * Block = x * GroupBytes + GroupBytes
          <6>1. \A u, v, d \in Nat : (u + v) * d = u * d + v * d
            OBVIOUS
          <6>. QED  BY <1>2, <6>1, Sizes
        <5> HIDE DEF y
        <5> DEFINE top == x * GroupBlocks + GroupBlocks
        <5>3. top \in Nat /\ y <= top /\ Block \in Nat
            BY <1>2, <5>1
        <5> HIDE DEF top
        <5>4. y * Block <= top * Block /\ y * Block \in Nat
            BY <5>1, <5>3, ProductOrder, Product
        <5>. QED  BY <5>1, <5>2, <5>4 DEF top
      <4> HIDE DEF y
      <4>2. y * Block < content.len
        BY <1>1, <1>2, <2>5, <3>1, <4>1
      <4>3. y < PlainBlocks
        BY <3>3, <4>1, <4>2
      <4>. QED  BY <3>3, <4>1, <4>3
    <3>5. \A b \in 1 .. GroupBlocks : b <= m
        BY <1>2, <3>1
    <3> HIDE DEF m
    <3>. QED  BY <1>1, <1>2, <2>2, <3>1, <3>4, <3>5 DEF m
  <2>. QED  BY <2>4, <2>5
<1>. QED  BY <1>3, <1>4

LEMMA EncodedIsGroup ==
    ASSUME IInv, pc = "filled", NEW x \in Nat, Written(x)
    PROVE  IsGroup([k \in 1 .. UsedBlocks * Block |-> TailZeroed(k)], UsedBlocks,
                   Plaintext, PlainBlocks, x)
<1> DEFINE m == UsedBlocks
           N == PlainBlocks
           bytes == [k \in 1 .. m * Block |-> TailZeroed(k)]
<1>1. /\ m \in 1 .. GroupBlocks /\ filled <= m * Block
      /\ \A b \in 1 .. GroupBlocks : b <= m <=> x * GroupBlocks + b <= N
      /\ filled = GroupBytes => m * Block = filled
      /\ filled < GroupBytes => readPos = content.len
    BY GroupSizes
<1>2. /\ N \in Nat /\ x * GroupBlocks \in Nat /\ x * GroupBytes \in Nat
      /\ x * GroupBytes = (x * GroupBlocks) * Block
      /\ filled \in Nat /\ filled <= GroupBytes /\ content \in Contents
      /\ Block \in Nat /\ GroupBlocks \in Nat /\ GroupBytes \in Nat
  <2>1. /\ x * GroupBlocks \in Nat /\ x * GroupBytes \in Nat
        /\ x * GroupBytes = (x * GroupBlocks) * Block
        /\ Block \in Nat /\ GroupBlocks \in Nat /\ GroupBytes \in Nat
    BY Sizes
  <2>2. /\ content \in Contents /\ filled \in 0 .. Len(buf)
        /\ Len(buf) \in Nat /\ Len(buf) <= GroupBytes
    BY BufferIs
  <2>3. N \in Nat
    BY <2>2, WholeIs
  <2>. QED  BY <2>1, <2>2, <2>3
<1>3. x * GroupBlocks + m <= N
    BY <1>1, <1>2
<1>4. x * GroupBytes + m * Block <= N * Block /\ m * Block \in Nat /\ N * Block \in Nat
  <2> DEFINE q == x * GroupBlocks
             t == q + m
  <2>1. q \in Nat /\ t \in Nat /\ m \in Nat /\ t <= N
    BY <1>1, <1>2, <1>3
  <2> HIDE DEF q, m, N
  <2>2. \A u, v, d \in Nat : (u + v) * d = u * d + v * d
    OBVIOUS
  <2>3. t * Block = q * Block + m * Block
    BY <1>2, <2>1, <2>2
  <2> HIDE DEF t
  <2>4. t * Block <= N * Block
    BY <1>2, <2>1, ProductOrder
  <2>. QED  BY <1>2, <2>1, <2>3, <2>4, Product DEF q
<1> HIDE DEF m, N
<1>5. ASSUME NEW k \in 1 .. m * Block PROVE bytes[k] = Plaintext[x * GroupBytes + k]
  <2>1. k \in Nat /\ x * GroupBytes + k \in 1 .. N * Block
    BY <1>2, <1>4
  <2>2. Plaintext[x * GroupBytes + k] = PlanAt(x * GroupBytes + k)
    BY <2>1, PlaintextIs DEF N
  <2>3. CASE k <= filled
    <3>1. buf[k] = PlanAt(x * GroupBytes + k)
        BY <1>2, <2>1, <2>3 DEF Written
    <3>. QED  BY <2>2, <2>3, <3>1 DEF TailZeroed
  <2>4. CASE ~ (k <= filled)
    <3>1. filled # GroupBytes
        BY <1>1, <1>2, <1>4, <2>4 DEF m
    <3>2. readPos = content.len /\ readPos = x * GroupBytes + filled
        BY <1>1, <1>2, <3>1 DEF Written
    <3>3. content.len < x * GroupBytes + k /\ x * GroupBytes + k \in Nat
        BY <1>2, <2>1, <2>4, <3>2
    <3>4. PlanAt(x * GroupBytes + k) = ZeroByte
        BY <1>2, <3>3, PlanBehind
    <3>. QED  BY <2>2, <2>4, <3>4 DEF TailZeroed
  <2>. QED  BY <2>3, <2>4
<1> HIDE DEF bytes
<1>6. IsGroup(bytes, m, Plaintext, N, x)
    BY <1>1, <1>2, <1>5 DEF IsGroup, m, N
<1>. QED  BY <1>6 DEF bytes, m, N

\* A group that is encoded is the next one of the whole encoding.
LEMMA EncodeWrites ==
    ASSUME IInv, EncodeGroup, NEW x \in Nat, Written(x)
    PROVE  /\ app' = [b \in 1 .. x * GroupBlocks + UsedBlocks |-> WholeEncode.app[b]]
           /\ h3' = [n \in 1 .. x + 1 |-> WholeEncode.h3[n]]
<1> DEFINE m == UsedBlocks
           N == PlainBlocks
           bytes == [k \in 1 .. m * Block |-> TailZeroed(k)]
           q == x * GroupBlocks
<1>1. pc = "filled"
    BY DEF EncodeGroup
<1>2. IsGroup(bytes, m, Plaintext, N, x)
    BY <1>1, EncodedIsGroup
<1>3. /\ m \in 1 .. GroupBlocks /\ m \in Nat /\ q \in Nat /\ N \in Nat /\ content \in Contents
      /\ \A b \in 1 .. GroupBlocks : b <= m <=> q + b <= N
    BY <1>1, GroupSizes, BufferIs, Sizes, WholeIs
<1>4. /\ hl0' = H0(bytes, m) /\ hl1' = Level(hl0', m) /\ hl2' = Level(hl1', Sections(m))
      /\ h3' = Append(h3, H3Of(hl2', m))
      /\ app' = app \o [b \in 1 .. m |-> [header |-> Header(hl0', hl1', hl2', m, b),
                                          iv |-> hl0'[b], data |-> BlockOf(bytes, b)]]
    BY DEF EncodeGroup, GroupH3, DataIv
<1> HIDE DEF m, bytes, N
<1>5. /\ \A b \in 1 .. m :
            /\ Header(hl0', hl1', hl2', m, b) = Header(W0, W1, W2, N, q + b)
            /\ hl0'[b] = W0[q + b]
            /\ BlockOf(bytes, b) = BlockOf(Plaintext, q + b)
      /\ H3Of(hl2', m) = Level(W2, SuperSections(N))[x + 1]
  <2> DEFINE g0 == H0(bytes, m)
             g1 == Level(g0, m)
             g2 == Level(g1, Sections(m))
  <2>1. /\ \A b \in 1 .. m :
            /\ Header(g0, g1, g2, m, b) = Header(W0, W1, W2, N, x * GroupBlocks + b)
            /\ g0[b] = W0[x * GroupBlocks + b]
            /\ BlockOf(bytes, b) = BlockOf(Plaintext, x * GroupBlocks + b)
        /\ H3Of(g2, m) = Level(W2, SuperSections(N))[x + 1]
    BY <1>2, GroupShift DEF W0, W1, W2, N
  <2>2. hl0' = g0 /\ hl1' = g1 /\ hl2' = g2
    BY <1>4
  <2> HIDE DEF g0, g1, g2
  <2>. QED  BY <2>1, <2>2
<1>6. ASSUME NEW b \in 1 .. m
      PROVE  [header |-> Header(hl0', hl1', hl2', m, b), iv |-> hl0'[b],
              data |-> BlockOf(bytes, b)] = WholeEncode.app[q + b]
  <2>1. q + b \in 1 .. N
    BY <1>3
  <2>2. WholeEncode.app[q + b] = [header |-> Header(W0, W1, W2, N, q + b),
                                  iv |-> W0[q + b], data |-> BlockOf(Plaintext, q + b)]
    BY <1>3, <2>1, WholeIs DEF N
  <2>. QED  BY <1>5, <2>2
<1>7. app' = [b \in 1 .. q |-> WholeEncode.app[b]] \o [b \in 1 .. m |-> WholeEncode.app[q + b]]
    BY <1>4, <1>6 DEF Written
<1>8. h3' = Append([n \in 1 .. x |-> WholeEncode.h3[n]], WholeEncode.h3[x + 1])
    BY <1>3, <1>4, <1>5, WholeIs DEF Written, N
<1> HIDE DEF q
<1>9. app' = [b \in 1 .. q + m |-> WholeEncode.app[b]]
    BY <1>3, <1>7, Joined
<1>10. h3' = [n \in 1 .. x + 1 |-> WholeEncode.h3[n]]
    BY <1>8, Longer
<1>. QED  BY <1>9, <1>10 DEF q, m

LEMMA EncodeKeeps == ASSUME IInv, EncodeGroup PROVE IInv'
<1> DEFINE m == UsedBlocks
<1>1. /\ pc = "filled" /\ UNCHANGED <<content, readPos, fileIdx>> /\ filled' = 0
      /\ buf' = [k \in DOMAIN buf |-> IF k <= m * Block THEN CipherByte ELSE buf[k]]
      /\ pc' = IF filled < GroupBytes THEN "done" ELSE "read"
    BY DEF EncodeGroup, reader
<1>2. PICK x \in Nat : Written(x)
    BY <1>1 DEF IInv, Progress
<1>3. /\ app' = [b \in 1 .. x * GroupBlocks + m |-> WholeEncode.app[b]]
      /\ h3' = [n \in 1 .. x + 1 |-> WholeEncode.h3[n]]
    BY <1>2, EncodeWrites
<1>4. /\ m \in 1 .. GroupBlocks /\ GroupBlocks \in Nat \ {0}
      /\ filled = GroupBytes => m = GroupBlocks
      /\ filled < GroupBytes => readPos = content.len /\ PlainBlocks = x * GroupBlocks + m
    BY <1>1, <1>2, GroupSizes, Sizes
<1> HIDE DEF m
<1>5. Reader'
    BY <1>1 DEF IInv, Reader, End, FileAt
<1>6. Buffer'
  <2>1. buf \in Seq(Byte) /\ Len(buf) \in Nat /\ DOMAIN buf = 1 .. Len(buf)
    BY BufferIs
  <2>2. CipherByte \in Byte
    BY DEF CipherByte, Byte
  <2>3. buf' \in [1 .. Len(buf) -> Byte]
    <3>1. \A k \in 1 .. Len(buf) : buf[k] \in Byte
        BY <2>1
    <3>. QED  BY <1>1, <2>1, <2>2, <3>1
  <2>4. buf' \in Seq(Byte) /\ Len(buf') = Len(buf)
    <3>1. ASSUME NEW S, NEW k \in Nat, NEW b \in [1 .. k -> S] PROVE b \in Seq(S) /\ Len(b) = k
        OBVIOUS
    <3>. QED  BY <2>1, <2>3, <3>1
  <2>5. Block <= Len(buf') /\ Len(buf') <= GroupBytes /\ BufferProportional'
    BY <1>1, <2>4 DEF IInv, Buffer, BufferProportional
  <2>6. filled' \in 0 .. Len(buf')
    BY <1>1, <2>1, <2>4
  <2>. QED  BY <2>4, <2>5, <2>6 DEF Buffer
<1>7. WholeEncode' = WholeEncode
    BY <1>1, SamePlan
<1>8. CASE filled < GroupBytes
  <2>1. pc' = "done"
    BY <1>1, <1>8
  <2>2. DivCeil(PlainBlocks, GroupBlocks) = x + 1
    <3>1. m \in Nat /\ DivCeil(x * GroupBlocks + m, GroupBlocks) = x + DivCeil(m, GroupBlocks)
        BY <1>4, CeilShift
    <3>2. DivCeil(m, GroupBlocks) = 1
      <4>1. /\ DivCeil(m, GroupBlocks) \in Nat
            /\ \A y \in Nat : y < DivCeil(m, GroupBlocks) <=> y * GroupBlocks < m
        BY <1>4, <3>1, CeilSays, CeilAbove
      <4>2. 0 * GroupBlocks < m /\ ~ (1 * GroupBlocks < m)
        BY <1>4
      <4>3. 0 < DivCeil(m, GroupBlocks) /\ ~ (1 < DivCeil(m, GroupBlocks))
        BY <4>1, <4>2
      <4>. QED  BY <4>1, <4>3
    <3>. QED  BY <1>4, <1>8, <3>1, <3>2
  <2>3. app' = WholeEncode.app /\ h3' = WholeEncode.h3
    BY <1>3, <1>4, <1>8, <2>2, WholeIs, BufferIs
  <2>. QED  BY <1>5, <1>6, <1>7, <2>1, <2>3 DEF IInv, Progress
<1>9. CASE ~ (filled < GroupBytes)
  <2>1. pc' = "read" /\ filled = GroupBytes /\ m = GroupBlocks
    BY <1>1, <1>4, <1>9, BufferIs, Sizes
  <2>2. /\ (x + 1) * GroupBlocks = x * GroupBlocks + GroupBlocks
        /\ (x + 1) * GroupBytes = x * GroupBytes + GroupBytes /\ x * GroupBytes \in Nat
        /\ x + 1 \in Nat /\ GroupBytes \in Nat
    <3>1. \A a, b \in Nat : (a + 1) * b = a * b + b
        OBVIOUS
    <3>. QED  BY <3>1, Sizes
  <2>3. readPos' = (x + 1) * GroupBytes + filled'
    BY <1>1, <1>2, <2>1, <2>2 DEF Written
  <2>4. 1 .. filled' = {}
    BY <1>1
  <2>5. Written(x + 1)'
    BY <1>3, <1>7, <2>1, <2>2, <2>3, <2>4 DEF Written
  <2>. QED  BY <1>5, <1>6, <2>1, <2>2, <2>5 DEF IInv, Progress
<1>. QED  BY <1>8, <1>9

\* What a group holds before it is written, in every state of an encoding.
THEOREM Invariance == Spec => []IInv
<1>1. Init => IInv
    BY InitIInv
<1>2. IInv /\ [Next]_vars => IInv'
  <2> SUFFICES ASSUME IInv, [Next]_vars PROVE IInv'
    OBVIOUS
  <2>1. CASE ReadGap
    BY <2>1, GapKeeps
  <2>2. CASE ReadFile
    BY <2>2, FileKeeps
  <2>3. CASE ReadFails
    BY <2>3, ReadFailsKeeps
  <2>4. CASE ReadEnd
    BY <2>4, ReadEndKeeps
  <2>5. CASE GrowBuffer
    BY <2>5, GrowKeeps
  <2>6. CASE CleanEof
    BY <2>6, CleanEofKeeps
  <2>7. CASE GroupRead
    BY <2>7, GroupReadKeeps
  <2>8. CASE EncodeGroup
    BY <2>8, EncodeKeeps
  <2>9. CASE WriteFails
    BY <2>9, WriteFailsKeeps
  <2>10. CASE Tamper
    BY <2>10, TamperKeeps
  <2>11. CASE UNCHANGED vars
    <3>1. UNCHANGED <<content, readPos, fileIdx, filled, buf, app, h3, pc>>
        BY <2>11 DEF vars, reader
    <3>2. Reader' /\ Buffer' /\ \A x \in Nat : Written(x) => Written(x)'
        BY <3>1, Unmoved DEF Written
    <3>3. WholeEncode' = WholeEncode
        BY <3>1, SamePlan
    <3>. QED  BY <3>1, <3>2, <3>3 DEF IInv, Progress
  <2>. QED  BY <2>1, <2>2, <2>3, <2>4, <2>5, <2>6, <2>7, <2>8, <2>9, <2>10, <2>11
            DEF Next, Program
<1>. QED  BY <1>1, <1>2, PTL DEF Spec

\* Streaming in groups through the reused buffer writes what encoding the whole plaintext at
\* once would, whatever happens to the files of the content in between.
THEOREM Streams == Spec => []EncodesWhole
<1>1. IInv => EncodesWhole
    BY DEF IInv, Progress, EncodesWhole
<1>. QED  BY <1>1, Invariance, PTL

\* The buffer of encode_hashed_to_writer stays in proportion to the content.
THEOREM Proportional == Spec => []BufferProportional
<1>1. IInv => BufferProportional
    BY DEF IInv, Buffer
<1>. QED  BY <1>1, Invariance, PTL

-----------------------------------------------------------------------------
(***************************************************************************)
(* Reading the encoding back.                                              *)
(***************************************************************************)

\* The IV of a block stands in the first section of its header.
LEMMA IvInHeader ==
    ASSUME content \in Contents, NEW b \in 1 .. PlainBlocks
    PROVE  Decrypted(WholeEncode.app[b], WholeEncode.app[b].header[1][((b - 1) % Arity) + 1])
             = BlockOf(Plaintext, b)
<1>1. WholeEncode.app[b] = [header |-> Header(W0, W1, W2, PlainBlocks, b),
                            iv |-> W0[b], data |-> BlockOf(Plaintext, b)]
    BY WholeIs
<1>2. Header(W0, W1, W2, PlainBlocks, b)[1] = Section(W0, PlainBlocks, ((b - 1) \div Arity) * Arity)
    BY DEF Header
<1>3. PlainBlocks \in Nat /\ b \in Nat /\ b - 1 \in Nat /\ b <= PlainBlocks
    BY WholeIs
<1> DEFINE c == b - 1
<1>4. \E q \in Nat, r \in 0 .. Arity - 1 : c = q * Arity + r /\ q = c \div Arity /\ r = c % Arity
    BY <1>3, Sizes, DivMod
<1>5. PICK q \in Nat, r \in 0 .. Arity - 1 : c = q * Arity + r /\ q = c \div Arity /\ r = c % Arity
    BY <1>4
<1>6. q * Arity \in Nat /\ r \in Nat /\ r + 1 \in 1 .. Arity /\ q * Arity + (r + 1) = b
    BY <1>3, <1>5, Sizes
<1>7. Section(W0, PlainBlocks, q * Arity)[r + 1] = W0[b]
    BY <1>3, <1>6 DEF Section
<1>8. WholeEncode.app[b].header[1][(c % Arity) + 1] = W0[b]
    BY <1>1, <1>2, <1>5, <1>7
<1>. QED  BY <1>1, <1>8 DEF Decrypted

LEMMA DecodedIs ==
    ASSUME content \in Contents, app = WholeEncode.app
    PROVE  DecodeHashed = Plaintext
<1> DEFINE N == PlainBlocks
<1>1. N \in Nat /\ app = [b \in 1 .. N |-> WholeEncode.app[b]] /\ Block \in Nat \ {0}
    BY WholeIs, Sizes
<1>2. Len(app) = N
    BY <1>1
<1>3. ASSUME NEW k \in 1 .. N * Block
      PROVE  LET b == ((k - 1) \div Block) + 1
             IN  Decrypted(app[b], app[b].header[1][((b - 1) % Arity) + 1])[((k - 1) % Block) + 1]
                   = Plaintext[k]
  <2> DEFINE t == k - 1
             b == (t \div Block) + 1
  <2>1. N * Block \in Nat /\ t \in Nat /\ t < N * Block /\ t + 1 = k
    BY <1>1, Product
  <2>2. \E q \in Nat, r \in 0 .. Block - 1 : t = q * Block + r /\ q = t \div Block /\ r = t % Block
    BY <1>1, <2>1, DivMod
  <2>3. PICK q \in Nat, r \in 0 .. Block - 1 :
            t = q * Block + r /\ q = t \div Block /\ r = t % Block
    BY <2>2
  <2>4. t \div Block \in 0 .. N - 1
    <3> HIDE DEF t, N
    <3>. QED  BY <1>1, <2>1, DivBelow
  <2>5. b \in 1 .. N /\ b = q + 1
    BY <1>1, <2>3, <2>4
  <2>6. Decrypted(app[b], app[b].header[1][((b - 1) % Arity) + 1]) = BlockOf(Plaintext, b)
    <3> HIDE DEF b, N
    <3>1. b \in 1 .. PlainBlocks /\ app[b] = WholeEncode.app[b]
        BY <2>5 DEF N
    <3>. QED  BY <3>1, IvInHeader
  <2>7. r + 1 \in 1 .. Block /\ q * Block \in Nat /\ q * Block + (r + 1) = k
    BY <1>1, <2>1, <2>3
  <2>8. BlockOf(Plaintext, b)[r + 1] = Plaintext[(b - 1) * Block + (r + 1)]
    <3> HIDE DEF b
    <3>. QED  BY <2>7 DEF BlockOf
  <2>9. (b - 1) * Block = q * Block
    BY <2>5
  <2> HIDE DEF b
  <2>10. BlockOf(Plaintext, b)[(t % Block) + 1] = Plaintext[k]
    BY <2>3, <2>7, <2>8, <2>9
  <2>. QED  BY <2>6, <2>10 DEF b
<1>4. DecodeHashed = [k \in 1 .. N * Block |-> Plaintext[k]]
  <2> HIDE DEF N
  <2>. QED  BY <1>2, <1>3 DEF DecodeHashed
<1>5. Plaintext = [k \in 1 .. N * Block |-> Plaintext[k]]
    BY PlaintextIs
<1>. QED  BY <1>4, <1>5

\* The hashes taken group by group are those of the tree over the whole.
LEMMA GroupwiseIs ==
    ASSUME content \in Contents
    PROVE  ComputeH3(Plaintext, PlainBlocks) = WholeEncode.h3
<1> DEFINE N == PlainBlocks
<1>1. /\ N \in Nat /\ GroupBlocks \in Nat \ {0} /\ Block \in Nat
      /\ WholeEncode.h3 = [g \in 1 .. DivCeil(N, GroupBlocks) |-> WholeEncode.h3[g]]
      /\ WholeEncode.h3 = Level(W2, SuperSections(N))
    BY WholeIs, Sizes
<1>2. DivCeil(N, GroupBlocks) \in Nat
    BY <1>1, CeilSays
<1>3. ASSUME NEW g \in 1 .. DivCeil(N, GroupBlocks)
      PROVE  LET from == (g - 1) * GroupBlocks
                 count == Lesser(GroupBlocks, N - from)
                 chunk == [k \in 1 .. count * Block |-> Plaintext[from * Block + k]]
             IN H3Of(Level(Level(H0(chunk, count), count), Sections(count)), count)
                  = WholeEncode.h3[g]
  <2> DEFINE x == g - 1
             from == x * GroupBlocks
             count == Lesser(GroupBlocks, N - from)
             chunk == [k \in 1 .. count * Block |-> Plaintext[from * Block + k]]
  <2>1. x \in Nat /\ x < DivCeil(N, GroupBlocks) /\ x + 1 = g
    BY <1>2
  <2>2. from < N /\ from \in Nat /\ x * GroupBytes = from * Block
    <3> HIDE DEF x
    <3>. QED  BY <1>1, <2>1, CeilAbove, Sizes
  <2> HIDE DEF from, x, N
  <2>3. /\ count \in 1 .. GroupBlocks
        /\ \A b \in 1 .. GroupBlocks : b <= count <=> from + b <= N
    BY <1>1, <2>2 DEF Lesser
  <2> HIDE DEF count
  <2>4. \A k \in 1 .. count * Block : chunk[k] = Plaintext[x * GroupBytes + k]
    BY <2>2
  <2> HIDE DEF chunk
  <2>5. IsGroup(chunk, count, Plaintext, N, x)
    BY <1>1, <2>1, <2>3, <2>4 DEF IsGroup, from
  <2> DEFINE g0 == H0(chunk, count)
             g1 == Level(g0, count)
             g2 == Level(g1, Sections(count))
             w0 == H0(Plaintext, N)
             w1 == Level(w0, N)
             w2 == Level(w1, Sections(N))
  <2>6. H3Of(g2, count) = Level(w2, SuperSections(N))[x + 1]
    BY <2>5, GroupShift
  <2>7. w2 = W2
    BY DEF W0, W1, W2, N
  <2> HIDE DEF g2, w2
  <2>8. H3Of(g2, count) = WholeEncode.h3[g]
    BY <1>1, <2>1, <2>6, <2>7
  <2>. QED  BY <2>8 DEF g2, chunk, count, from, x
<1> HIDE DEF N
<1>4. ComputeH3(Plaintext, N) = [g \in 1 .. DivCeil(N, GroupBlocks) |-> WholeEncode.h3[g]]
    BY <1>3 DEF ComputeH3
<1>. QED  BY <1>1, <1>4 DEF N

\* decode_hashed gives the padded plaintext back, and compute_h3 the hashes that were recorded.
THEOREM ReadsBack == Spec => []DecodesBack
<1>1. ASSUME IInv, pc = "done"
      PROVE  DecodeHashed = Plaintext /\ ComputeH3(DecodeHashed, Len(app)) = h3
  <2>1. content \in Contents /\ app = WholeEncode.app /\ h3 = WholeEncode.h3
    BY <1>1 DEF IInv, Reader, Progress
  <2>2. Len(app) = PlainBlocks
    <3>1. PlainBlocks \in Nat /\ app = [b \in 1 .. PlainBlocks |-> WholeEncode.app[b]]
        BY <2>1, WholeIs
    <3>. QED  BY <3>1
  <2>. QED  BY <2>1, <2>2, DecodedIs, GroupwiseIs
<1>2. IInv => DecodesBack
    BY <1>1 DEF DecodesBack
<1>. QED  BY <1>2, Invariance, PTL
=============================================================================
