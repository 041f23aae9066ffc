------------------------ MODULE WrittenFiles_proofs ------------------------
(***************************************************************************)
(* Proofs about the files a run makes for other programs: the disc that is *)
(* authored for a GameCube game (AuthoredDisc), for every layout, every    *)
(* apploader, main.dol and image; what a call of the program does with its *)
(* options (CommandLine), for every command line, work directory and       *)
(* input; the meta.xml it writes (MetaXml), for every one of a base; and   *)
(* the patched fw.img and main.dol (BytePatches), for every image and      *)
(* every table of patches.                                                 *)
(***************************************************************************)
EXTENDS WrittenFiles, Integers, FiniteSetTheorems, TLAPS

-----------------------------------------------------------------------------
(***************************************************************************)
(* Arithmetic.                                                             *)
(***************************************************************************)
LEMMA DivMod ==
    ASSUME NEW a \in Nat, NEW d \in Nat \ {0}
    PROVE  \E q \in Nat, r \in 0 .. d - 1 : a = q * d + r /\ q = a \div d /\ r = a % d
OBVIOUS

LEMMA DivUnique ==
    ASSUME NEW d \in Nat \ {0}, NEW q \in Nat, NEW r \in 0 .. d - 1
    PROVE  (q * d + r) \div d = q /\ (q * d + r) % d = r
OBVIOUS

LEMMA Product == \A a, b \in Nat : a * b \in Nat
OBVIOUS

LEMMA ProductOrder == ASSUME NEW a \in Nat, NEW b \in Nat, NEW c \in Nat, a <= b
                      PROVE  a * c <= b * c
OBVIOUS

LEMMA Quadruple == ASSUME NEW a \in Nat, NEW b \in Nat, b % 4 = 0 PROVE (a * b) % 4 = 0
<1>1. b = 4 * (b \div 4) /\ b \div 4 \in Nat
    OBVIOUS
<1>2. a * b = 4 * (a * (b \div 4)) /\ a * (b \div 4) \in Nat
    BY <1>1
<1>3. \A n \in Nat : (4 * n) % 4 = 0
    OBVIOUS
<1>. QED  BY <1>2, <1>3

LEMMA CeilDivIs ==
    ASSUME NEW n \in Nat, NEW d \in Nat \ {0}
    PROVE  /\ CeilDiv(n, d) \in Nat
           /\ n <= CeilDiv(n, d) * d
           /\ \A q \in Nat : n <= q * d => CeilDiv(n, d) <= q
BY DEF CeilDiv

LEMMA AlignUpIs ==
    ASSUME NEW n \in Nat, NEW a \in Nat \ {0}, a % 4 = 0
    PROVE  AlignUp(n, a) \in Nat /\ n <= AlignUp(n, a) /\ 4 * Shifted(AlignUp(n, a)) = AlignUp(n, a)
<1>1. CeilDiv(n, a) \in Nat /\ n <= CeilDiv(n, a) * a
    BY CeilDivIs
<1>2. (CeilDiv(n, a) * a) % 4 = 0 /\ CeilDiv(n, a) * a \in Nat
    BY <1>1, Quadruple, Product
<1>3. \A m \in Nat : m % 4 = 0 => 4 * (m \div 4) = m
    OBVIOUS
<1>. QED  BY <1>1, <1>2, <1>3 DEF AlignUp, Shifted

LEMMA LayoutIs ==
    /\ {BootLen, CertRoom, HashBlock, PartAbs, DataPartOff, Sector, DataAbs, GroupLogicalSize,
        MaxLogicalSize} \subseteq Nat
    /\ {Alignment, ClusterData, GroupClusters, MaxH3Groups, FieldMax, FstLen, Sector,
        GroupLogicalSize} \subseteq Nat \ {0}
    /\ \A n \in {Alignment, FstLen, GroupLogicalSize, Sector, PartAbs, DataPartOff} : n % 4 = 0
    /\ MaxH3Groups * GroupClusters * Sector <= 4 * FieldMax
    /\ MaxLogicalSize <= 4 * FieldMax
<1>1. GroupClusters \in Nat \ {0} /\ ClusterData \in Nat \ {0} /\ MaxH3Groups \in Nat
    BY LayoutAssumption
<1>2. GroupLogicalSize \in Nat \ {0}
    BY <1>1 DEF GroupLogicalSize
<1>3. MaxLogicalSize \in Nat
    BY <1>1, <1>2, Product DEF MaxLogicalSize
<1>4. /\ {Alignment, ClusterData, GroupClusters, MaxH3Groups, FieldMax, FstLen} \subseteq Nat \ {0}
      /\ {BootLen, CertRoom, HashBlock, PartAbs, DataPartOff} \subseteq Nat
    BY LayoutAssumption
<1>5. Sector \in Nat \ {0} /\ DataAbs \in Nat
    BY <1>4 DEF Sector, DataAbs
<1>. QED  BY <1>2, <1>3, <1>4, <1>5, LayoutAssumption

-----------------------------------------------------------------------------
(***************************************************************************)
(* The objects of the system area.                                         *)
(***************************************************************************)
Objects == {"zero", "boot", "apploader", "dol", "fst", "iso"}
Byte == [of : Objects, at : Nat]
ADisc == [apploader : Nat, dol : Nat, iso : Nat, certs : Nat]

LEMMA ObjectIs ==
    ASSUME NEW name \in Objects, NEW n \in Nat
    PROVE  /\ Object(name, n) \in Seq(Byte) /\ Len(Object(name, n)) = n
           /\ \A x \in 1 .. n : Object(name, n)[x] = [of |-> name, at |-> x]
BY DEF Object, Byte

LEMMA ConcatIs ==
    ASSUME NEW v \in Seq(Byte), NEW w \in Seq(Byte)
    PROVE  /\ v \o w \in Seq(Byte) /\ Len(v \o w) = Len(v) + Len(w)
           /\ \A x \in 1 .. Len(v) : (v \o w)[x] = v[x]
           /\ \A x \in 1 .. Len(w) : (v \o w)[Len(v) + x] = w[x]
OBVIOUS

LEMMA PadToIs ==
    ASSUME NEW v \in Seq(Byte), NEW n \in Nat, Len(v) <= n
    PROVE  /\ PadTo(v, n) \in Seq(Byte) /\ Len(PadTo(v, n)) = n
           /\ \A x \in 1 .. Len(v) : PadTo(v, n)[x] = v[x]
<1> DEFINE m == IF n > Len(v) THEN n - Len(v) ELSE 0
           z == [x \in 1 .. m |-> Zero]
<1>1. m \in Nat /\ m = n - Len(v)
    OBVIOUS
<1>2. z \in Seq(Byte) /\ Len(z) = m
  <2>1. Zero \in Byte
    BY DEF Zero, Byte, Objects
  <2> HIDE DEF m
  <2>. QED  BY <1>1, <2>1
<1>3. PadTo(v, n) = v \o z
    BY DEF PadTo
<1> HIDE DEF z
<1>. QED  BY <1>1, <1>2, <1>3, ConcatIs

\* Where the objects begin and end.
LoaderEnd(d) == BootLen + d.apploader
DolOff(d) == AlignUp(LoaderEnd(d), Alignment)
DolEnd(d) == DolOff(d) + d.dol
FstOff(d) == AlignUp(DolEnd(d), Alignment)
FstEnd(d) == FstOff(d) + FstLen
IsoOff(d) == AlignUp(FstEnd(d), GroupLogicalSize)

LEMMA Offsets ==
    ASSUME NEW d \in ADisc
    PROVE  /\ {LoaderEnd(d), DolOff(d), DolEnd(d), FstOff(d), FstEnd(d), IsoOff(d)} \subseteq Nat
           /\ BootLen <= LoaderEnd(d) /\ LoaderEnd(d) <= DolOff(d) /\ DolOff(d) <= DolEnd(d)
           /\ DolEnd(d) <= FstOff(d) /\ FstOff(d) < FstEnd(d) /\ FstEnd(d) <= IsoOff(d)
           /\ 4 * Shifted(DolOff(d)) = DolOff(d) /\ 4 * Shifted(FstOff(d)) = FstOff(d)
           /\ 4 * Shifted(IsoOff(d)) = IsoOff(d) /\ 4 * Shifted(FstLen) = FstLen
<1>1. d.apploader \in Nat /\ d.dol \in Nat
    BY DEF ADisc
<1>2. LoaderEnd(d) \in Nat /\ BootLen <= LoaderEnd(d)
    BY <1>1, LayoutIs DEF LoaderEnd
<1>3. /\ DolOff(d) \in Nat /\ LoaderEnd(d) <= DolOff(d) /\ 4 * Shifted(DolOff(d)) = DolOff(d)
    BY <1>2, LayoutIs, AlignUpIs DEF DolOff
<1>4. DolEnd(d) \in Nat /\ DolOff(d) <= DolEnd(d)
    BY <1>1, <1>3 DEF DolEnd
<1>5. /\ FstOff(d) \in Nat /\ DolEnd(d) <= FstOff(d) /\ 4 * Shifted(FstOff(d)) = FstOff(d)
    BY <1>4, LayoutIs, AlignUpIs DEF FstOff
<1>6. FstEnd(d) \in Nat /\ FstOff(d) < FstEnd(d)
    BY <1>5, LayoutIs DEF FstEnd
<1>7. /\ IsoOff(d) \in Nat /\ FstEnd(d) <= IsoOff(d) /\ 4 * Shifted(IsoOff(d)) = IsoOff(d)
    BY <1>6, LayoutIs, AlignUpIs DEF IsoOff
<1>8. FstLen \in Nat /\ FstLen % 4 = 0
    BY LayoutIs
<1>9. 4 * Shifted(FstLen) = FstLen
    BY <1>8 DEF Shifted
<1>. QED  BY <1>2, <1>3, <1>4, <1>5, <1>6, <1>7, <1>9

\* build_sys_blob puts each object where its pointer says.
LEMMA SysBlobIs ==
    ASSUME NEW d \in ADisc
    PROVE  LET s == SysBlob(d)
           IN /\ s.isoOff = IsoOff(d) /\ s.bytes \in Seq(Byte) /\ Len(s.bytes) = IsoOff(d)
              /\ s.boot = [dol |-> Shifted(DolOff(d)), fst |-> Shifted(FstOff(d)),
                           fstLen |-> Shifted(FstLen)]
              /\ s.fst = [off |-> Shifted(IsoOff(d)), size |-> d.iso]
              /\ \A x \in 1 .. BootLen : s.bytes[x] = [of |-> "boot", at |-> x]
              /\ \A x \in 1 .. d.apploader :
                    s.bytes[BootLen + x] = [of |-> "apploader", at |-> x]
              /\ \A x \in 1 .. d.dol : s.bytes[DolOff(d) + x] = [of |-> "dol", at |-> x]
              /\ \A x \in 1 .. FstLen : s.bytes[FstOff(d) + x] = [of |-> "fst", at |-> x]
<1> DEFINE boot == Object("boot", BootLen)
           app0 == Object("apploader", d.apploader)
           dol0 == Object("dol", d.dol)
           fst0 == Object("fst", FstLen)
           loader == Aligned(boot \o app0)
           dol == Aligned(loader \o dol0)
           bytes == PadTo(dol \o fst0, IsoOff(d))
<1>1. d.apploader \in Nat /\ d.dol \in Nat /\ d.iso \in Nat /\ BootLen \in Nat /\ FstLen \in Nat
    BY LayoutIs DEF ADisc
<1>2. /\ boot \in Seq(Byte) /\ Len(boot) = BootLen /\ app0 \in Seq(Byte) /\ Len(app0) = d.apploader
      /\ dol0 \in Seq(Byte) /\ Len(dol0) = d.dol /\ fst0 \in Seq(Byte) /\ Len(fst0) = FstLen
    BY <1>1, ObjectIs DEF Objects
<1>3. /\ \A x \in 1 .. BootLen : boot[x] = [of |-> "boot", at |-> x]
      /\ \A x \in 1 .. d.apploader : app0[x] = [of |-> "apploader", at |-> x]
      /\ \A x \in 1 .. d.dol : dol0[x] = [of |-> "dol", at |-> x]
      /\ \A x \in 1 .. FstLen : fst0[x] = [of |-> "fst", at |-> x]
    BY <1>1, ObjectIs DEF Objects
<1> HIDE DEF boot, app0, dol0, fst0
<1>4. /\ boot \o app0 \in Seq(Byte) /\ Len(boot \o app0) = LoaderEnd(d)
      /\ \A x \in 1 .. BootLen : (boot \o app0)[x] = boot[x]
      /\ \A x \in 1 .. d.apploader : (boot \o app0)[BootLen + x] = app0[x]
  <2>1. BootLen + d.apploader = LoaderEnd(d)
    BY DEF LoaderEnd
  <2>2. /\ boot \o app0 \in Seq(Byte) /\ Len(boot \o app0) = Len(boot) + Len(app0)
        /\ \A x \in 1 .. Len(boot) : (boot \o app0)[x] = boot[x]
        /\ \A x \in 1 .. Len(app0) : (boot \o app0)[Len(boot) + x] = app0[x]
    BY <1>2, ConcatIs
  <2>. QED  BY <1>2, <2>1, <2>2
<1>5. /\ loader \in Seq(Byte) /\ Len(loader) = DolOff(d)
      /\ \A x \in 1 .. LoaderEnd(d) : loader[x] = (boot \o app0)[x]
  <2>1. loader = PadTo(boot \o app0, DolOff(d))
    BY <1>4 DEF Aligned, DolOff
  <2>2. LoaderEnd(d) \in Nat /\ DolOff(d) \in Nat /\ LoaderEnd(d) <= DolOff(d)
    BY Offsets
  <2>. HIDE DEF loader
  <2>. QED  BY <1>4, <2>1, <2>2, PadToIs
<1> HIDE DEF loader
<1>6. /\ loader \o dol0 \in Seq(Byte) /\ Len(loader \o dol0) = DolEnd(d)
      /\ \A x \in 1 .. DolOff(d) : (loader \o dol0)[x] = loader[x]
      /\ \A x \in 1 .. d.dol : (loader \o dol0)[DolOff(d) + x] = dol0[x]
  <2>1. DolOff(d) + d.dol = DolEnd(d)
    BY DEF DolEnd
  <2>2. /\ loader \o dol0 \in Seq(Byte) /\ Len(loader \o dol0) = Len(loader) + Len(dol0)
        /\ \A x \in 1 .. Len(loader) : (loader \o dol0)[x] = loader[x]
        /\ \A x \in 1 .. Len(dol0) : (loader \o dol0)[Len(loader) + x] = dol0[x]
    BY <1>2, <1>5, ConcatIs
  <2>. QED  BY <1>2, <1>5, <2>1, <2>2
<1>7. /\ dol \in Seq(Byte) /\ Len(dol) = FstOff(d)
      /\ \A x \in 1 .. DolEnd(d) : dol[x] = (loader \o dol0)[x]
  <2>1. dol = PadTo(loader \o dol0, FstOff(d))
    BY <1>6 DEF Aligned, FstOff
  <2>2. DolEnd(d) \in Nat /\ FstOff(d) \in Nat /\ DolEnd(d) <= FstOff(d)
    BY Offsets
  <2>. HIDE DEF dol
  <2>. QED  BY <1>6, <2>1, <2>2, PadToIs
<1> HIDE DEF dol
<1>8. /\ dol \o fst0 \in Seq(Byte) /\ Len(dol \o fst0) = FstEnd(d)
      /\ \A x \in 1 .. FstOff(d) : (dol \o fst0)[x] = dol[x]
      /\ \A x \in 1 .. FstLen : (dol \o fst0)[FstOff(d) + x] = fst0[x]
  <2>1. FstOff(d) + FstLen = FstEnd(d)
    BY DEF FstEnd
  <2>2. /\ dol \o fst0 \in Seq(Byte) /\ Len(dol \o fst0) = Len(dol) + Len(fst0)
        /\ \A x \in 1 .. Len(dol) : (dol \o fst0)[x] = dol[x]
        /\ \A x \in 1 .. Len(fst0) : (dol \o fst0)[Len(dol) + x] = fst0[x]
    BY <1>2, <1>7, ConcatIs
  <2>. QED  BY <1>2, <1>7, <2>1, <2>2
<1>9. /\ bytes \in Seq(Byte) /\ Len(bytes) = IsoOff(d)
      /\ \A x \in 1 .. FstEnd(d) : bytes[x] = (dol \o fst0)[x]
  <2>1. FstEnd(d) \in Nat /\ IsoOff(d) \in Nat /\ FstEnd(d) <= IsoOff(d)
    BY Offsets
  <2>. QED  BY <1>8, <2>1, PadToIs
<1> HIDE DEF bytes
<1>10. /\ SysBlob(d).isoOff = IsoOff(d) /\ SysBlob(d).bytes = bytes
       /\ SysBlob(d).boot = [dol |-> Shifted(DolOff(d)), fst |-> Shifted(FstOff(d)),
                             fstLen |-> Shifted(FstLen)]
       /\ SysBlob(d).fst = [off |-> Shifted(IsoOff(d)), size |-> d.iso]
  <2>1. AlignUp(Len(dol) + FstLen, GroupLogicalSize) = IsoOff(d)
    BY <1>7 DEF IsoOff, FstEnd
  <2>. QED  BY <2>1, <1>5, <1>7 DEF SysBlob, bytes, dol, loader, boot, app0, dol0, fst0
<1>11. \A x \in 1 .. BootLen : bytes[x] = [of |-> "boot", at |-> x]
  <2>1. ASSUME NEW x \in 1 .. BootLen PROVE bytes[x] = [of |-> "boot", at |-> x]
    <3>1. /\ x \in 1 .. LoaderEnd(d) /\ x \in 1 .. DolOff(d) /\ x \in 1 .. DolEnd(d)
          /\ x \in 1 .. FstOff(d) /\ x \in 1 .. FstEnd(d)
        BY <1>1, Offsets
    <3>2. bytes[x] = dol[x]
        BY <1>8, <1>9, <3>1
    <3>3. dol[x] = loader[x]
        BY <1>6, <1>7, <3>1
    <3>. QED  BY <1>3, <1>4, <1>5, <3>1, <3>2, <3>3
  <2>. QED  BY <2>1
<1>12. \A x \in 1 .. d.apploader : bytes[BootLen + x] = [of |-> "apploader", at |-> x]
  <2>1. ASSUME NEW x \in 1 .. d.apploader PROVE bytes[BootLen + x] = [of |-> "apploader", at |-> x]
    <3>1. BootLen + x \in 1 .. LoaderEnd(d)
        BY <1>1 DEF LoaderEnd
    <3>2. /\ BootLen + x \in 1 .. DolOff(d) /\ BootLen + x \in 1 .. DolEnd(d)
          /\ BootLen + x \in 1 .. FstOff(d) /\ BootLen + x \in 1 .. FstEnd(d)
        BY <3>1, Offsets
    <3>3. bytes[BootLen + x] = dol[BootLen + x]
        BY <1>8, <1>9, <3>2
    <3>4. dol[BootLen + x] = loader[BootLen + x]
        BY <1>6, <1>7, <3>2
    <3>. QED  BY <1>3, <1>4, <1>5, <3>1, <3>3, <3>4
  <2>. QED  BY <2>1
<1>13. \A x \in 1 .. d.dol : bytes[DolOff(d) + x] = [of |-> "dol", at |-> x]
  <2>1. ASSUME NEW x \in 1 .. d.dol PROVE bytes[DolOff(d) + x] = [of |-> "dol", at |-> x]
    <3>1. DolOff(d) + x \in 1 .. DolEnd(d)
        BY <1>1, Offsets DEF DolEnd
    <3>2. DolOff(d) + x \in 1 .. FstOff(d) /\ DolOff(d) + x \in 1 .. FstEnd(d)
        BY <3>1, Offsets
    <3>3. bytes[DolOff(d) + x] = dol[DolOff(d) + x]
        BY <1>8, <1>9, <3>2
    <3>. QED  BY <1>3, <1>6, <1>7, <3>1, <3>3
  <2>. QED  BY <2>1
<1>14. \A x \in 1 .. FstLen : bytes[FstOff(d) + x] = [of |-> "fst", at |-> x]
  <2>1. ASSUME NEW x \in 1 .. FstLen PROVE FstOff(d) + x \in 1 .. FstEnd(d)
    BY <1>1, Offsets DEF FstEnd
  <2>. QED  BY <1>3, <1>8, <1>9, <2>1
<1>. QED  BY <1>9, <1>10, <1>11, <1>12, <1>13, <1>14

-----------------------------------------------------------------------------
(***************************************************************************)
(* Clusters and groups.                                                    *)
(***************************************************************************)
\* Where cluster c begins on the disc.
Placed(c) == DataAbs + c * Sector

LEMMA PlacedIs ==
    ASSUME NEW c \in Nat
    PROVE  /\ Placed(c) \in Nat /\ Placed(c) = DataAbs + c * Sector /\ c * Sector \in Nat
           /\ (Placed(c) - DataAbs) \div Sector = c
<1>1. Sector \in Nat \ {0} /\ DataAbs \in Nat
    BY LayoutIs
<1>2. c * Sector \in Nat /\ (c * Sector + 0) \div Sector = c
    BY <1>1, Product, DivUnique
<1>3. (c * Sector) \div Sector = c
    BY <1>2
<1>4. Placed(c) - DataAbs = c * Sector
    BY <1>1, <1>2 DEF Placed
<1>. QED  BY <1>1, <1>2, <1>3, <1>4 DEF Placed

LEMMA PlacedApart == \A c, e \in Nat : Placed(c) = Placed(e) => c = e
<1>1. ASSUME NEW c \in Nat, NEW e \in Nat, Placed(c) = Placed(e) PROVE c = e
    BY <1>1, PlacedIs
<1>. QED  BY <1>1

\* How many clusters and groups there are, and that a disc within the limits fits its fields.
LEMMA CountsAre ==
    ASSUME NEW d \in ADisc
    PROVE  /\ TotalClusters(d) \in Nat /\ NumGroups(d) \in Nat
           /\ IsoOff(d) + d.iso <= TotalClusters(d) * ClusterData
           /\ TotalClusters(d) <= NumGroups(d) * GroupClusters
           /\ \A n \in Nat : TotalClusters(d) <= n * GroupClusters => NumGroups(d) <= n
<1>1. d.iso \in Nat /\ IsoOff(d) \in Nat /\ SysBlob(d).isoOff = IsoOff(d)
    BY Offsets, SysBlobIs DEF ADisc
<1>2. TotalClusters(d) = CeilDiv(IsoOff(d) + d.iso, ClusterData)
    BY <1>1 DEF TotalClusters
<1>3. IsoOff(d) + d.iso \in Nat /\ ClusterData \in Nat \ {0} /\ GroupClusters \in Nat \ {0}
    BY <1>1, LayoutIs
<1>4. TotalClusters(d) \in Nat /\ IsoOff(d) + d.iso <= TotalClusters(d) * ClusterData
    BY <1>2, <1>3, CeilDivIs
<1>. QED  BY <1>3, <1>4, CeilDivIs DEF NumGroups

LEMMA WithinIs ==
    ASSUME NEW d \in ADisc, IsoOff(d) + d.iso <= MaxLogicalSize
    PROVE  /\ NumGroups(d) <= MaxH3Groups
           /\ 4 * Shifted(TotalClusters(d) * Sector) = TotalClusters(d) * Sector
           /\ Fits(Shifted(TotalClusters(d) * Sector))
           /\ Fits(d.iso) => SysBlob(d).fits
<1>0. /\ ClusterData \in Nat \ {0} /\ GroupClusters \in Nat \ {0} /\ MaxH3Groups \in Nat
      /\ Sector \in Nat /\ Sector % 4 = 0 /\ FieldMax \in Nat
    BY LayoutIs
<1>10. d.iso \in Nat /\ IsoOff(d) \in Nat
    BY Offsets DEF ADisc
<1>11. /\ SysBlob(d).isoOff = IsoOff(d)
       /\ SysBlob(d).boot = [dol |-> Shifted(DolOff(d)), fst |-> Shifted(FstOff(d)),
                             fstLen |-> Shifted(FstLen)]
       /\ SysBlob(d).fst = [off |-> Shifted(IsoOff(d)), size |-> d.iso]
    BY SysBlobIs
<1>1. TotalClusters(d) <= MaxH3Groups * GroupClusters
  <2>1. MaxLogicalSize = (MaxH3Groups * GroupClusters) * ClusterData
        /\ MaxH3Groups * GroupClusters \in Nat
    BY <1>0 DEF MaxLogicalSize, GroupLogicalSize
  <2>2. IsoOff(d) + d.iso \in Nat /\ TotalClusters(d) = CeilDiv(IsoOff(d) + d.iso, ClusterData)
    BY <1>10, <1>11 DEF TotalClusters
  <2>. QED  BY <1>0, <2>1, <2>2, CeilDivIs
<1>2. NumGroups(d) <= MaxH3Groups
    BY <1>0, <1>1, CountsAre
<1>3. TotalClusters(d) * Sector \in Nat /\ (TotalClusters(d) * Sector) % 4 = 0
    BY <1>0, CountsAre, Quadruple, Product
<1>4. TotalClusters(d) * Sector <= 4 * FieldMax
  <2>1. TotalClusters(d) * Sector <= (MaxH3Groups * GroupClusters) * Sector
    BY <1>0, <1>1, CountsAre, ProductOrder, Product
  <2>. QED  BY <1>0, <1>3, <2>1, LayoutIs, Product
<1>5. \A n \in Nat : n <= 4 * FieldMax => n \div 4 <= FieldMax /\ n \div 4 \in Nat
    BY <1>0
<1>6. \A n \in Nat : n % 4 = 0 => 4 * (n \div 4) = n
    OBVIOUS
<1>7. ASSUME Fits(d.iso) PROVE SysBlob(d).fits
  <2>1. {DolOff(d), FstOff(d), FstLen, IsoOff(d)} \subseteq Nat
    BY Offsets, LayoutIs
  <2>2. \A n \in {DolOff(d), FstOff(d), FstLen, IsoOff(d)} : n <= 4 * FieldMax
    <3>1. FstLen <= FstEnd(d)
        BY Offsets, LayoutIs DEF FstEnd
    <3>2. IsoOff(d) <= 4 * FieldMax
        BY <1>10, LayoutIs
    <3>. QED  BY <1>0, <2>1, <3>1, <3>2, Offsets
  <2>3. \A n \in {DolOff(d), FstOff(d), FstLen, IsoOff(d)} : Fits(Shifted(n))
    BY <1>5, <2>1, <2>2 DEF Fits, Shifted
  <2>4. SysBlob(d).fits
            <=> \A v \in {SysBlob(d).fst.off, SysBlob(d).fst.size, SysBlob(d).boot.dol,
                           SysBlob(d).boot.fst, SysBlob(d).boot.fstLen} : Fits(v)
    BY DEF SysBlob
  <2>5. /\ SysBlob(d).fst.off = Shifted(IsoOff(d)) /\ SysBlob(d).fst.size = d.iso
        /\ SysBlob(d).boot.dol = Shifted(DolOff(d)) /\ SysBlob(d).boot.fst = Shifted(FstOff(d))
        /\ SysBlob(d).boot.fstLen = Shifted(FstLen)
    BY <1>11
  <2>. QED  BY <1>7, <2>3, <2>4, <2>5
<1>. QED  BY <1>2, <1>3, <1>4, <1>5, <1>6, <1>7 DEF Shifted, Fits

-----------------------------------------------------------------------------
(***************************************************************************)
(* What the file holds at each step.                                       *)
(***************************************************************************)
\* The clusters written before group n.
Before(n) == {c \in Nat : c < n * GroupClusters /\ c < TotalClusters(in)}

GroupsWritten ==
    /\ g \in Nat /\ g <= NumGroups(in)
    /\ DOMAIN h3 = 0 .. g - 1
    /\ \A n \in 0 .. g - 1 : h3[n] = GroupOf(n)
    /\ DOMAIN data = {Placed(c) : c \in Before(g)}
    /\ \A c \in Before(g) : data[Placed(c)] = ClusterAt(c * ClusterData)

DiscInv ==
    /\ in \in ADisc
    /\ pc \in {"check", "open", "groups", "partition", "done", "refused", "failed"}
    /\ pc # "check" => sys = SysBlob(in)
    /\ pc \in {"open", "groups", "partition", "done"} => WithinLimits(in)
    /\ pc = "refused" => \/ in.iso > FieldMax \/ in.certs > CertRoom
                         \/ sys.isoOff + in.iso > MaxLogicalSize
    /\ pc \in {"check", "open"} => g = 0 /\ data = <<>> /\ h3 = <<>>
    /\ pc \in {"groups", "partition", "done"} => GroupsWritten
    /\ pc \in {"partition", "done"} => g = NumGroups(in)
    /\ pc = "partition" => headers = [disc |-> DiscHeader]
    /\ pc = "done" =>
           LET header == PartitionHeader(in, Tmd(h3), h3)
           IN /\ headers = [disc |-> DiscHeader, partition |-> header]
              /\ result = [ticket |-> header.ticket, tmd |-> header.tmd, h3 |-> h3,
                           dataStart |-> DataAbs,
                           discSize |-> DataAbs + TotalClusters(in) * Sector]

LEMMA InitDisc == ASSUME Init PROVE DiscInv
<1>1. in \in ADisc /\ pc = "check" /\ g = 0 /\ data = <<>> /\ h3 = <<>>
    BY DiscsAssumption DEF Init, ADisc
<1>. QED  BY <1>1 DEF DiscInv

LEMMA WithinSays ==
    ASSUME NEW d \in ADisc
    PROVE  WithinLimits(d) <=> d.iso <= FieldMax /\ IsoOff(d) + d.iso <= MaxLogicalSize
BY SysBlobIs DEF WithinLimits, Fits

\* Only the limits of the image, the certificates and the H3 table can end the call here.
LEMMA CheckStep == ASSUME DiscInv, Check PROVE DiscInv'
<1>1. in \in ADisc /\ g = 0 /\ data = <<>> /\ h3 = <<>>
    BY DEF DiscInv, Check
<1>2. /\ UNCHANGED <<in, g, data, h3, headers, result>> /\ sys' = SysBlob(in)
      /\ \/ pc' = "open" /\ WithinLimits(in)
         \/ pc' = "refused" /\ ~ (in.certs <= CertRoom /\ sys'.fits /\ WithinLimits(in))
    BY DEF Check, Refuse
<1>3. pc' = "refused" => \/ in.iso > FieldMax \/ in.certs > CertRoom
                         \/ IsoOff(in) + in.iso > MaxLogicalSize
  <2>1. /\ in.iso \in Nat /\ in.certs \in Nat /\ IsoOff(in) \in Nat
        /\ FieldMax \in Nat /\ CertRoom \in Nat /\ MaxLogicalSize \in Nat
    BY <1>1, Offsets, LayoutIs DEF ADisc
  <2>2. in.iso <= FieldMax /\ IsoOff(in) + in.iso <= MaxLogicalSize =>
            SysBlob(in).fits /\ WithinLimits(in)
    BY <1>1, WithinIs, WithinSays DEF Fits
  <2>. QED  BY <1>2, <2>1, <2>2
<1>4. SysBlob(in).isoOff = IsoOff(in)
    BY <1>1, SysBlobIs
<1>5. WithinLimits(in)' <=> WithinLimits(in)
    BY <1>2 DEF WithinLimits
<1>6. SysBlob(in)' = SysBlob(in)
    BY <1>2
<1>. QED  BY <1>1, <1>2, <1>3, <1>4, <1>5, <1>6 DEF DiscInv

LEMMA OpenStep == ASSUME DiscInv, Open PROVE DiscInv'
<1>1. /\ in \in ADisc /\ g = 0 /\ data = <<>> /\ h3 = <<>> /\ sys = SysBlob(in)
      /\ WithinLimits(in)
    BY DEF DiscInv, Open
<1>2. pc' = "groups" /\ UNCHANGED <<in, sys, g, data, h3, headers, result>>
    BY DEF Open
<1>3. Before(g) = {}
  <2>1. GroupClusters \in Nat
    BY LayoutIs
  <2>2. 0 * GroupClusters = 0
    BY <2>1
  <2>. QED  BY <1>1, <2>2 DEF Before
<1>4. GroupsWritten
    BY <1>1, <1>3, CountsAre DEF GroupsWritten
<1>5. GroupsWritten' /\ WithinLimits(in)' /\ sys' = SysBlob(in)'
    BY <1>1, <1>2, <1>4 DEF GroupsWritten, Before, WithinLimits, TotalClusters, NumGroups, GroupOf,
        ClusterAt
<1>. QED  BY <1>1, <1>2, <1>5 DEF DiscInv

\* The group's clusters that exist come behind those of the groups before it.
LEMMA WriteGroupStep == ASSUME DiscInv, WriteGroup PROVE DiscInv'
<1>1. /\ in \in ADisc /\ pc = "groups" /\ g < NumGroups(in) /\ GroupsWritten
      /\ sys = SysBlob(in) /\ WithinLimits(in)
    BY DEF DiscInv, WriteGroup
<1>2. g' = g + 1 /\ UNCHANGED <<in, pc, sys, headers, result>>
    BY DEF WriteGroup
<1> DEFINE group == GroupOf(g)
           written == {c \in g * GroupClusters .. (g + 1) * GroupClusters - 1 :
                          c < TotalClusters(in)}
           at == {DataAbs + c * Sector : c \in written}
<1>3. /\ h3' = [n \in DOMAIN h3 \cup {g} |-> IF n = g THEN group ELSE h3[n]]
      /\ data' = [a \in DOMAIN data \cup at |->
                     IF a \in at THEN group[((a - DataAbs) \div Sector) % GroupClusters]
                     ELSE data[a]]
    BY DEF WriteGroup
<1>4. /\ g \in Nat /\ GroupClusters \in Nat \ {0} /\ TotalClusters(in) \in Nat
      /\ NumGroups(in) \in Nat /\ g * GroupClusters \in Nat
      /\ (g + 1) * GroupClusters = g * GroupClusters + GroupClusters
  <2>1. g \in Nat
    BY <1>1 DEF GroupsWritten
  <2>2. GroupClusters \in Nat \ {0}
    BY LayoutIs
  <2>3. TotalClusters(in) \in Nat /\ NumGroups(in) \in Nat
    BY <1>1, CountsAre
  <2>4. \A a, b \in Nat : a * b \in Nat /\ (a + 1) * b = a * b + b
    OBVIOUS
  <2>. QED  BY <2>1, <2>2, <2>3, <2>4
<1>5. g * GroupClusters < TotalClusters(in)
    BY <1>1, <1>4, CountsAre
<1> DEFINE from == g * GroupClusters
<1>6. /\ Before(g) = 0 .. from - 1
      /\ Before(g + 1) = Before(g) \cup written
      /\ written \in SUBSET Nat /\ \A c \in written : from <= c /\ c < from + GroupClusters
    BY <1>4, <1>5 DEF Before
<1>7. at = {Placed(c) : c \in written}
    BY DEF Placed
<1>8. ASSUME NEW c \in written
      PROVE  group[((Placed(c) - DataAbs) \div Sector) % GroupClusters] = ClusterAt(c * ClusterData)
  <2>1. c \in Nat /\ from <= c /\ c < from + GroupClusters /\ c < TotalClusters(in)
    BY <1>6
  <2>2. PICK r \in 0 .. GroupClusters - 1 : c = from + r
    BY <1>4, <2>1
  <2>3. c % GroupClusters = r
    BY <1>4, <2>2, DivUnique
  <2>4. group[r] = ClusterAt(c * ClusterData)
    BY <2>1, <2>2 DEF GroupOf
  <2>. QED  BY <2>1, <2>3, <2>4, PlacedIs
<1> HIDE DEF written, at, group
<1>9. DOMAIN h3' = 0 .. g' - 1 /\ \A n \in 0 .. g' - 1 : h3'[n] = GroupOf(n)
    BY <1>1, <1>2, <1>3, <1>4 DEF GroupsWritten, group
<1>10. DOMAIN data' = {Placed(c) : c \in Before(g + 1)}
    BY <1>1, <1>3, <1>6, <1>7 DEF GroupsWritten
<1>11. ASSUME NEW c \in Before(g + 1) PROVE data'[Placed(c)] = ClusterAt(c * ClusterData)
  <2>1. CASE c \in written
    <3>1. Placed(c) \in at
        BY <1>7, <2>1
    <3>. QED  BY <1>3, <1>8, <2>1, <3>1
  <2>2. CASE c \notin written
    <3>1. c \in Before(g)
        BY <1>6, <2>2
    <3>2. Placed(c) \notin at
      <4>1. ASSUME NEW e \in written, Placed(e) = Placed(c) PROVE FALSE
        BY <1>6, <2>2, <4>1, PlacedApart DEF Before
      <4>. QED  BY <1>7, <4>1
    <3>. QED  BY <1>1, <1>3, <3>1, <3>2 DEF GroupsWritten
  <2>. QED  BY <2>1, <2>2
<1>12. \A n : Before(n)' = Before(n) /\ GroupOf(n)' = GroupOf(n) /\ ClusterAt(n)' = ClusterAt(n)
    BY <1>2 DEF Before, GroupOf, ClusterAt, TotalClusters
<1>13. GroupsWritten'
  <2>1. g' \in Nat /\ g' <= NumGroups(in)'
    BY <1>1, <1>2, <1>4 DEF NumGroups, TotalClusters
  <2>. QED  BY <1>2, <1>9, <1>10, <1>11, <1>12, <2>1 DEF GroupsWritten
<1>14. WithinLimits(in)' /\ sys' = SysBlob(in)'
    BY <1>1, <1>2 DEF WithinLimits
<1>. QED  BY <1>1, <1>2, <1>13, <1>14 DEF DiscInv

LEMMA SameGroups == ASSUME UNCHANGED <<in, sys, g, data, h3>>
                    PROVE  /\ (GroupsWritten' <=> GroupsWritten)
                           /\ (WithinLimits(in)' <=> WithinLimits(in))
                           /\ NumGroups(in)' = NumGroups(in) /\ SysBlob(in)' = SysBlob(in)
                           /\ TotalClusters(in)' = TotalClusters(in)
BY DEF GroupsWritten, Before, WithinLimits, TotalClusters, NumGroups, GroupOf, ClusterAt

LEMMA HeaderSteps ==
    ASSUME DiscInv, WriteDiscHeader \/ WritePartitionHeader \/ Fail
    PROVE  DiscInv'
<1>1. CASE WriteDiscHeader
  <2>1. /\ pc = "groups" /\ g = NumGroups(in) /\ pc' = "partition"
        /\ headers' = [disc |-> DiscHeader] /\ UNCHANGED <<in, sys, g, data, h3, result>>
    BY <1>1 DEF WriteDiscHeader
  <2>2. DiscHeader' = DiscHeader
    BY <2>1
  <2>. QED  BY <2>1, <2>2, SameGroups DEF DiscInv
<1>2. CASE WritePartitionHeader
  <2>1. pc = "partition" /\ UNCHANGED <<in, g, data, h3>> /\ sys' = sys
    BY <1>2 DEF WritePartitionHeader, Refuse
  <2>2. /\ in \in ADisc /\ WithinLimits(in) /\ GroupsWritten /\ g = NumGroups(in)
        /\ sys = SysBlob(in) /\ headers = [disc |-> DiscHeader]
    BY <2>1 DEF DiscInv
  <2> DEFINE header == PartitionHeader(in, Tmd(h3), h3)
  <2>3. Fits(header.dataSize)
    BY <2>2, WithinIs, WithinSays DEF PartitionHeader
  <2>4. /\ headers' = [disc |-> headers.disc, partition |-> header] /\ pc' = "done"
        /\ result' = [ticket |-> header.ticket, tmd |-> header.tmd, h3 |-> h3,
                      dataStart |-> DataAbs,
                      discSize |-> DataAbs + TotalClusters(in) * Sector]
    BY <1>2, <2>3 DEF WritePartitionHeader
  <2>5. headers.disc = DiscHeader
    BY <2>2
  <2>6. DiscHeader' = DiscHeader
        /\ PartitionHeader(in, Tmd(h3), h3)' = PartitionHeader(in, Tmd(h3), h3)
    BY <2>1
  <2> HIDE DEF header
  <2>7. header' = header
    BY <2>6 DEF header
  <2>. QED  BY <2>1, <2>2, <2>4, <2>5, <2>6, SameGroups DEF DiscInv, header
<1>3. CASE Fail
  <2>1. pc' = "failed" /\ pc # "check" /\ UNCHANGED <<in, sys, g, data, h3, headers, result>>
    BY <1>3 DEF Fail
  <2>. QED  BY <2>1, SameGroups DEF DiscInv
<1>. QED  BY <1>1, <1>2, <1>3

LEMMA DiscNext == ASSUME DiscInv, Next PROVE DiscInv'
BY CheckStep, OpenStep, WriteGroupStep, HeaderSteps DEF Next

LEMMA DiscSame ==
    ASSUME DiscInv, UNCHANGED <<in, sys, g, data, h3, headers, result, pc>>
    PROVE  DiscInv'
<1>1. DiscHeader' = DiscHeader
      /\ PartitionHeader(in, Tmd(h3), h3)' = PartitionHeader(in, Tmd(h3), h3)
    OBVIOUS
<1>. QED  BY <1>1, SameGroups DEF DiscInv

-----------------------------------------------------------------------------
(***************************************************************************)
(* Reading the disc back.                                                  *)
(***************************************************************************)
\* The logical byte at l, as fill_cluster_data puts it.
Logical(l) ==
    IF l < IsoOff(in) THEN sys.bytes[l + 1]
    ELSE IF l < IsoOff(in) + in.iso THEN [of |-> "iso", at |-> l - IsoOff(in) + 1]
    ELSE Zero

LEMMA ClusterIs ==
    ASSUME DiscInv, pc # "check", NEW off \in Nat, NEW r \in 0 .. ClusterData - 1
    PROVE  ClusterAt(off)[r + 1] = Logical(off + r)
<1>1. in \in ADisc /\ sys = SysBlob(in)
    BY DEF DiscInv
<1>2. IsoOff(in) \in Nat /\ in.iso \in Nat
    BY <1>1, Offsets DEF ADisc
<1>3. sys.isoOff = IsoOff(in) /\ Len(sys.bytes) = IsoOff(in)
    BY <1>1, SysBlobIs
<1>4. ClusterData \in Nat
    BY LayoutIs
<1>5. r + 1 \in 1 .. ClusterData /\ off + (r + 1) - 1 = off + r /\ off + r \in Nat
    BY <1>4
<1>6. Least(sys.isoOff, Len(sys.bytes)) = IsoOff(in)
    BY <1>3 DEF Least
<1>7. ClusterAt(off)[r + 1] =
        LET l == off + (r + 1) - 1
        IN IF l < Least(sys.isoOff, Len(sys.bytes)) THEN sys.bytes[l + 1]
           ELSE IF l >= sys.isoOff /\ l < sys.isoOff + in.iso
                    THEN [of |-> "iso", at |-> l - sys.isoOff + 1]
           ELSE Zero
    BY <1>5 DEF ClusterAt
<1>. QED  BY <1>2, <1>3, <1>5, <1>6, <1>7 DEF Logical

LEMMA Finished ==
    ASSUME DiscInv, pc = "done"
    PROVE  /\ in \in ADisc /\ sys = SysBlob(in) /\ WithinLimits(in) /\ DataStart = DataAbs
           /\ DOMAIN h3 = 0 .. NumGroups(in) - 1
           /\ \A n \in DOMAIN h3 : h3[n] = GroupOf(n)
           /\ DOMAIN data = {Placed(c) : c \in {c \in Nat : c < TotalClusters(in)}}
           /\ \A c \in Nat : c < TotalClusters(in) => data[Placed(c)] = ClusterAt(c * ClusterData)
           /\ \A c \in Nat : Placed(c) \in DOMAIN data <=> c < TotalClusters(in)
<1>1. in \in ADisc /\ sys = SysBlob(in) /\ WithinLimits(in) /\ GroupsWritten /\ g = NumGroups(in)
    BY DEF DiscInv
<1>2. headers.disc.partition = Shifted(PartAbs) /\ headers.partition.data = Shifted(DataPartOff)
    BY DEF DiscInv, DiscHeader, PartitionHeader
<1>3. \A n \in Nat : n % 4 = 0 => 4 * (n \div 4) = n
    OBVIOUS
<1>4. DataStart = DataAbs
    BY <1>2, <1>3, LayoutIs DEF DataStart, DataAbs, Shifted
<1>5. Before(g) = {c \in Nat : c < TotalClusters(in)}
  <2>1. TotalClusters(in) \in Nat /\ TotalClusters(in) <= g * GroupClusters
        /\ g * GroupClusters \in Nat
    BY <1>1, CountsAre, LayoutIs, Product
  <2>. QED  BY <2>1 DEF Before
<1>6. /\ DOMAIN h3 = 0 .. NumGroups(in) - 1 /\ \A n \in DOMAIN h3 : h3[n] = GroupOf(n)
      /\ DOMAIN data = {Placed(c) : c \in {c \in Nat : c < TotalClusters(in)}}
      /\ \A c \in Nat : c < TotalClusters(in) => data[Placed(c)] = ClusterAt(c * ClusterData)
    BY <1>1, <1>5 DEF GroupsWritten
<1>7. ASSUME NEW c \in Nat, Placed(c) \in DOMAIN data PROVE c < TotalClusters(in)
    BY <1>6, <1>7, PlacedApart
<1>. QED  BY <1>1, <1>4, <1>6, <1>7

\* Reading within the clusters written gives the logical bytes.
LEMMA ReadIs ==
    ASSUME DiscInv, pc = "done", NEW off \in Nat, NEW n \in Nat,
           off + n <= TotalClusters(in) * ClusterData
    PROVE  \A x \in 1 .. n : Read(off, n)[x] = Logical(off + x - 1)
<1> SUFFICES ASSUME NEW x \in 1 .. n PROVE Read(off, n)[x] = Logical(off + x - 1)
    OBVIOUS
<1> DEFINE l == off + x - 1
<1>1. l \in Nat /\ l < TotalClusters(in) * ClusterData
  <2>1. TotalClusters(in) * ClusterData \in Nat
    BY Finished, CountsAre, LayoutIs, Product
  <2>. QED  BY <2>1
<1>2. ClusterData \in Nat \ {0} /\ TotalClusters(in) \in Nat
    BY Finished, CountsAre, LayoutIs
<1> HIDE DEF l
<1>3. PICK c \in Nat, r \in 0 .. ClusterData - 1 :
          l = c * ClusterData + r /\ c = l \div ClusterData /\ r = l % ClusterData
    BY <1>1, <1>2, DivMod
<1>4. c < TotalClusters(in)
  <2>1. TotalClusters(in) <= c => TotalClusters(in) * ClusterData <= c * ClusterData
    BY <1>2, ProductOrder
  <2>2. c * ClusterData \in Nat /\ TotalClusters(in) * ClusterData \in Nat
    BY <1>2, Product
  <2>. QED  BY <1>1, <1>2, <1>3, <2>1, <2>2
<1>5. Placed(c) \in DOMAIN data /\ data[Placed(c)] = ClusterAt(c * ClusterData)
    BY <1>4, Finished
<1>6. Read(off, n)[x] = LET at == DataStart + (l \div ClusterData) * Sector
                        IN IF at \in DOMAIN data THEN data[at][(l % ClusterData) + 1] ELSE Zero
    BY DEF Read, l
<1>7. DataStart + (l \div ClusterData) * Sector = Placed(c)
    BY <1>3, Finished DEF Placed
<1>8. Read(off, n)[x] = data[Placed(c)][r + 1]
    BY <1>3, <1>5, <1>6, <1>7
<1>9. ClusterAt(c * ClusterData)[r + 1] = Logical(c * ClusterData + r)
  <2>1. c * ClusterData \in Nat
    BY <1>2, Product
  <2>. QED  BY <2>1, ClusterIs
<1>. QED  BY <1>3, <1>5, <1>8, <1>9 DEF l

LEMMA ReadsObject ==
    ASSUME NEW off, NEW n \in Nat, NEW name,
           \A x \in 1 .. n : Read(off, n)[x] = [of |-> name, at |-> x]
    PROVE  Read(off, n) = Object(name, n)
BY DEF Read, Object

LEMMA PointersHold == ASSUME DiscInv, pc = "done" PROVE PointersLead
<1> DEFINE total == TotalClusters(in) * ClusterData
<1>1. /\ in \in ADisc /\ sys = SysBlob(in)
      /\ in.apploader \in Nat /\ in.dol \in Nat /\ in.iso \in Nat
      /\ BootLen \in Nat /\ FstLen \in Nat
    BY Finished, LayoutIs DEF ADisc
<1>2. total \in Nat /\ IsoOff(in) + in.iso <= total /\ IsoOff(in) \in Nat
    BY <1>1, CountsAre, LayoutIs, Product, Offsets
<1>3. /\ sys.boot.dol = Shifted(DolOff(in)) /\ sys.boot.fst = Shifted(FstOff(in))
      /\ sys.boot.fstLen = Shifted(FstLen) /\ sys.fst.off = Shifted(IsoOff(in))
      /\ sys.fst.size = in.iso
      /\ \A x \in 1 .. BootLen : sys.bytes[x] = [of |-> "boot", at |-> x]
      /\ \A x \in 1 .. in.apploader : sys.bytes[BootLen + x] = [of |-> "apploader", at |-> x]
      /\ \A x \in 1 .. in.dol : sys.bytes[DolOff(in) + x] = [of |-> "dol", at |-> x]
      /\ \A x \in 1 .. FstLen : sys.bytes[FstOff(in) + x] = [of |-> "fst", at |-> x]
  <2> DEFINE s == SysBlob(in)
  <2>1. /\ s.boot = [dol |-> Shifted(DolOff(in)), fst |-> Shifted(FstOff(in)),
                     fstLen |-> Shifted(FstLen)]
        /\ s.fst = [off |-> Shifted(IsoOff(in)), size |-> in.iso]
        /\ \A x \in 1 .. BootLen : s.bytes[x] = [of |-> "boot", at |-> x]
        /\ \A x \in 1 .. in.apploader : s.bytes[BootLen + x] = [of |-> "apploader", at |-> x]
        /\ \A x \in 1 .. in.dol : s.bytes[DolOff(in) + x] = [of |-> "dol", at |-> x]
        /\ \A x \in 1 .. FstLen : s.bytes[FstOff(in) + x] = [of |-> "fst", at |-> x]
    BY <1>1, SysBlobIs
  <2>2. sys = s
    BY <1>1
  <2> HIDE DEF s
  <2>. QED  BY <2>1, <2>2
<1>4. /\ {LoaderEnd(in), DolOff(in), DolEnd(in), FstOff(in), FstEnd(in)} \subseteq Nat
      /\ BootLen + in.apploader <= IsoOff(in) /\ BootLen <= IsoOff(in)
      /\ DolOff(in) + in.dol <= IsoOff(in) /\ FstOff(in) + FstLen <= IsoOff(in)
      /\ 4 * Shifted(DolOff(in)) = DolOff(in) /\ 4 * Shifted(FstOff(in)) = FstOff(in)
      /\ 4 * Shifted(IsoOff(in)) = IsoOff(in) /\ 4 * Shifted(FstLen) = FstLen
  <2>1. LoaderEnd(in) = BootLen + in.apploader /\ DolEnd(in) = DolOff(in) + in.dol
        /\ FstEnd(in) = FstOff(in) + FstLen
    BY DEF LoaderEnd, DolEnd, FstEnd
  <2>2. /\ {LoaderEnd(in), DolOff(in), DolEnd(in), FstOff(in), FstEnd(in), IsoOff(in)} \subseteq Nat
        /\ BootLen <= LoaderEnd(in) /\ LoaderEnd(in) <= DolOff(in) /\ DolOff(in) <= DolEnd(in)
        /\ DolEnd(in) <= FstOff(in) /\ FstOff(in) < FstEnd(in) /\ FstEnd(in) <= IsoOff(in)
    BY <1>1, Offsets
  <2>3. /\ LoaderEnd(in) <= IsoOff(in) /\ BootLen <= IsoOff(in)
        /\ DolEnd(in) <= IsoOff(in) /\ FstEnd(in) <= IsoOff(in)
    BY <1>1, <2>2
  <2>. QED  BY <1>1, <2>1, <2>2, <2>3, Offsets
<1> HIDE DEF total
<1>5. ASSUME NEW off \in Nat, NEW n \in Nat, off + n <= IsoOff(in), NEW name,
             \A x \in 1 .. n : sys.bytes[off + x] = [of |-> name, at |-> x]
      PROVE  Read(off, n) = Object(name, n)
  <2>1. off + n <= total
    BY <1>1, <1>2, <1>5
  <2>2. \A x \in 1 .. n : Read(off, n)[x] = Logical(off + x - 1)
    BY <2>1, ReadIs DEF total
  <2>3. ASSUME NEW x \in 1 .. n PROVE Logical(off + x - 1) = [of |-> name, at |-> x]
    <3>1. off + x - 1 < IsoOff(in) /\ (off + x - 1) + 1 = off + x
        BY <1>2, <1>5
    <3>2. Logical(off + x - 1) = sys.bytes[(off + x - 1) + 1]
        BY <3>1 DEF Logical
    <3>. QED  BY <1>5, <3>1, <3>2
  <2>. QED  BY <2>2, <2>3, ReadsObject
<1>6. Read(0, BootLen) = Object("boot", BootLen)
  <2>1. \A x \in 1 .. BootLen : 0 + x = x
    BY <1>1
  <2>2. \A x \in 1 .. BootLen : sys.bytes[0 + x] = [of |-> "boot", at |-> x]
    BY <1>3, <2>1
  <2>3. 0 \in Nat /\ 0 + BootLen <= IsoOff(in)
    BY <1>1, <1>4
  <2>. QED  BY <1>1, <1>5, <2>2, <2>3
<1>7. Read(BootLen, in.apploader) = Object("apploader", in.apploader)
  <2>1. BootLen \in Nat /\ in.apploader \in Nat /\ BootLen + in.apploader <= IsoOff(in)
    BY <1>1, <1>4
  <2>2. \A x \in 1 .. in.apploader : sys.bytes[BootLen + x] = [of |-> "apploader", at |-> x]
    BY <1>3
  <2>. QED  BY <1>5, <2>1, <2>2
<1>8. Read(DolOff(in), in.dol) = Object("dol", in.dol)
  <2>1. DolOff(in) \in Nat /\ in.dol \in Nat /\ DolOff(in) + in.dol <= IsoOff(in)
    BY <1>1, <1>4
  <2>2. \A x \in 1 .. in.dol : sys.bytes[DolOff(in) + x] = [of |-> "dol", at |-> x]
    BY <1>3
  <2>. QED  BY <1>5, <2>1, <2>2
<1>9. Read(FstOff(in), FstLen) = Object("fst", FstLen)
  <2>1. FstOff(in) \in Nat /\ FstLen \in Nat /\ FstOff(in) + FstLen <= IsoOff(in)
    BY <1>1, <1>4
  <2>2. \A x \in 1 .. FstLen : sys.bytes[FstOff(in) + x] = [of |-> "fst", at |-> x]
    BY <1>3
  <2>. QED  BY <1>5, <2>1, <2>2
<1>10. Read(IsoOff(in), in.iso) = Object("iso", in.iso)
  <2>1. \A x \in 1 .. in.iso : Read(IsoOff(in), in.iso)[x] = Logical(IsoOff(in) + x - 1)
    BY <1>1, <1>2, ReadIs DEF total
  <2>2. ASSUME NEW x \in 1 .. in.iso PROVE Logical(IsoOff(in) + x - 1) = [of |-> "iso", at |-> x]
    <3>1. /\ ~ (IsoOff(in) + x - 1 < IsoOff(in)) /\ IsoOff(in) + x - 1 < IsoOff(in) + in.iso
          /\ (IsoOff(in) + x - 1) - IsoOff(in) + 1 = x
        BY <1>1, <1>2
    <3>. QED  BY <3>1 DEF Logical
  <2>. QED  BY <1>1, <2>1, <2>2, ReadsObject
<1>. QED  BY <1>3, <1>4, <1>6, <1>7, <1>8, <1>9, <1>10 DEF PointersLead

\* A cluster's offset tells its group.
LEMMA GroupOfPlace ==
    ASSUME NEW c \in Nat, NEW n \in Nat, c < n * GroupClusters
    PROVE  (Placed(c) - DataAbs) \div (GroupClusters * Sector) \in 0 .. n - 1
<1>1. GroupClusters \in Nat \ {0} /\ Sector \in Nat \ {0}
    BY LayoutIs
<1>2. PICK q \in Nat, r \in 0 .. GroupClusters - 1 : c = q * GroupClusters + r
  <2>1. \E q \in Nat, r \in 0 .. GroupClusters - 1 :
            c = q * GroupClusters + r /\ q = c \div GroupClusters /\ r = c % GroupClusters
    BY <1>1, DivMod
  <2>. QED  BY <2>1
<1> DEFINE wide == GroupClusters * Sector
           rest == r * Sector
<1>3. wide \in Nat \ {0} /\ rest \in 0 .. wide - 1
  <2>1. \A a, b \in Nat, s \in Nat \ {0} : a < b => a * s < b * s /\ a * s \in Nat /\ b * s \in Nat
    OBVIOUS
  <2>2. r \in Nat /\ r < GroupClusters /\ GroupClusters \in Nat
    BY <1>1
  <2>. QED  BY <1>1, <2>1, <2>2
<1>4. c * Sector = q * wide + rest
  <2>1. \A a, b, s, t \in Nat : (a * b + t) * s = a * (b * s) + t * s
    OBVIOUS
  <2>2. r \in Nat
    BY <1>1
  <2>. QED  BY <1>1, <1>2, <2>1, <2>2
<1> HIDE DEF wide, rest
<1>5. (q * wide + rest) \div wide = q
    BY <1>3, DivUnique
<1>6. q < n
  <2>1. n <= q => n * GroupClusters <= q * GroupClusters
    BY <1>1, ProductOrder
  <2>2. n * GroupClusters \in Nat /\ q * GroupClusters \in Nat
    BY <1>1, Product
  <2>. QED  BY <1>1, <1>2, <2>1, <2>2
<1>7. Placed(c) - DataAbs = c * Sector
    BY PlacedIs, LayoutIs
<1>. QED  BY <1>4, <1>5, <1>6, <1>7 DEF wide

LEMMA HashesHold == ASSUME DiscInv, pc = "done" PROVE HashesAgree
<1> DEFINE Stored(a) == IF a \in DOMAIN data THEN data[a] ELSE Empty
<1>1. /\ in \in ADisc /\ TotalClusters(in) \in Nat /\ NumGroups(in) \in Nat
      /\ GroupClusters \in Nat /\ TotalClusters(in) <= NumGroups(in) * GroupClusters
    BY Finished, CountsAre, LayoutIs
<1>2. ASSUME NEW n \in DOMAIN h3, NEW x \in 0 .. GroupClusters - 1
      PROVE  h3[n][x] = Stored(DataStart + (n * GroupClusters + x) * Sector)
  <2> DEFINE c == n * GroupClusters + x
  <2>1. n \in Nat /\ x \in Nat
    BY <1>1, Finished
  <2>2. c \in Nat
    BY <1>1, <2>1, Product
  <2>3. h3[n][x] = IF c < TotalClusters(in) THEN ClusterAt(c * ClusterData) ELSE Empty
    BY Finished DEF GroupOf
  <2> HIDE DEF c
  <2>4. Stored(Placed(c)) = IF c < TotalClusters(in) THEN ClusterAt(c * ClusterData) ELSE Empty
    BY <2>2, Finished
  <2>5. DataStart + c * Sector = Placed(c)
    BY Finished DEF Placed
  <2>. QED  BY <2>3, <2>4, <2>5 DEF c
<1>3. ASSUME NEW a \in DOMAIN data
      PROVE  (a - DataStart) \div (GroupClusters * Sector) \in DOMAIN h3
  <2>1. PICK c \in Nat : a = Placed(c) /\ c < TotalClusters(in)
    BY Finished
  <2>2. c < NumGroups(in) * GroupClusters
  <3>1. NumGroups(in) * GroupClusters \in Nat
    BY <1>1, Product
  <3>. QED  BY <1>1, <2>1, <3>1
  <2>. QED  BY <1>1, <2>1, <2>2, GroupOfPlace, Finished
<1>4. Cardinality(DOMAIN h3) <= MaxH3Groups
  <2>1. Cardinality(0 .. NumGroups(in) - 1) = NumGroups(in)
    <3>1. 0 \in Int /\ NumGroups(in) - 1 \in Int
        BY <1>1
    <3>2. Cardinality(0 .. NumGroups(in) - 1) =
              IF 0 > NumGroups(in) - 1 THEN 0 ELSE (NumGroups(in) - 1) - 0 + 1
        BY <3>1, FS_Interval
    <3>. QED  BY <1>1, <3>2
  <2>2. NumGroups(in) <= MaxH3Groups
    BY Finished, WithinIs, WithinSays
  <2>. QED  BY <2>1, <2>2, Finished
<1>5. headers.partition.tmd.hash = headers.partition.h3
    BY DEF DiscInv, PartitionHeader, Tmd
<1>. QED  BY <1>2, <1>3, <1>4, <1>5 DEF HashesAgree

LEMMA ResultHolds == ASSUME DiscInv, pc = "done" PROVE ResultAgrees
<1>1. /\ in \in ADisc /\ TotalClusters(in) \in Nat /\ Sector \in Nat /\ DataAbs \in Nat
      /\ TotalClusters(in) * Sector \in Nat
    BY Finished, CountsAre, LayoutIs, Product
<1>2. /\ result.h3 = headers.partition.h3 /\ result.tmd = headers.partition.tmd
      /\ result.ticket = headers.partition.ticket /\ result.dataStart = DataAbs
      /\ result.discSize = DataAbs + TotalClusters(in) * Sector
      /\ headers.partition.dataSize = Shifted(TotalClusters(in) * Sector)
      /\ result.ticket = Ticket /\ result.tmd = Tmd(h3)
    BY DEF DiscInv, PartitionHeader
<1>3. result.ticket.titleId = result.tmd.titleId
    BY <1>2 DEF Ticket, Tmd
<1>4. 4 * Shifted(TotalClusters(in) * Sector) = TotalClusters(in) * Sector
    BY Finished, WithinIs, WithinSays
<1>5. ASSUME NEW a \in DOMAIN data
      PROVE  a >= DataStart /\ a + Sector <= result.discSize
  <2>1. PICK c \in Nat : a = Placed(c) /\ c < TotalClusters(in)
    BY Finished
  <2>2. c + 1 \in Nat /\ c + 1 <= TotalClusters(in)
    BY <1>1, <2>1
  <2>3. (c + 1) * Sector <= TotalClusters(in) * Sector
    BY <1>1, <2>2, ProductOrder
  <2>4. (c + 1) * Sector = c * Sector + Sector /\ c * Sector \in Nat
    BY <1>1
  <2>. QED  BY <1>1, <1>2, <2>1, <2>3, <2>4, Finished DEF Placed
<1>. QED  BY <1>2, <1>3, <1>4, <1>5, Finished DEF ResultAgrees

LEMMA DiscReads == ASSUME DiscInv PROVE DiscReadsBack
BY PointersHold, HashesHold, ResultHolds DEF DiscReadsBack

LEMMA DiscRefused == ASSUME DiscInv PROVE RefusedOnlyOverLimit
BY DEF DiscInv, RefusedOnlyOverLimit

-----------------------------------------------------------------------------
(***************************************************************************)
(* The steps of a call before it fetches anything.                         *)
(***************************************************************************)
Looking == {"parse", "workdir", "key", "cert", "base", "probe"}

Warnings ==
    IF Command!IsGameCube
    THEN (IF Command!Changed(Command!VideoFlags) = {} THEN {} ELSE Command!VideoFlags)
             \cup Command!Changed(Command!WiiOnlyFlags)
    ELSE Command!Changed(Command!GcOnlyFlags)

TheConfig == Command!ConfigFrom(cli, Command!IsGameCube)
TheOptions == Command!NincfgOptions(Command!GcOptions(cli))

\* Each step before the pipeline rests on the checks of those before it.
ChecksPassed ==
    /\ pc \notin {"parse", "refused"} => Command!Parses(cli)
    /\ pc \notin {"parse", "workdir", "key", "refused"} => Command!KeyOk(cli.wiiu_common_key)
    /\ pc \notin {"parse", "workdir", "key", "cert", "refused"} => Command!CertOk(cli.cert)
    /\ pc \notin {"parse", "workdir", "key", "cert", "base", "refused"} => Command!BaseOk(cli)

NetChecked ==
    /\ net # {} => /\ Command!Parses(cli) /\ Command!KeyOk(cli.wiiu_common_key)
                   /\ Command!CertOk(cli.cert) /\ Command!BaseOk(cli) /\ pc \notin Looking
    /\ cli.offline => net \subseteq {"base"}

\* The configuration is that of the command line, made when everything was warned of.
Configured ==
    /\ pc \in {"nintendont", "gcOptions", "config"} => warned = Warnings
    /\ pc \in {"pipeline", "packaged", "refusedLate", "unwritten"} => config # Command!None
    /\ pc \in {"nintendont", "gcOptions", "packaged", "refusedLate", "unwritten"} =>
           Command!IsGameCube
    /\ config # Command!None =>
           config = TheConfig /\ warned = Warnings /\ Command!Parses(cli)

\* nincfg.bin holds the options of the configuration after a GameCube call that ended well; else
\* they were not acceptable, or the writing failed.
NincfgWritten ==
    /\ pc = "done" /\ Command!IsGameCube =>
           /\ Command!Acceptable(TheOptions) /\ Command!Parses(cli)
           /\ nincfg = Command!Written(Command!Generate(TheOptions))
    /\ pc \notin {"done", "unwritten"} => nincfg \in {Command!None, Command!Earlier}
    /\ pc = "unwritten" => nincfg \in {Command!None, Command!Earlier, Command!Cut}
    /\ pc = "refusedLate" => ~ Command!Acceptable(TheOptions)

CallInv == cli \in Command!Cli /\ ChecksPassed /\ NetChecked /\ Configured /\ NincfgWritten

LEMMA InitCall == ASSUME Command!Init PROVE CallInv
<1>1. cli \in Command!Cli /\ pc = "parse" /\ net = {} /\ config = Command!None
          /\ nincfg \in {Command!None, Command!Earlier}
  <2>1. PICK c \in Calls : cli = c.cli /\ pc = "parse" /\ net = {} /\ config = Command!None
          /\ nincfg = c.nincfg
    BY DEF Command!Init
  <2>2. c \in Command!Call
    BY CallsAssumption
  <2>. QED  BY <2>1, <2>2 DEF Command!Call
<1>. QED  BY <1>1 DEF CallInv, ChecksPassed, NetChecked, Configured, NincfgWritten, Looking

\* A configuration is for a GameCube game exactly if the call is.
LEMMA ConfigIs ==
    ASSUME NEW c, NEW gc \in BOOLEAN
    PROVE  /\ Command!ConfigFrom(c, gc) # Command!None
           /\ Command!ConfigFrom(c, gc).gamecube = IF gc THEN Command!GcOptions(c) ELSE Command!None
           /\ Command!GcOptions(c) # Command!None
           /\ Command!ConfigFrom(c, gc).online = ~ c.offline
<1>1. /\ "gamecube" \in DOMAIN Command!ConfigFrom(c, gc)
      /\ "nintendont" \in DOMAIN Command!GcOptions(c)
    BY DEF Command!ConfigFrom, Command!GcOptions
<1>2. "gamecube" \notin DOMAIN Command!None /\ "nintendont" \notin DOMAIN Command!None
    BY DEF Command!None
<1>3. /\ Command!ConfigFrom(c, gc).gamecube = IF gc THEN Command!GcOptions(c) ELSE Command!None
      /\ Command!ConfigFrom(c, gc).online = ~ c.offline
    BY DEF Command!ConfigFrom
<1>. QED  BY <1>1, <1>2, <1>3

\* What the definitions over the arguments and the input speak of does not change.
LEMMA SameCall ==
    ASSUME UNCHANGED <<cli, disc>>
    PROVE  Warnings' = Warnings /\ TheConfig' = TheConfig /\ TheOptions' = TheOptions
           /\ (Command!IsGameCube' <=> Command!IsGameCube)
BY DEF Warnings, TheConfig, TheOptions, Command!IsGameCube, Command!Changed

LEMMA CallNext == ASSUME CallInv, Command!Next PROVE CallInv'
<1>0. cli \in Command!Cli /\ ChecksPassed /\ NetChecked /\ Configured /\ NincfgWritten
    BY DEF CallInv
<1> DEFINE Quiet(next) ==
        /\ pc' \in {next, "refused"} /\ UNCHANGED <<cli, disc, net, config, nincfg>>
<1>1. CASE Command!Parse
  <2>1. pc = "parse" /\ UNCHANGED <<cli, disc, warned, net, config, nincfg>>
        /\ pc' \in {"workdir", "refused"} /\ (pc' = "workdir" => Command!Parses(cli))
    BY <1>1 DEF Command!Parse, Command!Checked, Command!call
  <2>. QED  BY <1>0, <2>1, SameCall
         DEF CallInv, ChecksPassed, NetChecked, Configured, NincfgWritten, Looking
<1>2. CASE Command!PrepareWorkDir
  <2>1. pc = "workdir" /\ UNCHANGED <<cli, disc, warned, net, config, nincfg>>
        /\ pc' \in {"key", "refused"}
    BY <1>2 DEF Command!PrepareWorkDir, Command!call
  <2>. QED  BY <1>0, <2>1, SameCall
         DEF CallInv, ChecksPassed, NetChecked, Configured, NincfgWritten, Looking
<1>3. CASE Command!LoadKey
  <2>1. pc = "key" /\ UNCHANGED <<cli, disc, warned, net, config, nincfg>>
        /\ pc' \in {"cert", "refused"} /\ (pc' = "cert" => Command!KeyOk(cli.wiiu_common_key))
    BY <1>3 DEF Command!LoadKey, Command!Checked, Command!call
  <2>. QED  BY <1>0, <2>1, SameCall
         DEF CallInv, ChecksPassed, NetChecked, Configured, NincfgWritten, Looking
<1>4. CASE Command!LoadCert
  <2>1. pc = "cert" /\ UNCHANGED <<cli, disc, warned, net, config, nincfg>>
        /\ pc' \in {"base", "refused"} /\ (pc' = "base" => Command!CertOk(cli.cert))
    BY <1>4 DEF Command!LoadCert, Command!Checked, Command!call
  <2>. QED  BY <1>0, <2>1, SameCall
         DEF CallInv, ChecksPassed, NetChecked, Configured, NincfgWritten, Looking
<1>5. CASE Command!BuildBase
  <2>1. pc = "base" /\ UNCHANGED <<cli, disc, warned, net, config, nincfg>>
        /\ pc' \in {"probe", "refused"} /\ (pc' = "probe" => Command!BaseOk(cli))
    BY <1>5 DEF Command!BuildBase, Command!Checked, Command!call
  <2>. QED  BY <1>0, <2>1, SameCall
         DEF CallInv, ChecksPassed, NetChecked, Configured, NincfgWritten, Looking
<1>6. CASE Command!Probe
  <2>1. pc = "probe" /\ UNCHANGED <<cli, disc, warned, net, config, nincfg>>
        /\ pc' \in {"warn", "refused"}
    BY <1>6 DEF Command!Probe, Command!Checked, Command!call
  <2>. QED  BY <1>0, <2>1, SameCall
         DEF CallInv, ChecksPassed, NetChecked, Configured, NincfgWritten, Looking
<1>7. CASE Command!Warn
  <2>1. pc = "warn" /\ UNCHANGED <<cli, disc, net, config, nincfg>>
        /\ warned' = Warnings /\ pc' = IF Command!IsGameCube THEN "nintendont" ELSE "config"
    BY <1>7 DEF Command!Warn, Command!call, Warnings
  <2>. QED  BY <1>0, <2>1, SameCall
         DEF CallInv, ChecksPassed, NetChecked, Configured, NincfgWritten, Looking
<1>8. CASE Command!ReadNintendont
  <2>1. pc = "nintendont" /\ UNCHANGED <<cli, disc, warned, net, config, nincfg>>
        /\ pc' \in {"gcOptions", "refused"}
    BY <1>8 DEF Command!ReadNintendont, Command!call
  <2>. QED  BY <1>0, <2>1, SameCall
         DEF CallInv, ChecksPassed, NetChecked, Configured, NincfgWritten, Looking
<1>9. ASSUME NEW genuine \in BOOLEAN, Command!DownloadNintendont(genuine) PROVE CallInv'
  <2>1. pc = "nintendont" /\ UNCHANGED <<cli, disc, warned, config, nincfg>>
        /\ pc' \in {"gcOptions", "refused"} /\ (cli.offline => net' = net)
    BY <1>9 DEF Command!DownloadNintendont, Command!call
  <2>. QED  BY <1>0, <2>1, SameCall
         DEF CallInv, ChecksPassed, NetChecked, Configured, NincfgWritten, Looking
<1>10. CASE Command!BuildGcOptions
  <2>1. pc = "gcOptions" /\ UNCHANGED <<cli, disc, warned, net, config, nincfg>>
        /\ pc' \in {"config", "refused"}
    BY <1>10 DEF Command!BuildGcOptions, Command!Checked, Command!call
  <2>. QED  BY <1>0, <2>1, SameCall
         DEF CallInv, ChecksPassed, NetChecked, Configured, NincfgWritten, Looking
<1>11. CASE Command!Configure
  <2>1. pc = "config" /\ UNCHANGED <<cli, disc, warned, net, nincfg>>
        /\ pc' = "pipeline" /\ config' = TheConfig /\ TheConfig # Command!None
    BY <1>11, ConfigIs DEF Command!Configure, Command!call, TheConfig, Command!IsGameCube
  <2>. QED  BY <1>0, <2>1, SameCall
         DEF CallInv, ChecksPassed, NetChecked, Configured, NincfgWritten, Looking
<1>12. ASSUME NEW ok \in BOOLEAN, Command!RunPipeline(ok) PROVE CallInv'
  <2>1. pc = "pipeline" /\ UNCHANGED <<cli, disc, warned, config, nincfg>>
        /\ pc' \in {"failed", "done", "packaged"}
        /\ (pc' = "packaged" => config.gamecube # Command!None)
        /\ (pc' = "done" => config.gamecube = Command!None)
    BY <1>12 DEF Command!RunPipeline, Command!call
  <2>2. cli.offline => net' \subseteq net \cup {"base"}
    <3>1. config.online = ~ cli.offline
        BY <1>0, <2>1, ConfigIs DEF Configured, TheConfig, Command!IsGameCube
    <3>2. net' = net \cup (IF cli.base = "none" THEN {"base"} ELSE {})
                     \cup (IF config.online THEN {"art"} ELSE {})
                     \cup (IF config.online /\ config.title = "none" THEN {"gametdb"} ELSE {})
        BY <1>12 DEF Command!RunPipeline
    <3>3. cli.offline => ~ config.online
        BY <3>1
    <3>. QED  BY <3>2, <3>3
  <2>3. /\ pc' = "packaged" => Command!IsGameCube
        /\ pc' = "done" => ~ Command!IsGameCube
    BY <1>0, <2>1, ConfigIs DEF Configured, TheConfig, Command!IsGameCube
  <2>. QED  BY <1>0, <2>1, <2>2, <2>3, SameCall
         DEF CallInv, ChecksPassed, NetChecked, Configured, NincfgWritten, Looking
<1>13. CASE Command!RefuseSettings \/ Command!WriteNincfg \/ Command!WriteFails
  <2>1. pc = "packaged" /\ UNCHANGED <<cli, disc, warned, net, config>>
    BY <1>13 DEF Command!RefuseSettings, Command!WriteNincfg, Command!WriteFails, Command!call
  <2>2. Command!PackagedOptions = TheOptions
    BY <1>0, <2>1, ConfigIs
       DEF Command!PackagedOptions, TheOptions, Configured, TheConfig, Command!IsGameCube
  <2>3. \/ /\ pc' = "done" /\ Command!Acceptable(TheOptions)
           /\ nincfg' = Command!Written(Command!Generate(TheOptions))
        \/ /\ pc' = "unwritten" /\ nincfg' \in {nincfg, Command!Cut}
        \/ pc' = "refusedLate" /\ ~ Command!Acceptable(TheOptions) /\ nincfg' = nincfg
    BY <1>13, <2>2 DEF Command!RefuseSettings, Command!WriteNincfg, Command!WriteFails
  <2>. QED  BY <1>0, <2>1, <2>3, SameCall
         DEF CallInv, ChecksPassed, NetChecked, Configured, NincfgWritten, Looking
<1>. QED  BY <1>1, <1>2, <1>3, <1>4, <1>5, <1>6, <1>7, <1>8, <1>9, <1>10, <1>11, <1>12, <1>13
         DEF Command!Next

\* A set of naturals that is not empty has a least element.
LEMMA LeastNatural ==
    ASSUME NEW T \in SUBSET Nat, T # {}
    PROVE  \E x \in T : \A y \in T : x <= y
<1> DEFINE U == {1 .. x : x \in T}
<1>1. U \subseteq FiniteSubsetsOf(Nat) /\ U # {}
  <2>1. ASSUME NEW x \in T PROVE 1 .. x \in SUBSET Nat /\ IsFiniteSet(1 .. x)
    <3>1. 1 \in Int /\ x \in Int
        OBVIOUS
    <3>2. IsFiniteSet(1 .. x)
        BY <3>1, FS_Interval, Zenon
    <3>. QED  BY <3>2
  <2>. QED  BY <2>1 DEF FiniteSubsetsOf
<1>2. PICK u \in U : \A v \in U : ~ (<<v, u>> \in StrictSubsetOrdering(Nat))
    BY <1>1, FS_StrictSubsetOrderingWellFounded, WFMin
<1>3. PICK x \in T : u = 1 .. x
    BY <1>2
<1>4. ASSUME NEW y \in T, y < x PROVE FALSE
  <2>1. 1 .. y \subseteq 1 .. x /\ 1 .. y # 1 .. x /\ 1 .. y \in SUBSET Nat /\ 1 .. x \in SUBSET Nat
    <3>1. x \in 1 .. x /\ x \notin 1 .. y
        BY <1>4
    <3>. QED  BY <1>4, <3>1
  <2>2. <<1 .. y, 1 .. x>> \in StrictSubsetOrdering(Nat)
    BY <2>1 DEF StrictSubsetOrdering
  <2>. QED  BY <1>2, <1>3, <2>2
<1>. QED  BY <1>4

-----------------------------------------------------------------------------
(***************************************************************************)
(* The reader of meta.xml (MetaXml, After): what is read after n events is *)
(* what was read after n - 1, and the n-th.                                *)
(***************************************************************************)
Reads(d, f) ==
    f = [n \in 0 .. Len(d) |-> IF n = 0 THEN Meta!Unread ELSE Meta!Read(f[n - 1], d[n])]

\* Two readers of sequences that agree up to their m-th event agree that far.
LEMMA ReadsAgree ==
    ASSUME NEW d, NEW e, NEW f, NEW h, Len(d) \in Nat, Len(e) \in Nat, Reads(d, f), Reads(e, h),
           NEW m \in Nat, m <= Len(d), m <= Len(e), \A n \in 1 .. m : d[n] = e[n]
    PROVE  \A n \in 0 .. m : f[n] = h[n]
<1> DEFINE T == {n \in 0 .. m : f[n] # h[n]}
<1>1. SUFFICES ASSUME T # {} PROVE FALSE
    OBVIOUS
<1>2. PICK x \in T : \A y \in T : x <= y
  <2>1. T \in SUBSET Nat
    OBVIOUS
  <2> HIDE DEF T
  <2>. QED  BY <1>1, <2>1, LeastNatural
<1>3. x \in 0 .. Len(d) /\ x \in 0 .. Len(e)
    BY <1>2
<1>4. x # 0
    BY <1>2, <1>3 DEF Reads
<1>5. x - 1 \in 0 .. m /\ x - 1 \notin T /\ x \in 1 .. m
    BY <1>2, <1>4
<1>6. f[x - 1] = h[x - 1] /\ d[x] = e[x]
    BY <1>5
<1>7. f[x] = Meta!Read(f[x - 1], d[x]) /\ h[x] = Meta!Read(h[x - 1], e[x])
    BY <1>3, <1>4 DEF Reads
<1>. QED  BY <1>2, <1>6, <1>7

\* There is a reader of every sequence.
LEMMA ReaderExists ==
    ASSUME NEW S, NEW d \in Seq(S)
    PROVE  \E f : Reads(d, f)
<1> DEFINE Upto(n, f) == f = [x \in 0 .. n |-> IF x = 0 THEN Meta!Unread
                                                     ELSE Meta!Read(f[x - 1], d[x])]
           T == {n \in 0 .. Len(d) : \A f : ~ Upto(n, f)}
<1>1. SUFFICES ASSUME T # {} PROVE FALSE
  <2>1. Len(d) \in 0 .. Len(d)
    OBVIOUS
  <2>2. (\E f : Upto(Len(d), f)) => \E f : Reads(d, f)
    BY DEF Reads
  <2>. QED  BY <2>1, <2>2
<1>2. PICK m \in T : \A y \in T : m <= y
  <2>1. T \in SUBSET Nat
    OBVIOUS
  <2> HIDE DEF T
  <2>. QED  BY <1>1, <2>1, LeastNatural
<1>3. m \in Nat /\ m <= Len(d)
    BY <1>2
<1>4. CASE m = 0
  <2> DEFINE h == [x \in 0 .. 0 |-> Meta!Unread]
  <2>1. Upto(0, h)
    <3>1. \A x \in 0 .. 0 : x = 0
        OBVIOUS
    <3>. QED  BY <3>1
  <2>. QED  BY <1>2, <1>4, <2>1
<1>5. CASE m # 0
  <2>1. m - 1 \in 0 .. Len(d) /\ m - 1 \notin T
    <3>1. m - 1 \in 0 .. Len(d) /\ ~ m <= m - 1
        BY <1>3, <1>5
    <3> HIDE DEF T
    <3>. QED  BY <1>2, <3>1
  <2>2. PICK f : Upto(m - 1, f)
    BY <2>1
  <2> DEFINE h == [x \in 0 .. m |-> IF x = m THEN Meta!Read(f[m - 1], d[m]) ELSE f[x]]
  <2>3. ASSUME NEW x \in 0 .. m, x # 0 PROVE h[x] = Meta!Read(h[x - 1], d[x])
    <3>1. x - 1 \in 0 .. m - 1 /\ x - 1 \in 0 .. m /\ x - 1 # m
        BY <1>3, <2>3
    <3>2. h[x - 1] = f[x - 1]
        BY <3>1
    <3>3. CASE x = m
        BY <3>2, <3>3
    <3>4. CASE x # m
      <4>1. x \in 0 .. m - 1 /\ h[x] = f[x]
        BY <1>3, <3>4
      <4>2. f[x] = Meta!Read(f[x - 1], d[x])
        BY <2>2, <2>3, <4>1
      <4>. QED  BY <3>2, <4>1, <4>2
    <3>. QED  BY <3>3, <3>4
  <2>4. h[0] = Meta!Unread
    <3>1. 0 \in 0 .. m - 1 /\ 0 \in 0 .. m /\ 0 # m
        BY <1>3, <1>5
    <3>2. f[0] = Meta!Unread
        BY <2>2, <3>1
    <3>. QED  BY <3>1, <3>2
  <2>5. h = [x \in 0 .. m |-> h[x]]
    OBVIOUS
  <2>6. Upto(m, h)
    <3> HIDE DEF h
    <3>. QED  BY <2>3, <2>4, <2>5
  <2>. QED  BY <1>2, <2>6
<1>. QED  BY <1>4, <1>5

LEMMA AfterReads == ASSUME NEW S, NEW d \in Seq(S) PROVE Reads(d, Meta!After(d))
<1> DEFINE R(f) == f = [n \in 0 .. Len(d) |-> IF n = 0 THEN Meta!Unread
                                                  ELSE Meta!Read(f[n - 1], d[n])]
<1>1. \E f : R(f)
    BY ReaderExists DEF Reads
<1>2. Meta!After(d) = CHOOSE f : R(f)
    BY DEF Meta!After
<1>3. R(CHOOSE f : R(f))
  <2> HIDE DEF R
  <2>. QED  BY <1>1
<1>. QED  BY <1>2, <1>3 DEF Reads

Total(d) == Meta!After(d)[Len(d)]

LEMMA AfterIs ==
    ASSUME NEW S, NEW d \in Seq(S)
    PROVE  /\ Meta!After(d)[0] = Meta!Unread
           /\ \A n \in 1 .. Len(d) : Meta!After(d)[n] = Meta!Read(Meta!After(d)[n - 1], d[n])
<1>1. Reads(d, Meta!After(d)) /\ Len(d) \in Nat
    BY AfterReads
<1>2. 0 \in 0 .. Len(d) /\ \A n \in 1 .. Len(d) : n \in 0 .. Len(d) /\ n # 0
    BY <1>1
<1> HIDE DEF Meta!After
<1>. QED  BY <1>1, <1>2 DEF Reads

LEMMA TotalAppends ==
    ASSUME NEW S, NEW d \in Seq(S), NEW e \in S
    PROVE  Total(Append(d, e)) = Meta!Read(Total(d), e)
<1> DEFINE b == Append(d, e)
<1>1. b \in Seq(S) /\ Len(b) = Len(d) + 1 /\ Len(d) \in Nat /\ b[Len(d) + 1] = e
      /\ \A n \in 1 .. Len(d) : d[n] = b[n]
    OBVIOUS
<1> HIDE DEF b
<1>2. Reads(d, Meta!After(d)) /\ Reads(b, Meta!After(b))
    BY <1>1, AfterReads
<1>3. Meta!After(d)[Len(d)] = Meta!After(b)[Len(d)]
    BY <1>1, <1>2, ReadsAgree
<1>4. Meta!After(b)[Len(b)] = Meta!Read(Meta!After(b)[Len(b) - 1], b[Len(b)])
    BY <1>1, AfterIs
<1>. QED  BY <1>1, <1>3, <1>4 DEF Total, b

-----------------------------------------------------------------------------
(***************************************************************************)
(* What a reader has read; X are the texts there may be.                   *)
(***************************************************************************)
EventNames == STRING \cup {""}
Lengths == Nat \cup {NoLength, Garbled}
EventsOf(X) == [ev : Meta!Kinds, name : EventNames \X EventNames, type : EventNames,
                length : Lengths, text : X]
ElementsOf(X) == [name : EventNames \X EventNames, type : EventNames, length : Lengths,
                  content : Seq(X)]
Readings(X) == {r \in [open : Seq(Nat), elements : Seq(ElementsOf(X))] :
                  \A n \in DOMAIN r.open : r.open[n] \in DOMAIN r.elements}

LEMMA LengthsAre == NoLength \in Lengths
BY DEF Lengths

\* The element e begins, with content c so far; an element is read whole.
Whole(e, c) == [name |-> e.name, type |-> e.type, length |-> e.length, content |-> c]
Begun(r, e, c) == [open |-> <<Len(r.elements) + 1>> \o r.open,
                   elements |-> Append(r.elements, Whole(e, c))]
Ended(r, e, c) == [open |-> r.open, elements |-> Append(r.elements, Whole(e, c))]

LEMMA ReadingIs ==
    ASSUME NEW X, NEW r \in Readings(X)
    PROVE  /\ r.open \in Seq(Nat) /\ r.elements \in Seq(ElementsOf(X)) /\ Len(r.elements) \in Nat
           /\ \A n \in DOMAIN r.open : r.open[n] \in DOMAIN r.elements
           /\ r = [open |-> r.open, elements |-> r.elements]
BY DEF Readings

LEMMA AppendedElement ==
    ASSUME NEW X, NEW s \in Seq(ElementsOf(X)), NEW e \in EventsOf(X), NEW c \in Seq(X)
    PROVE  /\ Append(s, Whole(e, c)) \in Seq(ElementsOf(X))
           /\ Len(Append(s, Whole(e, c))) = Len(s) + 1 /\ Len(s) \in Nat
           /\ DOMAIN s \subseteq DOMAIN Append(s, Whole(e, c))
           /\ DOMAIN s = 1 .. Len(s)
           /\ DOMAIN Append(s, Whole(e, c)) = DOMAIN s \cup {Len(s) + 1}
           /\ \A n \in DOMAIN s : Append(s, Whole(e, c))[n] = s[n]
           /\ Append(s, Whole(e, c))[Len(s) + 1] = Whole(e, c)
<1>1. Whole(e, c) \in ElementsOf(X)
    BY DEF Whole, ElementsOf, EventsOf
<1> HIDE DEF Whole
<1>. QED  BY <1>1

LEMMA BegunIs ==
    ASSUME NEW X, NEW r \in Readings(X), NEW e \in EventsOf(X), NEW c \in Seq(X)
    PROVE  Begun(r, e, c) \in Readings(X) /\ Ended(r, e, c) \in Readings(X)
<1>1. /\ r.open \in Seq(Nat) /\ r.elements \in Seq(ElementsOf(X)) /\ Len(r.elements) \in Nat
      /\ \A n \in DOMAIN r.open : r.open[n] \in DOMAIN r.elements
    BY ReadingIs
<1> DEFINE s == Append(r.elements, Whole(e, c))
           b == <<Len(r.elements) + 1>> \o r.open
<1>2. /\ s \in Seq(ElementsOf(X)) /\ DOMAIN s = DOMAIN r.elements \cup {Len(r.elements) + 1}
    BY <1>1, AppendedElement
<1>3. /\ b \in Seq(Nat)
      /\ \A n \in DOMAIN b : b[n] = Len(r.elements) + 1 \/ \E m \in DOMAIN r.open : b[n] = r.open[m]
    BY <1>1
<1>4. Begun(r, e, c) = [open |-> b, elements |-> s]
    BY DEF Begun
<1>5. Ended(r, e, c) = [open |-> r.open, elements |-> s]
    BY DEF Ended
<1> HIDE DEF b, s
<1>6. /\ [open |-> b, elements |-> s] \in [open : Seq(Nat), elements : Seq(ElementsOf(X))]
      /\ [open |-> r.open, elements |-> s] \in [open : Seq(Nat), elements : Seq(ElementsOf(X))]
    BY <1>1, <1>2, <1>3
<1>7. \A n \in DOMAIN b : b[n] \in DOMAIN s
    BY <1>1, <1>2, <1>3
<1>8. \A n \in DOMAIN r.open : r.open[n] \in DOMAIN s
    BY <1>1, <1>2
<1>. QED  BY <1>4, <1>5, <1>6, <1>7, <1>8 DEF Readings

\* What each event does to a reading.
Told(r, t) == [r EXCEPT !.elements[Head(r.open)].content = Append(@, t)]

LEMMA ReadStart ==
    ASSUME NEW r, NEW e, e.ev = "start"
    PROVE  Meta!Read(r, e) = Begun(r, e, <<>>)
BY DEF Meta!Read, Meta!Element, Begun, Whole

LEMMA ReadEmpty ==
    ASSUME NEW X, NEW r \in Readings(X), NEW e, e.ev = "empty"
    PROVE  Meta!Read(r, e) = Ended(r, e, <<>>)
<1>1. Meta!Read(r, e) = [r EXCEPT !.elements = Append(@, Meta!Element(e))]
    BY DEF Meta!Read
<1>2. r = [open |-> r.open, elements |-> r.elements]
    BY ReadingIs
<1>3. Meta!Element(e) = Whole(e, <<>>)
    BY DEF Meta!Element, Whole
<1>. QED  BY <1>1, <1>2, <1>3 DEF Ended

LEMMA ReadEnd ==
    ASSUME NEW X, NEW r \in Readings(X), NEW e, e.ev = "end"
    PROVE  Meta!Read(r, e) = [open |-> IF r.open = <<>> THEN <<>> ELSE Tail(r.open),
                              elements |-> r.elements]
<1>1. r = [open |-> r.open, elements |-> r.elements]
    BY ReadingIs
<1>2. CASE r.open = <<>>
  <2>1. Meta!Read(r, e) = r
    BY <1>2 DEF Meta!Read
  <2>. QED  BY <1>1, <1>2, <2>1
<1>3. CASE r.open # <<>>
  <2>1. Meta!Read(r, e) = [r EXCEPT !.open = Tail(@)]
    BY <1>3 DEF Meta!Read
  <2>. QED  BY <1>1, <1>3, <2>1
<1>. QED  BY <1>2, <1>3

LEMMA ReadText ==
    ASSUME NEW r, NEW e, e.ev \in {"text", "cdata"}
    PROVE  Meta!Read(r, e) = IF r.open = <<>> THEN r ELSE Told(r, e.text)
BY DEF Meta!Read, Told

LEMMA ReadOther ==
    ASSUME NEW r, NEW e, e.ev \notin {"start", "empty", "end", "text", "cdata"}
    PROVE  Meta!Read(r, e) = r
BY DEF Meta!Read

\* An element whose content grows.
LEMMA Grown ==
    ASSUME NEW u, NEW c, u = [name |-> u.name, type |-> u.type, length |-> u.length,
                              content |-> u.content]
    PROVE  [u EXCEPT !.content = c]
             = [name |-> u.name, type |-> u.type, length |-> u.length, content |-> c]
<1>1. DOMAIN u = {"name", "type", "length", "content"}
    OBVIOUS
<1>2. \A n \in DOMAIN u : [u EXCEPT !.content = c][n] = IF n = "content" THEN c ELSE u[n]
    BY <1>1
<1>. QED  BY <1>1, <1>2

LEMMA ToldIs ==
    ASSUME NEW X, NEW r \in Readings(X), r.open # <<>>, NEW t \in X
    PROVE  LET x == Head(r.open)
               u == r.elements[x] IN
           /\ x \in DOMAIN r.elements
           /\ Told(r, t) = [open |-> r.open,
                            elements |-> [r.elements EXCEPT ![x] =
                               [name |-> u.name, type |-> u.type, length |-> u.length,
                                content |-> Append(u.content, t)]]]
           /\ Told(r, t) \in Readings(X)
<1> DEFINE x == Head(r.open)
           u == r.elements[x]
           w == [name |-> u.name, type |-> u.type, length |-> u.length,
                 content |-> Append(u.content, t)]
           z == [r.elements EXCEPT ![x] = w]
<1>1. /\ r.open \in Seq(Nat) /\ r.elements \in Seq(ElementsOf(X)) /\ Len(r.elements) \in Nat
      /\ \A n \in DOMAIN r.open : r.open[n] \in DOMAIN r.elements
      /\ r = [open |-> r.open, elements |-> r.elements]
    BY ReadingIs
<1>2. x \in DOMAIN r.elements
  <2>1. 1 \in DOMAIN r.open /\ Head(r.open) = r.open[1]
    BY <1>1
  <2>. QED  BY <1>1, <2>1
<1>3. u \in ElementsOf(X)
    BY <1>1, <1>2
<1>4. w \in ElementsOf(X) /\ w = [u EXCEPT !.content = Append(@, t)]
  <2> HIDE DEF u
  <2>1. u.content \in Seq(X) /\ Append(u.content, t) \in Seq(X)
    BY <1>3 DEF ElementsOf
  <2>2. /\ u.name \in EventNames \X EventNames /\ u.type \in EventNames /\ u.length \in Lengths
        /\ u = [name |-> u.name, type |-> u.type, length |-> u.length, content |-> u.content]
    BY <1>3 DEF ElementsOf
  <2>3. w = [u EXCEPT !.content = Append(@, t)]
    BY <2>2, Grown
  <2>4. w \in ElementsOf(X)
    BY <2>1, <2>2 DEF ElementsOf
  <2>. QED  BY <2>3, <2>4
<1>5. z \in Seq(ElementsOf(X)) /\ DOMAIN z = DOMAIN r.elements
  <2> HIDE DEF w, x, u
  <2>. QED  BY <1>1, <1>2, <1>4
<1>6. Told(r, t) = [open |-> r.open, elements |-> z]
  <2>1. Told(r, t) =
            [r EXCEPT !.elements =
                [r.elements EXCEPT ![x] = [u EXCEPT !.content = Append(u.content, t)]]]
    BY DEF Told
  <2>2. Told(r, t) = [r EXCEPT !.elements = z]
    BY <1>4, <2>1
  <2> HIDE DEF z, x, u, w
  <2>. QED  BY <1>1, <2>2
<1>7. [open |-> r.open, elements |-> z] \in Readings(X)
  <2> HIDE DEF z
  <2>. QED  BY <1>1, <1>5 DEF Readings
<1>. QED  BY <1>2, <1>6, <1>7

-----------------------------------------------------------------------------
\* An element that was read is there as long as one reads on, under the same name.
SameHead(a, b) == a.name = b.name /\ a.type = b.type /\ a.length = b.length
Kept(r, s) == /\ DOMAIN r.elements \subseteq DOMAIN s.elements
              /\ \A n \in DOMAIN r.elements : SameHead(r.elements[n], s.elements[n])

LEMMA ReadTyped ==
    ASSUME NEW X, NEW r \in Readings(X), NEW e \in EventsOf(X)
    PROVE  Meta!Read(r, e) \in Readings(X) /\ Kept(r, Meta!Read(r, e))
<1>1. /\ r.open \in Seq(Nat) /\ r.elements \in Seq(ElementsOf(X)) /\ Len(r.elements) \in Nat
      /\ \A n \in DOMAIN r.open : r.open[n] \in DOMAIN r.elements
      /\ r = [open |-> r.open, elements |-> r.elements]
    BY ReadingIs
<1>2. <<>> \in Seq(X)
    OBVIOUS
<1>3. Kept(r, r) /\ \A o : Kept(r, [open |-> o, elements |-> r.elements])
    BY DEF Kept, SameHead
<1>4. Kept(r, Begun(r, e, <<>>)) /\ Kept(r, Ended(r, e, <<>>))
  <2> DEFINE s == Append(r.elements, Whole(e, <<>>))
  <2>1. DOMAIN r.elements \subseteq DOMAIN s /\ \A n \in DOMAIN r.elements : s[n] = r.elements[n]
    BY <1>1, <1>2, AppendedElement
  <2>2. Begun(r, e, <<>>).elements = s /\ Ended(r, e, <<>>).elements = s
    BY DEF Begun, Ended
  <2> HIDE DEF s
  <2>. QED  BY <2>1, <2>2 DEF Kept, SameHead
<1>5. CASE e.ev = "start"
    BY <1>2, <1>4, <1>5, ReadStart, BegunIs
<1>6. CASE e.ev = "empty"
    BY <1>2, <1>4, <1>6, ReadEmpty, BegunIs
<1>7. CASE e.ev = "end"
  <2> DEFINE o == IF r.open = <<>> THEN <<>> ELSE Tail(r.open)
  <2>1. o \in Seq(Nat) /\ \A n \in DOMAIN o : \E m \in DOMAIN r.open : o[n] = r.open[m]
    <3>1. CASE r.open = <<>>
        BY <3>1
    <3>2. CASE r.open # <<>>
      <4>1. /\ Tail(r.open) \in Seq(Nat)
            /\ \A n \in DOMAIN Tail(r.open) :
                 n + 1 \in DOMAIN r.open /\ Tail(r.open)[n] = r.open[n + 1]
        BY <1>1, <3>2
      <4>. QED  BY <3>2, <4>1
    <3>. QED  BY <3>1, <3>2
  <2>2. Meta!Read(r, e) = [open |-> o, elements |-> r.elements]
    BY <1>7, ReadEnd
  <2> HIDE DEF o
  <2>3. [open |-> o, elements |-> r.elements] \in Readings(X)
    BY <1>1, <2>1 DEF Readings
  <2>. QED  BY <1>3, <2>2, <2>3
<1>8. CASE e.ev \in {"text", "cdata"}
  <2>1. CASE r.open = <<>>
    BY <1>3, <1>8, <2>1, ReadText
  <2>2. CASE r.open # <<>>
    <3> DEFINE x == Head(r.open)
               u == r.elements[x]
               w == [name |-> u.name, type |-> u.type, length |-> u.length,
                     content |-> Append(u.content, e.text)]
               z == [r.elements EXCEPT ![x] = w]
    <3>1. e.text \in X
        BY DEF EventsOf
    <3>2. /\ Told(r, e.text) = [open |-> r.open, elements |-> z]
          /\ Told(r, e.text) \in Readings(X)
        BY <2>2, <3>1, ToldIs
    <3>3. DOMAIN z = DOMAIN r.elements
          /\ \A n \in DOMAIN z : IF n = x THEN z[n] = w ELSE z[n] = r.elements[n]
        OBVIOUS
    <3>4. SameHead(u, w)
        BY DEF SameHead
    <3>5. \A a : SameHead(a, a)
        BY DEF SameHead
    <3>6. Kept(r, [open |-> r.open, elements |-> z])
      <4> HIDE DEF z, w
      <4>. QED  BY <3>3, <3>4, <3>5 DEF Kept
    <3>. QED  BY <1>8, <2>2, <3>2, <3>6, ReadText
  <2>. QED  BY <2>1, <2>2
<1>9. CASE e.ev \notin {"start", "empty", "end", "text", "cdata"}
    BY <1>3, <1>9, ReadOther
<1>. QED  BY <1>5, <1>6, <1>7, <1>8, <1>9

LEMMA AfterTyped ==
    ASSUME NEW X, NEW d \in Seq(EventsOf(X))
    PROVE  /\ \A n \in 0 .. Len(d) : Meta!After(d)[n] \in Readings(X)
           /\ \A n \in 1 .. Len(d) : Kept(Meta!After(d)[n - 1], Meta!After(d)[n])
<1> DEFINE f == Meta!After(d)
           T == {n \in 0 .. Len(d) : f[n] \notin Readings(X)}
<1>1. Len(d) \in Nat /\ \A n \in 1 .. Len(d) : d[n] \in EventsOf(X)
    OBVIOUS
<1>2. f[0] = Meta!Unread /\ \A n \in 1 .. Len(d) : f[n] = Meta!Read(f[n - 1], d[n])
    BY AfterIs
<1>3. Meta!Unread \in Readings(X)
  <2>1. <<>> \in Seq(Nat) /\ <<>> \in Seq(ElementsOf(X)) /\ DOMAIN <<>> = {}
    OBVIOUS
  <2>. QED  BY <2>1 DEF Meta!Unread, Readings
<1> HIDE DEF f
<1>4. ASSUME T # {} PROVE FALSE
  <2>1. PICK x \in T : \A y \in T : x <= y
    <3>1. T \in SUBSET Nat
        OBVIOUS
    <3> HIDE DEF T
    <3>. QED  BY <1>4, <3>1, LeastNatural
  <2>2. x \in 0 .. Len(d) /\ f[x] \notin Readings(X) /\ x # 0
    BY <1>2, <1>3, <2>1
  <2>3. x \in 1 .. Len(d) /\ x - 1 \in 0 .. Len(d) /\ ~ x <= x - 1
    BY <1>1, <2>2
  <2>4. f[x - 1] \in Readings(X)
    BY <2>1, <2>3
  <2>. QED  BY <1>1, <1>2, <2>2, <2>3, <2>4, ReadTyped
<1>5. \A n \in 0 .. Len(d) : f[n] \in Readings(X)
    BY <1>4
<1>6. ASSUME NEW n \in 1 .. Len(d) PROVE Kept(f[n - 1], f[n])
  <2>1. n - 1 \in 0 .. Len(d)
    BY <1>1
  <2>. QED  BY <1>1, <1>2, <1>5, <2>1, ReadTyped
<1>. QED  BY <1>5, <1>6 DEF f

LEMMA AfterKeeps ==
    ASSUME NEW X, NEW d \in Seq(EventsOf(X)), NEW m \in 0 .. Len(d)
    PROVE  Kept(Meta!After(d)[m], Total(d))
<1> DEFINE f == Meta!After(d)
           T == {n \in m .. Len(d) : ~ Kept(f[m], f[n])}
<1>1. Len(d) \in Nat /\ m \in Nat /\ Len(d) \in m .. Len(d)
    OBVIOUS
<1>2. \A n \in 1 .. Len(d) : Kept(f[n - 1], f[n])
    BY AfterTyped
<1>3. \A a : Kept(a, a)
    BY DEF Kept, SameHead
<1>4. \A a, b, c : Kept(a, b) /\ Kept(b, c) => Kept(a, c)
    BY DEF Kept, SameHead
<1> HIDE DEF f
<1>5. ASSUME T # {} PROVE FALSE
  <2>1. PICK x \in T : \A y \in T : x <= y
    <3>1. T \in SUBSET Nat
        BY <1>1
    <3> HIDE DEF T
    <3>. QED  BY <1>5, <3>1, LeastNatural
  <2>2. x \in m .. Len(d) /\ ~ Kept(f[m], f[x]) /\ x # m
    BY <1>3, <2>1
  <2>3. x \in 1 .. Len(d) /\ x - 1 \in m .. Len(d) /\ ~ x <= x - 1
    BY <1>1, <2>2
  <2>4. Kept(f[m], f[x - 1])
    BY <2>1, <2>3
  <2>. QED  BY <1>2, <1>4, <2>2, <2>3, <2>4
<1>. QED  BY <1>1, <1>5 DEF f, Total

-----------------------------------------------------------------------------
(***************************************************************************)
(* An element that begins, says something and ends.                        *)
(***************************************************************************)
LEMMA BegunTold ==
    ASSUME NEW X, NEW r \in Readings(X), NEW e \in EventsOf(X), NEW t \in EventsOf(X),
           t.ev = "text"
    PROVE  Meta!Read(Begun(r, e, <<>>), t) = Begun(r, e, <<t.text>>)
<1> DEFINE b == Begun(r, e, <<>>)
           x == Len(r.elements) + 1
           s == Append(r.elements, Whole(e, <<>>))
<1>1. r.open \in Seq(Nat) /\ r.elements \in Seq(ElementsOf(X)) /\ Len(r.elements) \in Nat
      /\ <<>> \in Seq(X) /\ t.text \in X
    BY ReadingIs DEF EventsOf
<1>2. b \in Readings(X)
    BY <1>1, BegunIs
<1>3. b.open # <<>> /\ Head(b.open) = x /\ b.elements = s /\ b.open = <<x>> \o r.open
    BY <1>1 DEF Begun
<1>4. /\ DOMAIN s = DOMAIN r.elements \cup {x} /\ DOMAIN r.elements = 1 .. Len(r.elements)
      /\ \A n \in DOMAIN r.elements : s[n] = r.elements[n]
      /\ s[x] = Whole(e, <<>>)
    BY <1>1, AppendedElement
<1> DEFINE u == b.elements[x]
           w == [name |-> u.name, type |-> u.type, length |-> u.length,
                 content |-> Append(u.content, t.text)]
           z == [b.elements EXCEPT ![x] = w]
           y == Append(r.elements, Whole(e, <<t.text>>))
<1>5. Told(b, t.text) = [open |-> b.open, elements |-> z]
    BY <1>1, <1>2, <1>3, ToldIs
<1>6. w = Whole(e, <<t.text>>)
  <2>1. u = Whole(e, <<>>)
    BY <1>3, <1>4
  <2>2. Append(<<>>, t.text) = <<t.text>>
    OBVIOUS
  <2> HIDE DEF u, b
  <2>. QED  BY <2>1, <2>2 DEF Whole
<1>7. z = y
  <2>1. /\ <<t.text>> \in Seq(X)
        /\ DOMAIN y = DOMAIN r.elements \cup {x}
        /\ \A n \in DOMAIN r.elements : y[n] = r.elements[n]
        /\ y[x] = Whole(e, <<t.text>>)
        /\ y \in Seq(ElementsOf(X))
    <3>1. <<t.text>> \in Seq(X)
        BY <1>1
    <3>2. PICK c \in Seq(X) : c = <<t.text>>
        BY <3>1
    <3>3. LET v == Append(r.elements, Whole(e, c))
          IN  /\ v \in Seq(ElementsOf(X)) /\ DOMAIN v = DOMAIN r.elements \cup {x}
              /\ \A n \in DOMAIN r.elements : v[n] = r.elements[n]
              /\ v[x] = Whole(e, c)
        BY <1>1, AppendedElement
    <3>. QED  BY <3>2, <3>3
  <2>2. DOMAIN z = DOMAIN s /\ \A n \in DOMAIN s : z[n] = IF n = x THEN w ELSE s[n]
    BY <1>3
  <2>3. x \notin DOMAIN r.elements
    BY <1>1, <1>4
  <2>4. DOMAIN z = DOMAIN y /\ \A n \in DOMAIN y : z[n] = y[n]
    <3> HIDE DEF z, y, s, w, b, x
    <3>. QED  BY <1>4, <1>6, <2>1, <2>2, <2>3
  <2>5. z = [n \in DOMAIN z |-> z[n]]
    OBVIOUS
  <2>6. y = [n \in DOMAIN y |-> y[n]]
    <3> HIDE DEF y
    <3>. QED  BY <2>1
  <2> HIDE DEF z, y
  <2>. QED  BY <2>4, <2>5, <2>6
<1>8. Meta!Read(b, t) = Told(b, t.text)
    BY <1>3, ReadText
<1> HIDE DEF z, y
<1>9. Begun(r, e, <<t.text>>) = [open |-> b.open, elements |-> y]
    BY <1>3 DEF Begun, y
<1>. QED  BY <1>5, <1>7, <1>8, <1>9

LEMMA BegunEnded ==
    ASSUME NEW X, NEW r \in Readings(X), NEW e \in EventsOf(X), NEW c \in Seq(X),
           NEW z, z.ev = "end"
    PROVE  Meta!Read(Begun(r, e, c), z) = Ended(r, e, c)
<1> DEFINE b == Begun(r, e, c)
<1>1. r.open \in Seq(Nat) /\ Len(r.elements) + 1 \in Nat
    BY ReadingIs
<1>2. b \in Readings(X)
    BY BegunIs
<1>3. b.open = <<Len(r.elements) + 1>> \o r.open /\ b.elements = Append(r.elements, Whole(e, c))
    BY DEF Begun
<1>4. \A x \in Nat : <<x>> \o r.open # <<>> /\ Tail(<<x>> \o r.open) = r.open
    BY <1>1
<1>5. Meta!Read(b, z) = [open |-> IF b.open = <<>> THEN <<>> ELSE Tail(b.open),
                         elements |-> b.elements]
    BY <1>2, ReadEnd
<1> HIDE DEF b
<1>. QED  BY <1>1, <1>3, <1>4, <1>5 DEF Ended, b

-----------------------------------------------------------------------------
(***************************************************************************)
(* The reading o of the file that is written, and p of the base's: the     *)
(* same elements, with the values V of the game in those that are its.     *)
(***************************************************************************)
OfGame(V, name) ==
    IF name[1] \in Meta!Localized THEN name[2] \in Meta!LANGS
                                  ELSE name[2] = "" /\ name[1] \in DOMAIN V
Holds(V, u) ==
    IF ~ OfGame(V, u.name) THEN u.content
    ELSE IF Meta!TextLen(V[u.name[1]]) = 0 THEN <<>> ELSE <<V[u.name[1]]>>
Wanted(V, u) == [name |-> u.name, type |-> u.type, length |-> u.length, content |-> Holds(V, u)]

Mirrors(V, o, p) ==
    /\ o.open = p.open
    /\ DOMAIN o.elements = DOMAIN p.elements
    /\ \A n \in DOMAIN p.elements : o.elements[n] = Wanted(V, p.elements[n])

NoneOpen(V, p) == \A n \in DOMAIN p.open : ~ OfGame(V, p.elements[p.open[n]].name)

LEMMA BeginsMirrored ==
    ASSUME NEW X, NEW V, NEW o \in Readings(X), NEW p \in Readings(X), Mirrors(V, o, p),
           NEW e \in EventsOf(X), NEW a \in EventsOf(X), SameHead(e, a),
           NEW b \in Seq(X), NEW c \in Seq(X), b = Holds(V, Whole(e, c))
    PROVE  /\ Mirrors(V, Begun(o, a, b), Begun(p, e, c))
           /\ Mirrors(V, Ended(o, a, b), Ended(p, e, c))
<1> DEFINE s == Append(o.elements, Whole(a, b))
           t == Append(p.elements, Whole(e, c))
<1>1. /\ o.elements \in Seq(ElementsOf(X)) /\ p.elements \in Seq(ElementsOf(X))
      /\ Len(o.elements) \in Nat /\ Len(p.elements) \in Nat
    BY ReadingIs
<1>2. /\ DOMAIN s = DOMAIN o.elements \cup {Len(o.elements) + 1}
      /\ \A n \in DOMAIN o.elements : s[n] = o.elements[n]
      /\ s[Len(o.elements) + 1] = Whole(a, b)
    BY <1>1, AppendedElement
<1>3. /\ DOMAIN t = DOMAIN p.elements \cup {Len(p.elements) + 1}
      /\ \A n \in DOMAIN p.elements : t[n] = p.elements[n]
      /\ t[Len(p.elements) + 1] = Whole(e, c)
    BY <1>1, AppendedElement
<1>4. Len(o.elements) = Len(p.elements)
    BY <1>1 DEF Mirrors
<1>5. Whole(a, b) = Wanted(V, Whole(e, c))
    BY DEF Whole, Wanted, SameHead
<1>6. /\ Begun(o, a, b).elements = s /\ Ended(o, a, b).elements = s
      /\ Begun(p, e, c).elements = t /\ Ended(p, e, c).elements = t
      /\ Begun(o, a, b).open = Begun(p, e, c).open /\ Ended(o, a, b).open = Ended(p, e, c).open
    BY <1>4 DEF Begun, Ended, Mirrors
<1> HIDE DEF s, t
<1>7. DOMAIN s = DOMAIN t /\ \A n \in DOMAIN t : s[n] = Wanted(V, t[n])
    BY <1>2, <1>3, <1>4, <1>5 DEF Mirrors
<1>. QED  BY <1>6, <1>7 DEF Mirrors

LEMMA NoneOpenEnded ==
    ASSUME NEW X, NEW V, NEW p \in Readings(X), NoneOpen(V, p), NEW e \in EventsOf(X),
           NEW c \in Seq(X)
    PROVE  /\ NoneOpen(V, Ended(p, e, c))
           /\ ~ OfGame(V, e.name) => NoneOpen(V, Begun(p, e, c))
<1> DEFINE t == Append(p.elements, Whole(e, c))
           b == <<Len(p.elements) + 1>> \o p.open
<1>1. /\ p.open \in Seq(Nat) /\ p.elements \in Seq(ElementsOf(X)) /\ Len(p.elements) \in Nat
      /\ \A n \in DOMAIN p.open : p.open[n] \in DOMAIN p.elements
    BY ReadingIs
<1>2. /\ \A n \in DOMAIN p.elements : t[n] = p.elements[n]
      /\ t[Len(p.elements) + 1] = Whole(e, c)
    BY <1>1, AppendedElement
<1>3. \A n \in DOMAIN b : b[n] = Len(p.elements) + 1 \/ \E m \in DOMAIN p.open : b[n] = p.open[m]
    BY <1>1
<1>4. /\ Begun(p, e, c).elements = t /\ Ended(p, e, c).elements = t
      /\ Begun(p, e, c).open = b /\ Ended(p, e, c).open = p.open
    BY DEF Begun, Ended
<1>5. Whole(e, c).name = e.name
    BY DEF Whole
<1> HIDE DEF t, b
<1>. QED  BY <1>1, <1>2, <1>3, <1>4, <1>5 DEF NoneOpen

\* An event that is not the start of an element of the game's does the same to both.
LEMMA ReadsMirrored ==
    ASSUME NEW X, NEW V, NEW o \in Readings(X), NEW p \in Readings(X), Mirrors(V, o, p),
           NoneOpen(V, p), NEW e \in EventsOf(X),
           e.ev \in {"start", "empty"} => ~ OfGame(V, e.name)
    PROVE  Mirrors(V, Meta!Read(o, e), Meta!Read(p, e)) /\ NoneOpen(V, Meta!Read(p, e))
<1>1. /\ p.open \in Seq(Nat) /\ p.elements \in Seq(ElementsOf(X)) /\ Len(p.elements) \in Nat
      /\ \A n \in DOMAIN p.open : p.open[n] \in DOMAIN p.elements
      /\ <<>> \in Seq(X)
    BY ReadingIs
<1>2. SameHead(e, e)
    BY DEF SameHead
<1>3. CASE e.ev \in {"start", "empty"}
  <2>1. Whole(e, <<>>).name = e.name /\ Whole(e, <<>>).content = <<>>
    BY DEF Whole
  <2>2. <<>> = Holds(V, Whole(e, <<>>))
    BY <1>3, <2>1 DEF Holds
  <2>3. /\ Mirrors(V, Begun(o, e, <<>>), Begun(p, e, <<>>))
        /\ Mirrors(V, Ended(o, e, <<>>), Ended(p, e, <<>>))
    BY <1>1, <1>2, <2>2, BeginsMirrored
  <2>4. NoneOpen(V, Ended(p, e, <<>>)) /\ NoneOpen(V, Begun(p, e, <<>>))
    BY <1>1, <1>3, NoneOpenEnded
  <2>5. CASE e.ev = "start"
    BY <2>3, <2>4, <2>5, ReadStart
  <2>6. CASE e.ev = "empty"
    BY <2>3, <2>4, <2>6, ReadEmpty
  <2>. QED  BY <1>3, <2>5, <2>6
<1>4. CASE e.ev = "end"
  <2> DEFINE b == IF p.open = <<>> THEN <<>> ELSE Tail(p.open)
  <2>1. o.open = p.open
    BY DEF Mirrors
  <2>2. /\ Meta!Read(o, e) = [open |-> b, elements |-> o.elements]
        /\ Meta!Read(p, e) = [open |-> b, elements |-> p.elements]
    BY <1>4, <2>1, ReadEnd
  <2>3. \A n \in DOMAIN b : \E m \in DOMAIN p.open : b[n] = p.open[m]
    <3>1. CASE p.open = <<>>
        BY <3>1
    <3>2. CASE p.open # <<>>
      <4>1. \A n \in DOMAIN Tail(p.open) :
                n + 1 \in DOMAIN p.open /\ Tail(p.open)[n] = p.open[n + 1]
        BY <1>1, <3>2
      <4>. QED  BY <3>2, <4>1
    <3>. QED  BY <3>1, <3>2
  <2> HIDE DEF b
  <2>. QED  BY <2>2, <2>3 DEF Mirrors, NoneOpen
<1>5. CASE e.ev \in {"text", "cdata"}
  <2>1. o.open = p.open
    BY DEF Mirrors
  <2>2. CASE p.open = <<>>
    BY <1>5, <2>1, <2>2, ReadText
  <2>3. CASE p.open # <<>>
    <3> DEFINE x == Head(p.open)
               Spoken(u) == [name |-> u.name, type |-> u.type, length |-> u.length,
                             content |-> Append(u.content, e.text)]
               y == [o.elements EXCEPT ![x] = Spoken(o.elements[x])]
               z == [p.elements EXCEPT ![x] = Spoken(p.elements[x])]
    <3>1. e.text \in X /\ x \in DOMAIN p.elements
        BY <2>3, ToldIs DEF EventsOf
    <3>2. Told(p, e.text) = [open |-> p.open, elements |-> z]
        BY <2>3, <3>1, ToldIs
    <3>3. Told(o, e.text) = [open |-> p.open, elements |-> y]
        BY <2>1, <2>3, <3>1, ToldIs
    <3>4. x = p.open[1] /\ 1 \in DOMAIN p.open
        BY <1>1, <2>3
    <3>5. ~ OfGame(V, p.elements[x].name)
        BY <3>4 DEF NoneOpen
    <3>6. /\ DOMAIN y = DOMAIN o.elements /\ DOMAIN z = DOMAIN p.elements
          /\ \A n \in DOMAIN y : y[n] = IF n = x THEN Spoken(o.elements[x]) ELSE o.elements[n]
          /\ \A n \in DOMAIN z : z[n] = IF n = x THEN Spoken(p.elements[x]) ELSE p.elements[n]
        OBVIOUS
    <3>7. Spoken(o.elements[x]) = Wanted(V, Spoken(p.elements[x]))
      <4>1. o.elements[x] = Wanted(V, p.elements[x])
        BY <3>1 DEF Mirrors
      <4>2. o.elements[x].content = p.elements[x].content /\ SameHead(o.elements[x], p.elements[x])
        BY <3>5, <4>1 DEF Wanted, Holds, SameHead
      <4>3. Spoken(o.elements[x]) = Spoken(p.elements[x])
        BY <4>2 DEF SameHead
      <4>4. /\ Spoken(p.elements[x]).name = p.elements[x].name
            /\ Spoken(p.elements[x]).type = p.elements[x].type
            /\ Spoken(p.elements[x]).length = p.elements[x].length
            /\ Spoken(p.elements[x]).content = Append(p.elements[x].content, e.text)
        OBVIOUS
      <4>5. Holds(V, Spoken(p.elements[x])) = Append(p.elements[x].content, e.text)
        BY <3>5, <4>4 DEF Holds
      <4>6. Wanted(V, Spoken(p.elements[x])) =
                [name |-> p.elements[x].name, type |-> p.elements[x].type,
                 length |-> p.elements[x].length, content |-> Append(p.elements[x].content, e.text)]
        BY <4>4, <4>5 DEF Wanted
      <4>. QED  BY <4>3, <4>6
    <3>8. Spoken(p.elements[x]).name = p.elements[x].name
        OBVIOUS
    <3> HIDE DEF y, z, Spoken
    <3>9. Mirrors(V, [open |-> p.open, elements |-> y], [open |-> p.open, elements |-> z])
      <4>1. DOMAIN y = DOMAIN z
        BY <3>6 DEF Mirrors
      <4>2. \A n \in DOMAIN z : y[n] = Wanted(V, z[n])
        BY <3>6, <3>7, <4>1 DEF Mirrors
      <4>. QED  BY <4>1, <4>2 DEF Mirrors
    <3>10. NoneOpen(V, [open |-> p.open, elements |-> z])
      <4>1. \A n \in DOMAIN p.elements : z[n].name = p.elements[n].name
        BY <3>6, <3>8
      <4>. QED  BY <1>1, <4>1 DEF NoneOpen
    <3>. QED  BY <1>5, <2>1, <2>3, <3>2, <3>3, <3>9, <3>10, ReadText
  <2>. QED  BY <2>2, <2>3
<1>6. CASE e.ev \notin {"start", "empty", "end", "text", "cdata"}
    BY <1>6, ReadOther
<1>. QED  BY <1>3, <1>4, <1>5, <1>6

-----------------------------------------------------------------------------
(***************************************************************************)
(* Values that fit.                                                        *)
(***************************************************************************)
FitsIn(V, u) ==
    OfGame(V, u.name) =>
        /\ u.length # Garbled
        /\ u.length # NoLength =>
             /\ u.type = "string" => ~ Meta!EscapedLen(V[u.name[1]]) > u.length
             /\ u.type = "hexBinary" => Meta!TextLen(V[u.name[1]]) = 2 * u.length

AllFit(V, p) == \A n \in DOMAIN p.elements : FitsIn(V, p.elements[n])

LEMMA FitsHead == ASSUME NEW V, NEW a, NEW b, SameHead(a, b) PROVE FitsIn(V, a) <=> FitsIn(V, b)
BY DEF FitsIn, SameHead

\* Only an element that begins is new, the last.
LEMMA ReadNew ==
    ASSUME NEW X, NEW p \in Readings(X), NEW e \in EventsOf(X)
    PROVE  LET r == Meta!Read(p, e) IN
           /\ \A n \in DOMAIN r.elements :
                \/ n \in DOMAIN p.elements
                \/ e.ev \in {"start", "empty"} /\ SameHead(r.elements[n], e)
           /\ e.ev \in {"start", "empty"} =>
                \E n \in DOMAIN r.elements : SameHead(r.elements[n], e)
<1>1. /\ p.elements \in Seq(ElementsOf(X)) /\ Len(p.elements) \in Nat /\ <<>> \in Seq(X)
    BY ReadingIs
<1>2. CASE e.ev \in {"start", "empty"}
  <2> DEFINE t == Append(p.elements, Whole(e, <<>>))
  <2>1. /\ DOMAIN t = DOMAIN p.elements \cup {Len(p.elements) + 1}
        /\ t[Len(p.elements) + 1] = Whole(e, <<>>)
    BY <1>1, AppendedElement
  <2>2. Meta!Read(p, e).elements = t
    <3>1. Begun(p, e, <<>>).elements = t /\ Ended(p, e, <<>>).elements = t
        BY DEF Begun, Ended
    <3>2. Meta!Read(p, e) = Begun(p, e, <<>>) \/ Meta!Read(p, e) = Ended(p, e, <<>>)
        BY <1>2, ReadStart, ReadEmpty
    <3> HIDE DEF t
    <3>. QED  BY <3>1, <3>2
  <2>3. SameHead(Whole(e, <<>>), e)
    BY DEF SameHead, Whole
  <2> HIDE DEF t
  <2>. QED  BY <1>2, <2>1, <2>2, <2>3
<1>3. CASE e.ev \notin {"start", "empty"}
  <2>1. DOMAIN Meta!Read(p, e).elements = DOMAIN p.elements
    <3>1. CASE e.ev = "end"
        BY <3>1, ReadEnd
    <3>2. CASE e.ev \in {"text", "cdata"}
      <4>1. e.text \in X
        BY DEF EventsOf
      <4>2. CASE p.open = <<>>
        BY <3>2, <4>2, ReadText
      <4>3. CASE p.open # <<>>
        <5> DEFINE x == Head(p.open)
                   u == p.elements[x]
                   w == [name |-> u.name, type |-> u.type, length |-> u.length,
                         content |-> Append(u.content, e.text)]
        <5>1. Told(p, e.text) = [open |-> p.open, elements |-> [p.elements EXCEPT ![x] = w]]
            BY <4>1, <4>3, ToldIs
        <5> HIDE DEF x, w
        <5>2. Meta!Read(p, e) = Told(p, e.text)
            BY <3>2, <4>3, ReadText
        <5>. QED  BY <5>1, <5>2
      <4>. QED  BY <4>2, <4>3
    <3>3. CASE e.ev \notin {"start", "empty", "end", "text", "cdata"}
        BY <3>3, ReadOther
    <3>. QED  BY <1>3, <3>1, <3>2, <3>3
  <2>. QED  BY <1>3, <2>1
<1>. QED  BY <1>2, <1>3

LEMMA ReadFits ==
    ASSUME NEW X, NEW V, NEW p \in Readings(X), AllFit(V, p), NEW e \in EventsOf(X),
           e.ev \in {"start", "empty"} => FitsIn(V, e)
    PROVE  AllFit(V, Meta!Read(p, e))
<1> DEFINE r == Meta!Read(p, e)
<1>1. Kept(p, r)
    BY ReadTyped
<1>2. \A n \in DOMAIN r.elements :
        n \in DOMAIN p.elements \/ (e.ev \in {"start", "empty"} /\ SameHead(r.elements[n], e))
    BY ReadNew
<1> HIDE DEF r
<1>3. ASSUME NEW n \in DOMAIN r.elements PROVE FitsIn(V, r.elements[n])
  <2>1. CASE n \in DOMAIN p.elements
    BY <1>1, <2>1, FitsHead DEF AllFit, Kept
  <2>2. CASE n \notin DOMAIN p.elements
    <3>1. FitsIn(V, e) /\ SameHead(r.elements[n], e)
        BY <1>2, <2>2
    <3>. QED  BY <3>1, FitsHead
  <2>. QED  BY <2>1, <2>2
<1>. QED  BY <1>3 DEF AllFit, r

-----------------------------------------------------------------------------
(***************************************************************************)
(* What is written for an element of the game's, and what it was.          *)
(***************************************************************************)
LEMMA TotalTyped ==
    ASSUME NEW X, NEW s \in Seq(EventsOf(X))
    PROVE  Total(s) \in Readings(X)
<1>1. Len(s) \in 0 .. Len(s)
    OBVIOUS
<1>. QED  BY <1>1, AfterTyped DEF Total

LEMMA WritesText ==
    ASSUME NEW X, Meta!Texts \subseteq X, NEW s \in Seq(EventsOf(X)), NEW a \in EventsOf(X),
           a.ev = "start", NEW t \in X
    PROVE  LET w == s \o <<a>> \o Meta!TextEvent(t) IN
           /\ w \in Seq(EventsOf(X))
           /\ Total(w) = Begun(Total(s), a, IF Meta!TextLen(t) = 0 THEN <<>> ELSE <<t>>)
<1> DEFINE w == s \o <<a>> \o Meta!TextEvent(t)
           c == Meta!Chars("text", t)
<1>1. c \in EventsOf(X) /\ c.ev = "text" /\ c.text = t
  <2>1. c = [ev |-> "text", name |-> <<"", "">>, type |-> "", length |-> NoLength, text |-> t]
    BY DEF Meta!Chars, Meta!Event
  <2>2. "text" \in Meta!Kinds /\ <<"", "">> \in EventNames \X EventNames /\ "" \in EventNames
    BY DEF Meta!Kinds, EventNames
  <2>3. \A u, v : u \in EventNames \X EventNames /\ v \in EventNames =>
          [ev |-> "text", name |-> u, type |-> v, length |-> NoLength, text |-> t] \in EventsOf(X)
    BY <2>2, LengthsAre DEF EventsOf
  <2> HIDE DEF c
  <2>. QED  BY <2>1, <2>2, <2>3
<1>2. Append(s, a) \in Seq(EventsOf(X)) /\ Total(Append(s, a)) = Begun(Total(s), a, <<>>)
    BY TotalAppends, ReadStart
<1>3. CASE Meta!TextLen(t) = 0
  <2>1. w = Append(s, a)
    <3>1. Meta!TextEvent(t) = <<>>
        BY <1>3 DEF Meta!TextEvent
    <3>. QED  BY <3>1
  <2>. QED  BY <1>2, <1>3, <2>1
<1>4. CASE Meta!TextLen(t) # 0
  <2>1. w = Append(Append(s, a), c)
    <3>1. Meta!TextEvent(t) = <<c>>
        BY <1>4 DEF Meta!TextEvent
    <3> HIDE DEF c
    <3>. QED  BY <1>1, <3>1
  <2> HIDE DEF c
  <2>2. Total(Append(Append(s, a), c)) = Meta!Read(Begun(Total(s), a, <<>>), c)
    BY <1>1, <1>2, TotalAppends
  <2>3. Meta!Read(Begun(Total(s), a, <<>>), c) = Begun(Total(s), a, <<t>>)
    BY <1>1, TotalTyped, BegunTold
  <2>4. Append(Append(s, a), c) \in Seq(EventsOf(X))
    BY <1>1, <1>2
  <2>. QED  BY <1>4, <2>1, <2>2, <2>3, <2>4
<1>. QED  BY <1>3, <1>4

LEMMA WritesElement ==
    ASSUME NEW X, Meta!Texts \subseteq X, NEW s \in Seq(EventsOf(X)), NEW a \in EventsOf(X),
           a.ev = "start", NEW t \in X, NEW z \in EventsOf(X), z.ev = "end"
    PROVE  LET w == s \o <<a>> \o Meta!TextEvent(t) \o <<z>> IN
           /\ w \in Seq(EventsOf(X))
           /\ Total(w) = Ended(Total(s), a, IF Meta!TextLen(t) = 0 THEN <<>> ELSE <<t>>)
<1> DEFINE v == s \o <<a>> \o Meta!TextEvent(t)
           c == IF Meta!TextLen(t) = 0 THEN <<>> ELSE <<t>>
<1>1. v \in Seq(EventsOf(X)) /\ Total(v) = Begun(Total(s), a, c)
    BY WritesText
<1>2. c \in Seq(X)
    OBVIOUS
<1> HIDE DEF v, c
<1>3. Total(Append(v, z)) = Ended(Total(s), a, c) /\ Append(v, z) \in Seq(EventsOf(X))
    BY <1>1, <1>2, TotalTyped, TotalAppends, BegunEnded
<1>4. v \o <<z>> = Append(v, z)
    BY <1>1
<1>. QED  BY <1>3, <1>4 DEF v, c

\* The shape of an element of the game's in a base, whose document may end in it.
WholeTexts(d) == \A n \in 2 .. Len(d) : ~ (d[n - 1].ev = "text" /\ d[n].ev = "text")
PlainAt(V, d) ==
    \A x \in DOMAIN d : d[x].ev = "start" /\ OfGame(V, d[x].name) =>
        \E y \in (x + 1) .. (Len(d) + 1) :
            /\ \A n \in (x + 1) .. (y - 1) : d[n].ev = "text"
            /\ y \in DOMAIN d => d[y].ev = "end"

LEMMA PlainShape ==
    ASSUME NEW S, NEW d \in Seq(S), WholeTexts(d), NEW V, PlainAt(V, d), NEW x \in DOMAIN d,
           d[x].ev = "start", OfGame(V, d[x].name)
    PROVE  \/ x = Len(d)
           \/ x + 1 \in DOMAIN d /\ d[x + 1].ev = "end"
           \/ x + 1 = Len(d) /\ d[x + 1].ev = "text"
           \/ /\ x + 1 \in DOMAIN d /\ d[x + 1].ev = "text"
              /\ x + 2 \in DOMAIN d /\ d[x + 2].ev = "end"
<1>1. PICK y \in (x + 1) .. (Len(d) + 1) :
            /\ \A n \in (x + 1) .. (y - 1) : d[n].ev = "text"
            /\ y \in DOMAIN d => d[y].ev = "end"
    BY DEF PlainAt
<1>2. Len(d) \in Nat /\ x \in 1 .. Len(d) /\ DOMAIN d = 1 .. Len(d)
    OBVIOUS
<1>3. CASE y = x + 1
    BY <1>1, <1>2, <1>3
<1>4. CASE y # x + 1
  <2>1. x + 1 \in DOMAIN d /\ x + 1 \in (x + 1) .. (y - 1)
    BY <1>1, <1>2, <1>4
  <2>2. d[x + 1].ev = "text"
    BY <1>1, <2>1
  <2>3. CASE y = x + 2
    BY <1>1, <1>2, <2>1, <2>2, <2>3
  <2>4. CASE y # x + 2
    <3>1. x + 2 \in (x + 1) .. (y - 1) /\ x + 2 \in 2 .. Len(d) /\ (x + 2) - 1 = x + 1
        BY <1>1, <1>2, <1>4, <2>4
    <3>2. d[x + 2].ev = "text"
        BY <1>1, <3>1
    <3>. QED  BY <2>2, <3>1, <3>2 DEF WholeTexts
  <2>. QED  BY <2>3, <2>4
<1>. QED  BY <1>3, <1>4

\* What is read of the base up to the end of an element of the game's at x.
LEMMA PassesElement ==
    ASSUME NEW X, NEW d \in Seq(EventsOf(X)), NEW V, NEW x \in DOMAIN d, d[x].ev = "start",
           NEW p, p = Meta!After(d)[x - 1], AllFit(V, p), FitsIn(V, d[x])
    PROVE  /\ p \in Readings(X)
           /\ Meta!After(d)[x] = Begun(p, d[x], <<>>) /\ AllFit(V, Meta!After(d)[x])
           /\ x + 1 \in DOMAIN d /\ d[x + 1].ev = "end" =>
                /\ Meta!After(d)[x + 1] = Ended(p, d[x], <<>>)
                /\ AllFit(V, Meta!After(d)[x + 1])
           /\ x + 1 \in DOMAIN d /\ d[x + 1].ev = "text" =>
                /\ Meta!After(d)[x + 1] = Begun(p, d[x], <<d[x + 1].text>>)
                /\ AllFit(V, Meta!After(d)[x + 1])
                /\ x + 2 \in DOMAIN d /\ d[x + 2].ev = "end" =>
                     /\ Meta!After(d)[x + 2] = Ended(p, d[x], <<d[x + 1].text>>)
                     /\ AllFit(V, Meta!After(d)[x + 2])
<1> DEFINE f == Meta!After(d)
<1>1. /\ Len(d) \in Nat /\ DOMAIN d = 1 .. Len(d) /\ x - 1 \in 0 .. Len(d)
      /\ \A n \in 1 .. Len(d) : d[n] \in EventsOf(X) /\ n \in 0 .. Len(d)
    OBVIOUS
<1>2. \A n \in 1 .. Len(d) : f[n] = Meta!Read(f[n - 1], d[n])
    BY AfterIs
<1>3. \A n \in 0 .. Len(d) : f[n] \in Readings(X)
    BY AfterTyped
<1> HIDE DEF f
<1>4. p \in Readings(X) /\ p = f[x - 1] /\ <<>> \in Seq(X)
    BY <1>1, <1>3 DEF f
<1>5. f[x] = Begun(p, d[x], <<>>)
    BY <1>1, <1>2, <1>4, ReadStart
<1>6. AllFit(V, f[x])
    BY <1>1, <1>2, <1>4, ReadFits
<1>7. ASSUME x + 1 \in DOMAIN d
      PROVE  f[x + 1] = Meta!Read(f[x], d[x + 1]) /\ d[x + 1] \in EventsOf(X)
             /\ f[x] \in Readings(X) /\ f[x + 1] \in Readings(X)
  <2>1. (x + 1) - 1 = x /\ x + 1 \in 1 .. Len(d) /\ x \in 0 .. Len(d)
    BY <1>1, <1>7
  <2>. QED  BY <1>1, <1>2, <1>3, <2>1
<1>8. ASSUME x + 1 \in DOMAIN d, d[x + 1].ev = "end"
      PROVE  f[x + 1] = Ended(p, d[x], <<>>) /\ AllFit(V, f[x + 1])
  <2>1. f[x + 1] = Ended(p, d[x], <<>>)
    <3>1. d[x] \in EventsOf(X) /\ <<>> \in Seq(X)
        BY <1>1
    <3>2. \A z : z.ev = "end" => Meta!Read(Begun(p, d[x], <<>>), z) = Ended(p, d[x], <<>>)
        BY <1>4, <3>1, BegunEnded
    <3>. QED  BY <1>5, <1>7, <1>8, <3>2
  <2>2. AllFit(V, f[x + 1])
    BY <1>6, <1>7, <1>8, ReadFits
  <2>. QED  BY <2>1, <2>2
<1>9. ASSUME x + 1 \in DOMAIN d, d[x + 1].ev = "text"
      PROVE  f[x + 1] = Begun(p, d[x], <<d[x + 1].text>>) /\ AllFit(V, f[x + 1])
             /\ <<d[x + 1].text>> \in Seq(X)
  <2>1. f[x + 1] = Begun(p, d[x], <<d[x + 1].text>>)
    BY <1>1, <1>4, <1>5, <1>7, <1>9, BegunTold
  <2>2. AllFit(V, f[x + 1])
    BY <1>6, <1>7, <1>9, ReadFits
  <2>3. d[x + 1].text \in X
    BY <1>7, <1>9 DEF EventsOf
  <2>. QED  BY <2>1, <2>2, <2>3
<1>10. ASSUME x + 1 \in DOMAIN d, d[x + 1].ev = "text", x + 2 \in DOMAIN d, d[x + 2].ev = "end"
       PROVE  f[x + 2] = Ended(p, d[x], <<d[x + 1].text>>) /\ AllFit(V, f[x + 2])
  <2>1. (x + 2) - 1 = x + 1 /\ x + 2 \in 1 .. Len(d)
    BY <1>1, <1>10
  <2>2. f[x + 2] = Meta!Read(f[x + 1], d[x + 2]) /\ d[x + 2] \in EventsOf(X)
    BY <1>1, <1>2, <2>1
  <2>3. f[x + 2] = Ended(p, d[x], <<d[x + 1].text>>)
    <3>1. PICK c \in Seq(X) : c = <<d[x + 1].text>>
        BY <1>9, <1>10
    <3>2. d[x] \in EventsOf(X)
        BY <1>1
    <3>3. \A z : z.ev = "end" => Meta!Read(Begun(p, d[x], c), z) = Ended(p, d[x], c)
        BY <1>4, <3>1, <3>2, BegunEnded
    <3>. QED  BY <1>9, <1>10, <2>2, <3>1, <3>3
  <2>4. AllFit(V, f[x + 2])
    BY <1>7, <1>9, <1>10, <2>2, ReadFits
  <2>. QED  BY <2>3, <2>4
<1>. QED  BY <1>4, <1>5, <1>6, <1>8, <1>9, <1>10 DEF f

-----------------------------------------------------------------------------
(***************************************************************************)
(* One pass of patch's loop, after which n - 1 events of the base are      *)
(* copied; the end of the document may have been passed.                   *)
(***************************************************************************)
Past(n, d) == IF n > Len(d) THEN Len(d) ELSE n - 1
Mirrored(V, s, d, n) ==
    LET p == Meta!After(d)[Past(n, d)] IN
    /\ Mirrors(V, Total(s), p) /\ AllFit(V, p)
    /\ n <= Len(d) => NoneOpen(V, p)

LEMMA PastIs ==
    ASSUME NEW S, NEW d \in Seq(S), NEW n \in DOMAIN d
    PROVE  /\ Past(n, d) = n - 1 /\ n - 1 \in 0 .. Len(d) /\ n \in 0 .. Len(d) /\ n \in 1 .. Len(d)
           /\ Past(n + 1, d) = n
BY DEF Past

LEMMA PassesOver ==
    ASSUME NEW X, NEW V, NEW d \in Seq(EventsOf(X)), NEW s \in Seq(EventsOf(X)), NEW n \in DOMAIN d,
           Mirrored(V, s, d, n), d[n].ev \in {"start", "empty"} => ~ OfGame(V, d[n].name)
    PROVE  Mirrored(V, Append(s, d[n]), d, n + 1)
<1> DEFINE p == Meta!After(d)[n - 1]
           q == Meta!After(d)[n]
<1>1. /\ Past(n, d) = n - 1 /\ n - 1 \in 0 .. Len(d) /\ n \in 1 .. Len(d) /\ Past(n + 1, d) = n
      /\ d[n] \in EventsOf(X) /\ n <= Len(d)
    BY PastIs
<1>2. p \in Readings(X) /\ q = Meta!Read(p, d[n])
    BY <1>1, AfterTyped, AfterIs
<1>3. Mirrors(V, Total(s), p) /\ AllFit(V, p) /\ NoneOpen(V, p)
    BY <1>1 DEF Mirrored
<1>4. Total(s) \in Readings(X)
    BY TotalTyped
<1> HIDE DEF p, q
<1>5. Mirrors(V, Meta!Read(Total(s), d[n]), q) /\ NoneOpen(V, q)
    BY <1>1, <1>2, <1>3, <1>4, ReadsMirrored
<1>6. AllFit(V, q)
  <2>1. d[n].ev \in {"start", "empty"} => FitsIn(V, d[n])
    BY DEF FitsIn
  <2>. QED  BY <1>1, <1>2, <1>3, <2>1, ReadFits
<1>7. Total(Append(s, d[n])) = Meta!Read(Total(s), d[n])
    BY <1>1, TotalAppends
<1>. QED  BY <1>1, <1>5, <1>6, <1>7 DEF Mirrored, q

\* What an element of the game's with the name of e is to hold.
Worded(t) == IF Meta!TextLen(t) = 0 THEN <<>> ELSE <<t>>

LEMMA WordedHolds ==
    ASSUME NEW V, NEW e, OfGame(V, e.name), NEW c
    PROVE  Holds(V, Whole(e, c)) = Worded(V[e.name[1]])
BY DEF Holds, Whole, Worded

LEMMA Expands ==
    ASSUME NEW X, Meta!Texts \subseteq X, NEW V, NEW d \in Seq(EventsOf(X)),
           NEW s \in Seq(EventsOf(X)), NEW n \in DOMAIN d,
           d[n].ev = "empty", OfGame(V, d[n].name), FitsIn(V, d[n]),
           NEW t \in X, t = V[d[n].name[1]]
    PROVE  LET a == Meta!Start(d[n].name, d[n].type, d[n].length)
               w == s \o <<a>> \o Meta!TextEvent(t) \o <<Meta!End(d[n].name)>> IN
           w \in Seq(EventsOf(X)) /\ (Mirrored(V, s, d, n) => Mirrored(V, w, d, n + 1))
<1> DEFINE e == d[n]
           a == Meta!Start(e.name, e.type, e.length)
           z == Meta!End(e.name)
           w == s \o <<a>> \o Meta!TextEvent(t) \o <<z>>
           p == Meta!After(d)[n - 1]
           q == Meta!After(d)[n]
<1>1. /\ Past(n, d) = n - 1 /\ n - 1 \in 0 .. Len(d) /\ n \in 1 .. Len(d) /\ Past(n + 1, d) = n
      /\ e \in EventsOf(X) /\ n <= Len(d)
    BY PastIs
<1>2. p \in Readings(X) /\ q = Meta!Read(p, e)
    BY <1>1, AfterTyped, AfterIs
<1>4. /\ a \in EventsOf(X) /\ a.ev = "start" /\ SameHead(e, a)
      /\ z \in EventsOf(X) /\ z.ev = "end"
  <2>1. /\ a = [ev |-> "start", name |-> e.name, type |-> e.type, length |-> e.length,
                text |-> Meta!NoText]
        /\ z = [ev |-> "end", name |-> e.name, type |-> "", length |-> NoLength,
                text |-> Meta!NoText]
    BY DEF Meta!Start, Meta!End, Meta!Event
  <2>2. Meta!NoText \in X
    <3>1. Meta!NoText = [says |-> <<>>, plain |-> 0, marks |-> 0]
        BY DEF Meta!NoText, Meta!Text
    <3>2. <<>> \in Seq(STRING)
        OBVIOUS
    <3>. QED  BY <3>1, <3>2 DEF Meta!Texts
  <2>3. /\ e.name \in EventNames \X EventNames /\ e.type \in EventNames
        /\ e.length \in Lengths
        /\ "start" \in Meta!Kinds /\ "end" \in Meta!Kinds /\ "" \in EventNames
    BY <1>1 DEF EventsOf, Meta!Kinds, EventNames
  <2> HIDE DEF e, a, z
  <2>4. a \in EventsOf(X) /\ z \in EventsOf(X)
    BY <2>1, <2>2, <2>3, LengthsAre DEF EventsOf
  <2>5. a.ev = "start" /\ z.ev = "end" /\ SameHead(e, a)
    BY <2>1 DEF SameHead
  <2>. QED  BY <2>4, <2>5
<1>5. Total(s) \in Readings(X)
    BY TotalTyped
<1>6. w \in Seq(EventsOf(X)) /\ Total(w) = Ended(Total(s), a, Worded(t))
  <2> HIDE DEF a, z
  <2>. QED  BY <1>4, WritesElement DEF Worded
<1> HIDE DEF w
<1> SUFFICES ASSUME Mirrored(V, s, d, n) PROVE Mirrored(V, w, d, n + 1)
    BY <1>6 DEF w
<1>3. Mirrors(V, Total(s), p) /\ AllFit(V, p) /\ NoneOpen(V, p)
    BY <1>1 DEF Mirrored
<1>7. q = Ended(p, e, <<>>)
    BY <1>2, ReadEmpty
<1> HIDE DEF p, q, e, a
<1>8. Worded(t) \in Seq(X) /\ <<>> \in Seq(X) /\ Worded(t) = Holds(V, Whole(e, <<>>))
  <2>1. Worded(t) \in Seq(X) /\ <<>> \in Seq(X)
    BY DEF Worded
  <2>. QED  BY <2>1, WordedHolds DEF e
<1>9. Mirrors(V, Total(w), q)
    BY <1>1, <1>2, <1>3, <1>4, <1>5, <1>6, <1>7, <1>8, BeginsMirrored
<1>10. NoneOpen(V, q)
    BY <1>1, <1>2, <1>3, <1>7, <1>8, NoneOpenEnded
<1>11. AllFit(V, q)
    BY <1>1, <1>2, <1>3, ReadFits DEF e
<1>. QED  BY <1>1, <1>6, <1>9, <1>10, <1>11 DEF Mirrored, q, e, w, a

LEMMA Replaces ==
    ASSUME NEW X, Meta!Texts \subseteq X, NEW V, NEW d \in Seq(EventsOf(X)),
           NEW s \in Seq(EventsOf(X)), NEW n \in DOMAIN d,
           d[n].ev = "start", OfGame(V, d[n].name), FitsIn(V, d[n]),
           NEW t \in X, t = V[d[n].name[1]],
           NEW m \in Nat, m = IF n + 1 \in DOMAIN d /\ d[n + 1].ev = "text" THEN n + 2 ELSE n + 1
    PROVE  LET w == s \o <<d[n]>> \o Meta!TextEvent(t)
                        \o (IF m \in DOMAIN d THEN <<d[m]>> ELSE <<>>)
           IN  /\ w \in Seq(EventsOf(X))
               /\ PlainAt(V, d) /\ WholeTexts(d) /\ Mirrored(V, s, d, n) => Mirrored(V, w, d, m + 1)
<1> DEFINE e == d[n]
           v == s \o <<e>> \o Meta!TextEvent(t)
           w == v \o (IF m \in DOMAIN d THEN <<d[m]>> ELSE <<>>)
           p == Meta!After(d)[n - 1]
<1>1. /\ Past(n, d) = n - 1 /\ n - 1 \in 0 .. Len(d) /\ n \in 1 .. Len(d) /\ Past(n + 1, d) = n
      /\ e \in EventsOf(X) /\ n <= Len(d) /\ Len(d) \in Nat /\ DOMAIN d = 1 .. Len(d)
    BY PastIs
<1>2. v \in Seq(EventsOf(X)) /\ Total(v) = Begun(Total(s), e, Worded(t))
  <2>1. e \in EventsOf(X) /\ e.ev = "start"
    BY <1>1
  <2> HIDE DEF e
  <2>. QED  BY <2>1, WritesText DEF Worded
<1> HIDE DEF v
<1>3. /\ w \in Seq(EventsOf(X))
      /\ m \notin DOMAIN d => w = v
      /\ m \in DOMAIN d => w = Append(v, d[m])
  <2>1. \A x \in EventsOf(X) : v \o <<x>> = Append(v, x) /\ Append(v, x) \in Seq(EventsOf(X))
    BY <1>2
  <2>2. v \o <<>> = v
    BY <1>2
  <2>3. m \in DOMAIN d => d[m] \in EventsOf(X)
    BY <1>1
  <2>. QED  BY <1>2, <2>1, <2>2, <2>3
<1> SUFFICES ASSUME PlainAt(V, d), WholeTexts(d), Mirrored(V, s, d, n)
             PROVE  Mirrored(V, w, d, m + 1)
    BY <1>3 DEF v
<1> HIDE DEF w
<1>4. Mirrors(V, Total(s), p) /\ AllFit(V, p) /\ NoneOpen(V, p)
    BY <1>1 DEF Mirrored
<1>5. p \in Readings(X) /\ Total(s) \in Readings(X)
    BY <1>1, AfterTyped, TotalTyped
<1>6. SameHead(e, e) /\ Worded(t) \in Seq(X) /\ \A c : Worded(t) = Holds(V, Whole(e, c))
    BY WordedHolds DEF SameHead, Worded
<1>7. \A c \in Seq(X) : /\ Mirrors(V, Begun(Total(s), e, Worded(t)), Begun(p, e, c))
                        /\ Mirrors(V, Ended(Total(s), e, Worded(t)), Ended(p, e, c))
                        /\ NoneOpen(V, Ended(p, e, c))
  <2> TAKE c \in Seq(X)
  <2> HIDE DEF p, e
  <2>1. Worded(t) = Holds(V, Whole(e, c))
    BY <1>6
  <2>2. NoneOpen(V, Ended(p, e, c))
    BY <1>1, <1>4, <1>5, NoneOpenEnded
  <2>. QED  BY <1>1, <1>4, <1>5, <1>6, <2>1, <2>2, BeginsMirrored
<1>8. /\ Meta!After(d)[n] = Begun(p, e, <<>>) /\ AllFit(V, Meta!After(d)[n])
      /\ n + 1 \in DOMAIN d /\ d[n + 1].ev = "end" =>
                /\ Meta!After(d)[n + 1] = Ended(p, e, <<>>)
                /\ AllFit(V, Meta!After(d)[n + 1])
      /\ n + 1 \in DOMAIN d /\ d[n + 1].ev = "text" =>
                /\ Meta!After(d)[n + 1] = Begun(p, e, <<d[n + 1].text>>)
                /\ AllFit(V, Meta!After(d)[n + 1])
                /\ n + 2 \in DOMAIN d /\ d[n + 2].ev = "end" =>
                     /\ Meta!After(d)[n + 2] = Ended(p, e, <<d[n + 1].text>>)
                     /\ AllFit(V, Meta!After(d)[n + 2])
    BY <1>4, PassesElement
<1>9. m \in DOMAIN d /\ d[m].ev = "end" => Total(w) = Ended(Total(s), e, Worded(t))
  <2> SUFFICES ASSUME m \in DOMAIN d, d[m].ev = "end"
               PROVE  Total(w) = Ended(Total(s), e, Worded(t))
    OBVIOUS
  <2>1. d[m] \in EventsOf(X) /\ w = Append(v, d[m])
    BY <1>1, <1>3
  <2>2. Total(w) = Meta!Read(Begun(Total(s), e, Worded(t)), d[m])
    BY <1>2, <2>1, TotalAppends
  <2> HIDE DEF e
  <2>. QED  BY <1>1, <1>5, <1>6, <2>2, BegunEnded
<1>10. <<>> \in Seq(X) /\ (n + 1 \in DOMAIN d => <<d[n + 1].text>> \in Seq(X))
  <2>1. \A x \in DOMAIN d : d[x] \in EventsOf(X)
    OBVIOUS
  <2>2. \A x \in DOMAIN d : d[x].text \in X
    BY <2>1 DEF EventsOf
  <2>3. \A u \in X : <<u>> \in Seq(X)
    OBVIOUS
  <2>. QED  BY <2>2, <2>3
<1> HIDE DEF e, p
<1>11. \/ n = Len(d)
       \/ n + 1 \in DOMAIN d /\ d[n + 1].ev = "end"
       \/ n + 1 = Len(d) /\ d[n + 1].ev = "text"
       \/ /\ n + 1 \in DOMAIN d /\ d[n + 1].ev = "text"
          /\ n + 2 \in DOMAIN d /\ d[n + 2].ev = "end"
    BY PlainShape
<1>12. CASE n = Len(d)
  <2>1. m = n + 1 /\ m \notin DOMAIN d /\ Past(m + 1, d) = n /\ ~ m + 1 <= Len(d)
    <3>1. n + 1 \notin DOMAIN d
        BY <1>1, <1>12
    <3>2. m = n + 1
        BY <3>1
    <3>3. m + 1 > Len(d) /\ ~ m + 1 <= Len(d)
        BY <1>1, <1>12, <3>2
    <3>4. Past(m + 1, d) = n
        BY <1>12, <3>3 DEF Past
    <3>. QED  BY <3>1, <3>2, <3>3, <3>4
  <2>2. w = v
    BY <1>3, <2>1
  <2>. QED  BY <1>2, <1>7, <1>8, <1>10, <2>1, <2>2 DEF Mirrored
<1>13. CASE n + 1 \in DOMAIN d /\ d[n + 1].ev = "end"
  <2>1. m = n + 1 /\ Past(m + 1, d) = n + 1
    BY <1>1, <1>13 DEF Past
  <2>. QED  BY <1>7, <1>8, <1>9, <1>10, <1>13, <2>1 DEF Mirrored
<1>14. CASE n + 1 = Len(d) /\ d[n + 1].ev = "text"
  <2>1. /\ n + 1 \in DOMAIN d /\ m = n + 2 /\ m \notin DOMAIN d /\ Past(m + 1, d) = n + 1
        /\ ~ m + 1 <= Len(d)
    BY <1>1, <1>14 DEF Past
  <2>2. w = v
    BY <1>3, <2>1
  <2>. QED  BY <1>2, <1>7, <1>8, <1>10, <1>14, <2>1, <2>2 DEF Mirrored
<1>15. CASE /\ n + 1 \in DOMAIN d /\ d[n + 1].ev = "text"
            /\ n + 2 \in DOMAIN d /\ d[n + 2].ev = "end"
  <2>1. m = n + 2 /\ Past(m + 1, d) = n + 2
    BY <1>1, <1>15 DEF Past
  <2>. QED  BY <1>7, <1>8, <1>9, <1>10, <1>15, <2>1 DEF Mirrored
<1>. QED  BY <1>11, <1>12, <1>13, <1>14, <1>15

-----------------------------------------------------------------------------
(***************************************************************************)
(* The invariant of patch.                                                 *)
(***************************************************************************)
TheValues == Meta!Values(req)
Worth(V) == Meta!Texts \cup {V[f] : f \in DOMAIN V}
TooLong(V, e) == OfGame(V, e.name) /\ e.length # Garbled /\ ~ FitsIn(V, e)

MetaInv ==
    /\ req \in Requests /\ doc \in Documents
    /\ pc \in {"app", "read", "refused", "unreadable", "done"}
    /\ pos \in Nat \ {0}
    /\ out \in Seq(EventsOf(Worth(TheValues)))
    /\ pc # "app" => app = <<Meta!TitleIds(req.id).title_id, Meta!TitleIds(req.id).group_id>>
    /\ pc = "done" => pos > Len(doc)
    /\ pc = "refused" =>
         \E x \in DOMAIN doc : doc[x].ev \in {"start", "empty"} /\ TooLong(TheValues, doc[x])
    /\ PlainAt(TheValues, doc) => Mirrored(TheValues, out, doc, pos)

LEMMA ValuesAre ==
    ASSUME NEW r
    PROVE  /\ {"title_id", "group_id"} \cup Meta!Localized \subseteq DOMAIN Meta!Values(r)
           /\ Meta!Values(r).title_id = Meta!TitleIds(r.id).title_id
           /\ Meta!Values(r).group_id = Meta!TitleIds(r.id).group_id
BY DEF Meta!Values, Meta!Localized

LEMMA GameIs ==
    /\ \A f : Meta!Replaced(f) <=> OfGame(TheValues, f)
    /\ \A f : Meta!Replacement(f) = TheValues[f[1]]
    /\ \A f : OfGame(TheValues, f) => TheValues[f[1]] \in Worth(TheValues)
    /\ \A e : Meta!Target(e) <=> e.ev \in {"start", "empty"} /\ OfGame(TheValues, e.name)
    /\ \A e : OfGame(TheValues, e.name) =>
                /\ Meta!Passes(e, TheValues[e.name[1]]) => FitsIn(TheValues, e)
                /\ Meta!WrongLength(e, TheValues[e.name[1]]) => TooLong(TheValues, e)
    /\ \A d : Meta!Plain(d) <=> PlainAt(TheValues, d)
    /\ Meta!Texts \subseteq Worth(TheValues)
<1>1. \A f : Meta!Replaced(f) <=> OfGame(TheValues, f)
    BY DEF Meta!Replaced, OfGame, TheValues
<1>2. \A f : Meta!Replacement(f) = TheValues[f[1]]
    BY DEF Meta!Replacement, TheValues
<1>3. ASSUME NEW f, OfGame(TheValues, f) PROVE TheValues[f[1]] \in Worth(TheValues)
  <2>1. f[1] \in DOMAIN TheValues
    BY <1>3, ValuesAre DEF OfGame, TheValues
  <2>. QED  BY <2>1 DEF Worth
<1>4. \A e : Meta!Target(e) <=> e.ev \in {"start", "empty"} /\ OfGame(TheValues, e.name)
    BY <1>1 DEF Meta!Target
<1>5. ASSUME NEW e, OfGame(TheValues, e.name)
      PROVE  /\ Meta!Passes(e, TheValues[e.name[1]]) => FitsIn(TheValues, e)
             /\ Meta!WrongLength(e, TheValues[e.name[1]]) => TooLong(TheValues, e)
    BY <1>5 DEF Meta!Passes, Meta!Unreadable, Meta!WrongLength, Meta!Measured, FitsIn, TooLong
<1>6. ASSUME NEW d PROVE Meta!Plain(d) <=> PlainAt(TheValues, d)
    BY <1>4 DEF Meta!Plain, PlainAt
<1>. QED  BY <1>1, <1>2, <1>3, <1>4, <1>5, <1>6 DEF Worth

LEMMA DocumentIs ==
    ASSUME NEW X, Meta!Texts \subseteq X, NEW d \in Documents
    PROVE  d \in Seq(EventsOf(X)) /\ WholeTexts(d) /\ Len(d) \in Nat /\ DOMAIN d = 1 .. Len(d)
<1>1. d \in Seq(Meta!Events) /\ WholeTexts(d)
    BY DocumentsAssumption DEF WholeTexts
<1>2. Meta!Events \subseteq EventsOf(X)
    BY DEF Meta!Events, EventsOf, EventNames, Lengths
<1>. QED  BY <1>1, <1>2

LEMMA InitMeta == Meta!Init => MetaInv
<1> SUFFICES ASSUME Meta!Init PROVE MetaInv
    OBVIOUS
<1>1. /\ req \in Requests /\ doc \in Documents /\ pc = "app" /\ pos = 1 /\ out = <<>>
    BY DEF Meta!Init
<1>2. doc \in Seq(EventsOf(Worth(TheValues))) /\ Len(doc) \in Nat
    BY <1>1, GameIs, DocumentIs
<1>3. out \in Seq(EventsOf(Worth(TheValues)))
    BY <1>1
<1>4. Past(pos, doc) = 0
    BY <1>1, <1>2 DEF Past
<1>5. Meta!After(doc)[0] = Meta!Unread /\ Total(out) = Meta!Unread
  <2>1. Len(<<>>) = 0
    OBVIOUS
  <2>. QED  BY <1>1, <1>2, <1>3, <2>1, AfterIs DEF Total
<1>6. /\ DOMAIN Meta!Unread.open = {} /\ DOMAIN Meta!Unread.elements = {}
    BY DEF Meta!Unread
<1>7. Mirrored(TheValues, out, doc, pos)
    BY <1>4, <1>5, <1>6 DEF Mirrored, Mirrors, AllFit, NoneOpen
<1>. QED  BY <1>1, <1>3, <1>7 DEF MetaInv

\* What a step leaves alone when it leaves the files alone.
LEMMA SameMeta ==
    ASSUME MetaInv, UNCHANGED <<req, doc, pos, out>>,
           pc' \in {"app", "read", "refused", "unreadable", "done"},
           pc' # "app" => app' = <<Meta!TitleIds(req.id).title_id, Meta!TitleIds(req.id).group_id>>,
           pc' = "done" => pos > Len(doc),
           pc' = "refused" =>
             \E x \in DOMAIN doc : doc[x].ev \in {"start", "empty"} /\ TooLong(TheValues, doc[x])
    PROVE  MetaInv'
<1>1. TheValues' = TheValues
    BY DEF TheValues
<1>. QED  BY <1>1 DEF MetaInv

\* A pass of the loop.
LEMMA PassMeta ==
    ASSUME MetaInv, UNCHANGED <<req, doc, pc, app>>, pc = "read",
           pos' \in Nat \ {0}, out' \in Seq(EventsOf(Worth(TheValues))),
           PlainAt(TheValues, doc) => Mirrored(TheValues, out', doc, pos')
    PROVE  MetaInv'
<1>1. TheValues' = TheValues
    BY DEF TheValues
<1>. QED  BY <1>1 DEF MetaInv

LEMMA MetaNext == MetaInv /\ Meta!Next => MetaInv'
<1> SUFFICES ASSUME MetaInv, Meta!Next PROVE MetaInv'
    OBVIOUS
<1> DEFINE V == TheValues
           X == Worth(V)
           e == doc[pos]
<1>1. /\ doc \in Seq(EventsOf(X)) /\ WholeTexts(doc) /\ Meta!Texts \subseteq X
      /\ Len(doc) \in Nat /\ DOMAIN doc = 1 .. Len(doc)
    BY GameIs, DocumentIs DEF MetaInv
<1>2. /\ pos \in Nat \ {0} /\ out \in Seq(EventsOf(X))
      /\ pc \in {"app", "read", "refused", "unreadable", "done"}
      /\ (PlainAt(V, doc) => Mirrored(V, out, doc, pos))
    BY DEF MetaInv
<1>3. CASE Meta!Generate
  <2>1. /\ UNCHANGED <<req, doc, pos, out>> /\ pc' = "read"
        /\ app' = <<Meta!TitleIds(req.id).title_id, Meta!TitleIds(req.id).group_id>>
    BY <1>3 DEF Meta!Generate
  <2>. QED  BY <2>1, SameMeta
<1>4. CASE Meta!PassThrough
  <2>1. /\ pos \in DOMAIN doc /\ pc = "read" /\ UNCHANGED <<req, doc, pc, app>>
        /\ out' = Append(out, e) /\ pos' = pos + 1
        /\ ~ (e.ev \in {"start", "empty"} /\ OfGame(V, e.name))
    BY <1>4, GameIs DEF Meta!PassThrough, Meta!Reading
  <2>2. e \in EventsOf(X)
    BY <1>1, <2>1
  <2>3. out' \in Seq(EventsOf(X)) /\ pos' \in Nat \ {0}
    BY <1>2, <2>1, <2>2
  <2>4. PlainAt(V, doc) => Mirrored(V, out', doc, pos')
    BY <1>1, <1>2, <2>1, PassesOver
  <2>. QED  BY <2>1, <2>3, <2>4, PassMeta
<1>5. CASE Meta!Expand
  <2> DEFINE t == V[e.name[1]]
  <2>1. /\ pos \in DOMAIN doc /\ pc = "read" /\ UNCHANGED <<req, doc, pc, app>> /\ pos' = pos + 1
        /\ e.ev = "empty" /\ OfGame(V, e.name) /\ Meta!Passes(e, t)
        /\ out' = out \o <<Meta!Start(e.name, e.type, e.length)>> \o Meta!TextEvent(t)
                      \o <<Meta!End(e.name)>>
    BY <1>5, GameIs DEF Meta!Expand, Meta!Reading
  <2>2. FitsIn(V, e) /\ t \in X
    BY <2>1, GameIs
  <2>3. pos' \in Nat \ {0}
    BY <1>2, <2>1
  <2>4. out' \in Seq(EventsOf(X)) /\ (PlainAt(V, doc) => Mirrored(V, out', doc, pos'))
    <3>1. PICK u \in X : u = t
        BY <2>2
    <3>2. LET w == out \o <<Meta!Start(e.name, e.type, e.length)>> \o Meta!TextEvent(u)
                         \o <<Meta!End(e.name)>>
            IN  /\ w \in Seq(EventsOf(X))
                /\ Mirrored(V, out, doc, pos) => Mirrored(V, w, doc, pos + 1)
        BY <1>1, <1>2, <2>1, <2>2, <3>1, Expands
    <3>. QED  BY <1>2, <2>1, <3>1, <3>2
  <2>. QED  BY <2>1, <2>3, <2>4, PassMeta
<1>6. CASE Meta!Replace
  <2> DEFINE t == V[e.name[1]]
             m == IF pos + 1 \in DOMAIN doc /\ doc[pos + 1].ev = "text" THEN pos + 2 ELSE pos + 1
  <2>1. /\ pos \in DOMAIN doc /\ pc = "read" /\ UNCHANGED <<req, doc, pc, app>>
        /\ e.ev = "start" /\ OfGame(V, e.name) /\ Meta!Passes(e, t)
    BY <1>6, GameIs DEF Meta!Replace, Meta!Reading
  <2>2. Meta!AfterText = m
    <3>1. doc[pos + 1].ev = "text" => doc[pos + 1].ev # "broken"
        OBVIOUS
    <3>. QED  BY <2>1, <3>1 DEF Meta!AfterText, Meta!Reading
  <2>3. /\ out' = out \o <<e>> \o Meta!TextEvent(t)
                      \o (IF m \in DOMAIN doc THEN <<doc[m]>> ELSE <<>>)
        /\ pos' = m + 1
    BY <1>6, <2>2, GameIs DEF Meta!Replace, Meta!EventAt
  <2>4. FitsIn(V, e) /\ t \in X
    BY <2>1, GameIs
  <2>5. m \in Nat /\ pos' \in Nat \ {0}
    BY <1>2, <2>3
  <2>6. out' \in Seq(EventsOf(X)) /\ (PlainAt(V, doc) => Mirrored(V, out', doc, pos'))
    BY <1>1, <1>2, <2>1, <2>3, <2>4, <2>5, Replaces
  <2>. QED  BY <2>1, <2>5, <2>6, PassMeta
<1>7. CASE Meta!Refuse
  <2>1. /\ pos \in DOMAIN doc /\ pc = "read" /\ UNCHANGED <<req, doc, pos, out, app>>
        /\ pc' = "refused" /\ e.ev \in {"start", "empty"} /\ OfGame(V, e.name)
        /\ Meta!WrongLength(e, V[e.name[1]])
    BY <1>7, GameIs DEF Meta!Refuse, Meta!Reading
  <2>2. TooLong(V, e)
    BY <2>1, GameIs
  <2>. QED  BY <2>1, <2>2, SameMeta DEF MetaInv
<1>8. CASE Meta!ReadFails
  <2>1. UNCHANGED <<req, doc, pos, out, app>> /\ pc' = "unreadable" /\ pc = "read"
    BY <1>8 DEF Meta!ReadFails
  <2>. QED  BY <2>1, SameMeta DEF MetaInv
<1>9. CASE Meta!Finish
  <2>1. UNCHANGED <<req, doc, pos, out, app>> /\ pc' = "done" /\ pc = "read" /\ pos > Len(doc)
    BY <1>9 DEF Meta!Finish
  <2>. QED  BY <2>1, SameMeta DEF MetaInv
<1>. QED  BY <1>3, <1>4, <1>5, <1>6, <1>7, <1>8, <1>9 DEF Meta!Next

-----------------------------------------------------------------------------
LEMMA MetaStands == MetaInv => Meta!TitleNamesTheGame
<1> SUFFICES ASSUME MetaInv PROVE Meta!TitleNamesTheGame
    OBVIOUS
<1> DEFINE V == TheValues
           X == Worth(V)
           o == Total(out)
           p == Total(doc)
<1>1. /\ doc \in Seq(EventsOf(X)) /\ Len(doc) \in Nat /\ DOMAIN doc = 1 .. Len(doc)
      /\ out \in Seq(EventsOf(X))
    BY GameIs, DocumentIs DEF MetaInv
<1>2. /\ o \in Readings(X) /\ o.elements = Meta!Elements(out)
      /\ p \in Readings(X) /\ p.elements = Meta!Elements(doc)
    BY <1>1, TotalTyped DEF Meta!Elements, Total
<1>3. ASSUME pc = "done", Meta!Plain(doc) PROVE Mirrors(V, o, p) /\ AllFit(V, p)
  <2>1. pos > Len(doc) /\ Mirrored(V, out, doc, pos)
    BY <1>3, GameIs DEF MetaInv
  <2>2. Past(pos, doc) = Len(doc)
    BY <2>1 DEF Past
  <2>. QED  BY <2>1, <2>2 DEF Mirrored, Total
<1> HIDE DEF o, p
<1>4. /\ o.elements \in Seq(ElementsOf(X)) /\ p.elements \in Seq(ElementsOf(X))
    BY <1>2, ReadingIs
<1>5. ASSUME NEW u PROVE Holds(V, u) = Meta!Asked(u)
    BY GameIs DEF Holds, Meta!Asked
<1>6. ASSUME NEW u
      PROVE  FitsIn(V, u) <=> Meta!Fits(u) /\ (Meta!Replaced(u.name) => u.length # Garbled)
    BY GameIs DEF FitsIn, Meta!Fits
<1>7. ASSUME pc = "done", Meta!Plain(doc) PROVE Meta!NamesTheGame
  <2>1. DOMAIN o.elements = DOMAIN p.elements
    BY <1>3, <1>7 DEF Mirrors
  <2>2. ASSUME NEW n \in DOMAIN p.elements
        PROVE  o.elements[n] = [p.elements[n] EXCEPT !.content = Meta!Asked(p.elements[n])]
    <3>1. o.elements[n] = Wanted(V, p.elements[n])
        BY <1>3, <1>7 DEF Mirrors
    <3>2. PICK u \in ElementsOf(X) : u = p.elements[n]
        BY <1>4
    <3>3. Wanted(V, u) = [u EXCEPT !.content = Meta!Asked(u)]
        BY <1>5 DEF Wanted, ElementsOf
    <3>. QED  BY <3>1, <3>2, <3>3
  <2>3. o.elements = [n \in DOMAIN o.elements |-> o.elements[n]]
    BY <1>4
  <2>4. o.elements = [n \in DOMAIN p.elements |->
                        [p.elements[n] EXCEPT !.content = Meta!Asked(p.elements[n])]]
    BY <2>1, <2>2, <2>3
  <2>5. \A n \in DOMAIN p.elements :
            /\ Meta!Fits(p.elements[n])
            /\ Meta!Replaced(p.elements[n].name) => p.elements[n].length # Garbled
    BY <1>3, <1>6, <1>7 DEF AllFit
  <2>. QED  BY <1>2, <2>4, <2>5 DEF Meta!NamesTheGame
<1>8. ASSUME pc = "done", Meta!Plain(doc), NEW n \in DOMAIN o.elements
      PROVE  /\ o.elements[n].name = <<"title_id", "">> => o.elements[n].content = <<app[1]>>
             /\ o.elements[n].name = <<"group_id", "">> => o.elements[n].content = <<app[2]>>
  <2> DEFINE u == p.elements[n]
             ids == Meta!TitleIds(req.id)
  <2>1. app = <<ids.title_id, ids.group_id>>
    BY <1>8 DEF MetaInv
  <2>2. o.elements[n].name = u.name /\ o.elements[n].content = Holds(V, u)
    <3>1. n \in DOMAIN p.elements /\ o.elements[n] = Wanted(V, u)
        BY <1>3, <1>8 DEF Mirrors
    <3> HIDE DEF u
    <3>. QED  BY <3>1 DEF Wanted
  <2>3. Meta!TextLen(ids.title_id) # 0 /\ Meta!TextLen(ids.group_id) # 0
    BY DEF Meta!TitleIds, Meta!Text, Meta!TextLen
  <2>4. V.title_id = ids.title_id /\ V.group_id = ids.group_id
        /\ "title_id" \in DOMAIN V /\ "group_id" \in DOMAIN V
    BY ValuesAre DEF TheValues
  <2>5. /\ OfGame(V, <<"title_id", "">>) /\ OfGame(V, <<"group_id", "">>)
    BY <2>4 DEF OfGame, Meta!Localized
  <2> HIDE DEF ids, u, V
  <2>6. u.name = <<"title_id", "">> => Holds(V, u) = <<ids.title_id>>
    <3>1. <<"title_id", "">>[1] = "title_id"
        OBVIOUS
    <3>2. V["title_id"] = ids.title_id
        BY <2>4
    <3>. QED  BY <2>3, <2>5, <3>1, <3>2 DEF Holds
  <2>7. u.name = <<"group_id", "">> => Holds(V, u) = <<ids.group_id>>
    <3>1. <<"group_id", "">>[1] = "group_id"
        OBVIOUS
    <3>2. V["group_id"] = ids.group_id
        BY <2>4
    <3>. QED  BY <2>3, <2>5, <3>1, <3>2 DEF Holds
  <2>. QED  BY <2>1, <2>2, <2>6, <2>7
<1>9. ASSUME pc = "refused" PROVE \E n \in DOMAIN p.elements : ~ Meta!Fits(p.elements[n])
  <2>1. PICK x \in DOMAIN doc : doc[x].ev \in {"start", "empty"} /\ TooLong(V, doc[x])
    BY <1>9 DEF MetaInv
  <2> DEFINE r == Meta!After(doc)[x]
  <2>2. /\ x - 1 \in 0 .. Len(doc) /\ x \in 0 .. Len(doc) /\ x \in 1 .. Len(doc)
        /\ doc[x] \in EventsOf(X)
    BY <1>1
  <2>3. r = Meta!Read(Meta!After(doc)[x - 1], doc[x])
        /\ Meta!After(doc)[x - 1] \in Readings(X)
    BY <1>1, <2>2, AfterIs, AfterTyped
  <2>4. PICK n \in DOMAIN r.elements : SameHead(r.elements[n], doc[x])
    BY <2>1, <2>2, <2>3, ReadNew
  <2>5. Kept(r, p)
    BY <1>1, <2>2, AfterKeeps DEF p
  <2>6. n \in DOMAIN p.elements /\ SameHead(r.elements[n], p.elements[n])
    BY <2>4, <2>5 DEF Kept
  <2>7. SameHead(doc[x], p.elements[n])
    BY <2>4, <2>6 DEF SameHead
  <2>8. ~ FitsIn(V, p.elements[n]) /\ p.elements[n].length # Garbled
    BY <2>1, <2>7, FitsHead DEF TooLong, SameHead
  <2>. QED  BY <1>6, <2>6, <2>8
<1>. QED  BY <1>2, <1>7, <1>8, <1>9 DEF Meta!TitleNamesTheGame

-----------------------------------------------------------------------------
(***************************************************************************)
(* The sites of a patch, and the search that finds them (BytePatches).     *)
(***************************************************************************)
Occ(d, q) == Patches!Occurrences(d, q)

LEMMA OccIs ==
    ASSUME NEW d \in Seq(Nat), NEW q \in Patches!AnyPatch
    PROVE  /\ Occ(d, q) = {o \in q.from .. (Len(d) - Len(q.find)) :
                              \A x \in DOMAIN q.find : d[o + x] = q.find[x]}
           /\ Occ(d, q) \in SUBSET (0 .. Len(d))
           /\ \A n \in Nat : \A f : n >= q.from /\ Len(f) = Len(d) =>
                Patches!Matches(f, q.find, n) =
                    {o \in q.from .. (Len(d) - Len(q.find)) :
                        o >= n /\ \A x \in DOMAIN q.find : f[o + x] = q.find[x]}
<1>1. q.find \in Seq(Nat) /\ q.from \in Nat /\ q.find # <<>> /\ Len(q.find) \in Nat \ {0}
    BY DEF Patches!AnyPatch
<1>2. ASSUME NEW o \in Nat, o + Len(q.find) <= Len(d)
      PROVE  SubSeq(d, o + 1, o + Len(q.find)) = q.find
                <=> \A x \in DOMAIN q.find : d[o + x] = q.find[x]
  <2> DEFINE s == SubSeq(d, o + 1, o + Len(q.find))
  <2>1. s \in Seq(Nat) /\ Len(s) = Len(q.find) /\ \A x \in 1 .. Len(q.find) : s[x] = d[o + x]
    BY <1>1, <1>2
  <2> HIDE DEF s
  <2>2. s = q.find <=> \A x \in 1 .. Len(q.find) : s[x] = q.find[x]
    <3> DEFINE f == q.find
    <3>1. f \in Seq(Nat) /\ s \in Seq(Nat) /\ Len(s) = Len(f)
        BY <1>1, <2>1
    <3> HIDE DEF f
    <3>2. s = f <=> \A x \in 1 .. Len(f) : s[x] = f[x]
      <4>1. s = [x \in 1 .. Len(s) |-> s[x]] /\ f = [x \in 1 .. Len(f) |-> f[x]]
        BY <3>1
      <4>. QED  BY <3>1, <4>1
    <3>. QED  BY <3>2 DEF f
  <2>3. DOMAIN q.find = 1 .. Len(q.find)
    BY <1>1
  <2>. QED  BY <2>1, <2>2, <2>3 DEF s
<1>3. \A o \in q.from .. Len(d) : o + Len(q.find) <= Len(d) <=>
                                  o \in q.from .. (Len(d) - Len(q.find))
    BY <1>1
<1>4. q.from .. (Len(d) - Len(q.find)) \subseteq q.from .. Len(d)
      /\ q.from .. (Len(d) - Len(q.find)) \subseteq 0 .. Len(d)
    BY <1>1
<1>5. Occ(d, q) = {o \in q.from .. (Len(d) - Len(q.find)) :
                              \A x \in DOMAIN q.find : d[o + x] = q.find[x]}
  <2>1. \A o \in q.from .. Len(d) : o \in Nat
    BY <1>1
  <2>. QED  BY <1>2, <1>3, <1>4, <2>1 DEF Occ, Patches!Occurrences
<1>6. ASSUME NEW n \in Nat, NEW f, n >= q.from, Len(f) = Len(d)
      PROVE  Patches!Matches(f, q.find, n) =
                    {o \in q.from .. (Len(d) - Len(q.find)) :
                        o >= n /\ \A x \in DOMAIN q.find : f[o + x] = q.find[x]}
  <2>1. \A o : o \in n .. (Len(d) - Len(q.find)) <=>
                 o \in q.from .. (Len(d) - Len(q.find)) /\ o >= n
    BY <1>1, <1>6
  <2>. QED  BY <1>6, <2>1 DEF Patches!Matches
<1>. QED  BY <1>4, <1>5, <1>6

LEMMA FirstIs ==
    ASSUME NEW S \in SUBSET Nat, S # {}
    PROVE  Patches!First(S) \in S /\ \A o \in S : Patches!First(S) <= o
BY LeastNatural DEF Patches!First

\* From left to right one can choose what overlaps nothing chosen before.
Disjoint(all, n, S) == \A o \in all : o \in S <=> ~ \E e \in S : e < o /\ o < e + n

LEMMA DisjointExists ==
    ASSUME NEW m \in Nat, NEW all \in SUBSET (0 .. m), NEW n \in Nat \ {0}
    PROVE  \E S \in SUBSET all : Disjoint(all, n, S)
<1> DEFINE To(x) == {o \in all : o < x}
           T == {x \in Nat : \A S \in SUBSET To(x) : ~ Disjoint(To(x), n, S)}
<1>1. SUFFICES ASSUME T # {} PROVE FALSE
  <2>1. To(m + 1) = all
    <3>1. \A o \in all : o \in 0 .. m
        OBVIOUS
    <3>2. \A o \in 0 .. m : o < m + 1
        BY ONLY m \in Nat
    <3>3. \A o : o \in To(m + 1) <=> o \in all
        BY <3>1, <3>2
    <3> HIDE DEF To
    <3>. QED  BY <3>3
  <2>2. m + 1 \notin T /\ m + 1 \in Nat
    OBVIOUS
  <2>. QED  BY <2>1, <2>2
<1>2. PICK x \in T : \A y \in T : x <= y
  <2>1. T \in SUBSET Nat
    OBVIOUS
  <2> HIDE DEF T
  <2>. QED  BY <1>1, <2>1, LeastNatural
<1>3. x # 0
  <2>1. To(0) = {}
    <3>1. \A o \in all : o \in 0 .. m
        OBVIOUS
    <3>2. \A o \in 0 .. m : ~ o < 0
        BY ONLY m \in Nat
    <3>3. \A o : o \notin To(0)
        BY <3>1, <3>2
    <3> HIDE DEF To
    <3>. QED  BY <3>3
  <2>2. Disjoint(To(0), n, {})
    BY <2>1 DEF Disjoint
  <2>3. 0 \notin T
    BY <2>2
  <2>. QED  BY <1>2, <2>3
<1>4. x \in Nat /\ x - 1 \in Nat /\ x - 1 \notin T
  <2>1. x \in Nat /\ x - 1 \in Nat /\ ~ x <= x - 1
    BY <1>2, <1>3
  <2> HIDE DEF T
  <2>. QED  BY <1>2, <2>1
<1>5. PICK S \in SUBSET To(x - 1) : Disjoint(To(x - 1), n, S)
    BY <1>4
<1>0. \A o \in all : o \in Nat
    OBVIOUS
<1>6. To(x) = To(x - 1) \cup ({x - 1} \cap all)
  <2>1. \A o \in all : o < x <=> o < x - 1 \/ o = x - 1
    BY <1>4, <1>0
  <2>2. \A o : o \in To(x) <=> o \in To(x - 1) \/ o \in {x - 1} \cap all
    BY <2>1
  <2> HIDE DEF To
  <2>. QED  BY <2>2
<1>7. \A e \in S : e \in Nat /\ e < x - 1
    BY <1>5, <1>0
<1> DEFINE U == IF x - 1 \in all /\ ~ \E e \in S : e < x - 1 /\ x - 1 < e + n
                THEN S \cup {x - 1} ELSE S
<1>8. U \in SUBSET To(x) /\ S \subseteq U /\ U \subseteq S \cup {x - 1}
    BY <1>5, <1>6
<1>9. ASSUME NEW o \in To(x) PROVE o \in U <=> ~ \E e \in U : e < o /\ o < e + n
  <2>1. CASE o = x - 1
    <3>1. \A e \in U : e < o => e \in S
        BY <2>1, <1>8
    <3>2. o \notin S /\ o \in all
        BY <2>1, <1>7
    <3>. QED  BY <1>8, <2>1, <3>1, <3>2
  <2>2. CASE o # x - 1
    <3>1. o \in To(x - 1) /\ o < x - 1 /\ o \in Nat
        BY <1>4, <1>6, <2>2
    <3>2. o \in U <=> o \in S
        BY <1>8, <2>2
    <3>3. \A e \in U : e < o => e \in S
        BY <1>4, <1>8, <3>1
    <3>. QED  BY <1>5, <1>8, <3>1, <3>2, <3>3 DEF Disjoint
  <2>. QED  BY <2>1, <2>2
<1>10. Disjoint(To(x), n, U)
  <2> HIDE DEF U, To
  <2>. QED  BY <1>9 DEF Disjoint
<1>. QED  BY <1>2, <1>8, <1>10

\* What is chosen of the occurrences of q in d, of which the sites are those where its write fits.
Chosen(d, q) ==
    LET all == Occ(d, q)
        disjoint == CHOOSE S \in SUBSET all :
            \A o \in all : o \in S <=> ~\E e \in S : e < o /\ o < e + Len(q.find)
    IN IF q.all \/ all = {} THEN disjoint ELSE {Patches!First(all)}

LEMMA ChosenIs ==
    ASSUME NEW d \in Seq(Nat), NEW q \in Patches!AnyPatch
    PROVE  /\ Chosen(d, q) \subseteq Occ(d, q)
           /\ q.all => Disjoint(Occ(d, q), Len(q.find), Chosen(d, q))
           /\ ~ q.all => Chosen(d, q) = {o \in Occ(d, q) : \A e \in Occ(d, q) : o <= e}
           /\ Patches!Sites(d, q) = {o \in Chosen(d, q) : o + q.at + Len(q.write) <= Len(d)}
<1> DEFINE all == Occ(d, q)
           G(S) == \A o \in all : o \in S <=> ~\E e \in S : e < o /\ o < e + Len(q.find)
           disjoint == CHOOSE S \in SUBSET all : G(S)
<1>1. /\ all \in SUBSET (0 .. Len(d)) /\ all \in SUBSET Nat
      /\ Len(d) \in Nat /\ Len(q.find) \in Nat \ {0}
  <2>1. all \in SUBSET (0 .. Len(d))
    BY OccIs
  <2>2. Len(d) \in Nat /\ Len(q.find) \in Nat \ {0}
    BY DEF Patches!AnyPatch
  <2>. QED  BY <2>1, <2>2
<1>2. Patches!Sites(d, q) = {o \in Chosen(d, q) : o + q.at + Len(q.write) <= Len(d)}
    BY DEF Patches!Sites, Chosen, Occ
<1>3. Chosen(d, q) = IF q.all \/ all = {} THEN disjoint ELSE {Patches!First(all)}
    BY DEF Chosen
<1> HIDE DEF all
<1>4. disjoint \in SUBSET all /\ G(disjoint)
  <2>1. PICK S \in SUBSET all : Disjoint(all, Len(q.find), S)
    BY <1>1, DisjointExists
  <2>2. G(S)
    BY <2>1 DEF Disjoint
  <2> HIDE DEF G
  <2>. QED  BY <2>1, <2>2
<1>5. all # {} => Patches!First(all) \in all /\ \A o \in all : Patches!First(all) <= o
    BY <1>1, FirstIs
<1>6. ~ q.all => Chosen(d, q) = {o \in all : \A e \in all : o <= e}
  <2>1. CASE all = {}
    BY <1>3, <1>4, <2>1
  <2>2. CASE all # {}
    <3> DEFINE z == Patches!First(all)
    <3>1. z \in all /\ \A o \in all : z <= o
        BY <1>5, <2>2
    <3> HIDE DEF z
    <3>2. {o \in all : \A e \in all : o <= e} = {z}
      <4>1. \A o \in all : o \in Nat
        BY <1>1
      <4>2. \A o \in all : (\A e \in all : o <= e) <=> o = z
        BY <3>1, <4>1
      <4>. QED  BY <3>1, <4>2
    <3>. QED  BY <1>3, <2>2, <3>2 DEF z
  <2>. QED  BY <2>1, <2>2
<1> HIDE DEF disjoint
<1>7. q.all => Disjoint(all, Len(q.find), Chosen(d, q))
    BY <1>3, <1>4 DEF Disjoint
<1>8. Chosen(d, q) \subseteq all
    BY <1>3, <1>4, <1>5
<1>. QED  BY <1>2, <1>6, <1>7, <1>8 DEF all

\* The search of d for q has come to n: it passed what it chose whole, and it goes on only for a
\* patch of all occurrences.
Settled(d, q, n) ==
    /\ n \in Nat /\ n >= q.from
    /\ q.all => \A o \in Chosen(d, q) : o < n => o + Len(q.find) <= n
    /\ ~ q.all => n = q.from

Ahead(d, q, n) == {o \in Occ(d, q) : o >= n}

LEMMA SettledAtFirst ==
    ASSUME NEW d \in Seq(Nat), NEW q \in Patches!AnyPatch
    PROVE  Settled(d, q, q.from) /\ \A o \in Chosen(d, q) : ~ o < q.from
<1>1. q.from \in Nat
    BY DEF Patches!AnyPatch
<1>2. \A o \in Occ(d, q) : o \in q.from .. (Len(d) - Len(q.find))
    BY OccIs
<1>3. \A o \in Chosen(d, q) : ~ o < q.from
    BY <1>1, <1>2, ChosenIs
<1>. QED  BY <1>1, <1>3 DEF Settled

LEMMA SettledStep ==
    ASSUME NEW d \in Seq(Nat), NEW q \in Patches!AnyPatch, NEW n, Settled(d, q, n),
           NEW o \in Ahead(d, q, n), \A e \in Ahead(d, q, n) : o <= e
    PROVE  /\ o \in Chosen(d, q)
           /\ \A e \in Chosen(d, q) : e >= n => e >= o
           /\ q.all => /\ Settled(d, q, o + Len(q.find))
                       /\ \A e \in Chosen(d, q) : e < o + Len(q.find) <=> e < n \/ e = o
           /\ ~ q.all => Chosen(d, q) = {o} /\ o >= n
<1>1. /\ n \in Nat /\ n >= q.from /\ q.from \in Nat /\ Len(q.find) \in Nat \ {0}
      /\ Occ(d, q) \in SUBSET Nat /\ Chosen(d, q) \subseteq Occ(d, q)
      /\ \A e \in Occ(d, q) : e >= q.from
  <2>1. Len(q.find) \in Nat \ {0} /\ q.from \in Nat
    BY DEF Patches!AnyPatch
  <2>2. Occ(d, q) \in SUBSET (0 .. Len(d))
    BY OccIs
  <2>3. \A e \in Occ(d, q) : e \in q.from .. (Len(d) - Len(q.find))
    BY OccIs
  <2>. QED  BY <2>1, <2>2, <2>3, ChosenIs DEF Settled
<1>2. o \in Occ(d, q) /\ o >= n /\ o \in Nat
    BY <1>1 DEF Ahead
<1>3. \A e \in Chosen(d, q) : e >= n => e >= o
    BY <1>1, <1>2 DEF Ahead
<1>4. CASE q.all
  <2>1. Disjoint(Occ(d, q), Len(q.find), Chosen(d, q))
    BY <1>4, ChosenIs
  <2>2. \A e \in Chosen(d, q) : e < n => e + Len(q.find) <= n
    BY <1>4 DEF Settled
  <2>3. ~ \E e \in Chosen(d, q) : e < o /\ o < e + Len(q.find)
    <3> SUFFICES ASSUME NEW e \in Chosen(d, q), e < o, o < e + Len(q.find) PROVE FALSE
        OBVIOUS
    <3>1. e \in Nat /\ (e < n \/ e >= n)
        BY <1>1
    <3>. QED  BY <1>1, <1>2, <1>3, <2>2, <3>1
  <2>4. o \in Chosen(d, q)
    BY <1>2, <2>1, <2>3 DEF Disjoint
  <2>5. ASSUME NEW e \in Chosen(d, q) PROVE e < o + Len(q.find) <=> e < n \/ e = o
    <3>1. e \in Nat /\ e \in Occ(d, q)
        BY <1>1
    <3>2. ~ (o < e /\ e < o + Len(q.find))
        BY <2>1, <2>4, <3>1 DEF Disjoint
    <3>. QED  BY <1>1, <1>2, <1>3, <3>1, <3>2
  <2>6. Settled(d, q, o + Len(q.find))
    <3>1. o + Len(q.find) \in Nat /\ o + Len(q.find) >= q.from
        BY <1>1, <1>2
    <3>2. ASSUME NEW e \in Chosen(d, q), e < o + Len(q.find)
          PROVE  e + Len(q.find) <= o + Len(q.find)
      <4>1. e < n \/ e = o
        BY <2>5, <3>2
      <4>2. e \in Nat
        BY <1>1
      <4>. QED  BY <1>1, <1>2, <2>2, <4>1, <4>2
    <3>. QED  BY <1>4, <3>1, <3>2 DEF Settled
  <2>. QED  BY <1>3, <1>4, <2>4, <2>5, <2>6
<1>5. CASE ~ q.all
  <2>1. n = q.from
    BY <1>5 DEF Settled
  <2>2. Ahead(d, q, n) = Occ(d, q)
    BY <1>1, <2>1 DEF Ahead
  <2>3. Chosen(d, q) = {e \in Occ(d, q) : \A z \in Occ(d, q) : e <= z}
    BY <1>5, ChosenIs
  <2>4. Chosen(d, q) = {o}
    BY <1>1, <1>2, <2>2, <2>3
  <2>. QED  BY <1>2, <1>3, <1>5, <2>4
<1>. QED  BY <1>4, <1>5

LEMMA SettledEnd ==
    ASSUME NEW d \in Seq(Nat), NEW q \in Patches!AnyPatch, NEW n, Settled(d, q, n),
           Ahead(d, q, n) = {}
    PROVE  \A o \in Chosen(d, q) : o < n
<1>1. n \in Nat /\ Occ(d, q) \in SUBSET (0 .. Len(d)) /\ Chosen(d, q) \subseteq Occ(d, q)
    BY OccIs, ChosenIs DEF Settled
<1>. QED  BY <1>1 DEF Ahead

-----------------------------------------------------------------------------
(***************************************************************************)
(* What is written at the sites of a table.                                *)
(***************************************************************************)
\* A table as JobsAssumption has it, before the image d.
Table(d, a) ==
    /\ d \in Seq(Nat) /\ a \in Seq(Patches!AnyPatch)
    /\ \A y \in DOMAIN a : a[y].from + a[y].at >= 0

ByteOf(a, s, z) == a[s[1]].write[z - s[2] - a[s[1]].at]

LEMMA SiteIs ==
    ASSUME NEW d, NEW a, Table(d, a)
    PROVE  /\ \A s \in Patches!SitesOf(d, a) :
                /\ s = <<s[1], s[2]>> /\ s[1] \in DOMAIN a /\ s[1] \in Nat /\ s[2] \in Nat
                /\ s[2] \in Patches!Sites(d, a[s[1]]) /\ s[2] \in Chosen(d, a[s[1]])
                /\ s[2] \in Occ(d, a[s[1]])
                /\ Patches!Cover(a, s) \subseteq DOMAIN d
                /\ \A z \in Patches!Cover(a, s) : z \in Nat
           /\ \A y \in DOMAIN a : \A o \in Patches!Sites(d, a[y]) :
                <<y, o>> \in Patches!SitesOf(d, a)
<1>1. \A y \in DOMAIN a : a[y] \in Patches!AnyPatch /\ y \in Nat /\ a[y].from + a[y].at >= 0
    BY DEF Table
<1>2. d \in Seq(Nat)
    BY DEF Table
<1>3. ASSUME NEW s \in Patches!SitesOf(d, a)
      PROVE  /\ s = <<s[1], s[2]>> /\ s[1] \in DOMAIN a
             /\ s[2] \in Patches!Sites(d, a[s[1]])
    BY DEF Patches!SitesOf
<1>4. ASSUME NEW s \in Patches!SitesOf(d, a)
      PROVE  /\ s[1] \in Nat /\ s[2] \in Nat
             /\ s[2] \in Chosen(d, a[s[1]]) /\ s[2] \in Occ(d, a[s[1]])
             /\ Patches!Cover(a, s) \subseteq DOMAIN d
             /\ \A z \in Patches!Cover(a, s) : z \in Nat
  <2> DEFINE q == a[s[1]]
             o == s[2]
  <2>1. q \in Patches!AnyPatch /\ s[1] \in Nat /\ q.from + q.at >= 0 /\ o \in Patches!Sites(d, q)
    BY <1>1, <1>3
  <2>2. Patches!Cover(a, s) = (o + q.at + 1) .. (o + q.at + Len(q.write))
    BY DEF Patches!Cover
  <2> HIDE DEF q, o
  <2>3. o \in Chosen(d, q) /\ o \in Occ(d, q) /\ o + q.at + Len(q.write) <= Len(d)
    BY <1>2, <2>1, ChosenIs
  <2>4. o \in q.from .. (Len(d) - Len(q.find))
    BY <1>2, <2>1, <2>3, OccIs
  <2>5. /\ q.from \in Nat /\ q.at \in Int /\ Len(q.write) \in Nat
        /\ Len(d) \in Nat /\ DOMAIN d = 1 .. Len(d)
    BY <1>2, <2>1 DEF Patches!AnyPatch
  <2>6. o \in Nat
    BY <2>4, <2>5
  <2>7. \A z \in (o + q.at + 1) .. (o + q.at + Len(q.write)) : z \in 1 .. Len(d) /\ z \in Nat
    BY ONLY <2>1, <2>3, <2>4, <2>5, <2>6
  <2>. QED  BY <2>1, <2>2, <2>3, <2>5, <2>6, <2>7 DEF q, o
<1>5. \A y \in DOMAIN a : \A o \in Patches!Sites(d, a[y]) : <<y, o>> \in Patches!SitesOf(d, a)
  <2> SUFFICES ASSUME NEW y \in DOMAIN a, NEW o \in Patches!Sites(d, a[y])
               PROVE  <<y, o>> \in Patches!SitesOf(d, a)
    OBVIOUS
  <2>1. <<y, o>> \in {y} \X Patches!Sites(d, a[y])
    OBVIOUS
  <2>. QED  BY <2>1 DEF Patches!SitesOf
<1>. QED  BY <1>3, <1>4, <1>5

Covered(a, P, z) == \E s \in P : z \in Patches!Cover(a, s)

\* No site of a later patch, and no other of this one, writes at z.
Topmost(d, a, s, z) ==
    \A t \in Patches!SitesOf(d, a) :
        z \in Patches!Cover(a, t) => t[1] <= s[1] /\ (t[1] = s[1] => t = s)

LEMMA ReplacedAt ==
    ASSUME NEW d, NEW a, Table(d, a), NEW z \in DOMAIN d
    PROVE  /\ ~ Covered(a, Patches!SitesOf(d, a), z) => Patches!Replaced(d, a)[z] = d[z]
           /\ \A s \in Patches!SitesOf(d, a) :
                z \in Patches!Cover(a, s) /\ Topmost(d, a, s, z) =>
                    Patches!Replaced(d, a)[z] = ByteOf(a, s, z)
<1> DEFINE W == Patches!Written(d, a, z)
           St == Patches!SitesOf(d, a)
<1>1. \A y : y \in W <=> \E s \in St : s[1] = y /\ z \in Patches!Cover(a, s)
  <2>1. ASSUME NEW y \in W PROVE \E s \in St : s[1] = y /\ z \in Patches!Cover(a, s)
    <3>1. PICK o \in Patches!Sites(d, a[y]) :
            z \in (o + a[y].at + 1) .. (o + a[y].at + Len(a[y].write))
        BY <2>1 DEF Patches!Written
    <3>2. y \in DOMAIN a
        BY <2>1 DEF Patches!Written
    <3>3. <<y, o>> \in St
        BY <3>1, <3>2, SiteIs
    <3>4. z \in Patches!Cover(a, <<y, o>>)
        BY <3>1 DEF Patches!Cover
    <3>. QED  BY <3>3, <3>4
  <2>2. ASSUME NEW s \in St, z \in Patches!Cover(a, s) PROVE s[1] \in W
    <3>1. s[1] \in DOMAIN a /\ s[2] \in Patches!Sites(d, a[s[1]])
        BY SiteIs
    <3>. QED  BY <2>2, <3>1 DEF Patches!Cover, Patches!Written
  <2>. QED  BY <2>1, <2>2
<1> DEFINE top == CHOOSE y \in W : \A x \in W : x <= y
           q == a[top]
           o == CHOOSE e \in Patches!Sites(d, q) :
                    z \in (e + q.at + 1) .. (e + q.at + Len(q.write))
<1>2. Patches!Replaced(d, a)[z] = IF W = {} THEN d[z] ELSE q.write[z - o - q.at]
    BY DEF Patches!Replaced
<1>3. ~ Covered(a, St, z) => W = {}
    BY <1>1 DEF Covered
<1>4. ASSUME NEW s \in St, z \in Patches!Cover(a, s), Topmost(d, a, s, z)
      PROVE  q.write[z - o - q.at] = ByteOf(a, s, z) /\ W # {}
  <2>1. s[1] \in W /\ \A x \in W : x \in Nat /\ x <= s[1]
    BY <1>1, <1>4, SiteIs DEF Topmost
  <2>2. top = s[1]
    <3> HIDE DEF W
    <3>1. top \in W /\ \A x \in W : x <= top
        BY <2>1
    <3>. QED  BY <2>1, <3>1
  <2> DEFINE R(e) == z \in (e + q.at + 1) .. (e + q.at + Len(q.write))
  <2> HIDE DEF top
  <2>3. s[1] \in DOMAIN a /\ s[2] \in Patches!Sites(d, q) /\ R(s[2])
    BY <1>4, <2>2, SiteIs DEF Patches!Cover
  <2>4. ASSUME NEW e \in Patches!Sites(d, q), R(e) PROVE e = s[2]
    <3>1. <<s[1], e>> \in St
        BY <2>2, <2>3, <2>4, SiteIs
    <3>2. z \in Patches!Cover(a, <<s[1], e>>)
        BY <2>2, <2>4 DEF Patches!Cover
    <3>3. <<s[1], e>> = s /\ s = <<s[1], s[2]>>
        BY <1>4, <3>1, <3>2, SiteIs DEF Topmost
    <3>. QED  BY <3>3
  <2>5. o = s[2]
    <3>1. o \in Patches!Sites(d, q) /\ R(o)
        BY <2>3
    <3> HIDE DEF o
    <3>. QED  BY <2>4, <3>1
  <2>. QED  BY <2>1, <2>2, <2>5 DEF ByteOf
<1>. QED  BY <1>2, <1>3, <1>4

-----------------------------------------------------------------------------
(***************************************************************************)
(* The image while it is patched in place, its sites standing apart.       *)
(***************************************************************************)
Apart(d, a) == \A s, t \in Patches!SitesOf(d, a) :
                  s # t => Patches!Cover(a, s) \cap Patches!Cover(a, t) = {}
Undisturbed(d, a) ==
    \A y \in DOMAIN a : \A e \in a[y].from .. (Len(d) - Len(a[y].find)) :
       \A s \in Patches!SitesOf(d, a) :
          Patches!Cover(a, s) \cap (e + 1) .. (e + Len(a[y].find)) # {} =>
              \/ s = <<y, e>>
              \/ \E x \in DOMAIN a[y].find :
                    a[y].find[x] \notin {d[e + x], Patches!Replaced(d, a)[e + x]}
Repeatable(d, a) ==
    \A y \in DOMAIN a :
        /\ \A o \in Occ(d, a[y]) :
              o + a[y].at + Len(a[y].write) <= Len(d) => o \in Patches!Sites(d, a[y])
        /\ \A o \in Patches!Sites(d, a[y]) :
              \E x \in DOMAIN a[y].find : Patches!Replaced(d, a)[o + x] # a[y].find[x]

Mixed(d, a, P) ==
    [z \in DOMAIN d |-> IF Covered(a, P, z) THEN Patches!Replaced(d, a)[z] ELSE d[z]]

LEMMA ByteIs ==
    ASSUME NEW d, NEW a, Table(d, a), Apart(d, a), NEW s \in Patches!SitesOf(d, a),
           NEW z \in Patches!Cover(a, s)
    PROVE  Patches!Replaced(d, a)[z] = ByteOf(a, s, z)
<1>1. z \in DOMAIN d /\ s[1] \in Nat
    BY SiteIs
<1>2. \A t \in Patches!SitesOf(d, a) : z \in Patches!Cover(a, t) => t = s
    BY DEF Apart
<1>3. Topmost(d, a, s, z)
    BY <1>1, <1>2 DEF Topmost
<1>. QED  BY <1>1, <1>3, ReplacedAt

LEMMA ReplacedSeq ==
    ASSUME NEW d, NEW a, Table(d, a), NEW P \in SUBSET Patches!SitesOf(d, a)
    PROVE  /\ DOMAIN Mixed(d, a, P) = DOMAIN d /\ Len(Mixed(d, a, P)) = Len(d)
           /\ Mixed(d, a, {}) = d
           /\ Mixed(d, a, Patches!SitesOf(d, a)) = Patches!Replaced(d, a)
<1>1. d \in Seq(Nat) /\ DOMAIN d = 1 .. Len(d) /\ Len(d) \in Nat
    BY DEF Table
<1>2. DOMAIN Mixed(d, a, P) = DOMAIN d
    BY DEF Mixed
<1>3. Len(Mixed(d, a, P)) = Len(d)
    BY <1>1, <1>2
<1>4. Mixed(d, a, {}) = [z \in DOMAIN d |-> d[z]]
    BY DEF Mixed, Covered
<1>5. d = [z \in DOMAIN d |-> d[z]]
    BY <1>1
<1>6. Mixed(d, a, Patches!SitesOf(d, a)) = Patches!Replaced(d, a)
  <2> DEFINE m == Mixed(d, a, Patches!SitesOf(d, a))
             r == Patches!Replaced(d, a)
  <2>1. \A z \in DOMAIN d : m[z] = r[z]
    BY ReplacedAt DEF Mixed
  <2>2. m = [z \in DOMAIN d |-> m[z]]
    BY DEF Mixed
  <2>3. r = [z \in DOMAIN d |-> r[z]]
    <3> DEFINE F(x) == IF Patches!Written(d, a, x) = {} THEN d[x]
                       ELSE LET q == a[CHOOSE y \in Patches!Written(d, a, x) :
                                          \A z \in Patches!Written(d, a, x) : z <= y]
                                o == CHOOSE e \in Patches!Sites(d, q) :
                                         x \in (e + q.at + 1) .. (e + q.at + Len(q.write))
                            IN q.write[x - o - q.at]
    <3>1. r = [x \in DOMAIN d |-> F(x)]
        BY DEF Patches!Replaced
    <3> HIDE DEF F, r
    <3>. QED  BY <3>1
  <2> HIDE DEF m, r
  <2>4. m = r
    BY <2>1, <2>2, <2>3
  <2>. QED  BY <2>4 DEF m, r
<1>. QED  BY <1>2, <1>3, <1>4, <1>5, <1>6

\* A signature stands in the half patched image where it stands in the original, unless that site
\* is already written.
LEMMA MixedMatches ==
    ASSUME NEW d, NEW a, Table(d, a), Undisturbed(d, a),
           NEW P \in SUBSET Patches!SitesOf(d, a), NEW y \in DOMAIN a,
           NEW n \in Nat, n >= a[y].from,
           Repeatable(d, a) \/ \A s \in P : s[1] = y => s[2] < n
    PROVE  Patches!Matches(Mixed(d, a, P), a[y].find, n)
              = {o \in Ahead(d, a[y], n) : <<y, o>> \notin P}
<1> DEFINE q == a[y]
           f == Mixed(d, a, P)
           r == Patches!Replaced(d, a)
<1>1. d \in Seq(Nat) /\ q \in Patches!AnyPatch /\ Len(f) = Len(d) /\ DOMAIN d = 1 .. Len(d)
  <2>1. d \in Seq(Nat) /\ q \in Patches!AnyPatch
    BY DEF Table
  <2>2. Len(f) = Len(d)
    BY ReplacedSeq
  <2> HIDE DEF q, f
  <2>. QED  BY <2>1, <2>2
<1>2. Patches!Matches(f, q.find, n) =
        {o \in q.from .. (Len(d) - Len(q.find)) :
            o >= n /\ \A x \in DOMAIN q.find : f[o + x] = q.find[x]}
    BY <1>1, OccIs
<1>3. Occ(d, q) = {o \in q.from .. (Len(d) - Len(q.find)) :
                      \A x \in DOMAIN q.find : d[o + x] = q.find[x]}
    BY <1>1, OccIs
<1>4. ASSUME NEW o \in q.from .. (Len(d) - Len(q.find)), o >= n
      PROVE  (\A x \in DOMAIN q.find : f[o + x] = q.find[x])
                <=> (\A x \in DOMAIN q.find : d[o + x] = q.find[x]) /\ <<y, o>> \notin P
  <2>1. /\ o \in Nat /\ DOMAIN q.find = 1 .. Len(q.find) /\ Len(q.find) \in Nat
        /\ Len(d) \in Nat /\ o + Len(q.find) <= Len(d)
    BY <1>1 DEF Patches!AnyPatch
  <2>2. \A x \in DOMAIN q.find : o + x \in DOMAIN d /\ o + x \in (o + 1) .. (o + Len(q.find))
    BY <1>1, <2>1
  <2>3. \A x \in DOMAIN q.find :
            f[o + x] = IF Covered(a, P, o + x) THEN r[o + x] ELSE d[o + x]
    BY <2>2 DEF Mixed
  <2>4. CASE \E s \in P : s # <<y, o>> /\
                          Patches!Cover(a, s) \cap (o + 1) .. (o + Len(q.find)) # {}
    <3>1. PICK x \in DOMAIN q.find : q.find[x] \notin {d[o + x], r[o + x]}
        BY <2>4 DEF Undisturbed
    <3>. QED  BY <2>3, <3>1
  <2>5. CASE ~ (\E s \in P : s # <<y, o>> /\
                             Patches!Cover(a, s) \cap (o + 1) .. (o + Len(q.find)) # {})
    <3>1. CASE <<y, o>> \notin P
      <4>1. \A x \in DOMAIN q.find : ~ Covered(a, P, o + x)
        BY <2>2, <2>5, <3>1 DEF Covered
      <4>. QED  BY <2>3, <3>1, <4>1
    <3>2. CASE <<y, o>> \in P
      <4>1. Repeatable(d, a)
        <5>1. <<y, o>>[1] = y /\ <<y, o>>[2] = o
            OBVIOUS
        <5>2. ~ o < n
            BY <1>4, <2>1
        <5>. QED  BY <3>2, <5>1, <5>2
      <4>2. o \in Patches!Sites(d, q) /\ o \in Occ(d, q)
        <5>1. <<y, o>> \in Patches!SitesOf(d, a) /\ <<y, o>>[1] = y /\ <<y, o>>[2] = o
            BY <3>2
        <5>. QED  BY <5>1, SiteIs
      <4>3. PICK x \in DOMAIN q.find : r[o + x] # q.find[x]
        BY <4>1, <4>2 DEF Repeatable
      <4>4. d[o + x] = q.find[x]
        BY <1>3, <4>2
      <4>5. Covered(a, Patches!SitesOf(d, a), o + x)
        BY <2>2, <4>3, <4>4, ReplacedAt
      <4>6. PICK s \in Patches!SitesOf(d, a) : o + x \in Patches!Cover(a, s)
        BY <4>5 DEF Covered
      <4>7. s = <<y, o>>
        <5>1. Patches!Cover(a, s) \cap (o + 1) .. (o + Len(q.find)) # {}
            BY <2>2, <4>6
        <5>2. \A v \in DOMAIN q.find : q.find[v] \in {d[o + v], r[o + v]}
            BY <1>3, <4>2
        <5>. QED  BY <5>1, <5>2 DEF Undisturbed
      <4>8. f[o + x] = r[o + x]
        BY <2>3, <3>2, <4>6, <4>7 DEF Covered
      <4>. QED  BY <3>2, <4>3, <4>8
    <3>. QED  BY <3>1, <3>2
  <2>. QED  BY <2>4, <2>5
<1> HIDE DEF q, f
<1>5. Patches!Matches(f, q.find, n) = {o \in Ahead(d, q, n) : <<y, o>> \notin P}
    BY <1>2, <1>3, <1>4 DEF Ahead
<1>. QED  BY <1>5 DEF q, f

\* Writing at one more site.
LEMMA MixedWrite ==
    ASSUME NEW d, NEW a, Table(d, a), Apart(d, a),
           NEW P \in SUBSET Patches!SitesOf(d, a), NEW s \in Patches!SitesOf(d, a)
    PROVE  Patches!Overwrite(Mixed(d, a, P), s[2] + a[s[1]].at, a[s[1]].write)
              = Mixed(d, a, P \cup {s})
<1> DEFINE f == Mixed(d, a, P)
           w == Patches!Overwrite(f, s[2] + a[s[1]].at, a[s[1]].write)
           g2 == Mixed(d, a, P \cup {s})
<1>1. DOMAIN f = DOMAIN d
    BY ReplacedSeq
<1>2. w = [z \in DOMAIN d |-> IF z \in Patches!Cover(a, s)
                              THEN a[s[1]].write[z - (s[2] + a[s[1]].at)] ELSE f[z]]
    BY <1>1 DEF Patches!Overwrite, Patches!Cover
<1>3. ASSUME NEW z \in DOMAIN d PROVE w[z] = g2[z]
  <2>1. CASE z \in Patches!Cover(a, s)
    <3>1. g2[z] = Patches!Replaced(d, a)[z]
        BY <2>1 DEF Mixed, Covered
    <3>2. z \in Nat /\ s[2] \in Nat /\ a[s[1]].at \in Int
      <4>1. a[s[1]] \in Patches!AnyPatch
        BY SiteIs DEF Table
      <4>. QED  BY <2>1, <4>1, SiteIs DEF Patches!AnyPatch
    <3>3. z - (s[2] + a[s[1]].at) = z - s[2] - a[s[1]].at
        BY ONLY <3>2
    <3>. QED  BY <1>2, <2>1, <3>1, <3>3, ByteIs DEF ByteOf
  <2>2. CASE z \notin Patches!Cover(a, s)
    <3>1. Covered(a, P \cup {s}, z) <=> Covered(a, P, z)
        BY <2>2 DEF Covered
    <3>. QED  BY <1>2, <2>2, <3>1 DEF Mixed
  <2>. QED  BY <2>1, <2>2
<1>4. DOMAIN w = DOMAIN d /\ w = [z \in DOMAIN d |-> w[z]]
    BY <1>2
<1>5. g2 = [z \in DOMAIN d |-> g2[z]]
    BY DEF Mixed
<1> HIDE DEF w, g2
<1>6. w = g2
    BY <1>3, <1>4, <1>5
<1>. QED  BY <1>6 DEF w, g2

-----------------------------------------------------------------------------
(***************************************************************************)
(* How far a run is: it has passed the sites before offset n of patch y,   *)
(* and all of the patches before; those of the patches in old were passed  *)
(* by an earlier run.                                                      *)
(***************************************************************************)
Passed(d, a, old, y, n) ==
    {s \in Patches!SitesOf(d, a) : s[1] \in old \/ s[1] < y \/ (s[1] = y /\ s[2] < n)}

LEMMA PassedIs ==
    ASSUME NEW d, NEW a, NEW old, NEW y, NEW n, NEW s
    PROVE  s \in Passed(d, a, old, y, n) <=>
              s \in Patches!SitesOf(d, a)
              /\ (s[1] \in old \/ s[1] < y \/ (s[1] = y /\ s[2] < n))
<1> DEFINE R(t) == t[1] \in old \/ t[1] < y \/ (t[1] = y /\ t[2] < n)
           St == Patches!SitesOf(d, a)
<1>1. Passed(d, a, old, y, n) = {t \in St : R(t)}
    BY DEF Passed
<1> HIDE DEF R, St
<1>2. s \in Passed(d, a, old, y, n) <=> s \in St /\ R(s)
    BY <1>1
<1>. QED  BY <1>2 DEF R, St

\* The names of the patches before y that have a site that was not passed earlier.
NamesUpTo(d, a, old, y) ==
    {a[x].name : x \in {w \in DOMAIN a : w < y /\ w \notin old /\ Patches!Sites(d, a[w]) # {}}}

\* Nothing of patch y is left from n on.
Exhausted(d, a, old, y, n) == \A o \in Patches!Sites(d, a[y]) : y \in old \/ o < n

LEMMA OnToNext ==
    ASSUME NEW d, NEW a, Table(d, a), NEW old, NEW y \in DOMAIN a, NEW n \in Nat,
           Exhausted(d, a, old, y, n), NEW m \in Nat,
           y + 1 \in DOMAIN a => m <= a[y + 1].from
    PROVE  Passed(d, a, old, y, n) = Passed(d, a, old, y + 1, m)
<1>1. ASSUME NEW s \in Patches!SitesOf(d, a)
      PROVE  s[1] \in old \/ s[1] < y \/ (s[1] = y /\ s[2] < n)
                <=> s[1] \in old \/ s[1] < y + 1 \/ (s[1] = y + 1 /\ s[2] < m)
  <2>1. s[1] \in Nat /\ s[2] \in Nat /\ y \in Nat /\ s[1] \in DOMAIN a
    BY SiteIs DEF Table
  <2>2. CASE s[1] = y
    <3>1. s[2] \in Patches!Sites(d, a[y])
        BY <2>2, SiteIs
    <3>2. s[1] \in old \/ s[2] < n
        BY <2>2, <3>1 DEF Exhausted
    <3>. QED  BY <2>1, <2>2, <3>2
  <2>3. CASE s[1] = y + 1
    <3>1. s[2] \in Chosen(d, a[y + 1]) /\ y + 1 \in DOMAIN a
        BY <2>1, <2>3, SiteIs
    <3>2. ~ s[2] < a[y + 1].from /\ a[y + 1].from \in Nat
      <4>1. a[y + 1] \in Patches!AnyPatch /\ d \in Seq(Nat)
        BY <3>1 DEF Table
      <4>2. a[y + 1].from \in Nat
        BY <4>1 DEF Patches!AnyPatch
      <4>. QED  BY <3>1, <4>1, <4>2, SettledAtFirst
    <3>3. ~ s[2] < m
        BY <2>1, <3>1, <3>2
    <3>. QED  BY <2>1, <2>3, <3>3
  <2>4. CASE s[1] # y /\ s[1] # y + 1
    <3>1. s[1] < y <=> s[1] < y + 1
        BY <2>1, <2>4
    <3>. QED  BY <2>4, <3>1
  <2>. QED  BY <2>2, <2>3, <2>4
<1>2. ASSUME NEW s
      PROVE  s \in Passed(d, a, old, y, n) <=> s \in Passed(d, a, old, y + 1, m)
  <2>1. s \in Passed(d, a, old, y, n) <=>
          s \in Patches!SitesOf(d, a) /\ (s[1] \in old \/ s[1] < y \/ (s[1] = y /\ s[2] < n))
    BY PassedIs, Zenon
  <2>2. s \in Passed(d, a, old, y + 1, m) <=>
          s \in Patches!SitesOf(d, a)
          /\ (s[1] \in old \/ s[1] < y + 1 \/ (s[1] = y + 1 /\ s[2] < m))
    BY PassedIs, Zenon
  <2>. QED  BY <1>1, <2>1, <2>2, Zenon
<1>. QED  BY <1>2

LEMMA NamesNext ==
    ASSUME NEW d, NEW a, Table(d, a), NEW old, NEW y \in DOMAIN a
    PROVE  NamesUpTo(d, a, old, y + 1) =
              IF y \notin old /\ Patches!Sites(d, a[y]) # {}
              THEN NamesUpTo(d, a, old, y) \cup {a[y].name} ELSE NamesUpTo(d, a, old, y)
<1>1. \A w \in DOMAIN a : w < y + 1 <=> w < y \/ w = y
    BY DEF Table
<1> DEFINE K(x) == {w \in DOMAIN a : w < x /\ w \notin old /\ Patches!Sites(d, a[w]) # {}}
<1>2. K(y + 1) = IF y \notin old /\ Patches!Sites(d, a[y]) # {} THEN K(y) \cup {y} ELSE K(y)
    BY <1>1
<1>3. \A x : NamesUpTo(d, a, old, x) = {a[w].name : w \in K(x)}
    BY DEF NamesUpTo
<1> HIDE DEF K
<1>4. {a[w].name : w \in K(y) \cup {y}} = {a[w].name : w \in K(y)} \cup {a[y].name}
    OBVIOUS
<1>5. CASE y \notin old /\ Patches!Sites(d, a[y]) # {}
    BY <1>2, <1>3, <1>4, <1>5
<1>6. CASE ~ (y \notin old /\ Patches!Sites(d, a[y]) # {})
    BY <1>2, <1>3, <1>6, Zenon
<1>. QED  BY <1>5, <1>6

LEMMA NoNames ==
    ASSUME NEW d, NEW a, Table(d, a), NEW old, NEW y \in Nat
    PROVE  /\ NamesUpTo(d, a, old, 1) = {}
           /\ Passed(d, a, old, 1, 0) = {s \in Patches!SitesOf(d, a) : s[1] \in old}
           /\ Passed(d, a, old, y + 1, 0)
                = {s \in Patches!SitesOf(d, a) : s[1] \in old \/ s[1] <= y}
           /\ NamesUpTo(d, a, old, y + 1) = {} =>
                Passed(d, a, old, y + 1, 0) = Passed(d, a, old, 1, 0)
<1>1. \A w \in DOMAIN a : w \in Nat /\ ~ w < 1
    BY DEF Table
<1>2. \A s \in Patches!SitesOf(d, a) : s[1] \in DOMAIN a /\ s[1] \in Nat /\ s[2] \in Nat
    BY SiteIs
<1>3. NamesUpTo(d, a, old, 1) = {}
    BY <1>1 DEF NamesUpTo
<1>4. \A s \in Patches!SitesOf(d, a) : ~ s[1] < 1 /\ ~ s[2] < 0 /\ (s[1] < y + 1 <=> s[1] <= y)
    BY <1>1, <1>2
<1>5. /\ Passed(d, a, old, 1, 0) = {s \in Patches!SitesOf(d, a) : s[1] \in old}
      /\ Passed(d, a, old, y + 1, 0)
                = {s \in Patches!SitesOf(d, a) : s[1] \in old \/ s[1] <= y}
  <2>1. \A s : s \in Passed(d, a, old, 1, 0)
                 <=> s \in Patches!SitesOf(d, a) /\ s[1] \in old
    BY <1>4, PassedIs, Zenon
  <2>2. \A s : s \in Passed(d, a, old, y + 1, 0)
                 <=> s \in Patches!SitesOf(d, a) /\ (s[1] \in old \/ s[1] <= y)
    <3>1. ASSUME NEW s PROVE s \in Patches!SitesOf(d, a) => ~ (s[1] = y + 1 /\ s[2] < 0)
        BY <1>4, Zenon
    <3>. QED  BY <1>4, <3>1, PassedIs, Zenon
  <2>. QED  BY <2>1, <2>2
<1>6. ASSUME NamesUpTo(d, a, old, y + 1) = {}, NEW s \in Patches!SitesOf(d, a), s[1] <= y
      PROVE  s[1] \in old
  <2>1. Patches!Sites(d, a[s[1]]) # {} /\ s[1] \in DOMAIN a
    BY SiteIs
  <2>2. s[1] < y + 1
    BY <1>4, <1>6
  <2>. QED  BY <1>6, <2>1, <2>2 DEF NamesUpTo
<1>. QED  BY <1>3, <1>5, <1>6

-----------------------------------------------------------------------------
\* One search: for patch y, of the occurrences from n on that are not written yet.
Found(d, a, old, y, n) == {o \in Ahead(d, a[y], n) : <<y, o>> \notin Passed(d, a, old, y, n)}

LEMMA FoundIs ==
    ASSUME NEW d, NEW a, Table(d, a), NEW old, NEW y \in DOMAIN a, NEW n \in Nat
    PROVE  /\ Found(d, a, old, y, n) \in SUBSET Nat
           /\ y \notin old => Found(d, a, old, y, n) = Ahead(d, a[y], n)
           /\ \A o \in Found(d, a, old, y, n) :
                y \in old => o \notin Patches!Sites(d, a[y])
<1>1. a[y] \in Patches!AnyPatch /\ d \in Seq(Nat) /\ y \in Nat
    BY DEF Table
<1>2. Ahead(d, a[y], n) \in SUBSET Nat
  <2>1. Occ(d, a[y]) \in SUBSET (0 .. Len(d))
    BY <1>1, OccIs
  <2>. QED  BY <1>1, <2>1 DEF Ahead
<1>3. ASSUME y \notin old, NEW o \in Ahead(d, a[y], n) PROVE <<y, o>> \notin Passed(d, a, old, y, n)
  <2>1. <<y, o>>[1] = y /\ <<y, o>>[2] = o /\ o \in Nat /\ o >= n
    BY <1>2 DEF Ahead
  <2>2. ~ y < y /\ ~ o < n
    BY <1>1, <2>1
  <2>. QED  BY <1>3, <2>1, <2>2 DEF Passed
<1>4. ASSUME NEW o \in Found(d, a, old, y, n), y \in old, o \in Patches!Sites(d, a[y]) PROVE FALSE
  <2>1. <<y, o>> \in Patches!SitesOf(d, a) /\ <<y, o>>[1] = y
    BY <1>4, SiteIs
  <2>2. <<y, o>> \in Passed(d, a, old, y, n)
    BY <1>4, <2>1, PassedIs, Zenon
  <2>. QED  BY <2>2 DEF Found
<1>. QED  BY <1>2, <1>3, <1>4 DEF Found

LEMMA NothingFound ==
    ASSUME NEW d, NEW a, Table(d, a), NEW old, NEW y \in DOMAIN a, NEW n \in Nat,
           Settled(d, a[y], n), Found(d, a, old, y, n) = {}
    PROVE  Exhausted(d, a, old, y, n)
<1>1. a[y] \in Patches!AnyPatch /\ d \in Seq(Nat)
    BY DEF Table
<1>2. y \notin old => \A o \in Chosen(d, a[y]) : o < n
    BY <1>1, FoundIs, SettledEnd
<1>3. Patches!Sites(d, a[y]) \subseteq Chosen(d, a[y])
    BY <1>1, ChosenIs
<1>. QED  BY <1>2, <1>3 DEF Exhausted

LEMMA FoundUnfit ==
    ASSUME NEW d, NEW a, Table(d, a), NEW old, NEW y \in DOMAIN a, NEW n \in Nat,
           Settled(d, a[y], n), NEW o \in Found(d, a, old, y, n),
           \A e \in Found(d, a, old, y, n) : o <= e,
           ~ o + a[y].at + Len(a[y].write) <= Len(d)
    PROVE  Exhausted(d, a, old, y, n)
<1> DEFINE q == a[y]
<1>1. q \in Patches!AnyPatch /\ d \in Seq(Nat) /\ o \in Nat
  <2>1. Found(d, a, old, y, n) \in SUBSET Nat
    BY FoundIs
  <2>. QED  BY <2>1 DEF Table
<1>2. q.at \in Int /\ Len(q.write) \in Nat /\ Len(d) \in Nat
    BY <1>1 DEF Patches!AnyPatch
<1>3. ASSUME y \notin old, NEW e \in Patches!Sites(d, q) PROVE e < n
  <2>1. o \in Ahead(d, q, n) /\ \A x \in Ahead(d, q, n) : o <= x
    BY <1>3, FoundIs
  <2>2. \A x \in Chosen(d, q) : x >= n => x >= o
    BY <1>1, <2>1, SettledStep
  <2>3. e \in Chosen(d, q) /\ e + q.at + Len(q.write) <= Len(d)
    BY <1>1, <1>3, ChosenIs
  <2>4. e \in Nat
    <3>1. Occ(d, q) \in SUBSET (0 .. Len(d)) /\ Chosen(d, q) \subseteq Occ(d, q)
        BY <1>1, OccIs, ChosenIs
    <3>. QED  BY <1>2, <2>3, <3>1
  <2>5. ~ e >= o
    BY ONLY <1>1, <1>2, <2>3, <2>4, o \in Nat, ~ o + q.at + Len(q.write) <= Len(d)
  <2>. QED  BY <2>2, <2>3, <2>4, <2>5
<1>. QED  BY <1>3 DEF Exhausted

\* A found occurrence whose write fits is the next site.
LEMMA FoundFit ==
    ASSUME NEW d, NEW a, Table(d, a), NEW old, NEW y \in DOMAIN a, NEW n \in Nat,
           y \in old => Repeatable(d, a),
           Settled(d, a[y], n), NEW o \in Found(d, a, old, y, n),
           \A e \in Found(d, a, old, y, n) : o <= e,
           o + a[y].at + Len(a[y].write) <= Len(d)
    PROVE  /\ y \notin old /\ o \in Patches!Sites(d, a[y]) /\ o >= n /\ o \in Nat
           /\ a[y].all => /\ Settled(d, a[y], o + Len(a[y].find))
                          /\ Passed(d, a, old, y, o + Len(a[y].find))
                               = Passed(d, a, old, y, n) \cup {<<y, o>>}
           /\ ~ a[y].all => /\ Exhausted(d, a, old, y, o + 1)
                            /\ Passed(d, a, old, y, o + 1)
                                 = Passed(d, a, old, y, n) \cup {<<y, o>>}
<1> DEFINE q == a[y]
<1>1. q \in Patches!AnyPatch /\ d \in Seq(Nat) /\ o \in Nat /\ y \in Nat
    BY FoundIs DEF Table
<1>2. o \in Ahead(d, q, n) /\ o \in Occ(d, q) /\ o >= n
    BY DEF Found, Ahead
<1>3. y \notin old
  <2>1. ASSUME y \in old PROVE FALSE
    <3>1. o \in Patches!Sites(d, q)
        BY <1>2, <2>1 DEF Repeatable
    <3>. QED  BY <2>1, <3>1, FoundIs
  <2>. QED  BY <2>1
<1>4. \A x \in Ahead(d, q, n) : o <= x
    BY <1>3, FoundIs
<1>5. /\ o \in Chosen(d, q)
      /\ q.all => /\ Settled(d, q, o + Len(q.find))
                  /\ \A e \in Chosen(d, q) : e < o + Len(q.find) <=> e < n \/ e = o
      /\ ~ q.all => Chosen(d, q) = {o} /\ o >= n
    BY <1>1, <1>2, <1>4, SettledStep
<1>6. o \in Patches!Sites(d, q) /\ Patches!Sites(d, q) \subseteq Chosen(d, q)
    BY <1>1, <1>5, ChosenIs
<1>7. <<y, o>> \in Patches!SitesOf(d, a)
    BY <1>6, SiteIs
<1>8. ASSUME NEW m, \A e \in Chosen(d, q) : e < m <=> e < n \/ e = o
      PROVE  Passed(d, a, old, y, m) = Passed(d, a, old, y, n) \cup {<<y, o>>}
  <2>1. ASSUME NEW s \in Patches!SitesOf(d, a)
        PROVE  s[1] = y /\ s[2] < m <=> (s[1] = y /\ s[2] < n) \/ s = <<y, o>>
    <3>1. s = <<s[1], s[2]>> /\ s[2] \in Chosen(d, a[s[1]])
        BY SiteIs
    <3>2. s[1] = y /\ s[2] = o <=> s = <<y, o>>
        BY <3>1
    <3>. QED  BY <1>8, <3>1, <3>2
  <2>2. <<y, o>>[1] = y
    OBVIOUS
  <2>3. \A s : s \in Passed(d, a, old, y, m)
                 <=> s \in Passed(d, a, old, y, n) \cup {<<y, o>>}
    <3>1. ASSUME NEW s
          PROVE  s \in Passed(d, a, old, y, m) <=>
                    s \in Passed(d, a, old, y, n) \/ s = <<y, o>>
      <4>1. s \in Passed(d, a, old, y, m) <=>
              s \in Patches!SitesOf(d, a) /\ (s[1] \in old \/ s[1] < y \/ (s[1] = y /\ s[2] < m))
        BY PassedIs, Zenon
      <4>2. s \in Passed(d, a, old, y, n) <=>
              s \in Patches!SitesOf(d, a) /\ (s[1] \in old \/ s[1] < y \/ (s[1] = y /\ s[2] < n))
        BY PassedIs, Zenon
      <4>. QED  BY <1>7, <2>1, <2>2, <4>1, <4>2, Zenon
    <3>. QED  BY <3>1
  <2>. QED  BY <2>3
<1>9. ~ q.all => \A e \in Chosen(d, q) : e < o + 1 <=> e < n \/ e = o
    BY <1>1, <1>5
<1>10. ~ q.all => Exhausted(d, a, old, y, o + 1)
    BY <1>1, <1>5, <1>6 DEF Exhausted
<1>. QED  BY <1>1, <1>2, <1>3, <1>5, <1>6, <1>8, <1>9, <1>10

-----------------------------------------------------------------------------
(***************************************************************************)
(* The edits of main.dol: noted first, then written one after the other.   *)
(***************************************************************************)
EditList == Seq([offset : Int, bytes : Seq(Nat)])
EditAt(E, n) == (E[n].offset + 1) .. (E[n].offset + Len(E[n].bytes))

\* v is at z when the edits E are written over f: it is of the last one that writes there.
Effect(f, E, z, v) ==
    \/ (\A n \in DOMAIN E : z \notin EditAt(E, n)) /\ v = f[z]
    \/ \E n \in DOMAIN E : /\ z \in EditAt(E, n) /\ v = E[n].bytes[z - E[n].offset]
                           /\ \A m \in DOMAIN E : m > n => z \notin EditAt(E, m)

\* v is at z when the sites P are replaced in d: it is of the last patch that writes there.
Topped(d, a, P, z, v) ==
    \/ ~ Covered(a, P, z) /\ v = d[z]
    \/ \E s \in P : /\ z \in Patches!Cover(a, s) /\ v = ByteOf(a, s, z)
                    /\ \A t \in P : z \in Patches!Cover(a, t) => t[1] <= s[1]

\* Writing E over f comes to replacing the sites P in d.
Listed(d, a, P, f, E) == \A z \in DOMAIN d : \E v : Effect(f, E, z, v) /\ Topped(d, a, P, z, v)

LEMMA NothingListed ==
    ASSUME NEW d, NEW a
    PROVE  Listed(d, a, {}, d, <<>>)
BY DEF Listed, Effect, Topped, Covered

LEMMA ListedMore ==
    ASSUME NEW d, NEW a, Table(d, a), NEW P \in SUBSET Patches!SitesOf(d, a),
           NEW s \in Patches!SitesOf(d, a), \A t \in P : t[1] <= s[1],
           NEW f, NEW E \in EditList, Listed(d, a, P, f, E), NEW at, at = s[2] + a[s[1]].at
    PROVE  LET F == Append(E, [offset |-> at, bytes |-> a[s[1]].write])
           IN F \in EditList /\ Listed(d, a, P \cup {s}, f, F)
<1> DEFINE q == a[s[1]]
           e == [offset |-> at, bytes |-> q.write]
           F == Append(E, e)
           N == Len(E) + 1
<1>1. q \in Patches!AnyPatch /\ s[2] \in Nat /\ s[1] \in Nat
    BY SiteIs DEF Table
<1>2. q.at \in Int /\ q.write \in Seq(Nat) /\ at = s[2] + q.at /\ at \in Int
    BY <1>1 DEF Patches!AnyPatch
<1>3. e \in [offset : Int, bytes : Seq(Nat)]
    BY <1>2
<1>4. /\ F \in EditList /\ DOMAIN F = 1 .. N /\ DOMAIN E = 1 .. (N - 1)
      /\ N \in Nat /\ N - 1 \in Nat
      /\ F[N] = e /\ \A n \in DOMAIN E : F[n] = E[n]
    BY <1>3 DEF EditList
<1>5. Patches!Cover(a, s) = EditAt(F, N)
  <2>1. F[N].offset = at /\ F[N].bytes = q.write
    BY <1>4
  <2>2. Patches!Cover(a, s) = (s[2] + q.at + 1) .. (s[2] + q.at + Len(q.write))
    BY DEF Patches!Cover
  <2>. QED  BY <1>2, <2>1, <2>2 DEF EditAt
<1>6. \A n \in DOMAIN E : EditAt(F, n) = EditAt(E, n) /\ n \in DOMAIN F /\ n < N
    BY <1>4 DEF EditAt
<1>7. ASSUME NEW z \in DOMAIN d PROVE \E v : Effect(f, F, z, v) /\ Topped(d, a, P \cup {s}, z, v)
  <2>1. CASE z \in Patches!Cover(a, s)
    <3> DEFINE v == ByteOf(a, s, z)
    <3>1. Effect(f, F, z, v)
      <4>1. v = F[N].bytes[z - F[N].offset]
        <5>1. F[N].offset = s[2] + q.at /\ F[N].bytes = q.write /\ z \in Nat
            BY <1>2, <1>4, <2>1, SiteIs
        <5>2. z - s[2] - q.at = z - (s[2] + q.at)
            BY ONLY <1>1, <1>2, <5>1
        <5>. QED  BY <5>1, <5>2 DEF ByteOf
      <4>2. N \in DOMAIN F /\ \A m \in DOMAIN F : ~ m > N
        BY <1>4
      <4>. QED  BY <1>5, <2>1, <4>1, <4>2 DEF Effect
    <3>2. Topped(d, a, P \cup {s}, z, v)
        BY <1>1, <2>1 DEF Topped
    <3>. QED  BY <3>1, <3>2
  <2>2. CASE z \notin Patches!Cover(a, s)
    <3>1. PICK v : Effect(f, E, z, v) /\ Topped(d, a, P, z, v)
        BY DEF Listed
    <3>2. Topped(d, a, P \cup {s}, z, v)
      <4>1. CASE ~ Covered(a, P, z) /\ v = d[z]
        BY <2>2, <4>1 DEF Topped, Covered
      <4>2. CASE ~ (~ Covered(a, P, z) /\ v = d[z])
        <5>1. PICK t \in P : /\ z \in Patches!Cover(a, t) /\ v = ByteOf(a, t, z)
                             /\ \A x \in P : z \in Patches!Cover(a, x) => x[1] <= t[1]
            BY <3>1, <4>2 DEF Topped
        <5>. QED  BY <2>2, <5>1 DEF Topped
      <4>. QED  BY <4>1, <4>2
    <3>3. Effect(f, F, z, v)
      <4>1. \A n \in DOMAIN F : n \in DOMAIN E \/ n = N
        BY <1>4
      <4>2. z \notin EditAt(F, N)
        BY <1>5, <2>2
      <4>3. CASE (\A n \in DOMAIN E : z \notin EditAt(E, n)) /\ v = f[z]
        <5>1. \A n \in DOMAIN F : z \notin EditAt(F, n)
            BY <1>6, <4>1, <4>2, <4>3
        <5>. QED  BY <4>3, <5>1 DEF Effect
      <4>4. CASE ~ ((\A n \in DOMAIN E : z \notin EditAt(E, n)) /\ v = f[z])
        <5>1. PICK n \in DOMAIN E :
                /\ z \in EditAt(E, n) /\ v = E[n].bytes[z - E[n].offset]
                /\ \A m \in DOMAIN E : m > n => z \notin EditAt(E, m)
            BY <3>1, <4>4 DEF Effect
        <5>2. /\ n \in DOMAIN F /\ z \in EditAt(F, n) /\ v = F[n].bytes[z - F[n].offset]
              /\ \A m \in DOMAIN F : m > n => z \notin EditAt(F, m)
            BY <1>4, <1>6, <4>1, <4>2, <5>1
        <5>. QED  BY <5>2 DEF Effect
      <4>. QED  BY <4>3, <4>4
    <3>. QED  BY <3>2, <3>3
  <2>. QED  BY <2>1, <2>2
<1>. QED  BY <1>4, <1>7 DEF Listed

LEMMA ListedLess ==
    ASSUME NEW d, NEW a, NEW P, NEW f, DOMAIN f = DOMAIN d, NEW E \in EditList, E # <<>>,
           Listed(d, a, P, f, E)
    PROVE  LET w == Patches!Overwrite(f, Head(E).offset, Head(E).bytes)
           IN /\ DOMAIN w = DOMAIN d /\ w = [z \in DOMAIN d |-> w[z]]
              /\ Tail(E) \in EditList /\ Listed(d, a, P, w, Tail(E))
<1> DEFINE w == Patches!Overwrite(f, Head(E).offset, Head(E).bytes)
           T == Tail(E)
<1>1. /\ T \in EditList /\ Head(E) = E[1] /\ 1 \in DOMAIN E /\ DOMAIN E = 1 .. Len(E)
      /\ DOMAIN T = 1 .. (Len(E) - 1) /\ Len(E) \in Nat \ {0}
      /\ \A n \in DOMAIN T : T[n] = E[n + 1] /\ n \in Nat /\ n + 1 \in DOMAIN E
    BY DEF EditList
<1>2. w = [z \in DOMAIN d |-> IF z \in EditAt(E, 1) THEN E[1].bytes[z - E[1].offset] ELSE f[z]]
    BY <1>1 DEF Patches!Overwrite, EditAt
<1>3. DOMAIN w = DOMAIN d /\ w = [z \in DOMAIN d |-> w[z]]
    BY <1>2
<1>4. \A n \in DOMAIN T : EditAt(T, n) = EditAt(E, n + 1)
    BY <1>1 DEF EditAt
<1>5. ASSUME NEW n \in DOMAIN E PROVE n = 1 \/ (n - 1 \in DOMAIN T /\ (n - 1) + 1 = n)
    BY <1>1
<1>6. ASSUME NEW z \in DOMAIN d, NEW v, Effect(f, E, z, v) PROVE Effect(w, T, z, v)
  <2>1. CASE \A n \in DOMAIN T : z \notin EditAt(T, n)
    <3>1. \A n \in DOMAIN E : n = 1 \/ z \notin EditAt(E, n)
        BY <1>4, <1>5, <2>1
    <3>2. v = w[z]
        BY <1>2, <1>6, <3>1, <1>1 DEF Effect
    <3>. QED  BY <2>1, <3>2 DEF Effect
  <2>2. CASE \E n \in DOMAIN T : z \in EditAt(T, n)
    <3>1. PICK x \in DOMAIN T : z \in EditAt(T, x)
        BY <2>2
    <3>2. x + 1 \in DOMAIN E /\ z \in EditAt(E, x + 1) /\ x + 1 > 1
      <4>1. x \in Nat /\ x >= 1
        BY <1>1
      <4>. QED  BY <1>1, <1>4, <3>1, <4>1
    <3>3. PICK n \in DOMAIN E : /\ z \in EditAt(E, n) /\ v = E[n].bytes[z - E[n].offset]
                                /\ \A m \in DOMAIN E : m > n => z \notin EditAt(E, m)
        BY <1>6, <3>2 DEF Effect
    <3>4. n # 1
        BY <3>2, <3>3
    <3>5. n - 1 \in DOMAIN T /\ (n - 1) + 1 = n
        BY <1>5, <3>4
    <3>6. z \in EditAt(T, n - 1) /\ v = T[n - 1].bytes[z - T[n - 1].offset]
        BY <1>1, <1>4, <3>3, <3>5
    <3>7. ASSUME NEW m \in DOMAIN T, m > n - 1 PROVE z \notin EditAt(T, m)
      <4>1. m + 1 > n /\ m + 1 \in DOMAIN E
        BY <1>1, <3>7
      <4>. QED  BY <1>4, <3>3, <4>1
    <3>. QED  BY <3>5, <3>6, <3>7 DEF Effect
  <2>. QED  BY <2>1, <2>2
<1>7. Listed(d, a, P, w, T)
    BY <1>6 DEF Listed
<1>. QED  BY <1>1, <1>3, <1>7

\* An edit that is no longer than its signature is clear of its patch's others.
LEMMA OwnSitesApart ==
    ASSUME NEW d, NEW a, Table(d, a), \A y \in DOMAIN a : Len(a[y].write) <= Len(a[y].find),
           NEW s \in Patches!SitesOf(d, a), NEW t \in Patches!SitesOf(d, a), s[1] = t[1],
           NEW z, z \in Patches!Cover(a, s), z \in Patches!Cover(a, t)
    PROVE  s = t
<1> DEFINE q == a[s[1]]
           o == s[2]
           e == t[2]
<1>1. /\ s = <<s[1], o>> /\ t = <<s[1], e>> /\ o \in Chosen(d, q) /\ e \in Chosen(d, q)
      /\ o \in Occ(d, q) /\ e \in Occ(d, q) /\ o \in Nat /\ e \in Nat /\ z \in Nat
      /\ q \in Patches!AnyPatch /\ d \in Seq(Nat) /\ Len(q.write) <= Len(q.find)
  <2>1. s = <<s[1], o>> /\ o \in Chosen(d, q) /\ o \in Occ(d, q) /\ o \in Nat /\ z \in Nat
        /\ s[1] \in DOMAIN a
    BY SiteIs
  <2>2. t = <<t[1], e>> /\ e \in Chosen(d, a[t[1]]) /\ e \in Occ(d, a[t[1]]) /\ e \in Nat
    BY SiteIs
  <2>. QED  BY <2>1, <2>2 DEF Table
<1>2. /\ z \in (o + q.at + 1) .. (o + q.at + Len(q.write))
      /\ z \in (e + q.at + 1) .. (e + q.at + Len(q.write))
    BY DEF Patches!Cover
<1> HIDE DEF q, o, e
<1>3. q.at \in Int /\ Len(q.write) \in Nat /\ Len(q.find) \in Nat
  <2>1. q.at \in Int /\ q.write \in Seq(Nat) /\ q.find \in Seq(Nat)
    BY <1>1 DEF Patches!AnyPatch
  <2>. QED  BY <2>1
<1>4. o = e
  <2>1. CASE q.all
    <3>1. Disjoint(Occ(d, q), Len(q.find), Chosen(d, q))
        BY <1>1, <2>1, ChosenIs
    <3>2. ~ (o < e /\ e < o + Len(q.find)) /\ ~ (e < o /\ o < e + Len(q.find))
        BY <1>1, <3>1 DEF Disjoint
    <3>3. o < e + Len(q.find) /\ e < o + Len(q.find)
      <4>1. o \in Nat /\ e \in Nat /\ Len(q.write) <= Len(q.find)
        BY <1>1
      <4>2. /\ z >= o + q.at + 1 /\ z <= o + q.at + Len(q.write) /\ z \in Int
            /\ z >= e + q.at + 1 /\ z <= e + q.at + Len(q.write)
        BY ONLY <1>2, <1>3, <4>1
      <4>3. ASSUME NEW x \in Int, NEW w \in Nat, NEW n \in Nat, w <= n,
                   NEW u \in Nat, NEW v \in Nat,
                   NEW c \in Int, c >= u + x + 1, c <= v + x + w
            PROVE  u < v + n
        BY ONLY <4>3
      <4>. QED  BY <1>3, <4>1, <4>2, <4>3
    <3>. QED  BY <1>1, <3>2, <3>3
  <2>2. CASE ~ q.all
    <3>1. \A x, v \in Chosen(d, q) : x <= v
        BY <1>1, <2>2, ChosenIs
    <3>. QED  BY <1>1, <3>1
  <2>. QED  BY <2>1, <2>2
<1>. QED  BY <1>1, <1>4 DEF o, e

LEMMA ListedEnd ==
    ASSUME NEW d, NEW a, Table(d, a), \A y \in DOMAIN a : Len(a[y].write) <= Len(a[y].find),
           NEW f, f = [z \in DOMAIN d |-> f[z]],
           Listed(d, a, Patches!SitesOf(d, a), f, <<>>)
    PROVE  f = Mixed(d, a, Patches!SitesOf(d, a))
<1> DEFINE m == Mixed(d, a, Patches!SitesOf(d, a))
<1>1. ASSUME NEW z \in DOMAIN d PROVE f[z] = m[z]
  <2>1. PICK v : Effect(f, <<>>, z, v) /\ Topped(d, a, Patches!SitesOf(d, a), z, v)
    BY DEF Listed
  <2>2. v = f[z]
    BY <2>1 DEF Effect
  <2>3. CASE ~ Covered(a, Patches!SitesOf(d, a), z)
    BY <2>1, <2>2, <2>3 DEF Topped, Covered, Mixed
  <2>4. CASE Covered(a, Patches!SitesOf(d, a), z)
    <3>1. PICK s \in Patches!SitesOf(d, a) :
            /\ z \in Patches!Cover(a, s) /\ v = ByteOf(a, s, z)
            /\ \A t \in Patches!SitesOf(d, a) : z \in Patches!Cover(a, t) => t[1] <= s[1]
        BY <2>1, <2>4 DEF Topped
    <3>2. Topmost(d, a, s, z)
        BY <3>1, OwnSitesApart DEF Topmost
    <3>. QED  BY <2>2, <2>4, <3>1, <3>2, ReplacedAt DEF Mixed
  <2>. QED  BY <2>3, <2>4
<1>2. m = [z \in DOMAIN d |-> m[z]]
    BY DEF Mixed
<1> HIDE DEF m
<1>3. f = m
    BY <1>1, <1>2
<1>. QED  BY <1>3 DEF m

-----------------------------------------------------------------------------
(***************************************************************************)
(* The runs over one image.                                                *)
(***************************************************************************)
AllOf(b) == Patches!AllPatches(b.rounds)

\* The patches that an earlier run than r has looked for, and the sites passed in run r.
OldOf(b, r) == {y \in DOMAIN AllOf(b) : \E x \in 1 .. (r - 1) : y \in DOMAIN b.rounds[x]}
PassedIn(b, r, y, n) == Passed(b.image, AllOf(b), OldOf(b, r), y, n)
NamesIn(b, r, y) == NamesUpTo(b.image, AllOf(b), OldOf(b, r), y)
EndOf(b, r) == Len(b.rounds[r]) + 1

\* The images of which SitesArePatched is claimed.
Claimed(b) == b.kind = "fw" => Patches!StandApart(b)

LEMMA JobIs ==
    ASSUME NEW b \in Jobs
    PROVE  /\ b.kind \in {"fw", "dol"} /\ b.image \in Seq(Nat)
           /\ DOMAIN b.rounds = 1 .. Len(b.rounds) /\ Len(b.rounds) \in Nat \ {0}
           /\ Table(b.image, AllOf(b))
           /\ \E x \in DOMAIN b.rounds : AllOf(b) = b.rounds[x]
           /\ \A r \in DOMAIN b.rounds :
                /\ b.rounds[r] \in Seq(Patches!AnyPatch) /\ Len(b.rounds[r]) \in Nat \ {0}
                /\ \A y \in DOMAIN b.rounds[r] :
                     y \in DOMAIN AllOf(b) /\ b.rounds[r][y] = AllOf(b)[y]
           /\ \A y, z \in DOMAIN AllOf(b) : AllOf(b)[y].name = AllOf(b)[z].name => y = z
           /\ b.kind = "dol" => /\ Len(b.rounds) = 1 /\ AllOf(b) = b.rounds[1]
                                /\ \A y \in DOMAIN AllOf(b) :
                                     /\ Len(AllOf(b)[y].write) <= Len(AllOf(b)[y].find)
                                     /\ AllOf(b)[y].at + Len(AllOf(b)[y].write)
                                          <= Len(AllOf(b)[y].find)
           /\ Claimed(b) /\ b.kind = "fw" =>
                /\ Apart(b.image, AllOf(b)) /\ Undisturbed(b.image, AllOf(b))
                /\ Len(b.rounds) > 1 => Repeatable(b.image, AllOf(b))
<1> DEFINE all == AllOf(b)
           R == b.rounds
<1>1. /\ b.kind \in {"fw", "dol"} /\ b.image \in Seq(Nat)
      /\ R \in Seq(Seq(Patches!AnyPatch) \ {<<>>}) \ {<<>>}
      /\ \A r \in DOMAIN R : \A y \in DOMAIN R[r] :
            /\ y \in DOMAIN all /\ R[r][y] = all[y]
            /\ \A z \in DOMAIN all : all[z].name = all[y].name => z = y
            /\ all[y].from + all[y].at >= 0
            /\ b.kind = "dol" => /\ Len(R) = 1 /\ Len(all[y].write) <= Len(all[y].find)
                                 /\ all[y].at + Len(all[y].write) <= Len(all[y].find)
    BY JobsAssumption DEF AllOf
<1>2. DOMAIN R = 1 .. Len(R) /\ Len(R) \in Nat \ {0} /\ 1 \in DOMAIN R
    BY <1>1
<1>3. \A r \in DOMAIN R : R[r] \in Seq(Patches!AnyPatch) /\ R[r] # <<>> /\ Len(R[r]) \in Nat \ {0}
                          /\ 1 \in DOMAIN R[r]
  <2> SUFFICES ASSUME NEW r \in DOMAIN R
               PROVE  R[r] \in Seq(Patches!AnyPatch) /\ R[r] # <<>> /\ Len(R[r]) \in Nat \ {0}
                      /\ 1 \in DOMAIN R[r]
    OBVIOUS
  <2>1. R[r] \in Seq(Patches!AnyPatch) \ {<<>>}
    BY <1>1
  <2>. QED  BY <2>1
<1>4. PICK x \in DOMAIN R : all = R[x]
    BY <1>2 DEF AllOf, Patches!AllPatches
<1>5. Table(b.image, all)
    BY <1>1, <1>3, <1>4 DEF Table
<1>6. \A y, z \in DOMAIN all : all[y].name = all[z].name => y = z
    BY <1>1, <1>4
<1>7. b.kind = "dol" => /\ Len(R) = 1 /\ all = R[1]
                        /\ \A y \in DOMAIN all :
                             /\ Len(all[y].write) <= Len(all[y].find)
                             /\ all[y].at + Len(all[y].write) <= Len(all[y].find)
  <2> SUFFICES ASSUME b.kind = "dol"
               PROVE  /\ Len(R) = 1 /\ all = R[1]
                      /\ \A y \in DOMAIN all :
                             /\ Len(all[y].write) <= Len(all[y].find)
                             /\ all[y].at + Len(all[y].write) <= Len(all[y].find)
    OBVIOUS
  <2>1. Len(R) = 1
    BY <1>1, <1>3, <1>4
  <2>2. x = 1
    BY <1>2, <1>4, <2>1
  <2>. QED  BY <1>1, <1>4, <2>1, <2>2
<1>8. Claimed(b) /\ b.kind = "fw" =>
                /\ Apart(b.image, all) /\ Undisturbed(b.image, all)
                /\ Len(R) > 1 => Repeatable(b.image, all)
    BY Zenon DEF Claimed, Patches!StandApart, Apart, Undisturbed, Repeatable, AllOf, Occ
<1>. QED  BY <1>1, <1>2, <1>3, <1>4, <1>5, <1>6, <1>7, <1>8

LEMMA OldIs ==
    ASSUME NEW b \in Jobs, NEW r \in DOMAIN b.rounds
    PROVE  /\ r = 1 => OldOf(b, r) = {}
           /\ OldOf(b, r) # {} => Len(b.rounds) > 1
           /\ PassedIn(b, r, EndOf(b, r), 0)
                = {s \in Patches!SitesOf(b.image, AllOf(b)) :
                      s[1] \in OldOf(b, r) \/ s[1] \in DOMAIN b.rounds[r]}
           /\ r + 1 \in DOMAIN b.rounds =>
                PassedIn(b, r + 1, 1, 0) = PassedIn(b, r, EndOf(b, r), 0)
           /\ r = Len(b.rounds) =>
                PassedIn(b, r, EndOf(b, r), 0) = Patches!SitesOf(b.image, AllOf(b))
<1> DEFINE R == b.rounds
           St == Patches!SitesOf(b.image, AllOf(b))
<1>1. /\ DOMAIN R = 1 .. Len(R) /\ Len(R) \in Nat \ {0} /\ r \in Nat /\ r >= 1 /\ r <= Len(R)
      /\ DOMAIN R[r] = 1 .. Len(R[r]) /\ Len(R[r]) \in Nat
      /\ \A y \in DOMAIN R[r] : y \in DOMAIN AllOf(b)
  <2>1. DOMAIN R = 1 .. Len(R) /\ Len(R) \in Nat \ {0}
    BY JobIs
  <2>2. R[r] \in Seq(Patches!AnyPatch) /\ \A y \in DOMAIN R[r] : y \in DOMAIN AllOf(b)
    BY JobIs
  <2>. QED  BY <2>1, <2>2
<1>2. Table(b.image, AllOf(b))
    BY JobIs
<1>3. \A s \in St : s[1] \in Nat /\ s[1] \in DOMAIN AllOf(b) /\ s[1] >= 1
  <2>1. \A y \in DOMAIN AllOf(b) : y \in Nat /\ y >= 1
    BY <1>2 DEF Table
  <2>. QED  BY <1>2, <2>1, SiteIs
<1>4. r = 1 => OldOf(b, r) = {}
    BY DEF OldOf
<1>5. OldOf(b, r) # {} => Len(R) > 1
    BY <1>1 DEF OldOf
<1>6. PassedIn(b, r, EndOf(b, r), 0)
        = {s \in St : s[1] \in OldOf(b, r) \/ s[1] \in DOMAIN R[r]}
  <2>1. PassedIn(b, r, EndOf(b, r), 0) = {s \in St : s[1] \in OldOf(b, r) \/ s[1] <= Len(R[r])}
    <3> DEFINE n == Len(R[r])
    <3>1. n \in Nat
        BY <1>1
    <3>2. PassedIn(b, r, EndOf(b, r), 0) = Passed(b.image, AllOf(b), OldOf(b, r), n + 1, 0)
        BY Zenon DEF PassedIn, EndOf
    <3> HIDE DEF n
    <3>3. Passed(b.image, AllOf(b), OldOf(b, r), n + 1, 0)
            = {s \in Patches!SitesOf(b.image, AllOf(b)) : s[1] \in OldOf(b, r) \/ s[1] <= n}
      <4> DEFINE d == b.image
                 a == AllOf(b)
                 old == OldOf(b, r)
      <4>1. Table(d, a)
        BY <1>2
      <4> HIDE DEF d, a, old
      <4>2. Passed(d, a, old, n + 1, 0)
              = {s \in Patches!SitesOf(d, a) : s[1] \in old \/ s[1] <= n}
        BY <3>1, <4>1, NoNames
      <4>. QED  BY <4>2, Zenon DEF d, a, old
    <3>. QED  BY <3>2, <3>3, Zenon DEF n
  <2>2. \A s \in St : s[1] <= Len(R[r]) <=> s[1] \in DOMAIN R[r]
    BY <1>1, <1>3
  <2>. QED  BY <2>1, <2>2
<1>7. ASSUME r + 1 \in DOMAIN R
      PROVE  PassedIn(b, r + 1, 1, 0) = PassedIn(b, r, EndOf(b, r), 0)
  <2>1. PassedIn(b, r + 1, 1, 0) = {s \in St : s[1] \in OldOf(b, r + 1)}
    BY <1>2, NoNames DEF PassedIn
  <2>2. ASSUME NEW y \in DOMAIN AllOf(b)
        PROVE  y \in OldOf(b, r + 1) <=> y \in OldOf(b, r) \/ y \in DOMAIN R[r]
    <3>1. 1 .. ((r + 1) - 1) = 1 .. (r - 1) \cup {r}
        BY <1>1
    <3>2. y \in OldOf(b, r + 1) <=> \E x \in 1 .. ((r + 1) - 1) : y \in DOMAIN R[x]
        BY Zenon DEF OldOf
    <3>3. y \in OldOf(b, r) <=> \E x \in 1 .. (r - 1) : y \in DOMAIN R[x]
        BY Zenon DEF OldOf
    <3>. QED  BY <3>1, <3>2, <3>3, Zenon
  <2>3. \A s \in St : s[1] \in OldOf(b, r + 1) <=> s[1] \in OldOf(b, r) \/ s[1] \in DOMAIN R[r]
    BY <1>3, <2>2
  <2>. QED  BY <1>6, <2>1, <2>3
<1>8. ASSUME r = Len(R) PROVE PassedIn(b, r, EndOf(b, r), 0) = St
  <2>1. PICK x \in DOMAIN R : AllOf(b) = R[x]
    BY JobIs
  <2>2. x = r \/ x \in 1 .. (r - 1)
    BY <1>1, <1>8
  <2>3. \A y \in DOMAIN AllOf(b) : y \in OldOf(b, r) \/ y \in DOMAIN R[r]
    BY <2>1, <2>2 DEF OldOf
  <2>. QED  BY <1>3, <1>6, <2>3
<1>. QED  BY <1>4, <1>5, <1>6, <1>7, <1>8

-----------------------------------------------------------------------------
\* What the buffer and the list of edits are when run r has come to offset n of patch y.
Buffers(b, r, y, n, f, E) ==
    /\ b.kind = "fw" => f = Mixed(b.image, AllOf(b), PassedIn(b, r, y, n))
    /\ b.kind = "dol" => /\ f = b.image /\ E \in EditList
                         /\ Listed(b.image, AllOf(b), PassedIn(b, r, y, n), f, E)

Counted(b, r, y, n, h) ==
    h \in Nat /\ (h > 0 <=> y \notin OldOf(b, r)
                            /\ \E o \in Patches!Sites(b.image, AllOf(b)[y]) : o < n)

Searching(b, r, y, n, h, ap, f, E) ==
    /\ y \in DOMAIN b.rounds[r] /\ n \in Nat
    /\ Settled(b.image, AllOf(b)[y], n) /\ Counted(b, r, y, n, h)
    /\ ap = NamesIn(b, r, y) /\ Buffers(b, r, y, n, f, E)

Searched(b, r, c, ap, f, E) ==
    /\ ap = NamesIn(b, r, EndOf(b, r))
    /\ c = "write" => f = Mixed(b.image, AllOf(b), PassedIn(b, r, EndOf(b, r), 0))
    /\ c = "splice" => /\ b.kind = "dol" /\ E \in EditList
                       /\ DOMAIN f = DOMAIN b.image /\ f = [z \in DOMAIN b.image |-> f[z]]
                       /\ Listed(b.image, AllOf(b), PassedIn(b, r, EndOf(b, r), 0), f, E)

\* What a search of the buffer finds.
LEMMA SearchFinds ==
    ASSUME NEW b \in Jobs, Claimed(b), NEW r \in DOMAIN b.rounds, NEW y, NEW n, NEW h, NEW ap,
           NEW f, NEW E, Searching(b, r, y, n, h, ap, f, E)
    PROVE  /\ Len(f) = Len(b.image) /\ b.rounds[r][y] = AllOf(b)[y]
           /\ Patches!Matches(f, b.rounds[r][y].find, n)
                = Found(b.image, AllOf(b), OldOf(b, r), y, n)
           /\ y \in OldOf(b, r) => Repeatable(b.image, AllOf(b))
<1> DEFINE d == b.image
           a == AllOf(b)
           old == OldOf(b, r)
<1>1. /\ y \in DOMAIN a /\ b.rounds[r][y] = a[y] /\ n \in Nat /\ n >= a[y].from
      /\ d \in Seq(Nat) /\ Table(d, a)
  <2>1. y \in DOMAIN b.rounds[r] /\ n \in Nat /\ Settled(d, a[y], n)
    BY DEF Searching
  <2>. QED  BY <2>1, JobIs DEF Settled
<1>2. CASE b.kind = "fw"
  <2>1. /\ f = Mixed(d, a, PassedIn(b, r, y, n))
        /\ PassedIn(b, r, y, n) \subseteq Patches!SitesOf(d, a)
    BY <1>2 DEF Searching, Buffers, PassedIn, Passed
  <2>2. Undisturbed(d, a) /\ (Len(b.rounds) > 1 => Repeatable(d, a))
    BY <1>2, JobIs
  <2>3. y \in old => Repeatable(d, a)
    BY <2>2, OldIs
  <2>4. y \notin old => \A s \in PassedIn(b, r, y, n) : s[1] = y => s[2] < n
    <3> SUFFICES ASSUME y \notin old, NEW s \in PassedIn(b, r, y, n), s[1] = y PROVE s[2] < n
        OBVIOUS
    <3>1. s[1] \in old \/ s[1] < y \/ (s[1] = y /\ s[2] < n)
        BY PassedIs DEF PassedIn
    <3>2. y \in Nat
        BY <1>1 DEF Table
    <3>. QED  BY <3>1, <3>2
  <2>5. Patches!Matches(f, a[y].find, n)
            = {o \in Ahead(d, a[y], n) : <<y, o>> \notin PassedIn(b, r, y, n)}
    BY <1>1, <2>1, <2>2, <2>3, <2>4, MixedMatches
  <2>6. Len(f) = Len(d)
    BY <1>1, <2>1, ReplacedSeq
  <2>. QED  BY <1>1, <2>3, <2>5, <2>6 DEF Found, PassedIn
<1>3. CASE b.kind = "dol"
  <2>1. f = d /\ old = {}
    <3>1. r = 1
      <4>1. Len(b.rounds) = 1 /\ DOMAIN b.rounds = 1 .. Len(b.rounds)
        BY <1>3, JobIs
      <4>. QED  BY <4>1
    <3>. QED  BY <1>3, <3>1, OldIs DEF Searching, Buffers
  <2>2. Found(d, a, old, y, n) = Ahead(d, a[y], n)
    <3> HIDE DEF d, a, old
    <3>1. y \notin old
        BY <2>1
    <3>. QED  BY <1>1, <3>1, FoundIs
  <2>3. a[y] \in Patches!AnyPatch
    BY <1>1 DEF Table
  <2>4. Patches!Matches(d, a[y].find, n)
          = {o \in a[y].from .. (Len(d) - Len(a[y].find)) :
                o >= n /\ \A x \in DOMAIN a[y].find : d[o + x] = a[y].find[x]}
    <3> DEFINE q == a[y]
    <3>1. q \in Patches!AnyPatch /\ n >= q.from
        BY <1>1, <2>3
    <3> HIDE DEF d, a, old, q
    <3>2. Patches!Matches(d, q.find, n)
          = {o \in q.from .. (Len(d) - Len(q.find)) :
                o >= n /\ \A x \in DOMAIN q.find : d[o + x] = q.find[x]}
        BY <1>1, <3>1, OccIs
    <3>. QED  BY <3>2 DEF q
  <2>5. Occ(d, a[y]) = {o \in a[y].from .. (Len(d) - Len(a[y].find)) :
                           \A x \in DOMAIN a[y].find : d[o + x] = a[y].find[x]}
    BY <1>1, <2>3, OccIs
  <2>6. Patches!Matches(d, a[y].find, n) = Ahead(d, a[y], n)
    BY <2>4, <2>5 DEF Ahead
  <2>. QED  BY <1>1, <2>1, <2>2, <2>6
<1>. QED  BY <1>2, <1>3, JobIs

\* On to the next patch, or past the last.
LEMMA OnToNextPatch ==
    ASSUME NEW b \in Jobs, NEW r \in DOMAIN b.rounds, NEW y \in DOMAIN b.rounds[r],
           NEW n \in Nat, NEW m \in Nat, Exhausted(b.image, AllOf(b), OldOf(b, r), y, m),
           NEW h, Counted(b, r, y, m, h), NEW ap, ap = NamesIn(b, r, y),
           NEW f, NEW E, Buffers(b, r, y, m, f, E), NEW ap2,
           ap2 = IF h > 0 THEN ap \cup {b.rounds[r][y].name} ELSE ap
    PROVE  /\ y < Len(b.rounds[r]) =>
                Searching(b, r, y + 1, b.rounds[r][y + 1].from, 0, ap2, f, E)
           /\ ~ y < Len(b.rounds[r]) =>
                Searched(b, r, IF b.kind = "dol" THEN "splice" ELSE "write", ap2, f, E)
<1> DEFINE d == b.image
           a == AllOf(b)
           old == OldOf(b, r)
           t == b.rounds[r]
<1>1. /\ Table(d, a) /\ d \in Seq(Nat) /\ b.kind \in {"fw", "dol"}
      /\ t \in Seq(Patches!AnyPatch) /\ \A x \in DOMAIN t : x \in DOMAIN a /\ t[x] = a[x]
    BY JobIs
<1>2. y \in Nat /\ DOMAIN t = 1 .. Len(t) /\ Len(t) \in Nat /\ y <= Len(t) /\ y >= 1
    BY <1>1
<1>3. ap2 = NamesIn(b, r, y + 1)
  <2>1. Patches!Sites(d, a[y]) # {} /\ y \notin old <=> h > 0
    BY DEF Exhausted, Counted
  <2>2. y \in DOMAIN a /\ t[y] = a[y]
    BY <1>1
  <2>3. NamesUpTo(d, a, old, y + 1) =
           IF y \notin old /\ Patches!Sites(d, a[y]) # {}
           THEN NamesUpTo(d, a, old, y) \cup {a[y].name} ELSE NamesUpTo(d, a, old, y)
    <3> HIDE DEF d, a, old
    <3>. QED  BY <1>1, <2>2, NamesNext
  <2>. QED  BY <2>1, <2>2, <2>3 DEF NamesIn
<1>4. CASE y < Len(t)
  <2>1. y + 1 \in DOMAIN t /\ y + 1 \in DOMAIN a /\ t[y + 1] = a[y + 1]
    BY <1>1, <1>2, <1>4
  <2>2. a[y + 1].from \in Nat /\ a[y + 1] \in Patches!AnyPatch
    <3>1. a[y + 1] \in Patches!AnyPatch
        BY <1>1, <2>1 DEF Table
    <3>. QED  BY <3>1 DEF Patches!AnyPatch
  <2>3. /\ Settled(d, a[y + 1], a[y + 1].from)
        /\ \A o \in Chosen(d, a[y + 1]) : ~ o < a[y + 1].from
    BY <1>1, <2>2, SettledAtFirst
  <2>4. PassedIn(b, r, y, m) = PassedIn(b, r, y + 1, a[y + 1].from)
    BY <1>1, <2>2, OnToNext DEF PassedIn
  <2>5. Counted(b, r, y + 1, a[y + 1].from, 0)
    <3>1. Patches!Sites(d, a[y + 1]) \subseteq Chosen(d, a[y + 1])
        BY <1>1, <2>2, ChosenIs
    <3>. QED  BY <2>3, <3>1 DEF Counted
  <2>6. Buffers(b, r, y + 1, a[y + 1].from, f, E)
    BY <2>4 DEF Buffers
  <2>. QED  BY <1>3, <1>4, <2>1, <2>2, <2>3, <2>5, <2>6 DEF Searching
<1>5. CASE ~ y < Len(t)
  <2>1. y + 1 = EndOf(b, r)
    BY <1>2, <1>5 DEF EndOf
  <2>2. PassedIn(b, r, y, m) = PassedIn(b, r, y + 1, 0)
    <3>1. y + 1 \in DOMAIN a => 0 <= a[y + 1].from
      <4>1. y + 1 \in DOMAIN a => a[y + 1] \in Patches!AnyPatch
        BY <1>1 DEF Table
      <4>2. \A q \in Patches!AnyPatch : 0 <= q.from
        BY DEF Patches!AnyPatch
      <4>. QED  BY <4>1, <4>2
    <3>. QED  BY <1>1, <3>1, OnToNext DEF PassedIn
  <2>3. DOMAIN d = DOMAIN d /\ d = [z \in DOMAIN d |-> d[z]]
    BY <1>1
  <2>. QED  BY <1>1, <1>3, <1>5, <2>1, <2>2, <2>3 DEF Searched, Buffers
<1>. QED  BY <1>4, <1>5

-----------------------------------------------------------------------------
\* The search finds nothing, or its first find is one whose write does not fit.
LEMMA SearchMisses ==
    ASSUME NEW b \in Jobs, Claimed(b), NEW r \in DOMAIN b.rounds, NEW y, NEW n, NEW h, NEW ap,
           NEW f, NEW E, Searching(b, r, y, n, h, ap, f, E),
           LET q == b.rounds[r][y]
               M == Patches!Matches(f, q.find, n)
           IN M # {} => ~ Patches!Fits(f, Patches!First(M) + q.at, q.write)
    PROVE  Exhausted(b.image, AllOf(b), OldOf(b, r), y, n)
<1> DEFINE d == b.image
           a == AllOf(b)
           old == OldOf(b, r)
           q == a[y]
           M == Patches!Matches(f, q.find, n)
<1>1. /\ y \in DOMAIN a /\ b.rounds[r][y] = q /\ n \in Nat /\ Settled(d, q, n) /\ Table(d, a)
      /\ Len(f) = Len(d) /\ M = Found(d, a, old, y, n)
      /\ M # {} => ~ Patches!First(M) + q.at + Len(q.write) <= Len(d)
  <2>1. y \in DOMAIN b.rounds[r] /\ n \in Nat /\ Settled(d, q, n)
    BY DEF Searching
  <2>2. b.rounds[r][y] = q /\ y \in DOMAIN a /\ Table(d, a)
    BY <2>1, JobIs
  <2>3. Len(f) = Len(d) /\ M = Found(d, a, old, y, n)
    BY <2>2, SearchFinds
  <2>4. M # {} => ~ Patches!First(M) + q.at + Len(q.write) <= Len(d)
    BY <2>2, <2>3 DEF Patches!Fits
  <2>. QED  BY <2>1, <2>2, <2>3, <2>4
<1>2. CASE M = {}
    BY <1>1, <1>2, NothingFound
<1>3. CASE M # {}
  <2> DEFINE z == Patches!First(M)
  <2>1. ~ z + q.at + Len(q.write) <= Len(d)
    BY <1>1, <1>3
  <2>2. M \in SUBSET Nat
    <3> HIDE DEF M, d, a, old
    <3>. QED  BY <1>1, FoundIs
  <2>3. z \in M /\ \A o \in M : z <= o
    <3> HIDE DEF M
    <3>. QED  BY <1>3, <2>2, FirstIs
  <2> HIDE DEF z, M, d, old
  <2>4. z \in Found(d, a, old, y, n) /\ \A o \in Found(d, a, old, y, n) : z <= o
    BY <1>1, <2>3
  <2>5. y \in DOMAIN a /\ n \in Nat /\ Settled(d, a[y], n) /\ Table(d, a)
        /\ ~ z + a[y].at + Len(a[y].write) <= Len(d)
    BY <1>1, <2>1
  <2> HIDE DEF a
  <2>6. Exhausted(d, a, old, y, n)
    BY <2>4, <2>5, FoundUnfit
  <2>. QED  BY <2>6 DEF d, a, old
<1>. QED  BY <1>2, <1>3

\* It finds a site: that one is passed next, being written or noted.
LEMMA SearchHits ==
    ASSUME NEW b \in Jobs, Claimed(b), NEW r \in DOMAIN b.rounds, NEW y, NEW n, NEW h, NEW ap,
           NEW f, NEW E, Searching(b, r, y, n, h, ap, f, E),
           NEW q, q = b.rounds[r][y], NEW M, M = Patches!Matches(f, q.find, n), M # {},
           NEW z, z = Patches!First(M), NEW f2, NEW E2,
           b.kind = "fw" => /\ Patches!Fits(f, z + q.at, q.write)
                            /\ f2 = Patches!Overwrite(f, z + q.at, q.write),
           b.kind = "dol" => /\ f2 = f
                             /\ E2 = Append(E, [offset |-> z + q.at, bytes |-> q.write])
    PROVE  /\ z \in Nat
           /\ q.all => Searching(b, r, y, z + Len(q.find), h + 1, ap, f2, E2)
           /\ ~ q.all => /\ Exhausted(b.image, AllOf(b), OldOf(b, r), y, z + 1)
                         /\ Counted(b, r, y, z + 1, h + 1) /\ Buffers(b, r, y, z + 1, f2, E2)
<1> DEFINE d == b.image
           a == AllOf(b)
           old == OldOf(b, r)
           s == <<y, z>>
<1>1. /\ y \in DOMAIN a /\ y \in DOMAIN b.rounds[r] /\ q = a[y] /\ n \in Nat /\ Settled(d, q, n)
      /\ Table(d, a) /\ d \in Seq(Nat) /\ q \in Patches!AnyPatch /\ b.kind \in {"fw", "dol"}
      /\ Counted(b, r, y, n, h) /\ ap = NamesIn(b, r, y) /\ Buffers(b, r, y, n, f, E)
  <2>1. /\ y \in DOMAIN b.rounds[r] /\ n \in Nat /\ Settled(d, a[y], n)
        /\ Counted(b, r, y, n, h) /\ ap = NamesIn(b, r, y) /\ Buffers(b, r, y, n, f, E)
    BY DEF Searching
  <2>2. y \in DOMAIN a /\ q = a[y] /\ Table(d, a) /\ d \in Seq(Nat) /\ b.kind \in {"fw", "dol"}
    BY <2>1, JobIs
  <2>3. q \in Patches!AnyPatch
    BY <2>2 DEF Table
  <2>. QED  BY <2>1, <2>2, <2>3
<1>2. /\ Len(f) = Len(d) /\ M = Found(d, a, old, y, n)
      /\ y \in old => Repeatable(d, a)
    BY SearchFinds
<1>3. /\ q.at \in Int /\ q.find \in Seq(Nat) /\ q.write \in Seq(Nat) /\ Len(q.find) \in Nat \ {0}
      /\ Len(q.write) \in Nat /\ Len(d) \in Nat
    BY <1>1 DEF Patches!AnyPatch
<1>4. z \in M /\ z \in Nat /\ \A o \in M : z <= o
  <2>1. M \in SUBSET Nat
    BY <1>1, <1>2, FoundIs
  <2>. QED  BY <2>1, FirstIs
<1>5. z + q.at + Len(q.write) <= Len(d)
  <2>1. CASE b.kind = "fw"
    BY <1>2, <2>1 DEF Patches!Fits
  <2>2. CASE b.kind = "dol"
    <3>1. q.at + Len(q.write) <= Len(q.find)
        BY <1>1, <2>2, JobIs
    <3>2. z \in Occ(d, q)
        BY <1>1, <1>2, <1>4 DEF Found, Ahead
    <3>3. z \in q.from .. (Len(d) - Len(q.find))
      <4> HIDE DEF d
      <4>1. Occ(d, q) = {o \in q.from .. (Len(d) - Len(q.find)) :
                            \A x \in DOMAIN q.find : d[o + x] = q.find[x]}
        BY <1>1, OccIs
      <4>. QED  BY <3>2, <4>1
    <3> DEFINE lo == q.from
               l == Len(d)
               n1 == Len(q.find)
               n2 == Len(q.write)
               at == q.at
    <3>4. /\ lo \in Nat /\ l \in Nat /\ n1 \in Nat /\ n2 \in Nat /\ at \in Int
          /\ z \in lo .. (l - n1) /\ at + n2 <= n1
        BY <1>1, <1>3, <3>1, <3>3 DEF Patches!AnyPatch
    <3> HIDE DEF lo, l, n1, n2, at
    <3>5. z + at + n2 <= l
        BY <1>4, <3>4
    <3>. QED  BY <3>5 DEF l, n2, at
  <2>. QED  BY <1>1, <2>1, <2>2
<1> HIDE DEF d, a, old
<1>6. /\ y \notin old /\ z \in Patches!Sites(d, q) /\ z >= n
      /\ q.all => /\ Settled(d, q, z + Len(q.find))
                  /\ Passed(d, a, old, y, z + Len(q.find))
                       = Passed(d, a, old, y, n) \cup {s}
      /\ ~ q.all => /\ Exhausted(d, a, old, y, z + 1)
                    /\ Passed(d, a, old, y, z + 1) = Passed(d, a, old, y, n) \cup {s}
    BY <1>1, <1>2, <1>4, <1>5, FoundFit
<1>7. s \in Patches!SitesOf(d, a) /\ s[1] = y /\ s[2] = z /\ a[s[1]] = q
    BY <1>1, <1>6, SiteIs
<1>8. ASSUME NEW m \in Nat, m > z, Passed(d, a, old, y, m) = Passed(d, a, old, y, n) \cup {s}
      PROVE  Counted(b, r, y, m, h + 1) /\ Buffers(b, r, y, m, f2, E2)
  <2>1. Counted(b, r, y, m, h + 1)
    BY <1>1, <1>6, <1>8 DEF Counted, d, a, old
  <2>2. PassedIn(b, r, y, n) \in SUBSET Patches!SitesOf(d, a)
    BY DEF PassedIn, Passed, d, a, old
  <2>3. PassedIn(b, r, y, m) = PassedIn(b, r, y, n) \cup {s}
    BY <1>8 DEF PassedIn, d, a, old
  <2>4. CASE b.kind = "fw"
    <3>1. f = Mixed(d, a, PassedIn(b, r, y, n))
        BY <1>1, <2>4 DEF Buffers, d, a, old
    <3>2. f2 = Mixed(d, a, PassedIn(b, r, y, n) \cup {s})
      <4>1. Apart(d, a)
        BY <2>4, JobIs DEF d, a
      <4>. QED  BY <1>1, <1>7, <2>2, <2>4, <3>1, <4>1, MixedWrite
    <3>3. b.kind # "dol"
        BY <2>4
    <3>. QED  BY <2>1, <2>3, <3>2, <3>3 DEF Buffers, d, a, old
  <2>5. CASE b.kind = "dol"
    <3>1. f = d /\ E \in EditList /\ Listed(d, a, PassedIn(b, r, y, n), f, E)
        BY <1>1, <2>5 DEF Buffers, d, a, old
    <3>2. \A t \in PassedIn(b, r, y, n) : t[1] <= s[1]
      <4>1. old = {}
        <5>1. Len(b.rounds) = 1 /\ DOMAIN b.rounds = 1 .. Len(b.rounds)
            BY <2>5, JobIs
        <5>2. r = 1
            BY <5>1
        <5>. QED  BY <5>2, OldIs DEF old
      <4> SUFFICES ASSUME NEW t \in PassedIn(b, r, y, n) PROVE t[1] <= s[1]
        OBVIOUS
      <4>2. t[1] < y \/ t[1] = y
        BY <4>1, PassedIs DEF PassedIn, old
      <4>3. t[1] \in Nat /\ y \in Nat
        BY <1>1, <1>7, <2>2, SiteIs
      <4>. QED  BY <1>7, <4>2, <4>3
    <3>3. E2 \in EditList /\ Listed(d, a, PassedIn(b, r, y, n) \cup {s}, f2, E2)
      <4>1. z + q.at = s[2] + a[s[1]].at /\ q.write = a[s[1]].write
        BY <1>7
      <4> DEFINE at == z + q.at
      <4> HIDE DEF at
      <4>2. /\ E2 = Append(E, [offset |-> at, bytes |-> a[s[1]].write])
            /\ f2 = f /\ at = s[2] + a[s[1]].at
        BY <2>5, <4>1 DEF at
      <4> HIDE DEF s
      <4>. QED  BY <1>1, <1>7, <2>2, <3>1, <3>2, <4>2, ListedMore
    <3>4. b.kind # "fw"
        BY <2>5
    <3>. QED  BY <2>1, <2>3, <2>5, <3>1, <3>3, <3>4 DEF Buffers, d, a, old
  <2>. QED  BY <1>1, <2>4, <2>5
<1>9. q.all => Searching(b, r, y, z + Len(q.find), h + 1, ap, f2, E2)
  <2> DEFINE m == z + Len(q.find)
  <2>1. m \in Nat /\ m > z
    BY <1>3, <1>4
  <2> HIDE DEF m
  <2>2. q.all => /\ Settled(d, q, m)
                 /\ Passed(d, a, old, y, m) = Passed(d, a, old, y, n) \cup {s}
    BY <1>6 DEF m
  <2>3. q.all => Searching(b, r, y, m, h + 1, ap, f2, E2)
    BY <1>1, <1>8, <2>1, <2>2 DEF Searching, d, a
  <2>. QED  BY <2>3 DEF m
<1>10. ~ q.all => /\ Exhausted(d, a, old, y, z + 1)
                  /\ Counted(b, r, y, z + 1, h + 1) /\ Buffers(b, r, y, z + 1, f2, E2)
  <2>1. z + 1 \in Nat /\ z + 1 > z
    BY <1>4
  <2>. QED  BY <1>6, <1>8, <2>1
<1>. QED  BY <1>4, <1>9, <1>10 DEF d, a, old

\* What the run warns of are the groups that have no site in the image.
LEMMA WarnsOfMissing ==
    ASSUME NEW b \in Jobs, NEW ap, 1 \in DOMAIN b.rounds, ap = NamesIn(b, 1, EndOf(b, 1))
    PROVE  LET ps == b.rounds[1] IN
           Patches!UnmatchedGroups(ps, ap)
              = {ps[x].group : x \in {y \in DOMAIN ps : \A z \in DOMAIN ps :
                    ps[z].group = ps[y].group => Patches!Sites(b.image, ps[z]) = {}}}
<1> DEFINE ps == b.rounds[1]
           a == AllOf(b)
<1>1. /\ \A y \in DOMAIN ps : y \in DOMAIN a /\ ps[y] = a[y] /\ y < EndOf(b, 1)
      /\ \A y, z \in DOMAIN a : a[y].name = a[z].name => y = z
  <2>1. ps \in Seq(Patches!AnyPatch) /\ \A y \in DOMAIN ps : y \in DOMAIN a /\ ps[y] = a[y]
    BY JobIs
  <2>2. \A y \in DOMAIN ps : y < EndOf(b, 1)
    BY <2>1 DEF EndOf
  <2>3. \A y, z \in DOMAIN a : a[y].name = a[z].name => y = z
    BY JobIs
  <2>. QED  BY <2>1, <2>2, <2>3
<1>2. OldOf(b, 1) = {}
    BY OldIs
<1>3. \A z \in DOMAIN ps : ps[z].name \in ap <=> Patches!Sites(b.image, ps[z]) # {}
  <2> SUFFICES ASSUME NEW z \in DOMAIN ps
               PROVE  ps[z].name \in ap <=> Patches!Sites(b.image, ps[z]) # {}
    OBVIOUS
  <2>1. z \in DOMAIN a /\ ps[z] = a[z] /\ z < EndOf(b, 1)
    BY <1>1
  <2>2. ASSUME Patches!Sites(b.image, ps[z]) # {} PROVE ps[z].name \in ap
    BY <1>2, <2>1, <2>2 DEF NamesIn, NamesUpTo
  <2>3. ASSUME ps[z].name \in ap PROVE Patches!Sites(b.image, ps[z]) # {}
    <3>1. PICK w \in DOMAIN a : a[w].name = ps[z].name /\ Patches!Sites(b.image, a[w]) # {}
        BY <2>3 DEF NamesIn, NamesUpTo
    <3>2. w = z
        BY <1>1, <2>1, <3>1
    <3>. QED  BY <2>1, <3>1, <3>2
  <2>. QED  BY <2>2, <2>3
<1> DEFINE G(z) == ps[z].group
           N(z) == ps[z].name \in ap
           S(z) == Patches!Sites(b.image, ps[z]) = {}
<1>4. \A z \in DOMAIN ps : N(z) <=> ~ S(z)
    BY <1>3
<1>5. Patches!UnmatchedGroups(ps, ap)
        = {G(x) : x \in {y \in DOMAIN ps : ~ \E z \in DOMAIN ps : G(z) = G(y) /\ N(z)}}
    BY DEF Patches!UnmatchedGroups
<1> HIDE DEF N, S, G
<1>6. {y \in DOMAIN ps : ~ \E z \in DOMAIN ps : G(z) = G(y) /\ N(z)}
        = {y \in DOMAIN ps : \A z \in DOMAIN ps : G(z) = G(y) => S(z)}
    BY <1>4
<1>7. Patches!UnmatchedGroups(ps, ap)
        = {G(x) : x \in {y \in DOMAIN ps : \A z \in DOMAIN ps : G(z) = G(y) => S(z)}}
    BY <1>5, <1>6
<1>. QED  BY <1>7 DEF G, S

-----------------------------------------------------------------------------
(***************************************************************************)
(* The invariant, for an image that SitesArePatched is claimed of: where   *)
(* the search is, the sites before are written and no other, or listed;    *)
(* the file is the buffer of an earlier run until this one is written.     *)
(***************************************************************************)
FileHas(b, r, y) == Mixed(b.image, AllOf(b), PassedIn(b, r, y, 0))

PatchInv ==
    /\ round \in DOMAIN job.rounds
    /\ pc \in {"read", "search", "splice", "write", "warn", "done", "error"}
    /\ pc \in {"read", "search", "splice", "write"} => file = FileHas(job, round, 1)
    /\ pc = "read" /\ job.kind = "dol" => edits = <<>>
    /\ pc = "search" => Searching(job, round, k, i, hits, applied, data, edits)
    /\ pc \in {"splice", "write"} => Searched(job, round, pc, applied, data, edits)
    /\ pc = "warn" => /\ applied = NamesIn(job, round, EndOf(job, round))
                      /\ file = FileHas(job, round, EndOf(job, round))
    /\ pc = "done" => file = Patches!Replaced(job.image, AllOf(job))
    /\ warned \in Seq(SUBSET STRING) /\ (warned = <<>> => round = 1)
    /\ warned # <<>> => warned[1] = Patches!Missing(job.rounds[1])

LEMMA InitPatch ==
    ASSUME Patches!Init, Claimed(job)
    PROVE  PatchInv
<1>1. /\ job \in Jobs /\ file = job.image /\ pc = "read" /\ round = 1 /\ edits = <<>>
      /\ warned = <<>>
    BY DEF Patches!Init
<1>2. 1 \in DOMAIN job.rounds /\ Table(job.image, AllOf(job))
  <2>1. DOMAIN job.rounds = 1 .. Len(job.rounds) /\ Len(job.rounds) \in Nat \ {0}
        /\ Table(job.image, AllOf(job))
    BY <1>1, JobIs
  <2>. QED  BY <2>1
<1>3. FileHas(job, 1, 1) = job.image
  <2>1. PassedIn(job, 1, 1, 0)
          = {s \in Patches!SitesOf(job.image, AllOf(job)) : s[1] \in OldOf(job, 1)}
    BY <1>2, NoNames DEF PassedIn
  <2>2. OldOf(job, 1) = {}
    BY <1>1, <1>2, OldIs
  <2>3. PassedIn(job, 1, 1, 0) = {}
    BY <2>1, <2>2
  <2>4. Mixed(job.image, AllOf(job), {}) = job.image
    BY <1>2, ReplacedSeq
  <2>. QED  BY <2>3, <2>4 DEF FileHas
<1>. QED  BY <1>1, <1>2, <1>3 DEF PatchInv

\* A step from the search on.
LEMMA SamePatch ==
    ASSUME PatchInv, UNCHANGED <<job, round, warned>>,
           pc' \in {"search", "splice", "write", "warn", "error"},
           pc' \in {"search", "splice", "write"} => file' = FileHas(job, round, 1),
           pc' = "search" => Searching(job, round, k', i', hits', applied', data', edits'),
           pc' \in {"splice", "write"} => Searched(job, round, pc', applied', data', edits'),
           pc' = "warn" => /\ applied' = NamesIn(job, round, EndOf(job, round))
                           /\ file' = FileHas(job, round, EndOf(job, round))
    PROVE  PatchInv'
BY DEF PatchInv, Patches!Missing

LEMMA NextPatchKeeps ==
    ASSUME job \in Jobs, Claimed(job), PatchInv, UNCHANGED <<job, round, file, warned>>,
           pc = "search", NEW m \in Nat,
           Exhausted(job.image, AllOf(job), OldOf(job, round), k, m),
           NEW h, Counted(job, round, k, m, h), Buffers(job, round, k, m, data', edits'),
           Patches!NextPatch(h)
    PROVE  PatchInv'
<1>1. /\ round \in DOMAIN job.rounds /\ file = FileHas(job, round, 1)
      /\ Searching(job, round, k, i, hits, applied, data, edits)
    BY DEF PatchInv
<1>2. k \in DOMAIN job.rounds[round] /\ i \in Nat /\ applied = NamesIn(job, round, k)
    BY <1>1 DEF Searching
<1>3. /\ applied' = IF h > 0 THEN applied \cup {job.rounds[round][k].name} ELSE applied
      /\ hits' = 0
      /\ IF k < Len(job.rounds[round])
         THEN k' = k + 1 /\ i' = job.rounds[round][k + 1].from /\ pc' = "search"
         ELSE k' = k /\ i' = i /\ pc' = IF job.kind = "dol" THEN "splice" ELSE "write"
    BY DEF Patches!NextPatch, Patches!patches, Patches!p
<1>4. /\ k < Len(job.rounds[round]) =>
           Searching(job, round, k + 1, job.rounds[round][k + 1].from, 0, applied', data', edits')
      /\ ~ k < Len(job.rounds[round]) =>
           Searched(job, round, IF job.kind = "dol" THEN "splice" ELSE "write",
                    applied', data', edits')
    BY <1>1, <1>2, <1>3, OnToNextPatch
<1>5. CASE k < Len(job.rounds[round])
    BY <1>1, <1>3, <1>4, <1>5, SamePatch
<1>6. CASE ~ k < Len(job.rounds[round])
  <2>1. pc' \in {"splice", "write"} /\ pc' = IF job.kind = "dol" THEN "splice" ELSE "write"
    BY <1>3, <1>6
  <2>2. Searched(job, round, pc', applied', data', edits')
    BY <1>4, <1>6, <2>1
  <2>. QED  BY <1>1, <2>1, <2>2, SamePatch
<1>. QED  BY <1>5, <1>6

\* The file is written, or, nothing having matched, it is left as it is.
LEMMA WritesBack ==
    ASSUME job \in Jobs, Claimed(job), PatchInv, Patches!WriteBack
    PROVE  PatchInv'
<1>1. /\ pc = "write" /\ pc' = "warn" /\ file' = IF applied = {} THEN file ELSE data
      /\ UNCHANGED <<job, round, data, k, i, hits, applied, edits, warned>>
    BY DEF Patches!WriteBack
<1>2. /\ round \in DOMAIN job.rounds /\ file = FileHas(job, round, 1)
      /\ applied = NamesIn(job, round, EndOf(job, round))
      /\ data = FileHas(job, round, EndOf(job, round))
    BY <1>1 DEF PatchInv, Searched, FileHas
<1>3. applied = {} => FileHas(job, round, 1) = FileHas(job, round, EndOf(job, round))
  <2> DEFINE n == Len(job.rounds[round])
  <2>1. Table(job.image, AllOf(job)) /\ n \in Nat
    BY <1>2, JobIs
  <2>2. EndOf(job, round) = n + 1
    BY DEF EndOf
  <2> HIDE DEF n
  <2>. QED  BY <1>2, <2>1, <2>2, NoNames DEF FileHas, NamesIn, PassedIn
<1>. QED  BY <1>1, <1>2, <1>3, SamePatch

LEMMA PatchNext ==
    ASSUME job \in Jobs, Claimed(job), PatchInv, Patches!Next
    PROVE  PatchInv'
<1> DEFINE ps == job.rounds[round]
           q == ps[k]
           M == Patches!Matches(data, q.find, i)
           z == Patches!First(M)
<1>1. round \in DOMAIN job.rounds /\ ps = Patches!patches /\ q = Patches!p
    BY DEF PatchInv, Patches!patches, Patches!p
<1>2. ASSUME pc = "search"
      PROVE  /\ Searching(job, round, k, i, hits, applied, data, edits)
             /\ i \in Nat /\ Counted(job, round, k, i, hits)
             /\ Buffers(job, round, k, i, data, edits)
             /\ file = FileHas(job, round, 1)
    BY <1>2 DEF PatchInv, Searching
<1>3. CASE Patches!ReadImage
  <2>1. /\ pc = "read" /\ pc' = "search" /\ data' = file /\ k' = 1 /\ i' = ps[1].from
        /\ hits' = 0 /\ applied' = {} /\ UNCHANGED <<job, round, file, edits, warned>>
    BY <1>1, <1>3 DEF Patches!ReadImage
  <2>2. file = FileHas(job, round, 1) /\ (job.kind = "dol" => edits = <<>>)
    BY <2>1 DEF PatchInv
  <2> DEFINE d == job.image
             a == AllOf(job)
  <2>3. /\ Table(d, a) /\ d \in Seq(Nat) /\ Len(ps) \in Nat \ {0} /\ ps \in Seq(Patches!AnyPatch)
        /\ \A y \in DOMAIN ps : y \in DOMAIN a /\ ps[y] = a[y]
    BY <1>1, JobIs
  <2>4. 1 \in DOMAIN ps /\ 1 \in DOMAIN a /\ ps[1] = a[1] /\ a[1] \in Patches!AnyPatch
        /\ a[1].from \in Nat
    <3>1. 1 \in DOMAIN ps
        BY <2>3
    <3>2. 1 \in DOMAIN a /\ ps[1] = a[1] /\ a[1] \in Patches!AnyPatch
        BY <2>3, <3>1 DEF Table
    <3>. QED  BY <3>1, <3>2 DEF Patches!AnyPatch
  <2>5. /\ Settled(d, a[1], a[1].from)
        /\ \A o \in Chosen(d, a[1]) : ~ o < a[1].from
    BY <2>3, <2>4, SettledAtFirst
  <2>6. \A o \in Patches!Sites(d, a[1]) : ~ o < a[1].from
    BY <2>3, <2>4, <2>5, ChosenIs
  <2>7. PassedIn(job, round, 1, a[1].from) = PassedIn(job, round, 1, 0)
    <3>1. ASSUME NEW s
          PROVE  s \in PassedIn(job, round, 1, a[1].from) <=> s \in PassedIn(job, round, 1, 0)
      <4>1. s \in PassedIn(job, round, 1, a[1].from) <=>
              s \in Patches!SitesOf(d, a)
              /\ (s[1] \in OldOf(job, round) \/ s[1] < 1 \/ (s[1] = 1 /\ s[2] < a[1].from))
        BY PassedIs, Zenon DEF PassedIn
      <4>2. s \in PassedIn(job, round, 1, 0) <=>
              s \in Patches!SitesOf(d, a)
              /\ (s[1] \in OldOf(job, round) \/ s[1] < 1 \/ (s[1] = 1 /\ s[2] < 0))
        BY PassedIs, Zenon DEF PassedIn
      <4>3. s \in Patches!SitesOf(d, a) /\ s[1] = 1 => ~ s[2] < a[1].from /\ ~ s[2] < 0
        <5> SUFFICES ASSUME s \in Patches!SitesOf(d, a), s[1] = 1
                     PROVE  ~ s[2] < a[1].from /\ ~ s[2] < 0
            OBVIOUS
        <5>1. s[2] \in Nat /\ s[2] \in Patches!Sites(d, a[s[1]])
            BY <2>3, SiteIs
        <5>2. s[2] \in Patches!Sites(d, a[1])
            BY <5>1
        <5>3. ~ s[2] < a[1].from
            BY <2>6, <5>2
        <5>. QED  BY <5>1, <5>3
      <4>. QED  BY <4>1, <4>2, <4>3, Zenon
    <3>. QED  BY <3>1
  <2>8. Buffers(job, round, 1, a[1].from, file, edits)
    <3>1. job.kind = "dol" => OldOf(job, round) = {}
      <4> SUFFICES ASSUME job.kind = "dol" PROVE OldOf(job, round) = {}
        OBVIOUS
      <4>1. Len(job.rounds) = 1 /\ DOMAIN job.rounds = 1 .. Len(job.rounds)
        BY JobIs
      <4>. QED  BY <1>1, <4>1, OldIs
    <3>2. PassedIn(job, round, 1, 0)
            = {s \in Patches!SitesOf(d, a) : s[1] \in OldOf(job, round)}
        BY <2>3, NoNames DEF PassedIn
    <3>3. job.kind = "dol" => PassedIn(job, round, 1, 0) = {}
        BY <3>1, <3>2
    <3>4. Mixed(d, a, {}) = d
        BY <2>3, ReplacedSeq
    <3>5. <<>> \in EditList /\ Listed(d, a, {}, d, <<>>)
        BY NothingListed DEF EditList
    <3>. QED  BY <2>2, <2>7, <3>3, <3>4, <3>5 DEF Buffers, FileHas
  <2>9. Searching(job, round, 1, a[1].from, 0, {}, file, edits)
    <3>1. Counted(job, round, 1, a[1].from, 0)
        BY <2>6 DEF Counted
    <3>2. NamesIn(job, round, 1) = {}
        BY <2>3, NoNames DEF NamesIn
    <3>. QED  BY <2>4, <2>5, <2>8, <3>1, <3>2 DEF Searching
  <2>. QED  BY <2>1, <2>2, <2>4, <2>9, SamePatch
<1>4. CASE Patches!PatchMatch
  <2>1. /\ pc = "search" /\ job.kind = "fw" /\ M # {} /\ Patches!Fits(data, z + q.at, q.write)
        /\ data' = Patches!Overwrite(data, z + q.at, q.write) /\ Patches!AfterHit(z)
        /\ UNCHANGED <<job, round, file, edits, warned>>
    BY <1>1, <1>4 DEF Patches!PatchMatch
  <2>2. /\ z \in Nat
        /\ q.all => Searching(job, round, k, z + Len(q.find), hits + 1, applied, data', edits')
        /\ ~ q.all => /\ Exhausted(job.image, AllOf(job), OldOf(job, round), k, z + 1)
                      /\ Counted(job, round, k, z + 1, hits + 1)
                      /\ Buffers(job, round, k, z + 1, data', edits')
    <3>1. job.kind # "dol"
        BY <2>1
    <3> HIDE DEF ps, q, M, z
    <3>2. q = job.rounds[round][k] /\ M = Patches!Matches(data, q.find, i) /\ z = Patches!First(M)
        BY DEF ps, q, M, z
    <3>. QED  BY <1>1, <1>2, <2>1, <3>1, <3>2, SearchHits
  <2>3. CASE q.all
    <3>1. hits' = hits + 1 /\ i' = z + Len(q.find) /\ UNCHANGED <<k, applied, pc>>
        BY <1>1, <2>1, <2>3 DEF Patches!AfterHit
    <3>. QED  BY <1>2, <2>1, <2>2, <2>3, <3>1, SamePatch
  <2>4. CASE ~ q.all
    <3>1. Patches!NextPatch(hits + 1)
        BY <1>1, <2>1, <2>4 DEF Patches!AfterHit
    <3>2. z + 1 \in Nat
        BY <2>2
    <3>. QED  BY <2>1, <2>2, <2>4, <3>1, <3>2, NextPatchKeeps
  <2>. QED  BY <2>3, <2>4
<1>5. CASE Patches!NoteEdit
  <2>1. /\ pc = "search" /\ job.kind = "dol" /\ M # {} /\ data' = data
        /\ edits' = Append(edits, [offset |-> z + q.at, bytes |-> q.write])
        /\ Patches!AfterHit(z) /\ UNCHANGED <<job, round, file, warned>>
    BY <1>1, <1>5 DEF Patches!NoteEdit
  <2>2. /\ z \in Nat
        /\ q.all => Searching(job, round, k, z + Len(q.find), hits + 1, applied, data', edits')
        /\ ~ q.all => /\ Exhausted(job.image, AllOf(job), OldOf(job, round), k, z + 1)
                      /\ Counted(job, round, k, z + 1, hits + 1)
                      /\ Buffers(job, round, k, z + 1, data', edits')
    <3>1. job.kind # "fw"
        BY <2>1
    <3> HIDE DEF ps, q, M, z
    <3>2. q = job.rounds[round][k] /\ M = Patches!Matches(data, q.find, i) /\ z = Patches!First(M)
        BY DEF ps, q, M, z
    <3>. QED  BY <1>1, <1>2, <2>1, <3>1, <3>2, SearchHits
  <2>3. CASE q.all
    <3>1. hits' = hits + 1 /\ i' = z + Len(q.find) /\ UNCHANGED <<k, applied, pc>>
        BY <1>1, <2>1, <2>3 DEF Patches!AfterHit
    <3>. QED  BY <1>2, <2>1, <2>2, <2>3, <3>1, SamePatch
  <2>4. CASE ~ q.all
    <3>1. Patches!NextPatch(hits + 1)
        BY <1>1, <2>1, <2>4 DEF Patches!AfterHit
    <3>2. z + 1 \in Nat
        BY <2>2
    <3>. QED  BY <2>1, <2>2, <2>4, <3>1, <3>2, NextPatchKeeps
  <2>. QED  BY <2>3, <2>4
<1>6. CASE Patches!RefuseMatch \/ Patches!NoMatch
  <2>1. /\ pc = "search" /\ Patches!NextPatch(hits)
        /\ M # {} => ~ Patches!Fits(data, z + q.at, q.write)
        /\ UNCHANGED <<job, round, file, data, edits, warned>>
    BY <1>1, <1>6 DEF Patches!RefuseMatch, Patches!NoMatch
  <2>2. Exhausted(job.image, AllOf(job), OldOf(job, round), k, i)
    BY <1>1, <1>2, <2>1, SearchMisses
  <2>3. Buffers(job, round, k, i, data', edits')
    BY <1>2, <2>1
  <2>. QED  BY <1>2, <2>1, <2>2, <2>3, NextPatchKeeps
<1>7. CASE Patches!SpliceEdit
  <2>1. pc = "splice" /\ UNCHANGED <<job, round, file, k, i, hits, applied, warned>>
    BY <1>7 DEF Patches!SpliceEdit
  <2>2. /\ Searched(job, round, "splice", applied, data, edits) /\ file = FileHas(job, round, 1)
        /\ applied = NamesIn(job, round, EndOf(job, round))
        /\ job.kind = "dol" /\ edits \in EditList
        /\ DOMAIN data = DOMAIN job.image /\ data = [x \in DOMAIN job.image |-> data[x]]
        /\ Listed(job.image, AllOf(job), PassedIn(job, round, EndOf(job, round), 0), data, edits)
    BY <2>1 DEF PatchInv, Searched
  <2>3. CASE edits = <<>>
    <3>1. pc' = "write" /\ data' = data /\ edits' = edits
        BY <1>7, <2>3 DEF Patches!SpliceEdit
    <3>2. PassedIn(job, round, EndOf(job, round), 0) = Patches!SitesOf(job.image, AllOf(job))
      <4>1. Len(job.rounds) = 1 /\ DOMAIN job.rounds = 1 .. Len(job.rounds)
        BY <2>2, JobIs
      <4>2. round = Len(job.rounds)
        BY <1>1, <4>1
      <4>. QED  BY <1>1, <4>2, OldIs
    <3>3. data = FileHas(job, round, EndOf(job, round))
      <4>1. /\ Table(job.image, AllOf(job))
            /\ \A y \in DOMAIN AllOf(job) : Len(AllOf(job)[y].write) <= Len(AllOf(job)[y].find)
        BY <2>2, JobIs
      <4>. QED  BY <2>2, <2>3, <3>2, <4>1, ListedEnd DEF FileHas
    <3>4. Searched(job, round, "write", applied, data', edits')
        BY <2>2, <3>1, <3>3 DEF Searched, FileHas
    <3>. QED  BY <2>1, <2>2, <3>1, <3>4, SamePatch
  <2>4. CASE edits # <<>>
    <3>1. /\ pc' = pc /\ data' = Patches!Overwrite(data, Head(edits).offset, Head(edits).bytes)
          /\ edits' = Tail(edits)
        BY <1>7, <2>4 DEF Patches!SpliceEdit
    <3>2. /\ DOMAIN data' = DOMAIN job.image /\ data' = [x \in DOMAIN job.image |-> data'[x]]
          /\ edits' \in EditList
          /\ Listed(job.image, AllOf(job), PassedIn(job, round, EndOf(job, round), 0),
                    data', edits')
        BY <2>2, <2>4, <3>1, ListedLess
    <3>3. Searched(job, round, "splice", applied, data', edits')
        BY <2>2, <3>2 DEF Searched
    <3>. QED  BY <2>1, <2>2, <3>1, <3>3, SamePatch
  <2>. QED  BY <2>3, <2>4
<1>8. CASE Patches!WriteBack
    BY <1>8, WritesBack
<1>9. CASE Patches!WriteFails
  <2>1. pc' = "error" /\ UNCHANGED <<job, round, warned>>
    BY <1>9 DEF Patches!WriteFails
  <2>. QED  BY <2>1, SamePatch
<1>10. CASE Patches!Warn
  <2>1. /\ pc = "warn" /\ warned' = Append(warned, Patches!UnmatchedGroups(ps, applied))
        /\ IF round < Len(job.rounds) THEN pc' = "read" /\ round' = round + 1
                                      ELSE pc' = "done" /\ UNCHANGED round
        /\ UNCHANGED <<job, file, data, k, i, hits, applied, edits>>
    BY <1>1, <1>10 DEF Patches!Warn
  <2>2. /\ applied = NamesIn(job, round, EndOf(job, round))
        /\ file = FileHas(job, round, EndOf(job, round))
        /\ warned \in Seq(SUBSET STRING) /\ (warned = <<>> => round = 1)
        /\ warned # <<>> => warned[1] = Patches!Missing(job.rounds[1])
    BY <2>1 DEF PatchInv
  <2>3. DOMAIN job.rounds = 1 .. Len(job.rounds) /\ Len(job.rounds) \in Nat \ {0}
        /\ Table(job.image, AllOf(job))
    BY JobIs
  <2>4. Patches!UnmatchedGroups(ps, applied) \in SUBSET STRING
    <3>1. \A x \in DOMAIN ps : ps[x] \in Patches!AnyPatch
      <4>1. ps \in Seq(Patches!AnyPatch)
        BY <1>1, JobIs
      <4>. QED  BY <4>1
    <3>2. \A x \in DOMAIN ps : ps[x].group \in STRING
        BY <3>1 DEF Patches!AnyPatch
    <3>. QED  BY <3>2 DEF Patches!UnmatchedGroups
  <2>5. /\ warned' \in Seq(SUBSET STRING) /\ warned' # <<>>
        /\ warned # <<>> => warned'[1] = warned[1]
        /\ warned = <<>> => warned'[1] = Patches!UnmatchedGroups(ps, applied)
    BY <2>1, <2>2, <2>4
  <2>6. warned'[1] = Patches!Missing(job.rounds[1])
    <3>1. CASE warned # <<>>
        BY <2>2, <2>5, <3>1
    <3>2. CASE warned = <<>>
      <4>1. round = 1
        BY <2>2, <3>2
      <4>2. Patches!UnmatchedGroups(job.rounds[1], applied) = Patches!Missing(job.rounds[1])
        BY <1>1, <2>2, <4>1, WarnsOfMissing DEF Patches!Missing
      <4>. QED  BY <2>5, <3>2, <4>1, <4>2
    <3>. QED  BY <3>1, <3>2
  <2>7. Patches!Missing(job.rounds[1])' = Patches!Missing(job.rounds[1])
    BY <2>1 DEF Patches!Missing
  <2>8. CASE round < Len(job.rounds)
    <3>1. pc' = "read" /\ round' = round + 1 /\ round + 1 \in DOMAIN job.rounds
        BY <1>1, <2>1, <2>3, <2>8
    <3>2. file = FileHas(job, round + 1, 1)
        BY <1>1, <2>2, <3>1, OldIs DEF FileHas
    <3>3. job.kind # "dol"
      <4>1. job.kind = "dol" => Len(job.rounds) = 1
        BY JobIs
      <4>2. round \in 1 .. Len(job.rounds)
        BY <1>1, <2>3
      <4>3. \A x \in 1 .. 1 : ~ x < 1
        OBVIOUS
      <4>. QED  BY <2>8, <4>1, <4>2, <4>3, Zenon
    <3>. QED  BY <2>1, <2>5, <2>6, <2>7, <3>1, <3>2, <3>3 DEF PatchInv
  <2>9. CASE ~ round < Len(job.rounds)
    <3>1. pc' = "done" /\ round' = round /\ round = Len(job.rounds)
        BY <1>1, <2>1, <2>3, <2>9
    <3>2. file = Patches!Replaced(job.image, AllOf(job))
      <4>1. PassedIn(job, round, EndOf(job, round), 0) = Patches!SitesOf(job.image, AllOf(job))
        BY <1>1, <3>1, OldIs
      <4>. QED  BY <2>2, <2>3, <4>1, ReplacedSeq DEF FileHas
    <3>. QED  BY <1>1, <2>1, <2>5, <2>6, <2>7, <3>1, <3>2 DEF PatchInv
  <2>. QED  BY <2>8, <2>9
<1>. QED  BY <1>3, <1>4, <1>5, <1>6, <1>7, <1>8, <1>9, <1>10 DEF Patches!Next

LEMMA PatchStands ==
    ASSUME job \in Jobs, Claimed(job), PatchInv
    PROVE  Patches!PatchesTheOriginalSites
<1>1. round = 1 /\ pc \in {"read", "search"} => file = job.image
  <2> SUFFICES ASSUME round = 1, pc \in {"read", "search"} PROVE file = job.image
    OBVIOUS
  <2>1. file = FileHas(job, 1, 1) /\ 1 \in DOMAIN job.rounds /\ Table(job.image, AllOf(job))
    BY JobIs DEF PatchInv
  <2>2. PassedIn(job, 1, 1, 0)
          = {s \in Patches!SitesOf(job.image, AllOf(job)) : s[1] \in OldOf(job, 1)}
    BY <2>1, NoNames DEF PassedIn
  <2>3. PassedIn(job, 1, 1, 0) = {}
    BY <2>1, <2>2, OldIs
  <2>. QED  BY <2>1, <2>3, ReplacedSeq DEF FileHas
<1>. QED  BY <1>1 DEF PatchInv, Patches!PatchesTheOriginalSites, AllOf

-----------------------------------------------------------------------------
(***************************************************************************)
(* The invariant of the whole: of the disc, of the call, of meta.xml or of *)
(* the patched file, while it is made.                                     *)
(***************************************************************************)
IInv == /\ making = "disc" => DiscInv
        /\ making = "call" => CallInv
        /\ making = "meta" => MetaInv
        /\ making = "patch" => job \in Jobs /\ (Claimed(job) => PatchInv)

LEMMA NextIInv == IInv /\ [FilesNext]_allVars => IInv'
<1> SUFFICES ASSUME IInv, [FilesNext]_allVars PROVE IInv'
    OBVIOUS
<1>1. CASE DiscStep
    BY <1>1, DiscNext DEF DiscStep, IInv
<1>2. CASE CallStep
    BY <1>2, CallNext DEF CallStep, IInv
<1>3. CASE PatchStep
  <2>1. making = "patch" /\ making' = making /\ Patches!Next /\ job \in Jobs
    BY <1>3 DEF PatchStep, IInv
  <2>2. job' = job
    BY <2>1 DEF Patches!Next, Patches!ReadImage, Patches!PatchMatch, Patches!RefuseMatch,
                Patches!NoteEdit, Patches!NoMatch, Patches!SpliceEdit, Patches!WriteBack,
                Patches!WriteFails, Patches!Warn
  <2>3. Claimed(job)' <=> Claimed(job)
    BY <2>2 DEF Claimed, Patches!StandApart
  <2>4. Claimed(job) => PatchInv'
    BY <2>1, PatchNext DEF IInv
  <2>. QED  BY <2>1, <2>2, <2>3, <2>4 DEF IInv
<1>5. CASE MetaStep
    BY <1>5, MetaNext DEF MetaStep, IInv
<1>4. CASE UNCHANGED allVars
  <2>1. /\ UNCHANGED <<making, cli, disc, pc, warned, net, config, nincfg>>
        /\ UNCHANGED <<in, sys, g, data, h3, headers, result, pc>>
    BY <1>4 DEF allVars, vars, ownCall
  <2>2. CASE making = "call"
    BY <2>1, <2>2, SameCall
         DEF IInv, CallInv, ChecksPassed, NetChecked, Configured, NincfgWritten
  <2>3. CASE making = "disc"
    BY <2>1, <2>3, DiscSame DEF IInv
  <2>4. CASE making = "meta"
    <3>1. UNCHANGED <<req, doc, pos, out, app, pc>>
        BY <1>4 DEF allVars, vars, ownMeta
    <3>. QED  BY <2>1, <2>4, <3>1, SameMeta DEF IInv, MetaInv
  <2>5. CASE making = "patch"
    <3>1. UNCHANGED <<job, round, file, data, k, i, hits, applied, edits, warned, pc>>
        BY <1>4 DEF allVars, vars, ownPatch
    <3>2. Claimed(job)' <=> Claimed(job)
        BY <3>1 DEF Claimed, Patches!StandApart
    <3>3. job \in Jobs /\ (Claimed(job) => PatchInv)
        BY <2>5 DEF IInv
    <3>4. PatchInv => PatchInv'
        BY <3>1 DEF PatchInv, Patches!Missing
    <3>. QED  BY <2>1, <2>5, <3>1, <3>2, <3>3, <3>4 DEF IInv
  <2>6. CASE making \notin {"call", "disc", "meta", "patch"}
    BY <2>1, <2>6 DEF IInv
  <2>. QED  BY <2>2, <2>3, <2>4, <2>5, <2>6
<1>. QED  BY <1>1, <1>2, <1>3, <1>4, <1>5 DEF FilesNext

THEOREM Invariance == FilesSpec => []IInv
<1>1. FilesInit => IInv
  <2>1. Patches!Init => job \in Jobs
    BY DEF Patches!Init
  <2>. QED  BY <2>1, InitCall, InitDisc, InitMeta, InitPatch
              DEF FilesInit, MakeDisc, MakePatch, MakeCall, MakeMeta, IInv
<1>. QED  BY <1>1, NextIInv, PTL DEF FilesSpec

\* author_gc_disc of wii_author.rs: whatever objects it is given, a disc that it returns can be
\* followed from its header to the last byte of the image, each digest of the hash tree is of the
\* group as it stands in the file, and what the caller is told agrees with what the disc says.
THEOREM Readable == FilesSpec => []DiscIsReadable
<1>1. IInv => DiscIsReadable
    BY DiscReads DEF IInv, DiscIsReadable
<1>. QED  BY <1>1, Invariance, PTL

\* The checks of author_gc_disc before the file is opened leave no field too small: what is refused
\* is an image or certificates over a limit of the format, and nothing else.
THEOREM Refused == FilesSpec => []DiscIsRefusedOverLimit
<1>1. IInv => DiscIsRefusedOverLimit
    BY DiscRefused DEF IInv, DiscIsRefusedOverLimit
<1>. QED  BY <1>1, Invariance, PTL

\* run of cli/src/main.rs: nothing is fetched for a call whose work directory, key, certificates or
\* base are bad, whatever else was typed, and with --offline nothing but a base asked for by its id.
THEOREM NetworkLast == FilesSpec => []NetworkIsLast
<1>1. IInv => NetworkIsLast
    BY DEF IInv, CallInv, NetChecked, NetworkIsLast, Command!NetworkComesLast, Looking
<1>. QED  BY <1>1, Invariance, PTL

-----------------------------------------------------------------------------
(***************************************************************************)
(* nincfg.bin, as the C compiler of Nintendont reads it.                   *)
(***************************************************************************)
LEMMA COffsets ==
    /\ Command!COffset[1] = 0 /\ Command!COffset[2] = 4 /\ Command!COffset[3] = 8
    /\ Command!COffset[4] = 12 /\ Command!COffset[5] = 16 /\ Command!COffset[6] = 20
    /\ Command!COffset[7] = 275 /\ Command!COffset[8] = 532 /\ Command!COffset[9] = 536
    /\ Command!COffset[10] = 540 /\ Command!COffset[14] = 544
<1> DEFINE C == <<0, 4, 8, 12, 16, 20, 275, 532, 536, 540, 541, 542, 543, 544>>
           Steps(f) == [x \in 1 .. Len(Command!NinCfg) |->
               IF x = 1 THEN 0
               ELSE LET end == f[x - 1] + Command!NinCfg[x - 1].size
                    IN ((end + Command!NinCfg[x].align - 1) \div Command!NinCfg[x].align)
                           * Command!NinCfg[x].align]
<1>1. C = Steps(C)
    BY DEF Command!NinCfg, Command!Word, Command!Chars
<1>2. Command!COffset = Steps(Command!COffset)
  <2> HIDE DEF Steps
  <2>1. Command!COffset = CHOOSE f : f = Steps(f)
    BY DEF Command!COffset, Steps
  <2>. QED  BY <1>1, <2>1
<1>3. /\ Command!COffset[1] = 0
      /\ \A x \in 2 .. 14 :
            LET end == Command!COffset[x - 1] + Command!NinCfg[x - 1].size
            IN Command!COffset[x] =
                   ((end + Command!NinCfg[x].align - 1) \div Command!NinCfg[x].align)
                                        * Command!NinCfg[x].align
  <2>1. Len(Command!NinCfg) = 14
    BY DEF Command!NinCfg
  <2>2. ASSUME NEW x \in 1 .. 14 PROVE Command!COffset[x] = Steps(Command!COffset)[x]
    BY <1>2
  <2> HIDE <1>2
  <2>. QED  BY <2>1, <2>2
<1>4. Command!COffset[2] = 4 /\ Command!COffset[3] = 8 /\ Command!COffset[4] = 12
    BY <1>3 DEF Command!NinCfg, Command!Word
<1>5. Command!COffset[5] = 16 /\ Command!COffset[6] = 20
    BY <1>3, <1>4 DEF Command!NinCfg, Command!Word, Command!Chars
<1>6. Command!COffset[7] = 275 /\ Command!COffset[8] = 532
    BY <1>3, <1>5 DEF Command!NinCfg, Command!Word, Command!Chars
<1>7. Command!COffset[9] = 536 /\ Command!COffset[10] = 540
    BY <1>3, <1>6 DEF Command!NinCfg, Command!Word, Command!Chars
<1>8. Command!COffset[11] = 541 /\ Command!COffset[12] = 542 /\ Command!COffset[13] = 543
    BY <1>3, <1>7 DEF Command!NinCfg, Command!Word, Command!Chars
<1>9. Command!COffset[14] = 544
    BY <1>3, <1>8 DEF Command!NinCfg, Command!Word, Command!Chars
<1>. QED  BY <1>3, <1>4, <1>5, <1>6, <1>7, <1>9

\* Where Nintendont looks for a field.
LEMMA FieldIs ==
    ASSUME NEW written, NEW x \in 1 .. 14
    PROVE  Command!Field(written, Command!NinCfg[x].name)
               = IF Command!COffset[x] \in DOMAIN written THEN written[Command!COffset[x]] ELSE 0
<1>1. DOMAIN Command!NinCfg = 1 .. 14
    BY DEF Command!NinCfg
<1>2. \A y, z \in 1 .. 14 : Command!NinCfg[y].name = Command!NinCfg[z].name => y = z
    BY DEF Command!NinCfg, Command!Word, Command!Chars
<1>. QED  BY <1>1, <1>2 DEF Command!Field

LEMMA Names ==
    /\ Command!NinCfg[1].name = "Magicbytes" /\ Command!NinCfg[2].name = "Version"
    /\ Command!NinCfg[3].name = "Config" /\ Command!NinCfg[4].name = "VideoMode"
    /\ Command!NinCfg[5].name = "Language" /\ Command!NinCfg[6].name = "GamePath"
    /\ Command!NinCfg[7].name = "CheatPath" /\ Command!NinCfg[8].name = "MaxPads"
    /\ Command!NinCfg[9].name = "GameID" /\ Command!NinCfg[10].name = "MemCardBlocks"
    /\ Command!NinCfg[14].name = "WiiUGamepadSlot"
BY DEF Command!NinCfg, Command!Word, Command!Chars

\* What generate wrote at each offset.
LEMMA GenerateIs ==
    ASSUME NEW opts, NEW f \in DOMAIN Command!Values(opts)
    PROVE  /\ Command!Off[f] \in DOMAIN Command!Generate(opts)
           /\ Command!Generate(opts)[Command!Off[f]] = Command!Values(opts)[f]
<1>1. \A x, y \in DOMAIN Command!Values(opts) : Command!Off[x] = Command!Off[y] => x = y
    BY DEF Command!Values, Command!Off
<1>2. (CHOOSE x \in DOMAIN Command!Values(opts) : Command!Off[x] = Command!Off[f]) = f
    BY <1>1
<1>. QED  BY <1>2 DEF Command!Generate

\* The offsets of the code are the compiler's.
LEMMA OffsetsAgree ==
    ASSUME NEW opts, NEW f \in DOMAIN Command!Values(opts)
    PROVE  \E x \in 1 .. 14 :
               Command!NinCfg[x].name = f /\ Command!COffset[x] = Command!Off[f]
<1>1. f \in {"Magicbytes", "Version", "Config", "VideoMode", "Language", "GamePath", "CheatPath",
            "MaxPads", "GameID", "MemCardBlocks", "WiiUGamepadSlot"}
    BY DEF Command!Values
<1>2. CASE f \in {"Magicbytes", "Version", "Config", "VideoMode", "Language", "GamePath"}
    BY <1>2, Names, COffsets DEF Command!Off
<1>3. CASE f \in {"CheatPath", "MaxPads", "GameID", "MemCardBlocks", "WiiUGamepadSlot"}
    BY <1>3, Names, COffsets DEF Command!Off
<1>. QED  BY <1>1, <1>2, <1>3

\* Nintendont reads, field by field, what generate was given.
LEMMA FieldsRead ==
    ASSUME NEW opts, NEW f \in DOMAIN Command!Values(opts)
    PROVE  Command!Field(Command!Generate(opts), f) = Command!Values(opts)[f]
<1>1. PICK x \in 1 .. 14 : Command!NinCfg[x].name = f /\ Command!COffset[x] = Command!Off[f]
    BY OffsetsAgree
<1>. QED  BY <1>1, FieldIs, GenerateIs

LEMMA MemcardIs ==
    /\ DOMAIN Command!MemcardSizes = {59, 123, 251, 507, 1019}
    /\ \A n, m \in DOMAIN Command!MemcardSizes :
           /\ Command!MemcardSizes[n] \in 0 .. 4
           /\ Command!MemcardSizes[n] = Command!MemcardSizes[m] => n = m
BY DEF Command!MemcardSizes

LEMMA OptionsAre ==
    /\ TheOptions.game_id = "GAME" /\ TheOptions.widescreen = cli.widescreen
    /\ TheOptions.language = cli.gc_language /\ TheOptions.video_mode = cli.gc_video
    /\ TheOptions.memcard_emu = ~ cli.no_memcard
    /\ TheOptions.memcard_blocks = Command!MemcardSizes[cli.gc_memcard_blocks]
    /\ TheOptions.max_pads = cli.gc_max_pads
    /\ TheOptions.wiiu_gamepad_slot = cli.gc_gamepad_slot
    /\ TheOptions.cheat_path = cli.cheats
BY DEF TheOptions, Command!NincfgOptions, Command!GcOptions, Command!Memcard

\* What the arguments of a call that was parsed can be.
LEMMA CliIs ==
    ASSUME cli \in Command!Cli, Command!Parses(cli)
    PROVE  /\ cli.gc_memcard_blocks \in DOMAIN Command!MemcardSizes
           /\ cli.gc_max_pads \in 0 .. 4 /\ cli.gc_gamepad_slot \in 0 .. 3
           /\ cli.cheats \in Command!Path
           /\ cli.no_memcard \in BOOLEAN /\ cli.widescreen \in BOOLEAN
BY DEF Command!Cli, Command!Parses

\* main.rs, pipeline.rs and nincfg.rs: whatever was typed, and whatever stood there before, a
\* GameCube call that ends well leaves a nincfg.bin that Nintendont accepts and reads, at the offsets
\* of its own compiler, as what was typed.  An earlier one is left alone by every other call, but
\* for one whose write failed and which reports it; and of the settings only a cheat path can be
\* refused once the package stands.
THEOREM Settings == FilesSpec => []SettingsArrive
<1>1. IInv => SettingsArrive
  <2> SUFFICES ASSUME CallInv PROVE Command!NintendontReadsWhatWasAsked
    BY DEF IInv, SettingsArrive
  <2>0. cli \in Command!Cli /\ NincfgWritten /\ Configured
    BY DEF CallInv
  <2>1. ASSUME pc = "done", Command!IsGameCube
        PROVE  /\ nincfg \notin {Command!None, Command!Earlier, Command!Cut}
               /\ Command!NintendontAcceptsFile(nincfg.written)
    <3>1. /\ nincfg = Command!Written(Command!Generate(TheOptions)) /\ Command!Parses(cli)
          /\ nincfg.written = Command!Generate(TheOptions)
        BY <2>0, <2>1 DEF NincfgWritten, Command!Written
    <3>2. {"Magicbytes", "Version", "MaxPads", "MemCardBlocks", "WiiUGamepadSlot"}
              \subseteq DOMAIN Command!Values(TheOptions)
        BY DEF Command!Values
    <3> DEFINE text == nincfg.written
    <3> HIDE DEF text
    <3>3. /\ Command!Field(text, "Magicbytes") = "magic"
          /\ Command!Field(text, "Version") = 10
          /\ Command!Field(text, "MaxPads") = TheOptions.max_pads
          /\ Command!Field(text, "MemCardBlocks") = TheOptions.memcard_blocks
          /\ Command!Field(text, "WiiUGamepadSlot") = TheOptions.wiiu_gamepad_slot
      <4>1. text = Command!Generate(TheOptions)
        BY <3>1 DEF text
      <4>2. \A f \in DOMAIN Command!Values(TheOptions) :
                Command!Field(text, f) = Command!Values(TheOptions)[f]
        BY <4>1, FieldsRead
      <4>3. /\ Command!Values(TheOptions)["Magicbytes"] = "magic"
            /\ Command!Values(TheOptions)["Version"] = 10
            /\ Command!Values(TheOptions)["MaxPads"] = TheOptions.max_pads
            /\ Command!Values(TheOptions)["MemCardBlocks"] = TheOptions.memcard_blocks
            /\ Command!Values(TheOptions)["WiiUGamepadSlot"] = TheOptions.wiiu_gamepad_slot
        BY DEF Command!Values
      <4>. QED  BY <3>2, <4>2, <4>3
    <3>4. /\ "written" \in DOMAIN nincfg /\ "written" \notin DOMAIN Command!None
          /\ "written" \notin DOMAIN Command!Earlier /\ "written" \notin DOMAIN Command!Cut
        BY <3>1 DEF Command!Written, Command!None, Command!Earlier, Command!Cut
    <3>5. nincfg \notin {Command!None, Command!Earlier, Command!Cut}
        BY <3>4
    <3>. QED  BY <2>0, <3>1, <3>3, <3>5, OptionsAre, CliIs, MemcardIs
           DEF Command!NintendontAcceptsFile, text
  <2>2. ASSUME pc = "done", Command!IsGameCube, NEW f \in DOMAIN Command!Asked
        PROVE  Command!Field(nincfg.written, f) = Command!Asked[f]
    <3>1. /\ nincfg.written = Command!Generate(TheOptions) /\ Command!Acceptable(TheOptions)
          /\ Command!Parses(cli)
        BY <2>0, <2>2 DEF NincfgWritten, Command!Written
    <3>2. f \in DOMAIN Command!Values(TheOptions)
        BY DEF Command!Asked, Command!Values
    <3>3. Command!CStr(TheOptions.cheat_path) = cli.cheats
      <4>1. cli.cheats \in Command!Path /\ cli.cheats.len <= 254
        BY <2>0, <3>1, OptionsAre, CliIs DEF Command!Acceptable, Command!PathLen
      <4>. QED  BY <4>1, OptionsAre DEF Command!CStr, Command!PathLen, Command!Path
    <3>4. Command!ConfigBits(TheOptions) = Command!Asked.Config
        BY <2>0, <3>1, OptionsAre, CliIs DEF Command!ConfigBits, Command!Asked
    <3>5. Command!Values(TheOptions)[f] = Command!Asked[f]
      <4>1. CASE f = "Config"
        BY <4>1, <3>4 DEF Command!Values
      <4>2. CASE f # "Config"
        BY <4>2, <3>3, OptionsAre DEF Command!Asked, Command!Values
      <4>. QED  BY <4>1, <4>2
    <3>. QED  BY <3>1, <3>2, <3>5, FieldsRead
  <2>3. ASSUME pc = "refusedLate" PROVE ~ cli.cheats.ascii \/ cli.cheats.len > 254
    <3>1. ~ Command!Acceptable(TheOptions) /\ Command!Parses(cli)
        BY <2>0, <2>3 DEF NincfgWritten, Configured
    <3>. QED  BY <2>0, <3>1, OptionsAre, CliIs, MemcardIs
           DEF Command!Acceptable, Command!PathLen, Command!MaxPadsLimit,
               Command!MemcardBlocksLimit, Command!WiiuGamepadSlotLimit, Command!Path
  <2>. QED  BY <2>0, <2>1, <2>2, <2>3 DEF NincfgWritten, Command!NintendontReadsWhatWasAsked
<1>. QED  BY <1>1, Invariance, PTL

-----------------------------------------------------------------------------
(***************************************************************************)
(* Every option is heeded: with its default in its place the pipeline      *)
(* would look at another configuration, or a warning names it.             *)
(***************************************************************************)
CommonSettings ==
    {"title", "icon", "boot_tv", "boot_drc", "region", "no_gamepad"}

LEMMA SettingsAre ==
    /\ Command!Settings = CommonSettings \cup Command!VideoFlags \cup Command!WiiOnlyFlags
                              \cup Command!GcOnlyFlags
    /\ Command!Settings \subseteq DOMAIN Command!Default
BY DEF Command!Settings, Command!Default, CommonSettings, Command!VideoFlags, Command!WiiOnlyFlags,
    Command!GcOnlyFlags

\* A field of the configuration that the pipeline looks at, and that another command line has
\* another value for.
LEMMA UsedDiffers ==
    ASSUME NEW c, NEW d, NEW gc \in BOOLEAN, NEW f \in DOMAIN Command!ConfigFrom(c, gc),
           ~ gc \/ f \notin Command!WiiOnlyConfig,
           Command!ConfigFrom(d, gc)[f] # Command!ConfigFrom(c, gc)[f]
    PROVE  Command!Used(Command!ConfigFrom(d, gc)) # Command!Used(Command!ConfigFrom(c, gc))
<1> DEFINE domain == IF gc THEN DOMAIN Command!ConfigFrom(c, gc) \ Command!WiiOnlyConfig
                     ELSE DOMAIN Command!ConfigFrom(c, gc)
<1>1. DOMAIN Command!ConfigFrom(d, gc) = DOMAIN Command!ConfigFrom(c, gc)
    BY DEF Command!ConfigFrom
<1>2. /\ Command!Used(Command!ConfigFrom(c, gc))
             = [x \in domain |-> Command!ConfigFrom(c, gc)[x]]
      /\ Command!Used(Command!ConfigFrom(d, gc))
             = [x \in domain |-> Command!ConfigFrom(d, gc)[x]]
    BY <1>1, ConfigIs DEF Command!Used
<1>3. f \in domain
    OBVIOUS
<1> HIDE DEF domain
<1>. QED  BY <1>2, <1>3

\* The fields of a configuration, and what they are made from.
LEMMA ConfigFields ==
    ASSUME NEW c, NEW gc \in BOOLEAN
    PROVE  /\ DOMAIN Command!ConfigFrom(c, gc)
                  = {"title", "icon_png", "boot_tv_png", "boot_drc_png", "region", "gamepad",
                     "online", "video", "skip_gaps", "trim_zeros", "gamecube"}
           /\ Command!ConfigFrom(c, gc)["title"] = c.title
           /\ Command!ConfigFrom(c, gc)["icon_png"] = c.icon
           /\ Command!ConfigFrom(c, gc)["boot_tv_png"] = c.boot_tv
           /\ Command!ConfigFrom(c, gc)["boot_drc_png"] = c.boot_drc
           /\ Command!ConfigFrom(c, gc)["region"] = c.region
           /\ Command!ConfigFrom(c, gc)["gamepad"] = ~ c.no_gamepad
           /\ Command!ConfigFrom(c, gc)["video"] = [a \in Command!VideoFlags |-> c[a]]
           /\ Command!ConfigFrom(c, gc)["skip_gaps"] = ~ c.keep_gaps
           /\ Command!ConfigFrom(c, gc)["trim_zeros"] = c.trim_zeros
           /\ gc => Command!ConfigFrom(c, gc)["gamecube"] = Command!GcOptions(c)
BY DEF Command!ConfigFrom

\* A command line with one argument put back to its default.
LEMMA PutBack ==
    ASSUME NEW c \in Command!Cli, NEW a \in DOMAIN Command!Default
    PROVE  LET d == [c EXCEPT ![a] = Command!Default[a]]
           IN d[a] = Command!Default[a] /\ \A b \in DOMAIN Command!Default \ {a} : d[b] = c[b]
<1>1. DOMAIN c = DOMAIN Command!Default
    BY DEF Command!Cli, Command!Default
<1>. QED  BY <1>1

LEMMA CommonHeeded ==
    ASSUME NEW c \in Command!Cli, NEW gc \in BOOLEAN, NEW a \in CommonSettings,
           c[a] # Command!Default[a]
    PROVE  Command!Used(Command!ConfigFrom([c EXCEPT ![a] = Command!Default[a]], gc))
               # Command!Used(Command!ConfigFrom(c, gc))
<1> DEFINE d == [c EXCEPT ![a] = Command!Default[a]]
<1>1. d[a] = Command!Default[a] /\ a \in DOMAIN Command!Default
    BY PutBack, SettingsAre
<1>2. c.no_gamepad \in BOOLEAN /\ Command!Default.no_gamepad = FALSE
    BY DEF Command!Cli, Command!Default
<1> HIDE DEF d
<1>3. \E f \in DOMAIN Command!ConfigFrom(c, gc) \ Command!WiiOnlyConfig :
          Command!ConfigFrom(d, gc)[f] # Command!ConfigFrom(c, gc)[f]
  <2>1. {"title", "icon_png", "boot_tv_png", "boot_drc_png", "region", "gamepad"}
            \subseteq DOMAIN Command!ConfigFrom(c, gc) \ Command!WiiOnlyConfig
    BY ConfigFields DEF Command!WiiOnlyConfig
  <2>2. ASSUME NEW e \in {c, d}
        PROVE  /\ Command!ConfigFrom(e, gc)["title"] = e["title"]
               /\ Command!ConfigFrom(e, gc)["icon_png"] = e["icon"]
               /\ Command!ConfigFrom(e, gc)["boot_tv_png"] = e["boot_tv"]
               /\ Command!ConfigFrom(e, gc)["boot_drc_png"] = e["boot_drc"]
               /\ Command!ConfigFrom(e, gc)["region"] = e["region"]
               /\ Command!ConfigFrom(e, gc)["gamepad"] = ~ e["no_gamepad"]
    BY ConfigFields, Zenon
  <2>3. CASE a = "no_gamepad"
    <3>1. Command!ConfigFrom(d, gc)["gamepad"] # Command!ConfigFrom(c, gc)["gamepad"]
        BY <1>1, <1>2, <2>2, <2>3
    <3>. QED  BY <2>1, <3>1
  <2>4. CASE a # "no_gamepad"
    BY <1>1, <2>1, <2>2, <2>4 DEF CommonSettings
  <2>. QED  BY <2>3, <2>4
<1>. QED  BY <1>3, UsedDiffers DEF d

LEMMA WiiHeeded ==
    ASSUME NEW c \in Command!Cli, NEW a \in Command!VideoFlags \cup Command!WiiOnlyFlags,
           c[a] # Command!Default[a]
    PROVE  Command!Used(Command!ConfigFrom([c EXCEPT ![a] = Command!Default[a]], FALSE))
               # Command!Used(Command!ConfigFrom(c, FALSE))
<1> DEFINE d == [c EXCEPT ![a] = Command!Default[a]]
<1>1. d[a] = Command!Default[a] /\ a \in DOMAIN Command!Default
    BY PutBack, SettingsAre
<1>2. c.keep_gaps \in BOOLEAN /\ Command!Default.keep_gaps = FALSE
    BY DEF Command!Cli, Command!Default
<1> HIDE DEF d
<1>3. CASE a \in Command!VideoFlags
  <2>1. [b \in Command!VideoFlags |-> d[b]] # [b \in Command!VideoFlags |-> c[b]]
    BY <1>1, <1>3
  <2>2. /\ Command!ConfigFrom(d, FALSE)["video"] = [b \in Command!VideoFlags |-> d[b]]
        /\ Command!ConfigFrom(c, FALSE)["video"] = [b \in Command!VideoFlags |-> c[b]]
        /\ "video" \in DOMAIN Command!ConfigFrom(c, FALSE)
    BY ConfigFields
  <2>3. Command!ConfigFrom(d, FALSE)["video"] # Command!ConfigFrom(c, FALSE)["video"]
    BY <2>1, <2>2
  <2>. QED  BY <2>2, <2>3, UsedDiffers DEF d
<1>4. CASE a \in Command!WiiOnlyFlags
  <2>1. \E f \in DOMAIN Command!ConfigFrom(c, FALSE) :
            Command!ConfigFrom(d, FALSE)[f] # Command!ConfigFrom(c, FALSE)[f]
    <3>1. {"skip_gaps", "trim_zeros"} \subseteq DOMAIN Command!ConfigFrom(c, FALSE)
        BY ConfigFields
    <3>2. ASSUME NEW e \in {c, d}
          PROVE  /\ Command!ConfigFrom(e, FALSE)["skip_gaps"] = ~ e["keep_gaps"]
                 /\ Command!ConfigFrom(e, FALSE)["trim_zeros"] = e["trim_zeros"]
        BY ConfigFields
    <3>3. CASE a = "keep_gaps"
      <4>1. Command!ConfigFrom(d, FALSE)["skip_gaps"] # Command!ConfigFrom(c, FALSE)["skip_gaps"]
        BY <1>1, <1>2, <3>2, <3>3
      <4>. QED  BY <3>1, <4>1
    <3>4. CASE a = "trim_zeros"
        BY <1>1, <3>1, <3>2, <3>4
    <3>. QED  BY <1>4, <3>3, <3>4 DEF Command!WiiOnlyFlags
  <2>. QED  BY <2>1, UsedDiffers DEF d
<1>. QED  BY <1>3, <1>4

LEMMA GcHeeded ==
    ASSUME NEW c \in Command!Cli, Command!Parses(c), NEW a \in Command!GcOnlyFlags,
           c[a] # Command!Default[a]
    PROVE  Command!Used(Command!ConfigFrom([c EXCEPT ![a] = Command!Default[a]], TRUE))
               # Command!Used(Command!ConfigFrom(c, TRUE))
<1> DEFINE d == [c EXCEPT ![a] = Command!Default[a]]
<1>1. d[a] = Command!Default[a] /\ a \in DOMAIN Command!Default
    BY PutBack, SettingsAre
<1> HIDE DEF d
<1>2. Command!GcOptions(d) # Command!GcOptions(c)
  <2>1. CASE a = "nintendont"
    <3>1. c.nintendont \in {"none", "file", "missing"} /\ Command!Default.nintendont = "none"
        BY DEF Command!Cli, Command!Default
    <3>2. Command!GcOptions(d).nintendont # Command!GcOptions(c).nintendont
        BY <1>1, <2>1, <3>1 DEF Command!GcOptions
    <3>. QED  BY <3>2
  <2>2. CASE a = "no_memcard"
    <3>1. c.no_memcard \in BOOLEAN /\ Command!Default.no_memcard = FALSE
        BY DEF Command!Cli, Command!Default
    <3>2. Command!GcOptions(d).memcard_emu # Command!GcOptions(c).memcard_emu
        BY <1>1, <2>2, <3>1 DEF Command!GcOptions
    <3>. QED  BY <3>2
  <2>3. CASE a = "gc_memcard_blocks"
    <3>1. {c.gc_memcard_blocks, Command!Default.gc_memcard_blocks}
              \subseteq DOMAIN Command!MemcardSizes
        BY MemcardIs DEF Command!Parses, Command!Default
    <3>2. Command!GcOptions(d).memcard_blocks # Command!GcOptions(c).memcard_blocks
        BY <1>1, <2>3, <3>1, MemcardIs DEF Command!GcOptions, Command!Memcard
    <3>. QED  BY <3>2
  <2>4. CASE a \in {"apploader", "gc_disc_id", "gc_disc_title", "widescreen", "gc_language"}
    <3>1. /\ \E f \in {"apploader", "disc_id", "disc_title", "widescreen", "language"} :
              Command!GcOptions(d)[f] # Command!GcOptions(c)[f]
        BY <1>1, <2>4 DEF Command!GcOptions
    <3>. QED  BY <3>1
  <2>5. CASE a \in {"gc_video", "gc_max_pads", "gc_gamepad_slot", "cheats"}
    <3>1. /\ \E f \in {"video_mode", "max_pads", "wiiu_gamepad_slot", "cheat_path"} :
              Command!GcOptions(d)[f] # Command!GcOptions(c)[f]
        BY <1>1, <2>5 DEF Command!GcOptions
    <3>. QED  BY <3>1
  <2>. QED  BY <2>1, <2>2, <2>3, <2>4, <2>5 DEF Command!GcOnlyFlags
<1>3. Command!ConfigFrom(d, TRUE)["gamecube"] # Command!ConfigFrom(c, TRUE)["gamecube"]
  <2>1. ASSUME NEW e \in {c, d}
        PROVE  Command!ConfigFrom(e, TRUE)["gamecube"] = Command!GcOptions(e)
    BY ConfigFields
  <2>. QED  BY <1>2, <2>1
<1>4. "gamecube" \in DOMAIN Command!ConfigFrom(c, TRUE) \ Command!WiiOnlyConfig
    BY ConfigFields DEF Command!WiiOnlyConfig
<1>. QED  BY <1>3, <1>4, UsedDiffers DEF d

\* run, gc_only_flags_given and wii_only_flags_given: no option falls between the two lists, Cli,
\* Config and the two ways through the pipeline: each that is set is used or named in a warning.
THEOREM Heeded == FilesSpec => []OptionsAreHeeded
<1>1. IInv => OptionsAreHeeded
  <2> SUFFICES ASSUME CallInv, config # Command!None, NEW a \in Command!Settings,
                      cli[a] # Command!Default[a]
               PROVE  \/ a \in warned
                      \/ Command!Used(Command!ConfigFrom(
                             [cli EXCEPT ![a] = Command!Default[a]], Command!IsGameCube))
                             # Command!Used(config)
    BY DEF IInv, OptionsAreHeeded, Command!NothingSilentlyIgnored
  <2>1. cli \in Command!Cli /\ config = TheConfig /\ warned = Warnings /\ Command!Parses(cli)
    BY DEF CallInv, Configured
  <2>2. CASE a \in CommonSettings
    BY <2>1, <2>2, CommonHeeded DEF TheConfig, Command!IsGameCube
  <2>3. CASE a \in Command!VideoFlags \cup Command!WiiOnlyFlags
    <3>1. CASE Command!IsGameCube
        BY <2>1, <2>3, <3>1 DEF Warnings, Command!Changed
    <3>2. CASE ~ Command!IsGameCube
      <4>1. Command!IsGameCube = FALSE
        BY <3>2 DEF Command!IsGameCube
      <4>. QED  BY <2>1, <2>3, <4>1, WiiHeeded DEF TheConfig
    <3>. QED  BY <3>1, <3>2
  <2>4. CASE a \in Command!GcOnlyFlags
    <3>1. CASE Command!IsGameCube
      <4>1. Command!IsGameCube = TRUE
        BY <3>1 DEF Command!IsGameCube
      <4>. QED  BY <2>1, <2>4, <4>1, GcHeeded DEF TheConfig
    <3>2. CASE ~ Command!IsGameCube
        BY <2>1, <2>4, <3>2 DEF Warnings, Command!Changed
    <3>. QED  BY <3>1, <3>2
  <2>. QED  BY <2>2, <2>3, <2>4, SettingsAre
<1>. QED  BY <1>1, Invariance, PTL

-----------------------------------------------------------------------------
\* For every meta.xml of a base, cut off or not, and every game: a finished file has the elements
\* of the base's, each with what it held or, if it is one of the game's, with the game's value,
\* which fits; the ids are those of app.xml; a base is refused only for a value that does not fit
\* (MetaXml, patch).
THEOREM MetaNames == FilesSpec => []MetaNamesTheGame
<1>1. IInv => MetaNamesTheGame
    BY MetaStands DEF IInv, MetaNamesTheGame
<1>. QED  BY <1>1, Invariance, PTL

-----------------------------------------------------------------------------
(***************************************************************************)
(* fw.img and main.dol.                                                    *)
(***************************************************************************)
\* apply_patches of fwimg.rs and find_dol_edits of video.rs: the edits of main.dol come to replacing
\* the sites of the original, whatever it holds; so does searching and overwriting fw.img in one
\* pass, table after table, if its sites stand apart, as patches that are written one into another's
\* signature do not.  What the first run warns of has no site in the original.
THEOREM SitesPatched ==
    FilesSpec =>
        []((making = "patch" /\ job.kind = "fw" => Patches!StandApart(job)) => SitesArePatched)
<1>1. IInv => ((making = "patch" /\ job.kind = "fw" => Patches!StandApart(job)) => SitesArePatched)
    BY PatchStands DEF IInv, Claimed, SitesArePatched
<1>. QED  BY <1>1, Invariance, PTL
=============================================================================
