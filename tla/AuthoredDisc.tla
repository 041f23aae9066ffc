---------------------------- MODULE AuthoredDisc ----------------------------
(***************************************************************************)
(* The synthetic Wii disc of a GameCube injection: author_gc_disc of       *)
(* crates/core/src/wii_author.rs.  It lays out boot.bin, the apploader,    *)
(* main.dol, the FST and game.iso in the logical data of one partition,    *)
(* writes the data cluster by cluster with its hash tree, then the disc    *)
(* header and the partition header that point at it.  Every pointer is a   *)
(* 32-bit field, most of them holding the offset divided by four.          *)
(*                                                                         *)
(* A byte is the object it belongs to and its place in it; a digest is     *)
(* what it was computed from.  The title and the region that the disc      *)
(* header also has are left out: nothing is found by them.                 *)
(***************************************************************************)
EXTENDS Naturals, FiniteSets, Sequences

CONSTANTS
    BootLen,       \* boot.bin and bi2.bin: APPLOADER_OFF
    FstLen,        \* two entries and "game.iso", padded
    Alignment,     \* of main.dol and of the FST
    ClusterData,   \* data bytes of a cluster
    HashBlock,     \* hash bytes before them
    GroupClusters, \* clusters of a hash group
    MaxH3Groups,   \* groups the H3 table can describe
    FieldMax,      \* largest value of a 32-bit field
    CertRoom,      \* from CERT_PART_OFF to the H3 table
    PartAbs,       \* partition, from the start of the disc
    DataPartOff,   \* data, from the start of the partition
    Discs          \* what the disc may be asked to hold

Sector == HashBlock + ClusterData
DataAbs == PartAbs + DataPartOff
GroupLogicalSize == GroupClusters * ClusterData
MaxLogicalSize == MaxH3Groups * GroupLogicalSize

\* What the values in the source give: an aligned offset survives a division by four, and a
\* divided field has room for all that the H3 table can describe.
ASSUME LayoutAssumption ==
    /\ {BootLen, CertRoom, HashBlock, PartAbs, DataPartOff} \subseteq Nat
    /\ {Alignment, ClusterData, GroupClusters, MaxH3Groups, FieldMax, FstLen} \subseteq Nat \ {0}
    /\ \A n \in {Alignment, FstLen, GroupLogicalSize, Sector, PartAbs, DataPartOff} : n % 4 = 0
    /\ MaxH3Groups * GroupClusters * Sector <= 4 * FieldMax
    /\ MaxLogicalSize <= 4 * FieldMax
    /\ DataAbs <= 4 * FieldMax

ASSUME DiscsAssumption ==
    Discs \subseteq [apploader : Nat, dol : Nat, iso : Nat, certs : Nat]

VARIABLES
    in,      \* GcDiscInputs and the size of the image
    pc,      \* next step of author_gc_disc, or how it ended
    sys,     \* sys_blob with its pointers
    g,       \* next hash group
    data,    \* clusters in the file, by their offset on the disc
    h3,      \* H3 table in memory: one digest per group
    headers, \* disc header and partition header in the file
    result   \* plan, ticket and TMD returned

vars == <<in, pc, sys, g, data, h3, headers, result>>

None == [none |-> TRUE]

-----------------------------------------------------------------------------
Zero == [of |-> "zero", at |-> 0]
Object(name, n) == [i \in 1 .. n |-> [of |-> name, at |-> i]]

CeilDiv(n, d) == (n + d - 1) \div d
AlignUp(n, a) == CeilDiv(n, a) * a
Least(a, b) == IF a <= b THEN a ELSE b

PadTo(v, n) == v \o [i \in 1 .. (IF n > Len(v) THEN n - Len(v) ELSE 0) |-> Zero]

\* Mutant: objects follow each other without a gap.
Unaligned(v) == v

Aligned(v) == PadTo(v, AlignUp(Len(v), Alignment))

\* Mutant: the offset as it is, in the manner of a GameCube disc.
WholeOffset(n) == n

\* An offset as a Wii disc stores it.
Shifted(n) == n \div 4

\* u32_field
Fits(v) == v <= FieldMax

\* build_sys_blob and build_fst.
SysBlob(d) ==
    LET loader == Aligned(Object("boot", BootLen) \o Object("apploader", d.apploader))
        dol == Aligned(loader \o Object("dol", d.dol))
        iso == AlignUp(Len(dol) + FstLen, GroupLogicalSize)
        fst == [off |-> Shifted(iso), size |-> d.iso]
        boot == [dol |-> Shifted(Len(loader)), fst |-> Shifted(Len(dol)),
                 fstLen |-> Shifted(FstLen)]
    IN [bytes |-> PadTo(dol \o Object("fst", FstLen), iso), isoOff |-> iso, boot |-> boot,
        fst |-> fst,
        fits |-> \A v \in {fst.off, fst.size, boot.dol, boot.fst, boot.fstLen} : Fits(v)]

TotalClusters(d) == CeilDiv(SysBlob(d).isoOff + d.iso, ClusterData)
NumGroups(d) == CeilDiv(TotalClusters(d), GroupClusters)

\* fill_cluster_data: the data of the cluster at the logical offset off.
ClusterAt(off) ==
    [i \in 1 .. ClusterData |->
        LET l == off + i - 1
        IN IF l < Least(sys.isoOff, Len(sys.bytes)) THEN sys.bytes[l + 1]
           ELSE IF l >= sys.isoOff /\ l < sys.isoOff + in.iso
                    THEN [of |-> "iso", at |-> l - sys.isoOff + 1]
           ELSE Zero]

Empty == [i \in 1 .. ClusterData |-> Zero]

\* The clusters of group n as they are hashed: those past the end are zero.
GroupOf(n) ==
    [k \in 0 .. GroupClusters - 1 |->
        LET c == n * GroupClusters + k
        IN IF c < TotalClusters(in) THEN ClusterAt(c * ClusterData) ELSE Empty]

\* wii_disc_title_id: a Wii disc's id, of the game's id and not of the title that wraps it.
TitleId == [type |-> "disc", code |-> "game"]
Ticket == [titleId |-> TitleId, key |-> "reference", access |-> "all"]
Tmd(contentHash) == [titleId |-> TitleId, ios |-> 35, hash |-> contentHash]

DiscHeader == [magic |-> "wii", partition |-> Shifted(PartAbs)]

PartitionHeader(d, tmd, table) ==
    [ticket |-> Ticket, tmd |-> tmd, certs |-> d.certs, h3 |-> table,
     data |-> Shifted(DataPartOff), dataSize |-> Shifted(TotalClusters(d) * Sector)]

-----------------------------------------------------------------------------
Init ==
    /\ in \in Discs
    /\ pc = "check"
    /\ sys = None /\ g = 0 /\ data = <<>> /\ h3 = <<>> /\ headers = <<>> /\ result = None

Refuse ==
    /\ pc' = "refused"
    /\ UNCHANGED <<in, g, data, h3, headers, result>>

\* The image against its field and against the H3 table.
WithinLimits(d) == Fits(d.iso) /\ SysBlob(d).isoOff + d.iso <= MaxLogicalSize

Check ==
    /\ pc = "check"
    /\ sys' = SysBlob(in)
    /\ IF in.certs <= CertRoom /\ sys'.fits /\ WithinLimits(in)
       THEN pc' = "open" /\ UNCHANGED <<in, g, data, h3, headers, result>>
       ELSE Refuse

\* create(true), truncate(true)
Open ==
    /\ pc = "open"
    /\ pc' = "groups"
    /\ UNCHANGED <<in, sys, g, data, h3, headers, result>>

\* Clusters past the end are hashed and not written.
WriteGroup ==
    /\ pc = "groups" /\ g < NumGroups(in)
    /\ LET group == GroupOf(g)
           written == {c \in g * GroupClusters .. (g + 1) * GroupClusters - 1 :
                          c < TotalClusters(in)}
           at == {DataAbs + c * Sector : c \in written}
       IN /\ h3' = [n \in DOMAIN h3 \cup {g} |-> IF n = g THEN group ELSE h3[n]]
          /\ data' = [a \in DOMAIN data \cup at |->
                         IF a \in at
                         THEN group[((a - DataAbs) \div Sector) % GroupClusters]
                         ELSE data[a]]
    /\ g' = g + 1
    /\ UNCHANGED <<in, pc, sys, headers, result>>

WriteDiscHeader ==
    /\ pc = "groups" /\ g = NumGroups(in)
    /\ headers' = [disc |-> DiscHeader]
    /\ pc' = "partition"
    /\ UNCHANGED <<in, sys, g, data, h3, result>>

\* build_partition_header may still find the data too large for its field.
WritePartitionHeader ==
    /\ pc = "partition"
    /\ LET header == PartitionHeader(in, Tmd(h3), h3)
       IN IF Fits(header.dataSize)
          THEN /\ headers' = [disc |-> headers.disc, partition |-> header]
               /\ result' = [ticket |-> header.ticket, tmd |-> header.tmd, h3 |-> h3,
                             dataStart |-> DataAbs,
                             discSize |-> DataAbs + TotalClusters(in) * Sector]
               /\ pc' = "done"
               /\ UNCHANGED <<in, sys, g, data, h3>>
          ELSE Refuse /\ sys' = sys

\* The scratch file cannot be opened or written, or the image cannot be read.
Fail ==
    /\ pc \in {"open", "groups", "partition"}
    /\ pc' = "failed"
    /\ UNCHANGED <<in, sys, g, data, h3, headers, result>>

Next == Check \/ Open \/ WriteGroup \/ WriteDiscHeader \/ WritePartitionHeader \/ Fail

Spec == Init /\ [][Next]_vars

-----------------------------------------------------------------------------
\* Reading the disc back, from nothing but what is in the file.

DataStart == 4 * headers.disc.partition + 4 * headers.partition.data

\* The logical bytes from off on.
Read(off, n) ==
    [i \in 1 .. n |->
        LET l == off + i - 1
            at == DataStart + (l \div ClusterData) * Sector
        IN IF at \in DOMAIN data THEN data[at][(l % ClusterData) + 1] ELSE Zero]

PointersLead ==
    /\ Read(0, BootLen) = Object("boot", BootLen)
    /\ Read(BootLen, in.apploader) = Object("apploader", in.apploader)
    /\ Read(4 * sys.boot.dol, in.dol) = Object("dol", in.dol)
    /\ Read(4 * sys.boot.fst, 4 * sys.boot.fstLen) = Object("fst", FstLen)
    /\ sys.fst.size = in.iso
    /\ Read(4 * sys.fst.off, sys.fst.size) = Object("iso", in.iso)

\* Each digest is of the group as the file holds it, and no cluster is without one.
HashesAgree ==
    LET Stored(a) == IF a \in DOMAIN data THEN data[a] ELSE Empty
    IN /\ \A n \in DOMAIN h3 : \A k \in 0 .. GroupClusters - 1 :
              h3[n][k] = Stored(DataStart + (n * GroupClusters + k) * Sector)
       /\ \A a \in DOMAIN data : (a - DataStart) \div (GroupClusters * Sector) \in DOMAIN h3
       /\ Cardinality(DOMAIN h3) <= MaxH3Groups
       /\ headers.partition.tmd.hash = headers.partition.h3

\* What the caller is told of the disc is what the disc says of itself.
ResultAgrees ==
    /\ result.h3 = headers.partition.h3
    /\ result.tmd = headers.partition.tmd /\ result.ticket = headers.partition.ticket
    /\ result.ticket.titleId = result.tmd.titleId
    /\ result.dataStart = DataStart
    /\ result.discSize = DataStart + 4 * headers.partition.dataSize
    /\ \A a \in DOMAIN data : a >= DataStart /\ a + Sector <= result.discSize

\* A disc that author_gc_disc returns can be followed from its first header to the last byte of
\* the image: boot.bin, the apploader, main.dol, the FST and game.iso are each where the stored
\* field says, whole, and the hash tree, the TMD and the plan for build_nfs speak of those bytes.
DiscReadsBack == pc = "done" => PointersLead /\ HashesAgree /\ ResultAgrees

\* The comment on u32_field: behind the checks of author_gc_disc no field is too small.  A disc is
\* refused for its image, for its certificates or for what the H3 table covers, and only then.
RefusedOnlyOverLimit ==
    pc = "refused" =>
        \/ in.iso > FieldMax
        \/ in.certs > CertRoom
        \/ sys.isoOff + in.iso > MaxLogicalSize
=============================================================================
