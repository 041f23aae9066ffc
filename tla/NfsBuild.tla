------------------------------ MODULE NfsBuild ------------------------------
(***************************************************************************)
(* Planning a Wii disc and encoding it as the sparse NFS image the title   *)
(* mounts: crates/core/src/disc_patch.rs (plan_disc) and nfs/mod.rs        *)
(* (plan_ranges, verify_patches_contained, build_nfs, write_partition).    *)
(*                                                                         *)
(* A sector is SectorSlots slots, of which a data cluster's first          *)
(* HashSlots hold its hash block; one slot stands for a run of bytes that  *)
(* are always patched together.  A slot's value is an integer:             *)
(*      0       zero                                                       *)
(*      v > 0   what the source disc holds at (absolute) slot v - 1        *)
(*      v < 0   the bytes of patch v, or RebuiltHash                       *)
(* Encryption is per sector, with the logical sector as IV, and neither    *)
(* moves nor mixes sectors; it is left out.  The files hif_NNNNNN.nfs are  *)
(* one stream here: SplitWriter says how it is cut.                        *)
(***************************************************************************)
EXTENDS GroupRuns, FiniteSets

CONSTANTS SectorSlots, \* slots per sector
          HashSlots,   \* of these, the hash block of a data cluster
          H3Slots,     \* slots of the H3 table
          MaxRanges,   \* LBA ranges an EGGS header holds (61 in the code)
          MaxH3Groups, \* groups an H3 table describes (4915 in the code)
          Discs        \* the inputs enumerated

ASSUME NfsLayoutAssumption ==
    /\ SectorSlots = HashSlots + ClusterData /\ HashSlots \in Nat \ {0}
    /\ H3Slots \in Nat /\ MaxH3Groups \in Nat
    /\ MaxRanges \in Nat /\ MaxRanges > 3 \* those every image has, and one for its groups

RebuiltHash == -1  \* a hash block recomputed by recompute_group
TicketSig   == -2  \* the header and disc-level patches, in the order they are pushed
TmdSig      == -3
TmdHash     == -4
H3Table     == -5
TableGroups == -6
TableInfo   == -7
AgeRatings  == -8

VARIABLES
    disc,    \* the source disc, with the options of the build
    pc,      \* "plan", "ranges", "verify", "write", "done", "error"
    plan,    \* DiscPlan of plan_disc, for its single partition
    runs,    \* the group runs after plan_ranges
    ranges,  \* the EGGS range table
    turn,    \* which range of the pass is written: one of the disc header, or a group run
    next,    \* how many sectors, or groups, of it are written
    stream,  \* the sectors written after the header, in order
    h3       \* H3Check.mismatched

vars == <<disc, pc, plan, runs, ranges, turn, next, stream, h3>>

(***************************************************************************)
(* The source disc; authored is whether author_gc_disc made it.            *)
(* start <= data <= end are the partition's sectors (PartitionSpan);       *)
(* boot, dol, fst and files are logical extents of the data partition;     *)
(* zero is the set of logical bytes that are zero; edits are the patches   *)
(* find_dol_edits made, inside the DOL; tmdOff and h3Off are the absolute  *)
(* slots of the TMD and of the H3 table, which the partition header names  *)
(* (so a corrupt header may name any); size is the length of the image in  *)
(* sectors.                                                                *)
(***************************************************************************)
Clusters(d)   == d.end - d.data
DataExtents(d) == {d.boot, d.dol, d.fst} \cup d.files

\* A partition lies behind the tables of the disc header, its span ordered (PartitionSpan);
\* the disc that author_gc_disc makes has a header, data and files within it.
ASSUME DiscsAssumption ==
    \A d \in Discs :
        /\ {d.start, d.data, d.end, d.size, d.tmdOff, d.h3Off} \subseteq Nat
        /\ 10 <= d.start /\ d.start <= d.data /\ d.data <= d.end
        /\ IsFiniteSet(d.files) /\ \A e \in DataExtents(d) : e.off \in Nat /\ e.len \in Nat
        /\ d.edits \in Seq([off : Nat, len : Nat, val : Int])
        /\ d.authored => /\ d.start < d.data /\ d.data < d.end
                         /\ \A e \in DataExtents(d) : InBounds(e, Clusters(d))

\* The absolute slot of logical byte l of the partition data.
SlotOf(d, l) == (d.data + (l \div ClusterData)) * SectorSlots + HashSlots + (l % ClusterData)

LogicalBytes(e) == e.off .. (e.off + e.len - 1)

\* What the decrypted disc stream yields at an absolute slot: build_nfs pads past the end.
SourceSlot(d, x) ==
    IF x >= d.size * SectorSlots \/ \E l \in d.zero : SlotOf(d, l) = x THEN 0 ELSE x + 1

IsZero(d, e) == LogicalBytes(e) \subseteq d.zero

(***************************************************************************)
(* Overlaying patches: records [off, len, val], in absolute slots for the  *)
(* disc and header patches and in logical bytes for the edits.  Later      *)
(* patches win, as later splices do.                                       *)
(***************************************************************************)
Covers(p, x) == p.off <= x /\ x < p.off + p.len

PatchedAt(patches, x, old) ==
    LET hits == {i \in DOMAIN patches : Covers(patches[i], x)}
    IN IF hits = {} THEN old ELSE patches[Max(hits)].val

Splice(d, s, patches) ==
    [i \in 0 .. (SectorSlots - 1) |->
        PatchedAt(patches, s * SectorSlots + i, SourceSlot(d, s * SectorSlots + i))]

\* The 64 clusters of group g after apply_edits_to_group, zero past the partition end, as
\* the function of logical bytes that recompute_group hashes.  The H3 of a group is a
\* collision-free hash of it: the model uses the data itself.
GroupData(d, g, edits) ==
    [l \in (g * GroupBytes) .. ((g + 1) * GroupBytes - 1) |->
        LET v == IF l < Clusters(d) * ClusterData THEN SourceSlot(d, SlotOf(d, l)) ELSE 0
        IN PatchedAt(edits, l, v)]

(***************************************************************************)
(* plan_disc.                                                              *)
(***************************************************************************)
\* Mutant: only the first group of an edit is rehashed.
EditedGroupsFirst(edits) ==
    {GroupOfByte(edits[i].off) : i \in {j \in DOMAIN edits : edits[j].len > 0}}
EditedGroups(edits) == UNION {ExtentGroups(edits[i]) : i \in DOMAIN edits}

\* The H3 table found on the source disc: right for every whole group the image holds.
\* For a final partial group it is whatever the mastering tool put there.
WholeGroup(d, g) == (g + 1) * SectorsPerGroup <= Clusters(d)
Mastered == <<>>

SourceH3(d) ==
    [g \in 0 .. (NumGroups(Clusters(d)) - 1) |->
        IF WholeGroup(d, g) /\ d.data + (g + 1) * SectorsPerGroup <= d.size
        THEN GroupData(d, g, <<>>) ELSE Mastered]

PlannedH3(d) ==
    [g \in DOMAIN SourceH3(d) |->
        IF g \in EditedGroups(d.edits) THEN GroupData(d, g, d.edits) ELSE SourceH3(d)[g]]

HeaderPatches(d) ==
    << [off |-> d.start * SectorSlots, len |-> 1,       val |-> TicketSig],
       [off |-> d.tmdOff,              len |-> 1,       val |-> TmdSig],
       [off |-> d.tmdOff + 1,          len |-> 1,       val |-> TmdHash],
       [off |-> d.h3Off,               len |-> H3Slots, val |-> H3Table] >>

\* partition_table_patches: the group and info tables in sector 8, the ratings in sector 9.
DiscPatches ==
    << [off |-> 8 * SectorSlots,     len |-> 1, val |-> TableGroups],
       [off |-> 8 * SectorSlots + 1, len |-> 1, val |-> TableInfo],
       [off |-> 9 * SectorSlots,     len |-> 1, val |-> AgeRatings] >>

\* The clusters plan_disc reads to rehash an edited group; the read does not pad.
RehashReadable(d) ==
    \A g \in EditedGroups(d.edits) :
        \A c \in (g * SectorsPerGroup) .. ((g + 1) * SectorsPerGroup - 1) :
            c < Clusters(d) => d.data + c < d.size

\* region_is_zero is asked only of the files worth trimming, and only with --trim-zeros.
ZeroExtents(d) ==
    IF d.trim THEN {e \in d.files : ZeroTrimGroups(e) # {} /\ IsZero(d, e)} ELSE {}

PlanAccepts(d) ==
    /\ \A e \in DataExtents(d) : InBounds(e, Clusters(d))
    /\ RehashReadable(d)
    /\ \A g \in EditedGroups(d.edits) : g < MaxH3Groups

DiscPlan(d) ==
    [headerPatches |-> HeaderPatches(d), discPatches |-> DiscPatches, edits |-> d.edits,
     h3 |-> PlannedH3(d),
     stored |-> PlanGroupRuns(DataExtents(d), Clusters(d), d.skip, ZeroExtents(d))]

\* The plan of author_gc_disc: nothing to patch, every group stored (StoredGroups::All),
\* the H3 table computed over the zero-padded groups.
AuthoredPlan(d) ==
    LET n == NumGroups(Clusters(d))
    IN [headerPatches |-> <<>>, discPatches |-> <<>>, edits |-> <<>>,
        h3 |-> [g \in 0 .. (n - 1) |-> GroupData(d, g, <<>>)],
        stored |-> <<[first |-> 0, num |-> n]>>]

(***************************************************************************)
(* plan_ranges.                                                            *)
(***************************************************************************)
EndOf(run) == run.first + run.num

\* The gaps between consecutive runs, <<length, index of the run before>>, in the order op.
Gaps(rs, op(_, _)) ==
    Ordered({<<rs[i + 1].first - EndOf(rs[i]), i>> : i \in 1 .. (Len(rs) - 1)}, op)

\* Fuse the runs on either side of the first count of those gaps.
MergeGaps(rs, count, gaps) ==
    LET merged == {gaps[k][2] : k \in 1 .. Min({count, Len(gaps)})}
        starts == Ordered({i \in DOMAIN rs : (i - 1) \notin merged}, <)
        LastOf(k) == IF k = Len(starts) THEN Len(rs) ELSE starts[k + 1] - 1
    IN [k \in DOMAIN starts |->
           [first |-> rs[starts[k]].first, num |-> EndOf(rs[LastOf(k)]) - rs[starts[k]].first]]

\* Mutant: the gaps are taken from the front of the disc.
MergeFirstGaps(rs, count) == MergeGaps(rs, count, Gaps(rs, LAMBDA a, b : a[2] < b[2]))

\* Shortest gaps first, ties to the earlier one; rs is ascending, as the planner makes it.
SmallerGap(a, b) == a[1] < b[1] \/ (a[1] = b[1] /\ a[2] < b[2])
MergeSmallestGaps(rs, count) == MergeGaps(rs, count, Gaps(rs, SmallerGap))

DiscHeaderRanges == << [start |-> 0, num |-> 1], [start |-> 8, num |-> 2] >>

\* A group run in sectors, clamped to the partition: its last group may be partial.
RunRange(d, run) ==
    LET first == Min({run.first * SectorsPerGroup, Clusters(d)})
        last  == Min({EndOf(run) * SectorsPerGroup, Clusters(d)})
    IN [start |-> d.data + first, num |-> last - first]

\* Mutant: the slot of the partition header is forgotten.
FixedRangesDiscOnly == Len(DiscHeaderRanges)

\* The disc-level ranges and the partition header take slots of the table too.
FixedRanges == Len(DiscHeaderRanges) + 1

FitRuns(stored) ==
    IF FixedRanges + Len(stored) > MaxRanges
    THEN MergeSmallestGaps(stored, FixedRanges + Len(stored) - MaxRanges)
    ELSE stored

RangeTable(d, rs) ==
    DiscHeaderRanges \o << [start |-> d.start, num |-> d.data - d.start] >>
      \o [k \in DOMAIN rs |-> RunRange(d, rs[k])]

(***************************************************************************)
(* verify_patches_contained.                                               *)
(***************************************************************************)
\* Mutant: only the start of a patch is checked.
StartsWithin(p, lo, hi) == lo <= p.off /\ p.off < hi

Within(p, lo, hi) == lo <= p.off /\ p.off + p.len <= hi

StoredGroup(rs, g) == \E k \in DOMAIN rs : rs[k].first <= g /\ g < EndOf(rs[k])

PatchesContained(d, p, rs) ==
    /\ \A i \in DOMAIN p.discPatches : p.discPatches[i].len > 0 =>
          \E k \in DOMAIN DiscHeaderRanges :
             LET r == DiscHeaderRanges[k] IN
             Within(p.discPatches[i], r.start * SectorSlots, (r.start + r.num) * SectorSlots)
    /\ \A i \in DOMAIN p.headerPatches : p.headerPatches[i].len > 0 =>
          Within(p.headerPatches[i], d.start * SectorSlots, d.data * SectorSlots)
    /\ \A i \in DOMAIN p.edits : \A g \in ExtentGroups(p.edits[i]) : StoredGroup(rs, g)

-----------------------------------------------------------------------------
NoPlan == [headerPatches |-> <<>>, discPatches |-> <<>>, edits |-> <<>>, h3 |-> <<>>,
           stored |-> <<>>]

Init ==
    /\ disc \in Discs
    /\ pc = "plan"
    /\ plan = NoPlan
    /\ runs = <<>> /\ ranges = <<>>
    /\ turn = 1 /\ next = 0 /\ stream = <<>> /\ h3 = 0

Fail == pc' = "error"

PlanDisc ==
    /\ pc = "plan" /\ ~disc.authored
    /\ IF PlanAccepts(disc)
       THEN pc' = "ranges" /\ plan' = DiscPlan(disc)
       ELSE Fail /\ UNCHANGED plan
    /\ UNCHANGED <<disc, runs, ranges, turn, next, stream, h3>>

AuthorDisc ==
    /\ pc = "plan" /\ disc.authored
    /\ pc' = "ranges" /\ plan' = AuthoredPlan(disc)
    /\ UNCHANGED <<disc, runs, ranges, turn, next, stream, h3>>

\* group_runs rejects a plan that stores nothing.
PlanRanges ==
    /\ pc = "ranges"
    /\ IF plan.stored = <<>>
       THEN Fail /\ UNCHANGED <<runs, ranges>>
       ELSE /\ runs' = FitRuns(plan.stored)
            /\ ranges' = RangeTable(disc, runs')
            /\ pc' = "verify"
    /\ UNCHANGED <<disc, plan, turn, next, stream, h3>>

\* verify_patches_contained, EggsHeader::new, and the header is written.
WriteHeader ==
    /\ pc = "verify"
    /\ IF PatchesContained(disc, plan, runs) /\ Len(ranges) <= MaxRanges
       THEN pc' = "disc" ELSE Fail
    /\ UNCHANGED <<disc, plan, runs, ranges, turn, next, stream, h3>>

Emit(sectors) == stream' = stream \o sectors

\* Go on within a range of n items, to the next of the pass's count ranges, or to the pass
\* after it.
Advance(n, count, then) ==
    IF next + 1 < n THEN next' = next + 1 /\ UNCHANGED <<turn, pc>>
    ELSE /\ next' = 0
         /\ IF turn < count THEN turn' = turn + 1 /\ UNCHANGED pc ELSE turn' = 1 /\ pc' = then

WriteDiscSector ==
    /\ pc = "disc"
    /\ LET r == DiscHeaderRanges[turn] IN
       /\ Emit(<<Splice(disc, r.start + next, plan.discPatches)>>)
       /\ Advance(r.num, Len(DiscHeaderRanges), "header")
    /\ UNCHANGED <<disc, plan, runs, ranges, h3>>

WriteHeaderSector ==
    /\ pc = "header"
    /\ Emit(<<Splice(disc, disc.start + next, plan.headerPatches)>>)
    /\ Advance(disc.data - disc.start, 1, "groups")
    /\ UNCHANGED <<disc, plan, runs, ranges, h3>>

\* The clusters of group g inside the partition, rebuilt around the group's data.
Clustered(d, g, data) ==
    LET first == g * SectorsPerGroup
        last == Min({(g + 1) * SectorsPerGroup, Clusters(d)}) - 1
    IN [k \in 1 .. (last + 1 - first) |->
           [i \in 0 .. (SectorSlots - 1) |->
               IF i < HashSlots THEN RebuiltHash
               ELSE data[(first + k - 1) * ClusterData + i - HashSlots]]]

\* One stored group: read, edit, rehash, compare whole groups with the table, and write.
WriteGroup ==
    /\ pc = "groups"
    /\ LET g == runs[turn].first + next
           data == GroupData(disc, g, plan.edits)
       IN /\ Emit(Clustered(disc, g, data))
          /\ h3' = h3 + (IF WholeGroup(disc, g) /\ g < MaxH3Groups /\ plan.h3[g] # data
                         THEN 1 ELSE 0)
    /\ Advance(runs[turn].num, Len(runs), "done")
    /\ UNCHANGED <<disc, plan, runs, ranges>>

\* A read of the source or a write of a hif file fails.
IoFails ==
    /\ pc \in {"disc", "header", "groups"}
    /\ Fail
    /\ UNCHANGED <<disc, plan, runs, ranges, turn, next, stream, h3>>

Next == \/ PlanDisc \/ AuthorDisc \/ PlanRanges \/ WriteHeader
        \/ WriteDiscSector \/ WriteHeaderSector \/ WriteGroup \/ IoFails

Spec == Init /\ [][Next]_vars

-----------------------------------------------------------------------------
(***************************************************************************)
(* The mounted disc: the NFS reader (nod, and fw.img on the console) maps  *)
(* a sector to its place in the stream through the range table, and reads  *)
(* zeros outside it.                                                       *)
(***************************************************************************)
\* How many sectors of the stream are in front of each range, and behind the last.
StreamStarts(rs) ==
    LET at[k \in 1 .. Len(rs) + 1] == IF k = 1 THEN 0 ELSE at[k - 1] + rs[k - 1].num IN at

StartsAt(k) == StreamStarts(ranges)[k]

Mounted(x) ==
    LET s == x \div SectorSlots
        hit == {k \in DOMAIN ranges : ranges[k].start <= s /\ s < ranges[k].start + ranges[k].num}
    IN IF hit = {} THEN 0
       ELSE LET k == Min(hit)
            IN stream[StartsAt(k) + s - ranges[k].start + 1][x % SectorSlots]

\* The title sees, at its original offset, every file and boot structure of the source disc
\* with the main.dol edits applied: stored groups through the range table, skipped gaps not
\* needed, trimmed groups as the zeros the source has there (used_data_group_runs).
FilesMountIntact ==
    pc = "done" =>
        \A e \in DataExtents(disc) : \A l \in LogicalBytes(e) :
            Mounted(SlotOf(disc, l)) = PatchedAt(plan.edits, l, SourceSlot(disc, SlotOf(disc, l)))

\* No planned patch of the disc header or the partition header is silently dropped, cut or
\* misplaced by a build that succeeds (verify_patches_contained and splice).
NoPatchDropped ==
    pc = "done" =>
        \A ps \in {plan.discPatches, plan.headerPatches} : \A i \in DOMAIN ps :
            \A x \in ps[i].off .. (ps[i].off + ps[i].len - 1) :
                Mounted(x) = PatchedAt(ps, x, 0)

\* The header is written before any data: its table fits the EGGS header whatever the FST, its
\* ranges are ascending, disjoint and not empty, and what the passes then write is exactly the
\* sectors it promised, however runs were merged and clamped (plan_ranges, build_nfs).
StreamFillsRanges ==
    /\ Len(ranges) <= MaxRanges
    /\ pc \in {"disc", "header", "groups", "done"} =>
        /\ \A k \in DOMAIN ranges : ranges[k].num > 0
        /\ \A k \in 1 .. (Len(ranges) - 1) :
              ranges[k].start + ranges[k].num <= ranges[k + 1].start
    /\ pc \in {"disc", "header", "groups"} => Len(stream) < StartsAt(Len(ranges) + 1)
    /\ pc = "done" => Len(stream) = StartsAt(Len(ranges) + 1)

\* Merging gaps stores as few extra groups as any choice of groups that covers what is used
\* and fits the table (merge_smallest_gaps: the cheapest merges can be picked up front).
MergeIsCheapest ==
    pc = "verify" =>
        LET all == 0 .. (NumGroups(Clusters(disc)) - 1)
            Groups(rs) == UNION {rs[k].first .. (EndOf(rs[k]) - 1) : k \in DOMAIN rs}
        IN \A T \in SUBSET all :
              (Groups(plan.stored) \subseteq T /\ FixedRanges + Len(Coalesce(T)) <= MaxRanges)
                 => Cardinality(Groups(runs)) <= Cardinality(T)

\* The H3 table a plan ships describes the data build_nfs writes under it, edits included,
\* whenever the image holds the whole partition (NfsStats.h3_mismatches is zero for every
\* well-formed plan).
H3TableAgrees == disc.size >= disc.end => h3 = 0
=============================================================================
