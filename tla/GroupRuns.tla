------------------------------ MODULE GroupRuns ------------------------------
(***************************************************************************)
(* Which 64-cluster hash groups of the data partition an inject stores:    *)
(* the pure planning functions of crates/core/src/input.rs, in logical     *)
(* (hash-stripped) bytes.  Extents are records [off, len]; runs are        *)
(* records [first, num] in hash groups.  The layout numbers are constants  *)
(* so that instances can be small; the code has SectorsPerGroup = 64 and   *)
(* ClusterData = 0x7C00.                                                   *)
(***************************************************************************)
EXTENDS Integers, SequencesExt, FiniteSetsExt

CONSTANTS SectorsPerGroup, \* clusters per hash group
          ClusterData      \* logical bytes per cluster

ASSUME LayoutAssumption ==
    SectorsPerGroup \in Nat \ {0} /\ ClusterData \in Nat \ {0}

GroupBytes == SectorsPerGroup * ClusterData

CeilDiv(a, b) == (a + b - 1) \div b

NumGroups(clusters) == CeilDiv(clusters, SectorsPerGroup)

\* extent_groups fails on an extent past the data region, unless it is empty.
InBounds(e, clusters) == e.len = 0 \/ e.off + e.len <= clusters * ClusterData

GroupOfByte(b) == (b \div ClusterData) \div SectorsPerGroup

\* The groups a (possibly empty) extent touches.
ExtentGroups(e) ==
    IF e.len = 0 THEN {}
    ELSE GroupOfByte(e.off) .. GroupOfByte(e.off + e.len - 1)

FullyContainedGroups(e) ==
    CeilDiv(e.off, GroupBytes) .. ((e.off + e.len) \div GroupBytes - 1)

\* The groups trimming drops for a wholly-zero file; files below two groups are left alone.
MinZeroFileGroups == 2

\* Mutant: boundary groups are dropped too.
ZeroTrimTouched(e) ==
    IF e.len < MinZeroFileGroups * GroupBytes THEN {} ELSE ExtentGroups(e)

ZeroTrimGroups(e) ==
    IF e.len < MinZeroFileGroups * GroupBytes THEN {} ELSE FullyContainedGroups(e)

UsedGroups(extents, clusters, skipGaps, zeroExtents) ==
    LET marked == IF skipGaps THEN UNION {ExtentGroups(e) : e \in extents}
                              ELSE 0 .. (NumGroups(clusters) - 1)
    IN marked \ UNION {ZeroTrimGroups(e) : e \in zeroExtents}

\* The members of S, each behind those that come before it.
Ordered(S, before(_, _)) ==
    [i \in 1 .. Cardinality(S) |->
        CHOOSE x \in S : Cardinality({y \in S : before(y, x)}) = i - 1]

\* The last group of the interval that g begins.
LastFrom(groups, g) ==
    CHOOSE h \in groups : h >= g /\ h + 1 \notin groups /\ \A k \in g .. h : k \in groups

\* Maximal intervals of a set of groups, ascending: the coalescing loop.
Coalesce(groups) ==
    LET starts == Ordered({g \in groups : (g - 1) \notin groups}, <)
    IN [i \in DOMAIN starts |->
           [first |-> starts[i], num |-> LastFrom(groups, starts[i]) + 1 - starts[i]]]

PlanGroupRuns(extents, clusters, skipGaps, zeroExtents) ==
    Coalesce(UsedGroups(extents, clusters, skipGaps, zeroExtents))
=============================================================================
