----------------------------- MODULE MCNfsBuild -----------------------------
(***************************************************************************)
(* Instances of NfsBuild.  A partition of 11 clusters in groups of two:    *)
(* five whole groups and a final partial one, behind a two-sector header   *)
(* at sector 10.                                                           *)
(***************************************************************************)
EXTENDS NfsBuild

E(o, n) == [off |-> o, len |-> n]
NoExtent == E(0, 0)

Base(size, dol, files, zero, edits, offs, skip, trim) ==
    [authored |-> FALSE, start |-> 10, data |-> 12, end |-> 23, size |-> size,
     boot |-> E(0, 1), dol |-> dol, fst |-> E(1, 1), files |-> files,
     zero |-> zero, edits |-> edits, tmdOff |-> offs[1], h3Off |-> offs[2], skip |-> skip,
     trim |-> trim]

BigFile == E(5, 12)  \* contains groups 2 and 3 whole; touches 1 and 4
MidFile == E(5, 8)   \* contains group 2 whole; touches 1 and 3
Files   == {E(9, 2), E(13, 2), E(17, 3), E(21, 1), E(20, 3), NoExtent}
Edit(o, n, v) == [off |-> o, len |-> n, val |-> v]

\* The DOL in one group or across two, with no edit, one that crosses a group boundary,
\* two that overlap, and one in the tail the trimmed file may alias.
DolsAndEdits ==
    {<<E(2, 1), <<>>>>,
     <<E(2, 4), <<Edit(3, 2, -11)>>>>,
     <<E(2, 4), <<Edit(2, 2, -11), Edit(3, 2, -12)>>>>,
     <<E(13, 4), <<Edit(15, 2, -11)>>>>,
     <<E(20, 2), <<Edit(21, 1, -11)>>>>}

\* The TMD and the H3 table of a partition header that ends at slot 36: both inside, the table
\* past its end, and the content hash of the TMD past it.
Offsets == {<<31, 33>>, <<31, 34>>, <<35, 33>>}

WiiDiscs ==
    {Base(size, de[1], {f, g}, zero, de[2], offs, skip, trim) :
        size \in {21, 23}, de \in DolsAndEdits, f \in Files, g \in Files \cup {BigFile, MidFile},
        zero \in {{}, LogicalBytes(BigFile), LogicalBytes(MidFile)}, offs \in Offsets,
        skip \in BOOLEAN, trim \in BOOLEAN}

\* A partition whose header claims to end where it begins.
HeaderlessDiscs ==
    {[Base(23, E(2, 1), {E(9, 2)}, {}, <<>>, <<36, 38>>, skip, FALSE) EXCEPT !.start = 12] :
        skip \in BOOLEAN}

AuthoredDiscs ==
    {[Base(end, NoExtent, {E(0, 2 * (end - 12))}, {}, <<>>, <<31, 33>>, TRUE, FALSE) EXCEPT
        !.authored = TRUE, !.end = end] : end \in 14 .. 23}

MCDiscs == WiiDiscs \cup HeaderlessDiscs \cup AuthoredDiscs
=============================================================================
