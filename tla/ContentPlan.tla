----------------------------- MODULE ContentPlan -----------------------------
(***************************************************************************)
(* The layout of a WUP package and its inverse: content::plan turns a      *)
(* staged title directory into contents and a file system table (FST),     *)
(* and extract::extract_title turns contents and FST back into files       *)
(* (crates/core/src/package/{content,fst,extract}.rs).                     *)
(*                                                                         *)
(* A path is a sequence of names, the byte k of a file is the pair of its  *)
(* path and k, and a content damaged on its way to the extraction is one   *)
(* whose hash is not the one in the TMD.  Owner, group and flag fields     *)
(* are left out.  Offsets and sizes of files are cut to 32 bits in the     *)
(* FST; the narrower fields are taken for wide enough: the index of a      *)
(* content (16 bits) and where a name is in the name table (24 bits).      *)
(***************************************************************************)
EXTENDS Naturals, FiniteSets, SequencesExt

CONSTANTS Trees,     \* staged directories: [sizes |-> sizes of the files, dirs |-> directories]
          NameOrder, \* the names in case-insensitive order
          HifNames,  \* names of the form hif_*.nfs
          ExecNames, \* names of the form *.rpx or *.rpl
          Factor,    \* OFFSET_FACTOR
          Cap,       \* MAX_GAME_CONTENT_BYTES
          Sector,    \* SECTOR
          Word       \* values of a 32-bit field

ASSUME PlanAssumption ==
    /\ NameOrder \in Seq(STRING)
    /\ Factor \in Nat \ {0} /\ Sector \in Nat \ {0}
    /\ Cap \in Nat /\ Word \in Nat /\ Cap < Word
    /\ {"code", "content", "meta"} \subseteq ToSet(NameOrder)
    /\ HifNames \cup ExecNames \subseteq ToSet(NameOrder)

\* A path starts with code, content or meta, which are directories of the staged title.
IsPath(p) == p \in Seq(ToSet(NameOrder)) /\ Len(p) > 0 /\ p[1] \in {"code", "content", "meta"}

\* Above each entry there are directories. No directory is called like a hif file: the split
\* writer gives files those names, and no base title has such a directory.
ASSUME TreesAssumption ==
    \A t \in Trees :
        /\ IsFiniteSet(t.dirs) /\ IsFiniteSet(DOMAIN t.sizes)
        /\ t.dirs \cap DOMAIN t.sizes = {}
        /\ \A p \in t.dirs : IsPath(p) /\ Last(p) \notin HifNames
        /\ \A p \in DOMAIN t.sizes : IsPath(p) /\ Len(p) > 1 /\ t.sizes[p] \in Nat
        /\ \A p \in t.dirs \cup DOMAIN t.sizes : Len(p) > 1 => Front(p) \in t.dirs

VARIABLES
    tree,      \* the staged title
    pc,        \* the loop the program is in
    pos,       \* what that loop takes next
    contents,  \* PackagePlan.contents; content i is contents[i + 1]
    clusterOf, \* cluster_of: file -> index of its content
    group,     \* GameGrouping: the content being filled, 0 for none, and the room taken in it
    nodes,     \* the nodes of the FST; node number i is nodes[i + 1]
    cursor,    \* cursor_sectors
    table,     \* the content table of the FST
    damaged,   \* indices of the contents that reach the extraction damaged
    skip,      \* whether extract_title is to skip the hif files
    stack,     \* node_paths: the directories open
    paths,     \* node_paths: the paths of the first nodes
    decoded,   \* decoded_cache: indices of the contents decoded
    out        \* what was extracted: directories, and files with their bytes

plan == <<contents, clusterOf, group, nodes, cursor, table>>
extraction == <<damaged, skip, stack, paths, decoded, out>>
vars == <<tree, pc, pos, plan, extraction>>

Files == DOMAIN tree.sizes
Under(top) == {p \in Files : p[1] = top}
Directly(top) == {p \in Under(top) : Len(p) = 2}
AlignUp(n, a) == ((n + a - 1) \div a) * a

Rank(n) == CHOOSE i \in DOMAIN NameOrder : NameOrder[i] = n

\* The key of read_dir_hif_first.
NameBefore(m, n) ==
    IF (m \in HifNames) = (n \in HifNames) THEN Rank(m) < Rank(n) ELSE m \in HifNames

\* Depth first, each directory in the order of read_dir_hif_first and before what it holds.
Before(p, q) ==
    \/ IsStrictPrefix(p, q)
    \/ \E i \in DOMAIN p \cap DOMAIN q :
         NameBefore(p[i], q[i]) /\ \A j \in 1 .. i - 1 : p[j] = q[j]

Sorted(S, before(_, _)) ==
    [i \in 1 .. Cardinality(S) |->
        CHOOSE p \in S : Cardinality({q \in S : before(q, p)}) = i - 1]

-----------------------------------------------------------------------------
\* Allocation of the contents, in install order.
NewContent(isHashed, isGame) ==
    [hashed |-> isHashed, game |-> isGame, files |-> <<>>, len |-> 0]

Init ==
    /\ tree \in Trees
    /\ pc = "alloc" /\ pos = 1
    /\ contents = <<NewContent(FALSE, FALSE)>>
    /\ clusterOf = <<>> /\ group = [current |-> 0, size |-> 0]
    /\ nodes = <<>> /\ cursor = 0 /\ table = <<>>
    /\ damaged = {} /\ skip = FALSE
    /\ stack = <<>> /\ paths = <<>> /\ decoded = {}
    /\ out = [dirs |-> {}, files |-> <<>>]

Extended(f, S, val) == [p \in DOMAIN f \cup S |-> IF p \in S THEN val ELSE f[p]]

CodeFile(n) == <<"code", n>>
MetaFile(n) == <<"meta", n>>
CodeSingles == {CodeFile("app.xml"), CodeFile("cos.xml")}
BootBundle == {MetaFile(n) : n \in {"iconTex.tga", "bootTvTex.tga", "bootDrcTex.tga",
                                    "bootSound.btsnd"}}
MetaSingles == {MetaFile("bootMovie.h264"), MetaFile("bootLogoTex.tga")}
Leftover == Directly("meta") \ ({MetaFile("meta.xml")} \cup BootBundle \cup MetaSingles)

\* .rpx and .rpl first, each file in a content of its own.
ExecFirst(p, q) ==
    IF (p[2] \in ExecNames) = (q[2] \in ExecNames) THEN Rank(p[2]) < Rank(q[2])
                                                   ELSE p[2] \in ExecNames

RestOfCode == Sorted(Directly("code") \ CodeSingles, ExecFirst)

\* The files that share a content, in the order of the contents; not the game's.
Groups ==
    << [files |-> {CodeFile("app.xml")}, hashed |-> FALSE],
       [files |-> {CodeFile("cos.xml")}, hashed |-> FALSE],
       [files |-> {MetaFile("meta.xml")}, hashed |-> TRUE],
       [files |-> BootBundle, hashed |-> TRUE],
       [files |-> {MetaFile("bootMovie.h264")}, hashed |-> TRUE],
       [files |-> {MetaFile("bootLogoTex.tga")}, hashed |-> TRUE],
       [files |-> Leftover, hashed |-> TRUE] >>
    \o [i \in DOMAIN RestOfCode |-> [files |-> {RestOfCode[i]}, hashed |-> FALSE]]

\* One content for a group that has a staged file.
AllocGroup ==
    /\ pc = "alloc" /\ pos <= Len(Groups)
    /\ LET files == Groups[pos].files \cap Files IN
       IF files = {} THEN UNCHANGED <<contents, clusterOf>>
       ELSE /\ contents' = Append(contents, NewContent(Groups[pos].hashed, FALSE))
            /\ clusterOf' = Extended(clusterOf, files, Len(contents))
    /\ pos' = pos + 1
    /\ UNCHANGED <<tree, pc, group, nodes, cursor, table, extraction>>

AllocDone ==
    /\ pc = "alloc" /\ pos > Len(Groups)
    /\ pc' = "game" /\ pos' = 1
    /\ UNCHANGED <<tree, plan, extraction>>

-----------------------------------------------------------------------------
\* GameGrouping: content/ packed into few contents of at most Cap bytes.
GameFiles == Sorted(Under("content"), Before)

Placed(p) == AlignUp(tree.sizes[p], Factor)

\* Mutant: a content filled to the last byte is taken for too full.
JoinsStrictly(p) == group.current # 0 /\ group.size + Placed(p) < Cap

Joins(p) == group.current # 0 /\ group.size + Placed(p) <= Cap

AllocGame ==
    /\ pc = "game" /\ pos <= Len(GameFiles)
    /\ LET p == GameFiles[pos] IN
       /\ Placed(p) <= Cap
       /\ \/ /\ Joins(p)
             /\ group' = [group EXCEPT !.size = @ + Placed(p)]
             /\ UNCHANGED contents
          \/ /\ ~ Joins(p)
             /\ group' = [current |-> Len(contents), size |-> Placed(p)]
             /\ contents' = Append(contents, NewContent(TRUE, TRUE))
       /\ clusterOf' = Extended(clusterOf, {p}, group'.current)
    /\ pos' = pos + 1
    /\ UNCHANGED <<tree, pc, nodes, cursor, table, extraction>>

GameTooLarge ==
    /\ pc = "game" /\ pos <= Len(GameFiles)
    /\ Placed(GameFiles[pos]) > Cap
    /\ pc' = "refused"
    /\ UNCHANGED <<tree, pos, plan, extraction>>

-----------------------------------------------------------------------------
\* The FST.  A top directory without entries is left out, an empty one below is kept.
InFst == LET all == Files \cup tree.dirs
         IN {p \in all : Len(p) > 1 \/ \E q \in all : IsStrictPrefix(p, q)}

Order == Sorted(InFst, Before)

Root == [kind |-> "dir", name |-> "", parent |-> 0, end |-> Len(Order) + 1]

BuildTree ==
    /\ pc = "game" /\ pos > Len(GameFiles)
    /\ Files \subseteq DOMAIN clusterOf
    /\ nodes' = <<Root>>
    /\ pc' = "flatten" /\ pos' = 1
    /\ UNCHANGED <<tree, contents, clusterOf, group, cursor, table, extraction>>

\* build_dir_tree meets a file below a subdirectory of code/ or meta/.
Unassigned ==
    /\ pc = "game" /\ pos > Len(GameFiles)
    /\ ~ Files \subseteq DOMAIN clusterOf
    /\ pc' = "refused"
    /\ UNCHANGED <<tree, pos, plan, extraction>>

\* Mutant: a file starts where the one before it ends.
OffsetTight(c) == c.len

Offset(c) == AlignUp(c.len, Factor)

PlaceFile(c, p) ==
    [c EXCEPT !.files = Append(@, [path |-> p, off |-> Offset(c), size |-> tree.sizes[p]]),
              !.len = Offset(c) + tree.sizes[p]]

\* A directory ends behind the last node below it.
DirNode(i) ==
    [kind |-> "dir", name |-> Last(Order[i]),
     parent |-> Max({0} \cup {j \in DOMAIN Order : Order[j] = Front(Order[i])}),
     end |-> 1 + Max({i} \cup {j \in DOMAIN Order : IsStrictPrefix(Order[i], Order[j])})]

FileNode(c, p) ==
    [kind |-> "file", name |-> Last(p), cluster |-> clusterOf[p],
     off |-> Offset(c), size |-> tree.sizes[p]]

FlattenDir ==
    /\ pc = "flatten" /\ pos <= Len(Order)
    /\ Order[pos] \notin Files
    /\ nodes' = Append(nodes, DirNode(pos))
    /\ pos' = pos + 1
    /\ UNCHANGED <<tree, pc, contents, clusterOf, group, cursor, table, extraction>>

FlattenFile ==
    /\ pc = "flatten" /\ pos <= Len(Order)
    /\ Order[pos] \in Files
    /\ LET p == Order[pos]
           i == clusterOf[p] + 1
       IN /\ nodes' = Append(nodes, FileNode(contents[i], p))
          /\ contents' = [contents EXCEPT ![i] = PlaceFile(@, p)]
    /\ pos' = pos + 1
    /\ UNCHANGED <<tree, pc, clusterOf, group, cursor, table, extraction>>

\* serialized_len: a header, and an entry for each content and each node.
SerializedLen(contentCount, nodeCount) == 1 + contentCount + nodeCount

\* Mutant: the length of the FST is the one content 0 was created with.
FstLenUnset(contentCount, nodeCount) == 0

FstLen(contentCount, nodeCount) == SerializedLen(contentCount, nodeCount)

SizeFst ==
    /\ pc = "flatten" /\ pos > Len(Order)
    /\ contents' = [contents EXCEPT ![1].len = FstLen(Len(contents), Len(nodes))]
    /\ pc' = "table" /\ pos' = 1
    /\ UNCHANGED <<tree, clusterOf, group, nodes, cursor, table, extraction>>

SectorsOf(len) == AlignUp(IF len = 0 THEN 1 ELSE len, Sector) \div Sector

TableSlot ==
    /\ pc = "table" /\ pos <= Len(contents)
    /\ LET size == SectorsOf(contents[pos].len)
       IN /\ table' = Append(table, [off |-> cursor, size |-> size])
          /\ cursor' = cursor + size
    /\ pos' = pos + 1
    /\ UNCHANGED <<tree, pc, contents, clusterOf, group, nodes, extraction>>

-----------------------------------------------------------------------------
\* The contents, encrypted, get to a later extract_title; any may be damaged on the way.
Deliver ==
    /\ pc = "table" /\ pos > Len(contents)
    /\ \E D \in {{}} \cup {{i} : i \in 0 .. Len(contents) - 1} : damaged' = D
    /\ skip' \in BOOLEAN
    /\ pc' = "parse"
    /\ UNCHANGED <<tree, pos, plan, stack, paths, decoded, out>>

\* assemble_content, and the padding the encryption adds: the last file copied over a byte is
\* the one it is of.
Padded(c) == AlignUp(c.len, Sector)
Copied(c, k) == {j \in DOMAIN c.files : k - c.files[j].off \in 1 .. c.files[j].size}
Zero == << <<>>, 0 >>
Assembled(c) ==
    [k \in 1 .. Padded(c) |->
        IF Copied(c, k) = {} THEN Zero
        ELSE LET f == c.files[Max(Copied(c, k))] IN <<f.path, k - f.off>>]

\* Mutant: what was read is not held against the TMD.
VerifiedNever(i) == TRUE

\* decode_content.
Verified(i) == i \notin damaged

ReadFst ==
    /\ pc = "parse" /\ Verified(0)
    /\ stack' = <<[end |-> nodes[1].end, path |-> <<>>]>>
    /\ paths' = << <<>> >>
    /\ pc' = "paths" /\ pos' = 2
    /\ UNCHANGED <<tree, plan, damaged, skip, decoded, out>>

\* The directories open at node number n: those that end at or before it are popped.
OpenAt(n) ==
    LET open == {k \in DOMAIN stack : n < stack[k].end}
    IN IF open = {} THEN <<>> ELSE SubSeq(stack, 1, Max(open))

NodePath ==
    /\ pc = "paths" /\ pos <= Len(nodes)
    /\ LET open == OpenAt(pos - 1)
           above == IF open = <<>> THEN <<>> ELSE Last(open).path
           path == Append(above, nodes[pos].name)
       IN /\ paths' = Append(paths, path)
          /\ stack' = IF nodes[pos].kind = "dir"
                        THEN Append(open, [end |-> nodes[pos].end, path |-> path]) ELSE open
    /\ pos' = pos + 1
    /\ UNCHANGED <<tree, pc, plan, damaged, skip, decoded, out>>

PathsDone ==
    /\ pc = "paths" /\ pos > Len(nodes)
    /\ pc' = "extract" /\ pos' = 1
    /\ UNCHANGED <<tree, plan, extraction>>

\* The bytes of a damaged content are not those that were packed.
Data(i) == IF i \in damaged THEN [k \in 1 .. Padded(contents[i + 1]) |-> Zero]
                            ELSE Assembled(contents[i + 1])

\* Fst::serialize keeps offsets in units of Factor, and of them and of sizes the low 32 bits.
Start(node) == ((node.off \div Factor) % Word) * Factor
Size(node)  == node.size % Word

Skipped(node) == skip /\ node.name \in HifNames

Readable(node) ==
    /\ node.cluster \in decoded \/ Verified(node.cluster)
    /\ Start(node) + Size(node) <= Padded(contents[node.cluster + 1])

\* One turn of extract_title's loop: the node at pos is a directory, a file to skip, or a file.
ExtractDir ==
    /\ pc = "extract" /\ pos <= Len(nodes)
    /\ nodes[pos].kind = "dir"
    /\ out' = [out EXCEPT !.dirs = IF paths[pos] = <<>> THEN @ ELSE @ \cup {paths[pos]}]
    /\ pos' = pos + 1
    /\ UNCHANGED <<tree, pc, plan, damaged, skip, stack, paths, decoded>>

SkipFile ==
    /\ pc = "extract" /\ pos <= Len(nodes)
    /\ nodes[pos].kind = "file" /\ Skipped(nodes[pos])
    /\ pos' = pos + 1
    /\ UNCHANGED <<tree, pc, plan, extraction>>

ExtractFile ==
    /\ pc = "extract" /\ pos <= Len(nodes)
    /\ LET node == nodes[pos] IN
       /\ node.kind = "file" /\ ~ Skipped(node) /\ Readable(node)
       /\ decoded' = decoded \cup {node.cluster}
       /\ LET bytes == [k \in 1 .. Size(node) |-> Data(node.cluster)[Start(node) + k]]
          IN out' = [out EXCEPT !.files = Extended(@, {paths[pos]}, bytes)]
    /\ pos' = pos + 1
    /\ UNCHANGED <<tree, pc, plan, damaged, skip, stack, paths>>

ExtractDone ==
    /\ pc = "extract" /\ pos > Len(nodes)
    /\ pc' = "done"
    /\ UNCHANGED <<tree, pos, plan, extraction>>

\* A content does not match its hash, or a file does not lie within its content.
ExtractFails ==
    /\ \/ pc = "parse" /\ ~ Verified(0)
       \/ /\ pc = "extract" /\ pos <= Len(nodes)
          /\ nodes[pos].kind = "file" /\ ~ Skipped(nodes[pos]) /\ ~ Readable(nodes[pos])
    /\ pc' = "failed"
    /\ UNCHANGED <<tree, pos, plan, extraction>>

Next == \/ AllocGroup \/ AllocDone \/ AllocGame \/ GameTooLarge \/ BuildTree \/ Unassigned
        \/ FlattenDir \/ FlattenFile \/ SizeFst \/ TableSlot
        \/ Deliver \/ ReadFst \/ NodePath \/ PathsDone
        \/ ExtractDir \/ SkipFile \/ ExtractFile \/ ExtractDone \/ ExtractFails

Spec == Init /\ [][Next]_vars

-----------------------------------------------------------------------------
Planned == pc \in {"parse", "paths", "extract", "done", "failed"}
GameContents == {i \in DOMAIN contents : contents[i].game}
Bytes(p) == [k \in 1 .. tree.sizes[p] |-> <<p, k>>]

\* A file of the game fits the fields of the FST by the cap; of another, nothing is checked.
FitsFields(p) ==
    \/ p \in Under("content")
    \/ \A f \in ToSet(contents[clusterOf[p] + 1].files) :
          f.path = p => f.off \div Factor < Word /\ f.size < Word

\* What extract_title gets out of an undamaged package is what plan put in: every directory
\* but an empty top one, and every file byte for byte, through offsets kept in units of
\* OFFSET_FACTOR and directory ranges that only node_paths reads back. Of a file of code/ or
\* meta/ whose size or place does not fit 32 bits other bytes are extracted, without an error.
RoundTrip ==
    pc = "done" =>
        /\ out.dirs = InFst \ Files
        /\ DOMAIN out.files = {p \in Files : ~ (skip /\ Last(p) \in HifNames)}
        /\ \A p \in DOMAIN out.files : FitsFields(p) => out.files[p] = Bytes(p)

\* An extraction over damaged contents may stop half way, but what it has written is what was
\* packed (decode_content is the only integrity check of a download over plain HTTP).
WritesOnlyWhatWasPacked ==
    \A p \in DOMAIN out.files : p \in Files /\ (FitsFields(p) => out.files[p] = Bytes(p))

\* The room the first k game files take up.
Room[k \in 0 .. Len(GameFiles)] == IF k = 0 THEN 0 ELSE Room[k - 1] + Placed(GameFiles[k])

\* A cut of the game files, in order, into contents that start at the members of cuts.
FitsCut(cuts) ==
    LET room == Room IN
    \A a \in cuts, b \in cuts \cup {Len(GameFiles) + 1} :
        (a < b /\ \A c \in cuts : ~ (a < c /\ c < b)) => room[b - 1] - room[a - 1] <= Cap

\* The installer also hangs on a game split over many small contents: no way to cut the same
\* files, in the same order, into contents within the cap needs fewer of them.
FewestGameContents ==
    Planned =>
        \A cuts \in SUBSET DOMAIN GameFiles :
            (1 \in cuts /\ Cardinality(cuts) < Cardinality(GameContents)) => ~ FitsCut(cuts)

\* What the installer and the console take for granted of the layout. The game contents come
\* last in install order, none exceeds the cap above which the installer hangs, padding between
\* files included. fw.img reads the NFS image from offset 0 of the game data, so the first hif
\* file is the first file of the first game content. The slots of the content table follow each
\* other and each has room for its content, the FST's own included, whose length must be known
\* before it is built.
LayoutIsUsable ==
    Planned =>
        /\ \A i \in GameContents :
             contents[i].len <= Cap /\ \A j \in i .. Len(contents) : contents[j].game
        /\ LET hifs == {p \in Directly("content") : p[2] \in HifNames} IN
           hifs # {} =>
             \E i \in GameContents :
                /\ \A j \in GameContents : i <= j
                /\ contents[i].files[1].off = 0
                /\ contents[i].files[1].path \in hifs
                /\ \A p \in hifs : ~ NameBefore(p[2], contents[i].files[1].path[2])
        /\ Len(table) = Len(contents)
        /\ \A i \in 1 .. Len(table) - 1 : table[i + 1].off = table[i].off + table[i].size
        /\ \A i \in 2 .. Len(table) : table[i].size * Sector >= contents[i].len
        /\ table[1].size * Sector >= SerializedLen(Len(contents), Len(nodes))
=============================================================================
