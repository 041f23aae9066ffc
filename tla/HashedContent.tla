---------------------------- MODULE HashedContent ----------------------------
(***************************************************************************)
(* How a hashed content is streamed to its .app file and read back:        *)
(* ContentPlaintextReader of crates/core/src/package/mod.rs feeds          *)
(* encode_hashed_to_writer of package/content_crypto.rs, and decode_hashed *)
(* and compute_h3 undo it for a title that is extracted.                   *)
(*                                                                         *)
(* The tree has Arity children to a section, three levels below an H3, so  *)
(* a group is Arity^3 blocks.  A hash is the value hashed wrapped in a     *)
(* tuple, an encrypted block the pair of its IV and its bytes.  The index  *)
(* that header and IV of a content are keyed with is left out.             *)
(***************************************************************************)
EXTENDS Naturals, SequencesExt

CONSTANTS Contents, \* planned contents: [files |-> <<[id, off, size], ...>>, len |-> data_len]
          Block,    \* HASH_BLOCK_DATA
          Arity,    \* hashes in a section
          Gone      \* the size of a file that was removed

ASSUME HashAssumption == Block \in Nat \ {0} /\ Arity \in Nat \ {0}

\* What plan and the sort of ContentPlaintextReader::new give: files one behind the other, the
\* last of them within the content.
ASSUME ContentsAssumption ==
    \A c \in Contents :
        /\ c.len \in Nat
        /\ c.files \in Seq([id : STRING, off : Nat, size : Nat])
        /\ \A i \in DOMAIN c.files : c.files[i].off + c.files[i].size <= c.len
        /\ \A i, j \in DOMAIN c.files :
              i < j => c.files[i].off + c.files[i].size <= c.files[j].off

VARIABLES
    content,  \* the content that is encoded
    disk,     \* the size each of its files has on disk
    pc,       \* "read", "eof" (a read returned nothing), "filled", "done" or "failed"
    readPos,  \* ContentPlaintextReader.pos
    fileIdx,  \* ContentPlaintextReader.file_idx
    open,     \* whether the file at fileIdx is open
    buf,      \* the buffer, reused for every group
    filled,   \* how much of it is filled
    hl0, hl1, hl2, \* the three levels of the hash tree of the last group
    app,      \* blocks written
    h3        \* H3 hashes so far

reader == <<readPos, fileIdx, open>>
tree == <<hl0, hl1, hl2>>
vars == <<content, disk, pc, reader, buf, filled, tree, app, h3>>

GroupBlocks == Arity * Arity * Arity
GroupBytes == GroupBlocks * Block
DivCeil(n, d) == (n + d - 1) \div d
Lesser(m, n) == IF m < n THEN m ELSE n

FileAt(i) == content.files[i]
End(f) == f.off + f.size
ZeroByte == <<"zero", 0>>
Zeros(n) == [k \in 1 .. n |-> ZeroByte]
FileByte(f, k) == <<f.id, k>>

\* A byte of the buffer after the block around it was encrypted in place.
CipherByte == <<"cipher", 0>>

-----------------------------------------------------------------------------
\* Mutant: room for a whole group from the start.
WholeGroup == GroupBytes

FirstBuffer == Block

Init ==
    /\ content \in Contents
    /\ disk = [i \in DOMAIN content.files |-> content.files[i].size]
    /\ pc = "read"
    /\ readPos = 0 /\ fileIdx = 1 /\ open = FALSE
    /\ buf = Zeros(FirstBuffer) /\ filled = 0
    /\ hl0 = <<>> /\ hl1 = <<>> /\ hl2 = <<>>
    /\ app = <<>> /\ h3 = <<>>

\* Something outside the build truncates, extends or removes a staged file, once.
Tamper ==
    /\ pc \in {"read", "eof", "filled"}
    /\ \A i \in DOMAIN disk : disk[i] = FileAt(i).size
    /\ \E i \in DOMAIN disk : \E size \in {0, FileAt(i).size + 1, Gone} :
         disk' = [disk EXCEPT ![i] = size]
    /\ UNCHANGED <<content, pc, reader, buf, filled, tree, app, h3>>

-----------------------------------------------------------------------------
\* ContentPlaintextReader::read.
Passed(f) == readPos >= End(f)

\* The first file from fileIdx on that is not passed.
CurrentFile ==
    LET ahead == {i \in fileIdx .. Len(content.files) : ~ Passed(FileAt(i))}
    IN IF ahead = {} THEN Len(content.files) + 1
       ELSE CHOOSE i \in ahead : \A j \in ahead : i <= j

Want == Lesser(Len(buf) - filled, content.len - readPos)

\* The bytes a read returns; none is the end of the reader for read_up_to.
Fill(bytes) ==
    /\ buf' = [k \in DOMAIN buf |-> IF k \in filled + 1 .. filled + Len(bytes)
                                       THEN bytes[k - filled] ELSE buf[k]]
    /\ filled' = filled + Len(bytes)
    /\ pc' = IF bytes = <<>> THEN "eof" ELSE "read"
    /\ UNCHANGED <<content, disk, tree, app, h3>>

Reading == pc = "read" /\ filled < Len(buf) /\ readPos < content.len

InFile == CurrentFile \in DOMAIN content.files /\ FileAt(CurrentFile).off <= readPos

\* How far a gap goes: to the next file or to the end of the content.
GapLength(i) ==
    IF i \in DOMAIN content.files THEN Lesser(Want, FileAt(i).off - readPos) ELSE Want

ReadGap ==
    /\ Reading
    /\ ~ InFile
    /\ Fill(Zeros(GapLength(CurrentFile)))
    /\ readPos' = readPos + GapLength(CurrentFile)
    /\ fileIdx' = CurrentFile
    /\ open' = (open /\ CurrentFile = fileIdx)

FileLength(f) == Lesser(Want, End(f) - readPos)

IsOpen(i) == open /\ i = fileIdx

\* read_exact: the file still has the n bytes that are read now; one that was removed is read
\* on if it is open.
Holds(i, n) ==
    IF disk[i] = Gone THEN IsOpen(i) ELSE readPos - FileAt(i).off + n <= disk[i]

ReadFile ==
    LET i == CurrentFile IN
    /\ Reading /\ InFile
    /\ LET f == FileAt(i)
           n == FileLength(f) IN
       /\ Holds(i, n)
       /\ Fill([k \in 1 .. n |-> FileByte(f, readPos - f.off + k)])
       /\ readPos' = readPos + n
       /\ open' = (readPos + n < End(f))
       /\ fileIdx' = IF readPos + n >= End(f) THEN i + 1 ELSE i

\* The file is shorter than planned, or cannot be opened or read.
ReadFails ==
    /\ Reading /\ InFile
    /\ pc' = "failed"
    /\ UNCHANGED <<content, disk, reader, buf, filled, tree, app, h3>>

-----------------------------------------------------------------------------
\* The reader is at the end of the content.
ReadEnd ==
    /\ pc = "read" /\ filled < Len(buf) /\ readPos >= content.len
    /\ pc' = "eof"
    /\ UNCHANGED <<content, disk, reader, buf, filled, tree, app, h3>>

\* read_up_to ends with a full buffer or at the end of the reader.
ReadUpToEnds == pc = "eof" \/ (pc = "read" /\ filled = Len(buf))

\* Mutant: the new length is capped at a block.
NewLengthCapped == Lesser(2 * Len(buf), Block)

NewLength == Lesser(2 * Len(buf), GroupBytes)

\* The content is larger than the buffer, and the buffer not yet a group.
GrowBuffer ==
    /\ ReadUpToEnds
    /\ filled = Len(buf) /\ Len(buf) < GroupBytes
    /\ buf' = buf \o Zeros(NewLength - Len(buf))
    /\ UNCHANGED <<content, disk, pc, reader, filled, tree, app, h3>>

CleanEof ==
    /\ ReadUpToEnds
    /\ filled = 0 /\ app # <<>>
    /\ pc' = "done"
    /\ UNCHANGED <<content, disk, reader, buf, filled, tree, app, h3>>

GroupRead ==
    /\ ReadUpToEnds
    /\ filled < Len(buf) \/ Len(buf) = GroupBytes
    /\ filled > 0 \/ app = <<>>
    /\ pc' = "filled"
    /\ UNCHANGED <<content, disk, reader, buf, filled, tree, app, h3>>

Hash(x) == <<x>>
NoHash == <<>>

\* The Arity hashes from base on out of the first n, zeros for those that do not exist.
Section(hashes, n, base) ==
    [j \in 1 .. Arity |-> IF base + j <= n THEN hashes[base + j] ELSE NoHash]

\* The hashes of the sections of n hashes.
Level(hashes, n) ==
    [g \in 1 .. DivCeil(n, Arity) |-> Hash(Section(hashes, n, (g - 1) * Arity))]

BlockOf(bytes, b) == [k \in 1 .. Block |-> bytes[(b - 1) * Block + k]]
H0(bytes, n) == [b \in 1 .. n |-> Hash(BlockOf(bytes, b))]

\* How many hashes the second and the third level have above n blocks.
Sections(n) == DivCeil(n, Arity)
SuperSections(n) == Sections(Sections(n))

H3Of(h2, n) == Hash(Section(h2, SuperSections(n), 0))

\* The H3 of the group just hashed.
GroupH3(h2, n) == H3Of(h2, n)

\* Mutant: the tail of the last block keeps what the buffer held.
TailKept(k) == buf[k]

\* The tail of the last block is zeroed.
TailZeroed(k) == IF k <= filled THEN buf[k] ELSE ZeroByte

\* Mutant: every block of a group under the IV of its first.
DataIvFirst(b) == hl0'[1]

DataIv(b) == hl0'[b]

Header(h0, h1, h2, n, b) ==
    <<Section(h0, n, ((b - 1) \div Arity) * Arity),
      Section(h1, Sections(n), ((b - 1) \div (Arity * Arity)) * Arity),
      Section(h2, SuperSections(n), ((b - 1) \div GroupBlocks) * Arity)>>

UsedBlocks == IF filled = 0 THEN 1 ELSE DivCeil(filled, Block)

EncodeGroup ==
    LET n == UsedBlocks
        bytes == [k \in 1 .. n * Block |-> TailZeroed(k)] IN
    /\ pc = "filled"
    /\ hl0' = H0(bytes, n)
    /\ hl1' = Level(hl0', n)
    /\ hl2' = Level(hl1', Sections(n))
    /\ h3' = Append(h3, GroupH3(hl2', n))
    /\ app' = app \o [b \in 1 .. n |-> [header |-> Header(hl0', hl1', hl2', n, b),
                                        iv |-> DataIv(b), data |-> BlockOf(bytes, b)]]
    /\ buf' = [k \in DOMAIN buf |-> IF k <= n * Block THEN CipherByte ELSE buf[k]]
    /\ pc' = IF filled < GroupBytes THEN "done" ELSE "read"
    /\ filled' = 0
    /\ UNCHANGED <<content, disk, reader>>

WriteFails ==
    /\ pc = "filled"
    /\ pc' = "failed"
    /\ UNCHANGED <<content, disk, reader, buf, filled, tree, app, h3>>

-----------------------------------------------------------------------------
Program == \/ ReadGap \/ ReadFile \/ ReadFails \/ ReadEnd
           \/ GrowBuffer \/ CleanEof \/ GroupRead
           \/ EncodeGroup \/ WriteFails
Next == Program \/ Tamper
Spec == Init /\ [][Next]_vars
FairSpec == Spec /\ WF_vars(Program)

-----------------------------------------------------------------------------
\* decode_hashed: the IV of a block comes out of its header.
Decrypted(cipher, iv) == IF cipher.iv = iv THEN cipher.data ELSE [k \in 1 .. Block |-> CipherByte]
DecodeHashed ==
    [k \in 1 .. Len(app) * Block |->
        LET b == ((k - 1) \div Block) + 1
        IN Decrypted(app[b], app[b].header[1][((b - 1) % Arity) + 1])[((k - 1) % Block) + 1]]

\* compute_h3 of n blocks, group by group.
ComputeH3(bytes, n) ==
    [g \in 1 .. DivCeil(n, GroupBlocks) |->
        LET from == (g - 1) * GroupBlocks
            count == Lesser(GroupBlocks, n - from)
            chunk == [k \in 1 .. count * Block |-> bytes[from * Block + k]]
        IN H3Of(Level(Level(H0(chunk, count), count), Sections(count)), count)]

\* What the plan says the plaintext is: files at their offsets, zeros between and after them.
PlainBlocks == IF content.len = 0 THEN 1 ELSE DivCeil(content.len, Block)
Plaintext ==
    LET over(k) == {i \in DOMAIN content.files : FileAt(i).off < k /\ k <= End(FileAt(i))}
    IN [k \in 1 .. PlainBlocks * Block |->
           IF over(k) = {} THEN ZeroByte
           ELSE LET f == FileAt(CHOOSE i \in over(k) : TRUE) IN FileByte(f, k - f.off)]

\* The encoding of a whole plaintext at once, with one tree over all of its blocks.
WholeEncode ==
    LET n == PlainBlocks
        h0 == H0(Plaintext, n)
        h1 == Level(h0, n)
        h2 == Level(h1, Sections(n))
    IN [app |-> [b \in 1 .. n |-> [header |-> Header(h0, h1, h2, n, b),
                                   iv |-> h0[b], data |-> BlockOf(Plaintext, b)]],
        h3 |-> Level(h2, SuperSections(n))]

-----------------------------------------------------------------------------
\* Streaming in groups through one reused buffer, short reads at every gap and file boundary,
\* gives byte for byte what encoding the whole plaintext at once would, whatever the length of
\* the content; a staged file that shrank or grew meanwhile does not change a byte of it.
EncodesWhole == pc = "done" => app = WholeEncode.app /\ h3 = WholeEncode.h3

\* decode_hashed reads back the padded plaintext from the blocks alone, and the hash an
\* extraction computes from what it decoded (compute_h3) is the one that was recorded.
DecodesBack ==
    pc = "done" => DecodeHashed = Plaintext /\ ComputeH3(DecodeHashed, Len(app)) = h3

\* The buffer stays in proportion to the content (encode_hashed_to_writer): a block, or at most
\* twice the content.
BufferProportional == Len(buf) = Block \/ Len(buf) <= 2 * content.len

\* An encoding ends, however the content is cut into files and gaps.
Ends == <>(pc \in {"done", "failed"})

\* What the docs of assemble_content and ContentPlaintextReader say: the reader produces what
\* assemble_content would, for which a file that changed size since the planning is an error.
ChangedFileIsError ==
    [][(ReadFile /\ ~ open) => disk[CurrentFile] = FileAt(CurrentFile).size]_vars
=============================================================================
