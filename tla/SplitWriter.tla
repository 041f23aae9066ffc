---------------------------- MODULE SplitWriter ----------------------------
(***************************************************************************)
(* The writer that cuts the NFS stream into hif_000000.nfs, hif_000001.nfs *)
(* and so on: crates/core/src/nfs/split.rs.  The stream is the 0x200-byte  *)
(* EGGS header and then whole sectors; a file boundary falls inside a      *)
(* sector, because the header counts toward the first file.  A file is     *)
(* opened only when a byte is due after a full one.                        *)
(***************************************************************************)
EXTENDS Naturals, Sequences

CONSTANTS FileSize,   \* NFS_FILE_SIZE (0xFA00000 bytes in the code)
          ChunkSizes, \* lengths of the buffers passed to write_all
          MaxTotal    \* bound: no write_all starts once this much was asked for

ASSUME SplitAssumption ==
    /\ FileSize \in Nat \ {0}
    /\ ChunkSizes \subseteq Nat \ {0}
    /\ MaxTotal \in Nat

VARIABLES
    hifs,      \* bytes in each hif file so far, in index order
    unwritten, \* bytes of the current write_all not yet written
    asked,     \* history: bytes passed to write_all so far, the current call included
    state      \* "open", "finished", "failed"

splitVars == <<hifs, unwritten, asked, state>>

InCurrent == hifs[Len(hifs)]

\* SplitWriter::new creates hif_000000.nfs.
SplitInit ==
    /\ hifs = <<0>>
    /\ unwritten = 0
    /\ asked = 0
    /\ state = "open"

WriteAll(n) ==
    /\ state = "open" /\ unwritten = 0
    /\ asked < MaxTotal
    /\ unwritten' = n
    /\ asked' = asked + n
    /\ UNCHANGED <<hifs, state>>

\* Mutant: a whole buffer goes to the file that has any room left.
FillWhole ==
    /\ state = "open" /\ unwritten > 0 /\ InCurrent < FileSize
    /\ hifs' = [hifs EXCEPT ![Len(hifs)] = InCurrent + unwritten]
    /\ unwritten' = 0
    /\ UNCHANGED <<asked, state>>

\* One pass of the loop with room left: as much as fits.
Fill ==
    /\ state = "open" /\ unwritten > 0 /\ InCurrent < FileSize
    /\ LET remaining == FileSize - InCurrent
           take == IF remaining < unwritten THEN remaining ELSE unwritten
       IN /\ hifs' = [hifs EXCEPT ![Len(hifs)] = InCurrent + take]
          /\ unwritten' = unwritten - take
    /\ UNCHANGED <<asked, state>>

\* Mutant: the next file is opened as soon as one is full.
RollEagerly ==
    /\ state = "open" /\ InCurrent = FileSize
    /\ hifs' = Append(hifs, 0)
    /\ UNCHANGED <<unwritten, asked, state>>

\* One pass of the loop with the file full: flush it and open the next.
Roll ==
    /\ state = "open" /\ unwritten > 0 /\ InCurrent = FileSize
    /\ hifs' = Append(hifs, 0)
    /\ UNCHANGED <<unwritten, asked, state>>

\* A write, a flush or the creation of a file fails; the caller gives the build up.
Fails ==
    /\ state = "open" /\ unwritten > 0
    /\ state' = "failed"
    /\ UNCHANGED <<hifs, unwritten, asked>>

Finish ==
    /\ state = "open" /\ unwritten = 0
    /\ state' = "finished"
    /\ UNCHANGED <<hifs, unwritten, asked>>

SplitNext == (\E n \in ChunkSizes : WriteAll(n)) \/ Fill \/ Roll \/ Fails \/ Finish

SplitSpec == SplitInit /\ [][SplitNext]_splitVars

-----------------------------------------------------------------------------
TypeOK ==
    /\ hifs \in Seq(Nat) /\ hifs # <<>>
    /\ unwritten \in Nat
    /\ asked \in Nat
    /\ state \in {"open", "finished", "failed"}

\* Byte k of the stream is byte k % FileSize of file k \div FileSize, at any moment: every file
\* but the last is exactly full, none is over-full, and together they hold what was written.
SplitsExactly ==
    /\ \A i \in 1 .. (Len(hifs) - 1) : hifs[i] = FileSize
    /\ InCurrent <= FileSize
    /\ (Len(hifs) - 1) * FileSize + InCurrent = asked - unwritten

\* A finished stream has no empty trailing file, and no fewer files than its bytes need, so
\* a stream that ends exactly at a boundary has just its full files.
NoEmptyTail ==
    (state = "finished" /\ asked > 0) => InCurrent > 0
=============================================================================
