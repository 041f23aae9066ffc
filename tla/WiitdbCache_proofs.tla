------------------------ MODULE WiitdbCache_proofs ------------------------
(***************************************************************************)
(* The safety of WiitdbCache for any number of processes, lookups and any  *)
(* clock: no cut text gets into the cache or out of a lookup, a lookup     *)
(* comes back empty only if it met no database, and a cache that holds a   *)
(* database keeps holding one.                                             *)
(***************************************************************************)
EXTENDS WiitdbCache, TLAPS

\* What a process holds at each of its steps.
Local(p) ==
    /\ cached[p] # None => cached[p].text = "whole"
    /\ fetched[p] \in {"whole", None}
    /\ result[p] \in {"whole", None}
    /\ pc[p] \in {"read", "stat", "remove", "download"} => fetched[p] = None
    /\ pc[p] = "stat" => cached[p] # None
    /\ pc[p] \in {"create", "write", "rename", "unlink"} => fetched[p] = "whole"
    \* Nobody else writes under the name that holds the process id.
    /\ pc[p] = "rename" => tmp[TmpName(p)] # None /\ tmp[TmpName(p)].text = "whole"
    /\ pc[p] = "done" /\ result[p] = None => fetched[p] = None /\ cached[p] = None

CacheNotCut == cache # None => cache.text # "cut"

IInv == TypeOK /\ CacheNotCut /\ \A p \in Procs : Local(p)

-----------------------------------------------------------------------------
LEMMA InitIInv == Init => IInv
<1> SUFFICES ASSUME Init PROVE IInv
    OBVIOUS
<1>1. TypeOK
    BY CacheAssumption DEF Init, TypeOK, Times, Texts, Files
<1>2. CacheNotCut
    BY DEF Init, CacheNotCut, Files
<1>3. ASSUME NEW p \in Procs PROVE Local(p)
    BY DEF Init, Local
<1>. QED  BY <1>1, <1>2, <1>3 DEF IInv

\* A step of one process preserves what is written of the state and of every process.
LEMMA StepIInv ==
    ASSUME IInv, NEW q \in Procs, Step(q)
    PROVE  IInv'
<1> USE DEF Goto, Return, locals
<1>0. TypeOK /\ CacheNotCut /\ \A p \in Procs : Local(p)
    BY DEF IInv
<1>1. ASSUME NEW ok \in BOOLEAN, Read(q, ok) PROVE IInv'
  <2>1. TypeOK'
    BY <1>0, <1>1 DEF Read, TypeOK
  <2>2. CacheNotCut'
    BY <1>0, <1>1 DEF Read, CacheNotCut
  <2>3. ASSUME NEW p \in Procs PROVE Local(p)'
    BY <1>0, <1>1 DEF Read, Local, CacheNotCut, TypeOK, LooksLikeWiitdb, Files, Texts, TmpName
  <2>. QED  BY <2>1, <2>2, <2>3 DEF IInv
<1>2. ASSUME NEW ok \in BOOLEAN, RemoveInvalid(q, ok) PROVE IInv'
  <2>1. TypeOK'
    BY <1>0, <1>2 DEF RemoveInvalid, TypeOK
  <2>2. CacheNotCut'
    BY <1>0, <1>2 DEF RemoveInvalid, CacheNotCut
  <2>3. ASSUME NEW p \in Procs PROVE Local(p)'
    BY <1>0, <1>2 DEF RemoveInvalid, Local, TypeOK, TmpName
  <2>. QED  BY <2>1, <2>2, <2>3 DEF IInv
<1>3. ASSUME NEW ok \in BOOLEAN, Unlink(q, ok) PROVE IInv'
  <2>1. TypeOK'
    BY <1>0, <1>3 DEF Unlink, TypeOK, TmpName, TmpNames
  <2>2. CacheNotCut'
    BY <1>0, <1>3 DEF Unlink, CacheNotCut
  <2>3. ASSUME NEW p \in Procs PROVE Local(p)'
    BY <1>0, <1>3, CacheAssumption DEF Unlink, Local, TypeOK, TmpName, TmpNames, Texts
  <2>. QED  BY <2>1, <2>2, <2>3 DEF IInv
<1>4. ASSUME Stat(q) \/ StatFails(q) \/ DownloadFails(q) PROVE IInv'
  <2>1. TypeOK'
    BY <1>0, <1>4 DEF Stat, StatFails, DownloadFails, TypeOK, TextOf, Files
  <2>2. CacheNotCut'
    BY <1>0, <1>4 DEF Stat, StatFails, DownloadFails, CacheNotCut
  <2>3. ASSUME NEW p \in Procs PROVE Local(p)'
    BY <1>0, <1>4, CacheAssumption
    DEF Stat, StatFails, DownloadFails, Local, TypeOK, TextOf, TmpName, Texts
  <2>. QED  BY <2>1, <2>2, <2>3 DEF IInv
<1>5. ASSUME Download(q) PROVE IInv'
  <2>1. TypeOK'
    BY <1>0, <1>5 DEF Download, TypeOK, Texts
  <2>2. CacheNotCut'
    BY <1>0, <1>5 DEF Download, CacheNotCut
  <2>3. ASSUME NEW p \in Procs PROVE Local(p)'
    BY <1>0, <1>5, CacheAssumption DEF Download, Local, TypeOK, TmpName, Texts
  <2>. QED  BY <2>1, <2>2, <2>3 DEF IInv
<1>6. ASSUME CreateTmp(q) \/ WriteTmp(q) PROVE IInv'
  <2>1. TypeOK'
    <3>1. [text |-> "cut", mtime |-> now] \in Files
        BY <1>0 DEF TypeOK, Files, Texts
    <3>2. WriteTmp(q) => [text |-> fetched[q], mtime |-> now] \in Files
        BY <1>0 DEF WriteTmp, Local, TypeOK, Files, Texts
    <3>. QED  BY <1>0, <1>6, <3>1, <3>2 DEF CreateTmp, WriteTmp, TypeOK, TmpName, TmpNames
  <2>2. CacheNotCut'
    BY <1>0, <1>6 DEF CreateTmp, WriteTmp, CacheNotCut
  <2>3. ASSUME NEW p \in Procs PROVE Local(p)'
    <3>1. WriteTmp(q) => [text |-> fetched[q], mtime |-> now] # None
        BY <1>0, CacheAssumption DEF WriteTmp, Local, TypeOK, Files, Texts
    <3>. QED  BY <1>0, <1>6, <3>1 DEF CreateTmp, WriteTmp, Local, TypeOK, TmpName, TmpNames
  <2>. QED  BY <2>1, <2>2, <2>3 DEF IInv
<1>7. ASSUME WriteFails(q) \/ RenameFails(q) PROVE IInv'
  <2>1. TypeOK'
    BY <1>0, <1>7 DEF WriteFails, RenameFails, TypeOK
  <2>2. CacheNotCut'
    BY <1>0, <1>7 DEF WriteFails, RenameFails, CacheNotCut
  <2>3. ASSUME NEW p \in Procs PROVE Local(p)'
    BY <1>0, <1>7, CacheAssumption DEF WriteFails, RenameFails, Local, TypeOK, TmpName, Texts
  <2>. QED  BY <2>1, <2>2, <2>3 DEF IInv
<1>8. ASSUME Rename(q) PROVE IInv'
  <2>1. TypeOK'
    BY <1>0, <1>8 DEF Rename, TypeOK, TmpName, TmpNames
  <2>2. CacheNotCut'
    BY <1>0, <1>8 DEF Rename, CacheNotCut, Local
  <2>3. ASSUME NEW p \in Procs PROVE Local(p)'
    BY <1>0, <1>8, CacheAssumption DEF Rename, Local, TypeOK, TmpName, TmpNames, Texts
  <2>. QED  BY <2>1, <2>2, <2>3 DEF IInv
<1>. QED  BY <1>1, <1>2, <1>3, <1>4, <1>5, <1>6, <1>7, <1>8 DEF Step

LEMMA NextIInv == IInv /\ [Next]_vars => IInv'
<1> SUFFICES ASSUME IInv, [Next]_vars PROVE IInv'
    OBVIOUS
<1>0. TypeOK /\ CacheNotCut /\ \A p \in Procs : Local(p)
    BY DEF IInv
<1>1. CASE UNCHANGED vars
    BY <1>0, <1>1 DEF vars, IInv, TypeOK, CacheNotCut, Local
<1>2. CASE Tick
  <2>1. TypeOK'
    BY <1>0, <1>2, CacheAssumption DEF Tick, locals, TypeOK, Times
  <2>. QED  BY <1>0, <1>2, <2>1 DEF Tick, locals, IInv, CacheNotCut, Local
<1>3. ASSUME NEW q \in Procs, Step(q) PROVE IInv'
    BY <1>3, StepIInv
<1>4. ASSUME NEW q \in Procs, Kill(q) PROVE IInv'
  <2>1. TypeOK'
    BY <1>0, <1>4 DEF Kill, Goto, TypeOK
  <2>2. ASSUME NEW p \in Procs PROVE Local(p)'
    BY <1>0, <1>4 DEF Kill, Goto, Local, TypeOK, TmpName
  <2>. QED  BY <1>0, <1>4, <2>1, <2>2 DEF Kill, IInv, CacheNotCut
<1>5. ASSUME NEW q \in Procs, NEW usable \in BOOLEAN, Start(q, usable) PROVE IInv'
  <2>1. TypeOK'
    BY <1>0, <1>5, CacheAssumption DEF Start, Goto, TypeOK
  <2>2. ASSUME NEW p \in Procs PROVE Local(p)'
    BY <1>0, <1>5 DEF Start, Goto, Local, TypeOK, TmpName
  <2>. QED  BY <1>0, <1>5, <2>1, <2>2 DEF Start, IInv, CacheNotCut
<1>. QED  BY <1>1, <1>2, <1>3, <1>4, <1>5 DEF Next

THEOREM Invariance == Spec => []IInv
<1>. QED  BY InitIInv, NextIInv, PTL DEF Spec

-----------------------------------------------------------------------------
\* Every variable keeps its type, with any number of concurrent lookups.
THEOREM TypeCorrect == Spec => []TypeOK
<1>1. IInv => TypeOK
    BY DEF IInv
<1>. QED  BY <1>1, Invariance, PTL

\* No kill, failed write, leftover or concurrent writer gets a cut wiitdb.txt into the cache or
\* out of fetch_wiitdb_text.
THEOREM Whole == Spec => []NeverCut
<1>1. IInv => NeverCut
    BY DEF IInv, NeverCut, CacheNotCut, Local
<1>. QED  BY <1>1, Invariance, PTL

\* fetch_wiitdb_text returns None only if it neither read a database from the cache nor
\* downloaded one.
THEOREM BestEffort == Spec => []NoneOnlyWithoutData
<1>1. IInv => NoneOnlyWithoutData
    BY DEF IInv, NoneOnlyWithoutData, Local
<1>. QED  BY <1>1, Invariance, PTL

\* A cache that holds a database, with no removal under way, holds one after every step.
THEOREM Stays == Spec => StaysValid
<1>1. IInv /\ [Next]_vars => [Settled => Settled']_vars
  <2> SUFFICES ASSUME IInv, [Next]_vars, Settled PROVE Settled'
      OBVIOUS
  <2>1. cache # None /\ cache.text # "junk" /\ \A p \in Procs : pc[p] # "remove"
      BY DEF Settled, LooksLikeWiitdb
  <2>2. CASE UNCHANGED vars \/ Tick
      BY <2>1, <2>2 DEF vars, Tick, Settled, LooksLikeWiitdb
  <2>3. ASSUME NEW q \in Procs, Kill(q) \/ \E usable \in BOOLEAN : Start(q, usable)
        PROVE  Settled'
      BY <2>1, <2>3 DEF IInv, TypeOK, Kill, Start, Goto, Settled, LooksLikeWiitdb
  <2>4. ASSUME NEW q \in Procs, Step(q) PROVE Settled'
    <3> USE DEF Goto, Return, locals, Settled, LooksLikeWiitdb, IInv, TypeOK
    <3>1. ASSUME NEW ok \in BOOLEAN, Read(q, ok) \/ RemoveInvalid(q, ok) \/ Unlink(q, ok)
          PROVE  Settled'
        BY <2>1, <3>1 DEF Read, RemoveInvalid, Unlink
    <3>2. ASSUME Stat(q) \/ StatFails(q) \/ Download(q) \/ DownloadFails(q) PROVE Settled'
        BY <2>1, <3>2 DEF Stat, StatFails, Download, DownloadFails
    <3>3. ASSUME CreateTmp(q) \/ WriteTmp(q) \/ WriteFails(q) \/ RenameFails(q) PROVE Settled'
        BY <2>1, <3>3 DEF CreateTmp, WriteTmp, WriteFails, RenameFails
    <3>4. ASSUME Rename(q) PROVE Settled'
        BY <2>1, <3>4 DEF Rename, Local
    <3>. QED  BY <2>4, <3>1, <3>2, <3>3, <3>4 DEF Step
  <2>. QED  BY <2>2, <2>3, <2>4 DEF Next
<1>. QED  BY <1>1, Invariance, PTL DEF Spec, StaysValid
===========================================================================
