----------------------------- MODULE WiitdbCache -----------------------------
(***************************************************************************)
(* The per-user cache of GameTDB's wiitdb.txt, shared by every wiiuvci     *)
(* process of the user without any lock: fetch_wiitdb_text of              *)
(* crates/core/src/assets/gametdb.rs.                                      *)
(*                                                                         *)
(* Each file-system call of a lookup is a step of its own, so that other   *)
(* processes run between the read of the cache file and the read of its    *)
(* mtime, or between the check and the removal.  A text is abstracted to   *)
(* the time GameTDB published it and to what looks_like_wiitdb can see:    *)
(* "junk" is refused, but a "cut" text, which lost its tail, is accepted   *)
(* like a "whole" one.                                                     *)
(***************************************************************************)
EXTENDS Naturals

CONSTANTS Procs,      \* process ids; a process that ends may be followed by one of its id
          Ttl,        \* CACHE_TTL
          MaxTime,    \* bound on the clock
          MaxLookups, \* bound on the lookups started in one behaviour
          None        \* no file, no text

VARIABLES
    now,      \* the clock of the host
    cache,    \* wiitdb-en.txt: a file or None
    tmp,      \* the temporary files, by name
    pc,       \* where the lookup of each process is
    caching,  \* cache_path returned a path
    cached,   \* the well-formed text read from the cache file, with that file's mtime
    fetched,  \* the text downloaded
    result,   \* what the lookup returned
    lookups   \* history: lookups started

locals == <<caching, cached, fetched>>
vars == <<now, cache, tmp, pc, caching, cached, fetched, result, lookups>>

Times == 0 .. MaxTime
Texts == {"whole", "cut", "junk"}
Files == [text : Texts, mtime : Times]

ASSUME CacheAssumption ==
    /\ Ttl \in Nat /\ MaxTime \in Nat /\ MaxLookups \in Nat
    /\ None \notin Texts \cup Files

\* Mutant: one temporary name for all processes.
TmpShared(p) == "wiitdb-en.txt.tmp"

\* The pid is part of the name.
TmpName(p) == p

TmpNames == Procs \cup {"wiitdb-en.txt.tmp"}

LooksLikeWiitdb(t) == t # "junk"

\* cache_is_fresh: an mtime later than now is fresh.
Fresh(mtime) == mtime > now \/ now - mtime < Ttl

-----------------------------------------------------------------------------
\* The cache file an earlier run or another tool may have left; a cut text could only come
\* from a version of the program that did not rename it into place.
Init ==
    /\ now = 0
    /\ cache \in {None} \cup {f \in Files : f.text # "cut"}
    /\ tmp = [n \in TmpNames |-> None]
    /\ pc = [p \in Procs |-> "idle"]
    /\ caching = [p \in Procs |-> FALSE]
    /\ cached = [p \in Procs |-> None]
    /\ fetched = [p \in Procs |-> None]
    /\ result = [p \in Procs |-> None]
    /\ lookups = 0

Tick == now < MaxTime /\ now' = now + 1 /\ UNCHANGED <<cache, tmp, pc, locals, result, lookups>>

Goto(p, label) == pc' = [pc EXCEPT ![p] = label]

Return(p, text) ==
    /\ Goto(p, "done")
    /\ result' = [result EXCEPT ![p] = text]

\* The text of a file, None for no file.
TextOf(f) == IF f = None THEN None ELSE f.text

\* cache_path fails when the directory cannot be used; the lookup goes on without a cache.
Start(p, usable) ==
    /\ pc[p] \in {"idle", "done"} /\ lookups < MaxLookups
    /\ lookups' = lookups + 1
    /\ caching' = [caching EXCEPT ![p] = usable]
    /\ cached' = [cached EXCEPT ![p] = None]
    /\ fetched' = [fetched EXCEPT ![p] = None]
    /\ result' = [result EXCEPT ![p] = None]
    /\ Goto(p, IF usable THEN "read" ELSE "download")
    /\ UNCHANGED <<now, cache, tmp>>

\* read_to_string and looks_like_wiitdb; ok is whether an existing file can be read.
Read(p, ok) ==
    /\ pc[p] = "read"
    /\ IF cache = None \/ ~ok
         THEN Goto(p, "download") /\ UNCHANGED cached
         ELSE IF LooksLikeWiitdb(cache.text)
                THEN Goto(p, "stat") /\ cached' = [cached EXCEPT ![p] = cache]
                ELSE Goto(p, "remove") /\ UNCHANGED cached
    /\ UNCHANGED <<now, cache, tmp, caching, fetched, result, lookups>>

\* metadata(path).modified(), of whatever file has that name by now.
Stat(p) ==
    /\ pc[p] = "stat" /\ cache # None
    /\ IF Fresh(cache.mtime) THEN Return(p, TextOf(cached[p]))
                             ELSE Goto(p, "download") /\ UNCHANGED result
    /\ UNCHANGED <<now, cache, tmp, locals, lookups>>

\* The mtime cannot be read, or the file has gone.
StatFails(p) ==
    /\ pc[p] = "stat"
    /\ Return(p, TextOf(cached[p]))
    /\ UNCHANGED <<now, cache, tmp, locals, lookups>>

RemoveInvalid(p, ok) ==
    /\ pc[p] = "remove"
    /\ cache' = IF ok THEN None ELSE cache
    /\ Goto(p, "download")
    /\ UNCHANGED <<now, tmp, locals, result, lookups>>

\* Mutant: the text from the cache is forgotten when the download fails.
DownloadFailsForgets(p) ==
    /\ pc[p] = "download"
    /\ Return(p, None)
    /\ UNCHANGED <<now, cache, tmp, locals, lookups>>

\* Mutant: a failed download starts the lookup over.
DownloadRetries(p) ==
    /\ pc[p] = "download"
    /\ Goto(p, IF caching[p] THEN "read" ELSE "download")
    /\ UNCHANGED <<now, cache, tmp, locals, result, lookups>>

\* Mutant: after a failed download the caching step runs all the same.
DownloadFailsWritesOn(p) ==
    /\ pc[p] = "download"
    /\ Goto(p, "create")
    /\ UNCHANGED <<now, cache, tmp, locals, result, lookups>>

\* No client, no answer in time, an error status, a broken body, or a body that is no wiitdb.
DownloadFails(p) ==
    /\ pc[p] = "download"
    /\ Return(p, TextOf(cached[p]))
    /\ UNCHANGED <<now, cache, tmp, locals, lookups>>

\* Mutant: the body is cached without looking at it.
DownloadUnchecked(p) ==
    /\ pc[p] = "download"
    /\ \E text \in {"whole", "junk"} :
         /\ fetched' = [fetched EXCEPT ![p] = text]
         /\ IF caching[p] THEN Goto(p, "create") /\ UNCHANGED result ELSE Return(p, text)
    /\ UNCHANGED <<now, cache, tmp, caching, cached, lookups>>

Download(p) ==
    /\ pc[p] = "download"
    /\ fetched' = [fetched EXCEPT ![p] = "whole"]
    /\ IF caching[p] THEN Goto(p, "create") /\ UNCHANGED result ELSE Return(p, "whole")
    /\ UNCHANGED <<now, cache, tmp, caching, cached, lookups>>

\* fs::write creates the temporary file, over any leftover of the same name, and fills it.
CreateTmp(p) ==
    /\ pc[p] = "create"
    /\ tmp' = [tmp EXCEPT ![TmpName(p)] = [text |-> "cut", mtime |-> now]]
    /\ Goto(p, "write")
    /\ UNCHANGED <<now, cache, locals, result, lookups>>

WriteTmp(p) ==
    /\ pc[p] = "write"
    /\ tmp' = [tmp EXCEPT ![TmpName(p)] = [text |-> fetched[p], mtime |-> now]]
    /\ Goto(p, "rename")
    /\ UNCHANGED <<now, cache, locals, result, lookups>>

\* The temporary file is left as it is; the text is returned all the same.
WriteFails(p) ==
    /\ pc[p] \in {"create", "write"}
    /\ Return(p, fetched[p])
    /\ UNCHANGED <<now, cache, tmp, locals, lookups>>

Rename(p) ==
    /\ pc[p] = "rename" /\ tmp[TmpName(p)] # None
    /\ cache' = tmp[TmpName(p)]
    /\ tmp' = [tmp EXCEPT ![TmpName(p)] = None]
    /\ Return(p, fetched[p])
    /\ UNCHANGED <<now, locals, lookups>>

RenameFails(p) ==
    /\ pc[p] = "rename"
    /\ Goto(p, "unlink")
    /\ UNCHANGED <<now, cache, tmp, locals, result, lookups>>

\* The result of the removal is ignored.
Unlink(p, ok) ==
    /\ pc[p] = "unlink"
    /\ tmp' = IF ok THEN [tmp EXCEPT ![TmpName(p)] = None] ELSE tmp
    /\ Return(p, fetched[p])
    /\ UNCHANGED <<now, cache, locals, lookups>>

Kill(p) ==
    /\ pc[p] \notin {"idle", "done"}
    /\ Goto(p, "idle")
    /\ cached' = [cached EXCEPT ![p] = None]
    /\ fetched' = [fetched EXCEPT ![p] = None]
    /\ UNCHANGED <<now, cache, tmp, caching, result, lookups>>

-----------------------------------------------------------------------------
Step(p) ==
    \/ \E ok \in BOOLEAN : Read(p, ok) \/ RemoveInvalid(p, ok) \/ Unlink(p, ok)
    \/ Stat(p) \/ StatFails(p)
    \/ Download(p) \/ DownloadFails(p)
    \/ CreateTmp(p) \/ WriteTmp(p) \/ WriteFails(p)
    \/ Rename(p) \/ RenameFails(p)

Next == \/ Tick
        \/ \E p \in Procs : Step(p) \/ Kill(p) \/ \E usable \in BOOLEAN : Start(p, usable)

Spec == Init /\ [][Next]_vars

\* Every request has a timeout (http_client), so a process that is not killed goes on.
FairSpec == Spec /\ \A p \in Procs : WF_vars(Step(p))

-----------------------------------------------------------------------------
TypeOK ==
    /\ now \in Times
    /\ cache \in Files \cup {None}
    /\ tmp \in [TmpNames -> Files \cup {None}]
    /\ pc \in [Procs -> {"idle", "read", "stat", "remove", "download", "create", "write",
                         "rename", "unlink", "done"}]
    /\ caching \in [Procs -> BOOLEAN]
    /\ cached \in [Procs -> Files \cup {None}]
    /\ fetched \in [Procs -> Texts \cup {None}]
    /\ result \in [Procs -> Texts \cup {None}]
    /\ lookups \in 0 .. MaxLookups

\* looks_like_wiitdb cannot tell a cut text from a whole one, so none may ever get under the
\* cache's name or out of a lookup: not by a kill while it is written, not by two processes
\* that write at once, not by the leftover of a killed process whose id comes back.
NeverCut ==
    /\ cache # None => cache.text # "cut"
    /\ \A p \in Procs : result[p] # None => result[p] = "whole"

\* A lookup comes back without a database only if it neither downloaded one nor read a
\* well-formed one from the cache, however old (fetch_wiitdb_text).
NoneOnlyWithoutData ==
    \A p \in Procs :
        (pc[p] = "done" /\ result[p] = None) => (fetched[p] = None /\ cached[p] = None)

\* Once the cache holds a database and nobody is about to remove what was there before, it
\* holds one for ever, whoever looks up, fails or is killed.
Settled ==
    /\ cache # None /\ LooksLikeWiitdb(cache.text)
    /\ \A p \in Procs : pc[p] # "remove"
StaysValid == [][Settled => Settled']_vars

\* Unless its process is killed a lookup ends: it is best-effort and never holds a build up.
LookupReturns == \A p \in Procs : (pc[p] # "idle") ~> (pc[p] \in {"idle", "done"})

\* What the doc of fetch_wiitdb_text says: the cached copy is used without a download if it
\* is within CACHE_TTL -- the copy that is used, not one that replaced it meanwhile.
ServedWithinTtl ==
    [][\A p \in Procs :
         (Stat(p) /\ pc'[p] = "done") => Fresh(cached[p].mtime)]_vars
=============================================================================
