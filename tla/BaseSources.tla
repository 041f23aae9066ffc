----------------------------- MODULE BaseSources -----------------------------
(***************************************************************************)
(* Getting the base title: crates/core/src/base.rs (DirBase, WuaBase,      *)
(* finalize_stage) and nus.rs (NusClient, NusBase with extract_title of    *)
(* package/extract.rs), and what base_disc_extras of pipeline.rs then      *)
(* borrows from the base's own game disc through apploader.rs.             *)
(*                                                                         *)
(* The update server is there at the same time: it may get a newer version *)
(* of the title between any two downloads, its contents before its TMD,    *)
(* withdraw contents, send damaged ones, answer with an error or not at    *)
(* all.  A file is [dir, name, ver], ver being the version of its bytes.   *)
(***************************************************************************)
EXTENDS Naturals, Sequences, FiniteSets

CONSTANTS Jobs,  \* what is asked for, and the base it is asked of
          User,  \* the apploader the user gave
          None

\* What may be wrong with a file's bytes.
Damaged == 0

\* The clusters of a title, and the files in each.  The TMD maps a cluster to a content id.
Clusters == {"fst", "code", "meta", "game"}
Versions == {1, 2}

VARIABLES
    job,     \* what is asked for
    latest,  \* server: version of the TMD served as the latest
    cdn,     \* server: the version behind each content id, or None
    pc,      \* next step, "wait" for an answer, or how it ended
    phase,   \* "stage", then "disc" for base_disc_extras
    own,     \* title root of a directory or archive
    rec,     \* version whose TMD is in hand
    want,    \* what a request is out for
    got,     \* decoded_cache: the contents decoded so far
    todo,    \* subtrees left to copy, or files left to extract
    build,   \* files staged into the build directory
    scratch, \* files below base_nfs
    nfsDir,  \* what materialize_original_nfs returned: "own", "scratch" or None
    extras,  \* BaseDiscExtras and the user's apploader: whose they are
    calm     \* history: in this phase nothing went wrong, and the server had the title in full

vars == <<job, latest, cdn, pc, phase, own, rec, want, got, todo, build, scratch, nfsDir,
          extras, calm>>

server == <<latest, cdn>>
trees == <<build, scratch>>
download == <<rec, want, got>>

(***************************************************************************)
(* Titles: [files, changed, fresh].  files is the title's FST, in order;   *)
(* changed, the clusters that version 2 changes; fresh, whether a changed  *)
(* cluster gets a new content id.                                          *)
(***************************************************************************)
Data(t, v, c) == IF v = 2 /\ c \in t.changed THEN 2 ELSE 1
Id(t, v, c) == <<c, IF t.fresh THEN Data(t, v, c) ELSE 1>>
Tree(t, v) ==
    {[dir |-> t.files[x].dir, name |-> t.files[x].name, ver |-> Data(t, v, t.files[x].cluster)] :
        x \in DOMAIN t.files}

\* The version of htk.bin that a game disc of version g was encoded with.
KeyOf(t, g) == IF "code" \in t.changed THEN g ELSE 1

HifFiles == {"hif_000000.nfs", "hif_000001.nfs"}
IsBaseGameNfs(name) == name \in HifFiles

\* Two stand for REQUIRED_CODE_FILES; a key of other than 16 bytes is a file by another name.
RequiredCodeFiles == {"htk.bin", "fw.img"}
StageSubdirs == {"code", "content", "meta"}

Has(tree, dir, name) == \E f \in tree : f.dir = dir /\ f.name = name
HasCode(tree) == \E f \in tree : f.dir = "code"
HasDisc(tree) == Has(tree, "content", "hif_000000.nfs") /\ Has(tree, "code", "htk.bin")
VerOf(tree, dir, name) == (CHOOSE f \in tree : f.dir = dir /\ f.name = name).ver

IsNus == job.kind = "nus"
Ended == {"done", "failed"}
Running == pc \notin Ended

ASSUME ConstantsApart == User # None /\ {User, None} \cap Versions = {}

FileOfTree == [dir : STRING, name : STRING, ver : Versions]

\* A file of a title's FST; the content of the FST itself holds no file.
Entry == [dir : StageSubdirs, name : STRING, cluster : Clusters \ {"fst"}]

\* The FST names every version's contents, a new key comes with a new disc, and disc and key have
\* contents of their own.
GoodTitle(t) ==
    /\ t.files \in Seq(Entry) /\ t.changed \subseteq Clusters /\ t.fresh \in BOOLEAN
    /\ t.changed # {} => "fst" \in t.changed
    /\ "code" \in t.changed => "game" \in t.changed
    /\ \A x \in DOMAIN t.files :
         /\ t.files[x].dir = "content" /\ t.files[x].name = "hif_000000.nfs" =>
                t.files[x].cluster = "game"
         /\ t.files[x].dir = "code" /\ t.files[x].name = "htk.bin" => t.files[x].cluster = "code"

\* A tree has one file of a name, and its disc, if any, the key beside it.
GoodRoot(t, tree) ==
    /\ \A f, g \in tree : f.dir = g.dir /\ f.name = g.name => f = g
    /\ HasDisc(tree) => VerOf(tree, "code", "htk.bin")
                           = KeyOf(t, VerOf(tree, "content", "hif_000000.nfs"))

ASSUME JobsAssumption ==
    \A j \in Jobs :
        /\ j.kind \in {"dir", "wua", "nus"} /\ j.version \in Versions \cup {None}
        /\ {j.gc, j.apploader, j.direct} \subseteq BOOLEAN
        /\ GoodTitle(j.title)
        /\ j.roots \in Seq(SUBSET FileOfTree)
        /\ \A x \in DOMAIN j.roots : GoodRoot(j.title, j.roots[x])
        /\ j.direct => j.kind = "dir" /\ Len(j.roots) = 1

Init ==
    /\ job \in Jobs
    /\ latest = 1
    /\ cdn = [id \in Clusters \X Versions |-> IF id[2] = 1 THEN 1 ELSE None]
    /\ pc = "open" /\ phase = "stage" /\ own = {}
    /\ rec = None /\ want = None /\ got = {} /\ todo = <<>>
    /\ build = {} /\ scratch = {} /\ nfsDir = None /\ calm = TRUE
    /\ extras = [certs |-> None, apploader |-> IF job.apploader THEN User ELSE None]

-----------------------------------------------------------------------------
(***************************************************************************)
(* The server.                                                             *)
(***************************************************************************)
Quietly == UNCHANGED <<job, pc, phase, own, download, todo, trees, nfsDir, extras>>

\* The contents of version 2 are put up, over the old ones where they have the same id.
PublishContents ==
    /\ IsNus /\ Running
    /\ cdn' = [id \in DOMAIN cdn |->
                 IF \E c \in Clusters : id = Id(job.title, 2, c) THEN Data(job.title, 2, id[1])
                                                                 ELSE cdn[id]]
    /\ cdn' # cdn /\ calm' = FALSE
    /\ UNCHANGED latest /\ Quietly

PublishTmd ==
    /\ IsNus /\ Running /\ latest = 1
    /\ \A c \in Clusters : cdn[Id(job.title, 2, c)] = Data(job.title, 2, c)
    /\ latest' = 2 /\ calm' = FALSE
    /\ UNCHANGED cdn /\ Quietly

\* Contents that only version 1 has are withdrawn once version 2 is out.
Withdraw ==
    /\ IsNus /\ Running /\ latest = 2
    /\ \E c \in Clusters :
        /\ Id(job.title, 1, c) # Id(job.title, 2, c) /\ cdn[Id(job.title, 1, c)] # None
        /\ cdn' = [cdn EXCEPT ![Id(job.title, 1, c)] = None]
    /\ calm' = FALSE
    /\ UNCHANGED latest /\ Quietly

\* The version that would be downloaded now is there in full.
ServedWhole ==
    LET v == IF job.version = None THEN latest ELSE job.version
    IN v <= latest /\ \A c \in Clusters : cdn[Id(job.title, v, c)] = Data(job.title, v, c)

-----------------------------------------------------------------------------
(***************************************************************************)
(* How a step goes wrong: while staging, the run fails; for the extras it  *)
(* is only logged.                                                         *)
(***************************************************************************)
GoesWrong == pc' = IF phase = "stage" THEN "failed" ELSE "remove"

Stops ==
    /\ GoesWrong
    /\ UNCHANGED <<job, server, phase, own, download, todo, trees, nfsDir, extras>>

\* A read, a write or a directory listing fails.
StepFails ==
    /\ Running /\ pc \notin {"wait", "certs", "apploader", "remove"}
    /\ calm' = FALSE /\ Stops

-----------------------------------------------------------------------------
(***************************************************************************)
(* Opening a base: DirBase::new, WuaBase::open.                            *)
(***************************************************************************)
\* The trees that can be the title's: the directory itself if it has code/, or else those one
\* level down that do, an archive's in its order and a directory's in any.
Candidates ==
    LET withCode == {x \in DOMAIN job.roots : HasCode(job.roots[x])}
    IN IF job.kind = "wua" THEN {x \in withCode : \A y \in withCode : x <= y}
       ELSE IF job.direct THEN withCode \cap {1} ELSE withCode

OpenBase ==
    /\ pc = "open"
    /\ IF IsNus THEN pc' = "tmd" /\ UNCHANGED own
       ELSE IF Candidates = {} THEN pc' = "failed" /\ UNCHANGED own
       ELSE pc' = "list" /\ \E x \in Candidates : own' = job.roots[x]
    /\ UNCHANGED <<job, server, phase, download, todo, trees, nfsDir, extras, calm>>

\* DirBase::stage, WuaBase::stage: the three subtrees, one after the other.
List ==
    /\ pc = "list"
    /\ todo' = <<"code", "content", "meta">>
    /\ pc' = "copy"
    /\ UNCHANGED <<job, server, phase, own, download, trees, nfsDir, extras, calm>>

\* Mutant: of the disc only the hif files are kept.
KeptHifsOnly(name) == IF phase = "stage" THEN ~IsBaseGameNfs(name) ELSE IsBaseGameNfs(name)

\* stage leaves the hif files behind, materialize_original_nfs all but them and their key.
Kept(name) ==
    IF phase = "stage" THEN ~IsBaseGameNfs(name) ELSE IsBaseGameNfs(name) \/ name = "htk.bin"

\* copy_tree, copy_dir.
Copy ==
    /\ pc = "copy" /\ todo # <<>>
    /\ LET copied == {f \in own : f.dir = Head(todo) /\ Kept(f.name)} IN
        IF phase = "stage" THEN build' = build \cup copied /\ UNCHANGED scratch
                           ELSE scratch' = scratch \cup copied /\ UNCHANGED build
    /\ todo' = Tail(todo)
    /\ UNCHANGED <<job, server, pc, phase, own, download, nfsDir, extras, calm>>

CopyDone ==
    /\ pc = "copy" /\ todo = <<>>
    /\ pc' = IF phase = "stage" THEN "finalize" ELSE "check"
    /\ UNCHANGED <<job, server, phase, own, download, todo, trees, nfsDir, extras, calm>>

-----------------------------------------------------------------------------
(***************************************************************************)
(* NusClient and extract_title.                                            *)
(***************************************************************************)
RequestTmd ==
    /\ pc = "tmd"
    /\ pc' = "wait" /\ want' = "tmd"
    /\ UNCHANGED <<job, server, phase, own, rec, got, todo, trees, nfsDir, extras, calm>>

\* The TMD asked for, and with it the FST content.
AnswerTmd ==
    /\ pc = "wait" /\ want = "tmd"
    /\ job.version \in {None} \cup 1 .. latest
    /\ rec' = IF job.version = None THEN latest ELSE job.version
    /\ want' = "fst" /\ got' = {}
    /\ UNCHANGED <<job, server, pc, phase, own, todo, trees, nfsDir, extras, calm>>

\* Mutant: a content is taken for what its record says.
VerifiedAnyway(bytes) == bytes # None

\* decode_content: the hash of the decoded bytes is the record's.
Verified(bytes) == bytes = Data(job.title, rec, want)

\* The bytes of a content come in, as the server has them or damaged on the way.
AnswerContent ==
    /\ pc = "wait" /\ want \in Clusters
    /\ LET served == cdn[Id(job.title, rec, want)] IN
        \E bytes \in {served, Damaged} :
            /\ served # None
            /\ calm' = (calm /\ bytes # Damaged)
            /\ IF Verified(bytes)
               THEN /\ got' = got \cup {[cluster |-> want, ver |-> bytes]}
                    /\ todo' = IF want = "fst" THEN job.title.files ELSE todo
                    /\ pc' = "extract"
               ELSE GoesWrong /\ UNCHANGED <<got, todo>>
    /\ UNCHANGED <<job, server, phase, own, rec, want, trees, nfsDir, extras>>

\* What there is not is answered with an error, and any request may be; a body may announce
\* too many bytes or be cut, and a TMD too short for its records is refused.
AnswerError ==
    /\ pc = "wait"
    /\ calm' = FALSE /\ Stops

\* Mutant: the client waits as long as it takes.
NeverTimesOut == FALSE /\ UNCHANGED vars

\* No answer, or none any more: the timeout of the connection or of one read runs out.
TimesOut ==
    /\ pc = "wait"
    /\ calm' = FALSE /\ Stops

Decoded(c) == \E g \in got : g.cluster = c

SkipFile ==
    /\ pc = "extract" /\ todo # <<>> /\ ~Kept(Head(todo).name)
    /\ todo' = Tail(todo)
    /\ UNCHANGED <<job, server, pc, phase, own, download, trees, nfsDir, extras, calm>>

RequestContent ==
    /\ pc = "extract" /\ todo # <<>> /\ Kept(Head(todo).name) /\ ~Decoded(Head(todo).cluster)
    /\ pc' = "wait" /\ want' = Head(todo).cluster
    /\ UNCHANGED <<job, server, phase, own, rec, got, todo, trees, nfsDir, extras, calm>>

WriteFile ==
    /\ pc = "extract" /\ todo # <<>> /\ Kept(Head(todo).name) /\ Decoded(Head(todo).cluster)
    /\ LET f == [dir |-> Head(todo).dir, name |-> Head(todo).name,
                 ver |-> (CHOOSE g \in got : g.cluster = Head(todo).cluster).ver]
       IN IF phase = "stage" THEN build' = build \cup {f} /\ UNCHANGED scratch
                             ELSE scratch' = scratch \cup {f} /\ UNCHANGED build
    /\ todo' = Tail(todo)
    /\ UNCHANGED <<job, server, pc, phase, own, download, nfsDir, extras, calm>>

ExtractDone ==
    /\ pc = "extract" /\ todo = <<>>
    /\ pc' = IF phase = "stage" THEN "finalize" ELSE "check"
    /\ UNCHANGED <<job, server, phase, own, download, todo, trees, nfsDir, extras, calm>>

-----------------------------------------------------------------------------
(***************************************************************************)
(* finalize_stage, then base_disc_extras for a GameCube game.              *)
(***************************************************************************)
Staged(tree) == \A name \in RequiredCodeFiles : Has(tree, "code", name)

Finalize ==
    /\ pc = "finalize"
    /\ pc' = IF ~Staged(build) THEN "failed" ELSE IF job.gc THEN "disc" ELSE "done"
    /\ UNCHANGED <<job, server, phase, own, download, todo, trees, nfsDir, extras, calm>>

\* base_disc_extras sets out, on a server that may have changed since.
StartExtras ==
    /\ pc = "disc"
    /\ phase' = "disc" /\ calm' = (IsNus => ServedWhole)
    /\ UNCHANGED <<job, server, own, download, trees, extras>>

\* materialize_original_nfs: a directory is handed out as it is,
MaterializeDir ==
    /\ job.kind = "dir" /\ StartExtras
    /\ nfsDir' = IF HasDisc(own) THEN "own" ELSE None
    /\ pc' = IF HasDisc(own) THEN "certs" ELSE "remove"
    /\ UNCHANGED todo

\* the hif files of an archive are copied out, and then the key,
MaterializeWua ==
    /\ job.kind = "wua" /\ StartExtras
    /\ pc' = IF Has(own, "content", "hif_000000.nfs") THEN "copy" ELSE "remove"
    /\ todo' = <<"content", "code">>
    /\ UNCHANGED nfsDir

\* a title's are downloaded, from the TMD on.
MaterializeNus ==
    /\ IsNus /\ StartExtras
    /\ pc' = "tmd"
    /\ UNCHANGED <<nfsDir, todo>>

CheckMaterialized ==
    /\ pc = "check"
    /\ nfsDir' = IF HasDisc(scratch) THEN "scratch" ELSE None
    /\ pc' = IF HasDisc(scratch) THEN "certs" ELSE "remove"
    /\ UNCHANGED <<job, server, phase, own, download, todo, trees, extras, calm>>

NfsTree == IF nfsDir = "own" THEN own ELSE scratch

\* nod reads the disc if the key beside it is its own.
DiscVer == VerOf(NfsTree, "content", "hif_000000.nfs")
Readable == VerOf(NfsTree, "code", "htk.bin") = KeyOf(job.title, DiscVer)

\* extract_cert_chain_from_nfs; the disc may have no usable chain, and its read may fail.
ReadCerts(ok) ==
    /\ pc = "certs"
    /\ extras' = [extras EXCEPT !.certs = IF ok /\ Readable THEN DiscVer ELSE None]
    /\ calm' = (calm /\ ok)
    /\ pc' = IF job.apploader THEN "remove" ELSE "apploader"
    /\ UNCHANGED <<job, server, phase, own, download, todo, trees, nfsDir>>

\* extract_from_nfs, when the user gave no apploader; the disc may have no plausible one.
ReadApploader(ok) ==
    /\ pc = "apploader"
    /\ extras' = [extras EXCEPT !.apploader = IF ok /\ Readable THEN DiscVer ELSE @]
    /\ calm' = (calm /\ ok)
    /\ pc' = "remove"
    /\ UNCHANGED <<job, server, phase, own, download, todo, trees, nfsDir>>

\* base_nfs goes, whatever came of it; that it does not is only logged.
RemoveScratch(ok) ==
    /\ pc = "remove" /\ (ok \/ scratch # {})
    /\ scratch' = IF ok THEN {} ELSE scratch
    /\ calm' = (calm /\ ok)
    /\ pc' = "done"
    /\ UNCHANGED <<job, server, phase, own, download, todo, build, nfsDir, extras>>

-----------------------------------------------------------------------------
Program ==
    \/ OpenBase \/ List \/ Copy \/ CopyDone
    \/ RequestTmd \/ SkipFile \/ RequestContent \/ WriteFile \/ ExtractDone
    \/ TimesOut
    \/ Finalize \/ MaterializeDir \/ MaterializeWua \/ MaterializeNus \/ CheckMaterialized
    \/ \E ok \in BOOLEAN : ReadCerts(ok) \/ ReadApploader(ok) \/ RemoveScratch(ok)

Server == PublishContents \/ PublishTmd \/ Withdraw \/ AnswerTmd \/ AnswerContent \/ AnswerError

Next == Program \/ Server \/ StepFails

Spec == Init /\ [][Next]_vars /\ WF_vars(Program)

(***************************************************************************)
(* What getting the base promises.                                         *)
(***************************************************************************)
\* What may be staged: one version, the one asked for or one that was the latest.
WholeTitles ==
    IF IsNus THEN {Tree(job.title, v) : v \in {w \in 1 .. latest : job.version \in {w, None}}}
             ELSE {job.roots[x] : x \in DOMAIN job.roots}

StagedOf(tree) == {f \in tree : f.dir \in StageSubdirs /\ ~IsBaseGameNfs(f.name)}

\* Once staging has returned, and for as long as the run goes on, the build directory holds
\* one version of the title, all of it and nothing else, however the server changed and
\* whatever it sent; the contents that hold only the base's game were not downloaded for
\* it; and a title that can be used is refused only if something went wrong
\* (BaseSource::stage, finalize_stage, decode_content).
StagedTitleIsWhole ==
    /\ pc = "done" \/ phase = "disc" =>
           \E t \in WholeTitles : Staged(t) /\ build = StagedOf(t)
    /\ phase = "stage" /\ Decoded("game") =>
           \E x \in DOMAIN job.title.files :
               job.title.files[x].cluster = "game" /\ ~IsBaseGameNfs(job.title.files[x].name)
    /\ pc = "failed" /\ calm =>
           IF IsNus THEN rec # None /\ ~Staged(Tree(job.title, rec))
           ELSE \/ \A x \in DOMAIN job.roots : ~Staged(job.roots[x])
                \/ Cardinality({x \in DOMAIN job.roots : HasCode(job.roots[x])}) > 1
                \/ job.direct /\ ~Staged(job.roots[1])

\* The certificate chain and the apploader come from one version of the base's disc, read with
\* that disc's own key even if the staged title is of another; they are found whenever the base
\* has its disc and nothing goes wrong; the user's apploader stays; and the copy of the disc
\* does not outlive the step, though the user's own directory does (base_disc_extras,
\* materialize_original_nfs).
ExtrasComeFromTheBaseDisc ==
    pc = "done" /\ job.gc =>
        LET disc == IF IsNus THEN Tree(job.title, IF rec = None THEN 1 ELSE rec) ELSE own IN
        /\ job.apploader <=> extras.apploader = User
        /\ {extras.certs, extras.apploader} \ {None, User} \subseteq
               {f.ver : f \in {g \in disc : g.dir = "content" /\ g.name = "hif_000000.nfs"}}
        /\ calm /\ HasDisc(disc) =>
               extras.certs # None /\ extras.apploader # None /\ scratch = {}
        /\ IsNus \/ \E x \in DOMAIN job.roots : own = job.roots[x]

\* A server that does not answer, or stops in the middle of a body, does not hold the run up
\* for ever: every wait has a timeout, and nothing is tried again (http_client).
StagingEnds == <>(pc \in Ended)
=============================================================================
