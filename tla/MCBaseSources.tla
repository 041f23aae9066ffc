---------------------------- MODULE MCBaseSources ----------------------------
(***************************************************************************)
(* Titles of six files in three contents, with and without a disc, a key   *)
(* or a file beside the hif files, and directories and archives of one or  *)
(* two of their versions.                                                  *)
(***************************************************************************)
EXTENDS BaseSources

File(dir, name, cluster) == [dir |-> dir, name |-> name, cluster |-> cluster]

Htk  == File("code", "htk.bin", "code")
Fw   == File("code", "fw.img", "code")
Meta == File("meta", "meta.xml", "meta")
Hif0 == File("content", "hif_000000.nfs", "game")
Hif1 == File("content", "hif_000001.nfs", "game")
Bnr  == File("content", "opening.bnr", "game")

FileLists ==
    {<<Htk, Fw, Hif0, Hif1, Meta>>, <<Fw, Htk, Bnr, Hif0, Hif1>>, <<Htk, Fw, Meta>>,
     <<Fw, Hif0, Meta>>}

Changes == {{"fst", "code", "game"}, {"fst", "code", "game", "meta"}, {"fst", "game"},
            {"fst", "meta"}}

Titles == [files : FileLists, changed : Changes, fresh : BOOLEAN]

Job(kind, gc, apploader, version, title, direct, roots) ==
    [kind |-> kind, gc |-> gc, apploader |-> apploader, version |-> version, title |-> title,
     direct |-> direct, roots |-> roots]

Junk == {[dir |-> "junk", name |-> "readme", ver |-> 1]}

\* A base directory itself, or what lies in one or in an archive.
Direct(t) == {<<Tree(t, 1)>>, <<Tree(t, 2) \cup Junk>>, <<Junk>>}
Nested(t) == Direct(t) \cup {<<Junk, Tree(t, 2)>>, <<Tree(t, 1), Tree(t, 2)>>}

MCJobs ==
    {Job("nus", gc, a, v, t, FALSE, <<>>) :
        gc \in BOOLEAN, a \in BOOLEAN, v \in {None, 1, 2}, t \in Titles}
    \cup UNION {{Job("dir", gc, a, None, t, TRUE, roots) :
                    gc \in BOOLEAN, a \in BOOLEAN, roots \in Direct(t)} \cup
                {Job(kind, gc, a, None, t, FALSE, roots) :
                    kind \in {"dir", "wua"}, gc \in BOOLEAN, a \in BOOLEAN, roots \in Nested(t)} :
                t \in {u \in Titles : u.fresh}}
=============================================================================
