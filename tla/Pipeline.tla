------------------------------ MODULE Pipeline ------------------------------
(***************************************************************************)
(* A run of the program from the command line to the package: run of       *)
(* crates/cli/src/main.rs, then run, run_gamecube and finish_package of    *)
(* crates/core/src/pipeline.rs, over a base title staged by base.rs or     *)
(* nus.rs.  Runs follow each other; they share the output directory, the   *)
(* nincfg.bin beside it and a --work-dir.                                  *)
(*                                                                         *)
(* A file is what made it -- "base", copied from the base title, "made" by *)
(* a step, or "cut", by a step that failed -- and the run it was made in.  *)
(* The components that have modules of their own are one step here: the    *)
(* NFS image (NfsBuild) and the package, which as AtomicPublication says   *)
(* first withdraws what was there and then appears whole.                  *)
(***************************************************************************)
EXTENDS Naturals, Sequences

CONSTANTS MaxRuns, \* bound on the runs
          Confs,   \* what a run is asked to do
          None     \* no run, no package, no file

\* A bound: the images differ in size by one file at most.
HifNames == <<"hif_000000.nfs", "hif_000001.nfs">>

\* disc: whether the base's own game disc can be read in place, or copied out, or is not there.
ASSUME PipelineAssumption ==
    /\ MaxRuns \in Nat
    /\ Confs \subseteq [platform : {"wii", "gc"}, dir : {"given", "temp"}, hifs : DOMAIN HifNames,
                        disc : {"inPlace", "copied", "none"}, apploader : BOOLEAN]

VARIABLES
    run,    \* number of the current or last run
    conf,   \* what its command line and its input ask for
    pc,     \* its next step, "idle" before the first run, or how it ended
    dirs,   \* work directories: the one given by --work-dir and the temporary one
    extras, \* BaseDiscExtras: apploader and cert chain to author the disc with
    open,   \* AuthoredDisc holds the scratch image open
    out,    \* the whole package in the output directory
    nincfg  \* nincfg.bin beside the output directory

vars == <<run, conf, pc, dirs, extras, open, out, nincfg>>

\* The image of n files.
Hifs(n) == {HifNames[i] : i \in 1 .. n}
AllHifs == Hifs(Len(HifNames))
BaseFiles == {"fw.img", "htk.bin", "app.xml", "meta.xml", "iconTex", "bootTvTex", "bootDrcTex",
              "rvlt.tik", "rvlt.tmd"}
Scratch == {"gc_disc.img", "base_nfs"}
Names == BaseFiles \cup Scratch \cup AllHifs
WorkFile == [by : {"base", "made", "cut"}, run : 1 .. MaxRuns]

WiiSteps == <<"stage", "plan", "nfs", "tik", "tmd", "fw", "app", "meta", "textures",
              "package", "return">>

\* Mutant: nincfg.bin is written ahead of the package.
GcStepsNincfgFirst ==
    <<"stage", "extras", "dropExtras", "author", "nfs", "close", "remove", "tik", "tmd", "fw",
      "app", "meta", "textures", "nincfg", "package", "return">>

GcSteps == <<"stage", "extras", "dropExtras", "author", "nfs", "close", "remove", "tik", "tmd",
             "fw", "app", "meta", "textures", "package", "nincfg", "return">>

Steps == IF conf.platform = "gc" THEN GcSteps ELSE WiiSteps
NextStep == Steps[(CHOOSE i \in DOMAIN Steps : Steps[i] = pc) + 1]

Ended == {"idle", "done", "failed", "killed"}
Running == pc \notin Ended

Work == dirs[conf.dir]
Empty == <<>>

\* The files S of the work directory, now made by a step of this run.
Written(S, by) == [n \in DOMAIN Work \cup S |-> IF n \in S THEN [by |-> by, run |-> run]
                                                          ELSE Work[n]]
Without(n) == [m \in DOMAIN Work \ {n} |-> Work[m]]

Init ==
    /\ run = 0 /\ conf = None /\ pc = "idle"
    /\ dirs = [given |-> Empty, temp |-> Empty]
    /\ extras = [apploader |-> "none", certs |-> FALSE] /\ open = FALSE
    /\ out = None /\ nincfg = None

-----------------------------------------------------------------------------
\* The end of a run's process; its handles go with it.
Finish(how) ==
    /\ pc' = how
    /\ open' = FALSE
    /\ UNCHANGED <<run, conf, extras>>

\* A step that writes files of the work directory and goes on.
Writes(step, S) ==
    /\ pc = step
    /\ dirs' = [dirs EXCEPT ![conf.dir] = Written(S, "made")]
    /\ pc' = NextStep
    /\ UNCHANGED <<run, conf, extras, open, out, nincfg>>

\* Mutant: a directory with files in it will do.
UsableAny(c) == TRUE

\* prepare_work_dir: the directory must be empty.
Usable(c) == c.dir = "given" => dirs.given = Empty

\* The work directory, the keys, the base and the input are looked at before anything is built.
Start(c, accepted) ==
    /\ ~ Running /\ run < MaxRuns
    /\ run' = run + 1
    /\ conf' = c
    /\ dirs' = [dirs EXCEPT !.temp = Empty]
    /\ pc' = IF Usable(c) /\ accepted THEN "stage" ELSE "failed"
    /\ extras' = [apploader |-> IF c.apploader THEN "user" ELSE "none", certs |-> FALSE]
    /\ open' = FALSE
    /\ UNCHANGED <<out, nincfg>>

\* The user empties the work directory between runs.
EmptyGiven ==
    /\ ~ Running /\ dirs.given # Empty
    /\ dirs' = [dirs EXCEPT !.given = Empty]
    /\ UNCHANGED <<run, conf, pc, extras, open, out, nincfg>>

-----------------------------------------------------------------------------
\* BaseSource::stage: code/, content/ and meta/ of the base, without its hif files.
Stage ==
    /\ pc = "stage"
    /\ dirs' = [dirs EXCEPT ![conf.dir] = Written(BaseFiles, "base")]
    /\ pc' = NextStep
    /\ UNCHANGED <<run, conf, extras, open, out, nincfg>>

PlanDisc == Writes("plan", {})

WantApploader == ~ conf.apploader

\* base_disc_extras: no failure in it stops the run; copied is whether the base's disc was
\* copied to base_nfs, in full or in part.
Extras(copied, certs, apploader) ==
    /\ pc = "extras"
    /\ copied => conf.disc = "copied"
    /\ certs \/ apploader => conf.disc = "inPlace" \/ copied
    /\ dirs' = [dirs EXCEPT ![conf.dir] = IF copied THEN Written({"base_nfs"}, "made") ELSE @]
    /\ extras' = [apploader |-> IF apploader /\ WantApploader THEN "base" ELSE extras.apploader,
                  certs |-> certs]
    /\ pc' = NextStep
    /\ UNCHANGED <<run, conf, open, out, nincfg>>

\* That the copy cannot be removed is only logged.
DropExtras(ok) ==
    /\ pc = "dropExtras"
    /\ dirs' = [dirs EXCEPT ![conf.dir] = IF ok THEN Without("base_nfs") ELSE @]
    /\ pc' = NextStep
    /\ UNCHANGED <<run, conf, extras, open, out, nincfg>>

\* author_gc_disc keeps the scratch image open for the next step.
Author ==
    /\ pc = "author"
    /\ dirs' = [dirs EXCEPT ![conf.dir] = Written({"gc_disc.img"}, "made")]
    /\ open' = TRUE
    /\ pc' = NextStep
    /\ UNCHANGED <<run, conf, extras, out, nincfg>>

BuildNfs == Writes("nfs", Hifs(conf.hifs))

OpenAfterIntoRvlt == FALSE

\* AuthoredDisc::into_rvlt.
IntoRvlt ==
    /\ pc = "close"
    /\ open' = OpenAfterIntoRvlt
    /\ pc' = NextStep
    /\ UNCHANGED <<run, conf, dirs, extras, out, nincfg>>

\* Mutant: as with base_nfs, a removal that fails is only logged.
RemoveScratchQuietly ==
    /\ pc = "remove"
    /\ \E ok \in BOOLEAN :
         dirs' = [dirs EXCEPT ![conf.dir] = IF ok THEN Without("gc_disc.img") ELSE @]
    /\ pc' = NextStep
    /\ UNCHANGED <<run, conf, extras, open, out, nincfg>>

RemoveScratch ==
    /\ pc = "remove"
    /\ dirs' = [dirs EXCEPT ![conf.dir] = Without("gc_disc.img")]
    /\ pc' = NextStep
    /\ UNCHANGED <<run, conf, extras, open, out, nincfg>>

WriteTicket == Writes("tik", {"rvlt.tik"})
WriteTmd == Writes("tmd", {"rvlt.tmd"})

\* patch_file; a fw.img without a patch site stays as it is.
PatchFw == \E found \in BOOLEAN : Writes("fw", IF found THEN {"fw.img"} ELSE {})

WriteAppXml == Writes("app", {"app.xml"})
WriteMetaXml == Writes("meta", {"meta.xml"})

\* drc_source: the TV image stands in for missing GamePad art.
DrcSource(found) == IF found \cap {"bootTvTex", "bootDrcTex"} = {} THEN {} ELSE {"bootDrcTex"}

\* resolve_textures: art the user gave or the network has; otherwise the base's stays.
WriteTextures ==
    \E found \in SUBSET {"iconTex", "bootTvTex", "bootDrcTex"} :
        Writes("textures", (found \ {"bootDrcTex"}) \cup DrcSource(found))

-----------------------------------------------------------------------------
\* What plan finds below code/, content/ and meta/.
Packaged == [n \in DOMAIN Work \ Scratch |-> Work[n]]

Package ==
    /\ pc = "package"
    /\ out' = run
    /\ pc' = NextStep
    /\ UNCHANGED <<run, conf, dirs, extras, open, nincfg>>

\* after_package of the GameCube path.
WriteNincfg ==
    /\ pc = "nincfg"
    /\ nincfg' = [by |-> "made", run |-> run]
    /\ pc' = NextStep
    /\ UNCHANGED <<run, conf, dirs, extras, open, out>>

\* The files a step may leave cut when it fails.
Targets ==
    CASE pc = "stage" -> BaseFiles
      [] pc = "author" -> {"gc_disc.img"}
      [] pc = "nfs" -> Hifs(conf.hifs)
      [] pc = "tik" -> {"rvlt.tik"}
      [] pc = "tmd" -> {"rvlt.tmd"}
      [] pc = "fw" -> {"fw.img"}
      [] pc = "app" -> {"app.xml"}
      [] pc = "meta" -> {"meta.xml"}
      [] pc = "textures" -> {"iconTex", "bootTvTex", "bootDrcTex"}
      [] OTHER -> {}

DirsWhen(S, dropTemp) ==
    [given |-> IF conf.dir = "given" THEN Written(S, "cut") ELSE dirs.given,
     temp |-> IF dropTemp THEN Empty ELSE IF conf.dir = "temp" THEN Written(S, "cut")
                                                               ELSE dirs.temp]

\* What a package build that did not end leaves of the package there was.
OutWhenStopped == IF pc = "package" THEN out' \in {out, None} ELSE out' = out
NincfgWhenStopped ==
    IF pc = "nincfg" THEN nincfg' \in {nincfg, [by |-> "cut", run |-> run]} ELSE nincfg' = nincfg

\* Every step can fail but the extras, and closing; the error ends the run.
Fails ==
    /\ Running /\ pc \notin {"extras", "dropExtras", "close", "return"}
    /\ \E S \in {{}, Targets} : dirs' = DirsWhen(S, TRUE)
    /\ OutWhenStopped /\ NincfgWhenStopped
    /\ Finish("failed")

\* No destructor runs: the temporary directory stays behind.
Kill ==
    /\ Running
    /\ \E S \in {{}, Targets} : dirs' = DirsWhen(S, FALSE)
    /\ OutWhenStopped /\ NincfgWhenStopped
    /\ Finish("killed")

\* The run returned Ok.
Return ==
    /\ pc = "return"
    /\ dirs' = DirsWhen({}, TRUE)
    /\ Finish("done")
    /\ UNCHANGED <<out, nincfg>>

Program ==
    \/ Stage \/ PlanDisc
    \/ \E copied, certs, apploader \in BOOLEAN : Extras(copied, certs, apploader)
    \/ \E ok \in BOOLEAN : DropExtras(ok)
    \/ Author \/ BuildNfs \/ IntoRvlt \/ RemoveScratch
    \/ WriteTicket \/ WriteTmd \/ PatchFw \/ WriteAppXml \/ WriteMetaXml \/ WriteTextures
    \/ Package \/ WriteNincfg \/ Return
    \/ Fails

Next ==
    \/ Program \/ Kill \/ EmptyGiven
    \/ \E c \in Confs, accepted \in BOOLEAN : Start(c, accepted)

Spec == Init /\ [][Next]_vars

-----------------------------------------------------------------------------
Made(n) == Packaged[n] = [by |-> "made", run |-> run]

\* What is packaged is this run's own: whole files, none left by an earlier run in the same
\* --work-dir, the hif files of this image and no more (a shorter image would otherwise be
\* followed by the tail of a longer one), and the rvlt ticket and TMD made for it; and an
\* authored disc has the apploader the user gave, whatever the base's disc has. Both screens show
\* a matching splash: no TV image of the game's is packed beside the base's GamePad image.
PackageIsThisRuns ==
    [][Package => /\ \A n \in DOMAIN Packaged : Packaged[n].run = run /\ Packaged[n].by # "cut"
                  /\ DOMAIN Packaged \cap AllHifs = Hifs(conf.hifs)
                  /\ \A n \in (DOMAIN Packaged \cap AllHifs)
                           \cup {"rvlt.tik", "rvlt.tmd", "app.xml", "meta.xml"} : Made(n)
                  /\ conf.apploader <=> extras.apploader = "user"
                  /\ Made("bootTvTex") => Made("bootDrcTex")]_vars

\* The disc-sized scratch image does not lie beside its NFS copy for the rest of the build, and
\* it is not deleted while it is open, which fails on Windows.
ScratchIsFreed ==
    /\ open => Running /\ "gc_disc.img" \in DOMAIN Work
    /\ pc = "remove" => ~ open
    /\ pc \in {"tik", "tmd", "fw", "app", "meta", "textures", "package", "nincfg", "return"} =>
           "gc_disc.img" \notin DOMAIN Work

\* Only the packaging touches an older package, only its end the nincfg.bin: a run that fails
\* before leaves both as they were, no nincfg.bin is of a run without a package, and a run that
\* returns Ok has its package there and, for a GameCube game, its nincfg.bin in full.
OutputsLast ==
    [][/\ out' # out => pc = "package"
       /\ nincfg' # nincfg => conf.platform = "gc" /\ out = run /\ out' = run
       /\ Return => /\ out = run
                    /\ conf.platform = "gc" => nincfg = [by |-> "made", run |-> run]]_vars
=============================================================================
