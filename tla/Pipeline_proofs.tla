-------------------------- MODULE Pipeline_proofs --------------------------
(***************************************************************************)
(* The safety of Pipeline, for any number of runs over the same work and   *)
(* output directories and any command lines: what is packaged is the       *)
(* run's own, the disc-sized scratch image is gone in time, and the        *)
(* outputs are touched last.                                               *)
(***************************************************************************)
EXTENDS Pipeline, TLAPS

\* The steps from one on, common to both platforms but for those of the scratch image.
Unpackaged == {"package", "nincfg", "return"}
PastMeta == Unpackaged \cup {"textures"}
PastApp == PastMeta \cup {"meta"}
PastFw == PastApp \cup {"app"}
PastTmd == PastFw \cup {"fw"}
PastTik == PastTmd \cup {"tmd"}
PastRemove == PastTik \cup {"tik"}
PastNfs == PastRemove \cup {"close", "remove"}
BeforeNfs == {"stage", "plan", "extras", "dropExtras", "author", "nfs"}

GcPcs == (BeforeNfs \ {"plan"}) \cup PastNfs
WiiPcs == {"stage", "plan", "nfs"} \cup (PastRemove \ {"nincfg"})

Trees == UNION {[S -> WorkFile] : S \in SUBSET Names}

\* Types of the variables.
TypeOK ==
    /\ run \in 0 .. MaxRuns
    /\ pc \in Ended \cup GcPcs \cup WiiPcs
    /\ pc # "idle" => run \in 1 .. MaxRuns /\ conf \in Confs
    /\ Running => pc \in IF conf.platform = "gc" THEN GcPcs ELSE WiiPcs
    /\ dirs \in [given : Trees, temp : Trees]
    /\ extras \in [apploader : {"none", "user", "base"}, certs : BOOLEAN]
    /\ open \in BOOLEAN

MadeIn(n) == n \in DOMAIN Work /\ Work[n].by = "made"

\* The work directory of a run that is under way: every file is the run's own and whole, and
\* which there are and who made them follows from the step.
WorkIsOwn ==
    Running =>
        /\ \A n \in DOMAIN Work : Work[n].run = run /\ Work[n].by # "cut"
        /\ DOMAIN Work \cap AllHifs = IF pc \in PastNfs THEN Hifs(conf.hifs) ELSE {}
        /\ \A n \in DOMAIN Work \cap AllHifs : MadeIn(n)
        /\ pc # "stage" => BaseFiles \subseteq DOMAIN Work
        /\ pc \in PastTik => MadeIn("rvlt.tik")
        /\ pc \in PastTmd => MadeIn("rvlt.tmd")
        /\ pc \in PastApp => MadeIn("app.xml")
        /\ pc \in PastMeta => MadeIn("meta.xml")
        /\ MadeIn("bootTvTex") => MadeIn("bootDrcTex")
        /\ pc \notin Unpackaged => ~ MadeIn("bootTvTex")

\* The scratch image is there from its authoring to its removal, and open until it is closed.
ScratchFollows ==
    /\ ~ Running => ~ open
    /\ Running => /\ "gc_disc.img" \in DOMAIN Work <=>
                        conf.platform = "gc" /\ pc \in {"nfs", "close", "remove"}
                  /\ open <=> conf.platform = "gc" /\ pc \in {"nfs", "close"}

UsersApploaderStays == Running => (conf.apploader <=> extras.apploader = "user")

\* The package is the run's own once it is made, and then its nincfg.bin.
OutputsFollow ==
    /\ pc \in {"nincfg", "return"} => out = run
    /\ pc = "return" /\ conf.platform = "gc" => nincfg = [by |-> "made", run |-> run]

IInv == TypeOK /\ WorkIsOwn /\ ScratchFollows /\ UsersApploaderStays /\ OutputsFollow

-----------------------------------------------------------------------------
(***************************************************************************)
(* The operators of Pipeline.                                              *)
(***************************************************************************)
LEMMA HifFacts ==
    /\ AllHifs = {"hif_000000.nfs", "hif_000001.nfs"}
    /\ \A n \in DOMAIN HifNames : Hifs(n) \subseteq AllHifs
<1>1. Len(HifNames) = 2 /\ DOMAIN HifNames = 1 .. 2
    BY DEF HifNames
<1>2. HifNames[1] = "hif_000000.nfs" /\ HifNames[2] = "hif_000001.nfs"
    BY DEF HifNames
<1>3. 1 .. 2 = {1, 2}
    OBVIOUS
<1>. QED  BY <1>1, <1>2, <1>3 DEF AllHifs, Hifs

\* The order of the steps, on both platforms.
LEMMA NextStepIs ==
    ASSUME conf.platform \in {"wii", "gc"}
    PROVE  /\ conf.platform = "wii" /\ pc = "stage" => NextStep = "plan"
           /\ conf.platform = "wii" /\ pc = "plan" => NextStep = "nfs"
           /\ conf.platform = "wii" /\ pc = "nfs" => NextStep = "tik"
           /\ conf.platform = "wii" /\ pc = "package" => NextStep = "return"
           /\ conf.platform = "gc" /\ pc = "stage" => NextStep = "extras"
           /\ conf.platform = "gc" /\ pc = "extras" => NextStep = "dropExtras"
           /\ conf.platform = "gc" /\ pc = "dropExtras" => NextStep = "author"
           /\ conf.platform = "gc" /\ pc = "author" => NextStep = "nfs"
           /\ conf.platform = "gc" /\ pc = "nfs" => NextStep = "close"
           /\ conf.platform = "gc" /\ pc = "close" => NextStep = "remove"
           /\ conf.platform = "gc" /\ pc = "remove" => NextStep = "tik"
           /\ conf.platform = "gc" /\ pc = "package" => NextStep = "nincfg"
           /\ conf.platform = "gc" /\ pc = "nincfg" => NextStep = "return"
           /\ pc = "tik" => NextStep = "tmd"
           /\ pc = "tmd" => NextStep = "fw"
           /\ pc = "fw" => NextStep = "app"
           /\ pc = "app" => NextStep = "meta"
           /\ pc = "meta" => NextStep = "textures"
           /\ pc = "textures" => NextStep = "package"
<1>1. CASE conf.platform = "gc"
    BY <1>1 DEF NextStep, Steps, GcSteps
<1>2. CASE conf.platform = "wii"
    BY <1>2 DEF NextStep, Steps, WiiSteps
<1>. QED  BY <1>1, <1>2

LEMMA TreeIntro ==
    ASSUME NEW D \in SUBSET Names, NEW f \in [D -> WorkFile]
    PROVE  f \in Trees
BY DEF Trees

LEMMA TreeElim ==
    ASSUME NEW f \in Trees
    PROVE  DOMAIN f \in SUBSET Names /\ f \in [DOMAIN f -> WorkFile]
BY DEF Trees

LEMMA EmptyTree == Empty \in Trees /\ DOMAIN Empty = {}
<1>1. DOMAIN Empty = {}
    BY DEF Empty
<1>2. Empty = [n \in {} |-> n]
    BY DEF Empty
<1>. QED  BY <1>1, <1>2, TreeIntro

LEMMA ConfFacts ==
    ASSUME TypeOK, Running
    PROVE  /\ conf.platform \in {"wii", "gc"} /\ conf.dir \in {"given", "temp"}
           /\ conf.hifs \in DOMAIN HifNames /\ conf.apploader \in BOOLEAN
           /\ run \in 1 .. MaxRuns
           /\ Work \in Trees
BY PipelineAssumption DEF TypeOK, Running, Ended, Work

LEMMA WrittenTree ==
    ASSUME TypeOK, Running, NEW S \in SUBSET Names, NEW by \in {"base", "made", "cut"}
    PROVE  /\ Written(S, by) \in Trees
           /\ DOMAIN Written(S, by) = DOMAIN Work \cup S
           /\ \A n \in DOMAIN Written(S, by) :
                 Written(S, by)[n] = IF n \in S THEN [by |-> by, run |-> run] ELSE Work[n]
<1>1. DOMAIN Work \in SUBSET Names /\ Work \in [DOMAIN Work -> WorkFile]
    BY ConfFacts, TreeElim
<1>2. [by |-> by, run |-> run] \in WorkFile
    BY ConfFacts DEF WorkFile
<1>3. Written(S, by) \in [DOMAIN Work \cup S -> WorkFile]
    BY <1>1, <1>2 DEF Written
<1>4. Written(S, by) \in Trees
    BY <1>1, <1>3, TreeIntro
<1>. QED  BY <1>4 DEF Written

LEMMA WithoutTree ==
    ASSUME TypeOK, Running, NEW n
    PROVE  /\ Without(n) \in Trees
           /\ DOMAIN Without(n) = DOMAIN Work \ {n}
           /\ \A m \in DOMAIN Without(n) : Without(n)[m] = Work[m]
<1>1. DOMAIN Work \in SUBSET Names /\ Work \in [DOMAIN Work -> WorkFile]
    BY ConfFacts, TreeElim
<1>2. Without(n) \in [DOMAIN Work \ {n} -> WorkFile]
    BY <1>1 DEF Without
<1>3. Without(n) \in Trees
    BY <1>1, <1>2, TreeIntro
<1>. QED  BY <1>3 DEF Without

\* A new tree in the run's work directory.
LEMMA WorkStep ==
    ASSUME TypeOK, Running, NEW T \in Trees, dirs' = [dirs EXCEPT ![conf.dir] = T],
           conf' = conf
    PROVE  dirs' \in [given : Trees, temp : Trees] /\ Work' = T
<1>1. conf.dir \in {"given", "temp"} /\ dirs \in [given : Trees, temp : Trees]
    BY ConfFacts DEF TypeOK
<1>. QED  BY <1>1 DEF Work

-----------------------------------------------------------------------------
(***************************************************************************)
(* The invariant.                                                          *)
(***************************************************************************)
LEMMA InitIInv == Init => IInv
<1> SUFFICES ASSUME Init PROVE IInv
    OBVIOUS
<1>1. TypeOK
  <2>1. ~ Running
    BY DEF Init, Running, Ended
  <2>2. dirs \in [given : Trees, temp : Trees]
    BY EmptyTree DEF Init
  <2>3. run \in 0 .. MaxRuns
    BY PipelineAssumption DEF Init
  <2>4. extras \in [apploader : {"none", "user", "base"}, certs : BOOLEAN] /\ open \in BOOLEAN
    BY DEF Init
  <2>. QED  BY <2>1, <2>2, <2>3, <2>4 DEF Init, TypeOK, Ended
<1>. QED  BY <1>1 DEF Init, IInv, WorkIsOwn, ScratchFollows, UsersApploaderStays, OutputsFollow,
              Running, Ended, Unpackaged

\* Names apart from each other.
LEMMA NamesFacts ==
    /\ AllHifs \cap (BaseFiles \cup Scratch) = {}
    /\ BaseFiles \cap Scratch = {}
    /\ BaseFiles \subseteq Names /\ Scratch \subseteq Names /\ AllHifs \subseteq Names
BY HifFacts DEF BaseFiles, Scratch, Names

\* A step that writes files of the base, once the image is made.
LEMMA LateWrite ==
    ASSUME IInv, NEW step \in {"tik", "tmd", "fw", "app", "meta", "textures"},
           NEW S \in SUBSET BaseFiles, Writes(step, S),
           step = "tik" => "rvlt.tik" \in S,
           step = "tmd" => "rvlt.tmd" \in S,
           step = "app" => "app.xml" \in S,
           step = "meta" => "meta.xml" \in S,
           "bootTvTex" \in S => step = "textures" /\ "bootDrcTex" \in S
    PROVE  IInv'
<1> USE DEF BeforeNfs, GcPcs, WiiPcs, PastNfs, PastRemove, PastTik, PastTmd, PastFw, PastApp, PastMeta, Unpackaged, Ended
<1>0. TypeOK /\ WorkIsOwn /\ ScratchFollows /\ UsersApploaderStays /\ OutputsFollow /\ Running
    BY DEF IInv, Writes, Running
<1>1. /\ Written(S, "made") \in Trees
      /\ DOMAIN Written(S, "made") = DOMAIN Work \cup S
      /\ \A n \in DOMAIN Written(S, "made") :
            Written(S, "made")[n] = IF n \in S THEN [by |-> "made", run |-> run] ELSE Work[n]
    BY <1>0, NamesFacts, WrittenTree
<1>2. dirs' \in [given : Trees, temp : Trees] /\ Work' = Written(S, "made")
    BY <1>0, <1>1, WorkStep DEF Writes
<1>3. pc = step /\ pc' = NextStep /\ UNCHANGED <<run, conf, extras, open, out, nincfg>>
    BY DEF Writes
<1>4. pc' = CASE pc = "tik" -> "tmd" [] pc = "tmd" -> "fw" [] pc = "fw" -> "app"
              [] pc = "app" -> "meta" [] pc = "meta" -> "textures" [] pc = "textures" -> "package"
    BY <1>0, <1>3, ConfFacts, NextStepIs
<1>5. TypeOK' /\ Running'
    BY <1>0, <1>2, <1>3, <1>4 DEF TypeOK, Running
<1>6. WorkIsOwn'
  <2>1. \A n \in DOMAIN Work' : Work'[n].run = run' /\ Work'[n].by # "cut"
    BY <1>0, <1>1, <1>2, <1>3 DEF WorkIsOwn
  <2>2. /\ DOMAIN Work' \cap AllHifs = DOMAIN Work \cap AllHifs
        /\ \A n \in DOMAIN Work \cap AllHifs : MadeIn(n) => MadeIn(n)'
    BY <1>1, <1>2, NamesFacts DEF MadeIn
  <2>3. \A n : MadeIn(n)' <=> MadeIn(n) \/ n \in S
    BY <1>1, <1>2 DEF MadeIn
  <2>. QED  BY <1>0, <1>1, <1>2, <1>3, <1>4, <2>1, <2>2, <2>3 DEF WorkIsOwn
<1>7. ScratchFollows'
    BY <1>0, <1>1, <1>2, <1>3, <1>4, <1>5, NamesFacts DEF ScratchFollows, Scratch
<1>8. UsersApploaderStays' /\ OutputsFollow'
    BY <1>0, <1>3, <1>4 DEF UsersApploaderStays, OutputsFollow
<1>. QED  BY <1>5, <1>6, <1>7, <1>8 DEF IInv

\* A step up to the scratch image's removal that replaces the work directory's tree.
LEMMA EarlyStep ==
    ASSUME IInv, Running, NEW T \in Trees, dirs' = [dirs EXCEPT ![conf.dir] = T],
           pc \in BeforeNfs \cup {"close", "remove"}, pc' = NextStep,
           UNCHANGED <<run, conf, out, nincfg>>,
           extras' \in [apploader : {"none", "user", "base"}, certs : BOOLEAN],
           extras'.apploader = "user" <=> extras.apploader = "user", open' \in BOOLEAN,
           \A n \in DOMAIN T : T[n].run = run /\ T[n].by # "cut",
           BaseFiles \subseteq DOMAIN T,
           DOMAIN T \cap AllHifs = IF pc \in {"nfs", "close", "remove"} THEN Hifs(conf.hifs) ELSE {},
           \A n \in DOMAIN T \cap AllHifs : T[n].by = "made",
           T["bootTvTex"].by # "made",
           "gc_disc.img" \in DOMAIN T <=>
               conf.platform = "gc" /\ pc \in {"author", "nfs", "close"},
           open' <=> conf.platform = "gc" /\ pc \in {"author", "nfs"}
    PROVE  IInv'
<1> USE DEF BeforeNfs, GcPcs, WiiPcs, PastNfs, PastRemove, PastTik, PastTmd, PastFw, PastApp, PastMeta, Unpackaged, Ended
<1>0. TypeOK /\ WorkIsOwn /\ ScratchFollows /\ UsersApploaderStays /\ OutputsFollow
    BY DEF IInv
<1>1. dirs' \in [given : Trees, temp : Trees] /\ Work' = T
    BY <1>0, WorkStep
<1>2. pc \in IF conf.platform = "gc" THEN GcPcs ELSE WiiPcs
    BY <1>0 DEF TypeOK
<1>3. pc' = CASE pc = "stage" -> (IF conf.platform = "gc" THEN "extras" ELSE "plan")
              [] pc = "plan" -> "nfs" [] pc = "extras" -> "dropExtras"
              [] pc = "dropExtras" -> "author" [] pc = "author" -> "nfs"
              [] pc = "nfs" -> (IF conf.platform = "gc" THEN "close" ELSE "tik")
              [] pc = "close" -> "remove" [] pc = "remove" -> "tik"
  <2>1. conf.platform \in {"wii", "gc"}
    BY <1>0, ConfFacts
  <2>2. CASE conf.platform = "gc"
    BY <1>2, <2>1, <2>2, NextStepIs
  <2>3. CASE conf.platform = "wii"
    BY <1>2, <2>1, <2>3, NextStepIs
  <2>. QED  BY <2>1, <2>2, <2>3
<1>4. TypeOK' /\ Running'
  <2>1. /\ Running' /\ pc' \in GcPcs \cup WiiPcs
        /\ pc' \in IF conf.platform = "gc" THEN GcPcs ELSE WiiPcs
    BY <1>2, <1>3 DEF Running
  <2>. QED  BY <1>0, <1>1, <2>1 DEF TypeOK, Running
<1>5. WorkIsOwn'
  <2>1. pc' \in {"plan", "extras", "dropExtras", "author", "nfs", "close", "remove", "tik"}
    BY <1>2, <1>3
  <2>2. pc' \in PastNfs <=> pc \in {"nfs", "close", "remove"}
    BY <1>2, <1>3
  <2>3. "bootTvTex" \in DOMAIN T
    BY DEF BaseFiles
  <2>. QED  BY <1>0, <1>1, <2>1, <2>2, <2>3 DEF WorkIsOwn, MadeIn
<1>6. ScratchFollows'
    BY <1>0, <1>1, <1>2, <1>3, <1>4 DEF ScratchFollows
<1>7. UsersApploaderStays' /\ OutputsFollow'
    BY <1>0, <1>2, <1>3 DEF UsersApploaderStays, OutputsFollow
<1>. QED  BY <1>4, <1>5, <1>6, <1>7 DEF IInv

\* The end of a run that was under way, whatever it leaves behind.
LEMMA EndStep ==
    ASSUME IInv, Running, NEW how \in {"done", "failed", "killed"}, Finish(how),
           dirs' \in [given : Trees, temp : Trees]
    PROVE  IInv'
<1> USE DEF Ended, Unpackaged
<1>0. TypeOK /\ pc \notin Ended
    BY DEF IInv, Running
<1>1. pc' = how /\ open' = FALSE /\ UNCHANGED <<run, conf, extras>>
    BY DEF Finish
<1>2. ~ Running'
    BY <1>1 DEF Running
<1>3. TypeOK'
    BY <1>0, <1>1, <1>2 DEF TypeOK
<1>. QED  BY <1>1, <1>2, <1>3 DEF IInv, WorkIsOwn, ScratchFollows, UsersApploaderStays, OutputsFollow

LEMMA StoppedTrees ==
    ASSUME IInv, Running, NEW S \in {{}, Targets}, NEW dropTemp \in BOOLEAN
    PROVE  DirsWhen(S, dropTemp) \in [given : Trees, temp : Trees]
<1>0. TypeOK
    BY DEF IInv
<1>1. S \in SUBSET Names
  <2>1. conf.hifs \in DOMAIN HifNames => Hifs(conf.hifs) \subseteq Names
    BY HifFacts, NamesFacts
  <2>. QED  BY <1>0, <2>1, ConfFacts, NamesFacts DEF Targets, BaseFiles, Scratch
<1>2. Written(S, "cut") \in Trees
    BY <1>0, <1>1, WrittenTree
<1>. QED  BY <1>0, <1>2, EmptyTree DEF DirsWhen, TypeOK

LEMMA ProgramIInv == ASSUME IInv, Program PROVE IInv'
<1> USE DEF Ended, Unpackaged
<1>0. TypeOK /\ WorkIsOwn /\ ScratchFollows /\ UsersApploaderStays /\ OutputsFollow
    BY DEF IInv
\* What is known of the work directory of a run under way, its trees and its types.
<1>a. Running => /\ conf.platform \in {"wii", "gc"} /\ conf.hifs \in DOMAIN HifNames
                 /\ Work \in Trees /\ "bootTvTex" \in BaseFiles
                 /\ pc # "stage" => BaseFiles \subseteq DOMAIN Work
                 /\ pc \in IF conf.platform = "gc" THEN GcPcs ELSE WiiPcs
                 /\ extras \in [apploader : {"none", "user", "base"}, certs : BOOLEAN]
                 /\ open \in BOOLEAN
    BY <1>0, ConfFacts DEF WorkIsOwn, TypeOK, BaseFiles
<1>b. Running /\ dirs' = dirs => dirs' = [dirs EXCEPT ![conf.dir] = Work]
    BY <1>0, ConfFacts DEF TypeOK, Work
<1>c. Running /\ pc \notin Unpackaged /\ pc # "stage" => Work["bootTvTex"].by # "made"
    BY <1>0, <1>a DEF WorkIsOwn, MadeIn
<1>1. ASSUME Stage PROVE IInv'
  <2>1. pc = "stage" /\ Running
    BY <1>1 DEF Stage, Running
  <2>2. DOMAIN Work \cap AllHifs = {} /\ "gc_disc.img" \notin DOMAIN Work
    BY <1>0, <2>1 DEF WorkIsOwn, ScratchFollows, PastNfs, PastRemove, PastTik, PastTmd, PastFw,
        PastApp, PastMeta
  <2>3. /\ Written(BaseFiles, "base") \in Trees
        /\ DOMAIN Written(BaseFiles, "base") = DOMAIN Work \cup BaseFiles
        /\ \A n \in DOMAIN Written(BaseFiles, "base") :
              Written(BaseFiles, "base")[n] =
                  IF n \in BaseFiles THEN [by |-> "base", run |-> run] ELSE Work[n]
    BY <1>0, <2>1, NamesFacts, WrittenTree
  <2>4. DOMAIN Written(BaseFiles, "base") \cap AllHifs = {}
    BY <2>2, <2>3, NamesFacts
  <2>5. "gc_disc.img" \notin DOMAIN Written(BaseFiles, "base")
    BY <2>2, <2>3, NamesFacts DEF Scratch
  <2>6. open = FALSE
    BY <1>0, <2>1 DEF ScratchFollows, TypeOK
  <2>7. \A n \in DOMAIN Work : Work[n].run = run /\ Work[n].by # "cut"
    BY <1>0, <2>1 DEF WorkIsOwn, PastNfs, PastRemove, PastTik, PastTmd, PastFw,
        PastApp, PastMeta
  <2>8. /\ BaseFiles \subseteq DOMAIN Written(BaseFiles, "base")
        /\ Written(BaseFiles, "base")["bootTvTex"].by # "made"
        /\ \A n \in DOMAIN Written(BaseFiles, "base") :
               Written(BaseFiles, "base")[n].run = run /\ Written(BaseFiles, "base")[n].by # "cut"
    BY <1>a, <2>1, <2>3, <2>7
  <2>. QED  BY <1>1, <1>a, <2>1, <2>3, <2>4, <2>5, <2>6, <2>7, <2>8, EarlyStep DEF Stage, BeforeNfs
<1>2. ASSUME NEW step \in {"plan", "nfs"}, NEW S \in SUBSET AllHifs, Writes(step, S),
             S = IF step = "nfs" THEN Hifs(conf.hifs) ELSE {}
      PROVE  IInv'
  <2>1. pc = step /\ Running
    BY <1>2 DEF Writes, Running
  <2>0. S \in SUBSET Names
    BY NamesFacts
  <2>2. /\ Written(S, "made") \in Trees
        /\ DOMAIN Written(S, "made") = DOMAIN Work \cup S
        /\ \A n \in DOMAIN Written(S, "made") :
              Written(S, "made")[n] = IF n \in S THEN [by |-> "made", run |-> run] ELSE Work[n]
    BY <1>0, <2>0, <2>1, WrittenTree
  <2>3. /\ DOMAIN Work \cap AllHifs = {} /\ BaseFiles \subseteq DOMAIN Work
        /\ \A n \in DOMAIN Work : Work[n].run = run /\ Work[n].by # "cut"
    BY <1>0, <2>1 DEF WorkIsOwn, PastNfs, PastRemove, PastTik, PastTmd, PastFw,
        PastApp, PastMeta
  <2>4. DOMAIN Written(S, "made") \cap AllHifs = S
    BY <2>2, <2>3
  <2>5. Written(S, "made")["bootTvTex"].by # "made"
    BY <1>a, <1>c, <2>1, <2>2, <2>3, NamesFacts
  <2>6. "gc_disc.img" \in DOMAIN Written(S, "made") <=> "gc_disc.img" \in DOMAIN Work
    BY <2>2, NamesFacts DEF Scratch
  <2>7. /\ "gc_disc.img" \in DOMAIN Work <=> conf.platform = "gc" /\ pc = "nfs"
        /\ open <=> conf.platform = "gc" /\ pc = "nfs"
    BY <1>0, <2>1 DEF ScratchFollows
  <2>8. /\ "bootTvTex" \in DOMAIN Written(S, "made") /\ BaseFiles \subseteq DOMAIN Written(S, "made")
        /\ \A n \in DOMAIN Written(S, "made") :
               Written(S, "made")[n].run = run /\ Written(S, "made")[n].by # "cut"
        /\ \A n \in DOMAIN Written(S, "made") \cap AllHifs : Written(S, "made")[n].by = "made"
    BY <1>a, <2>1, <2>2, <2>3, <2>4
  <2>. QED  BY <1>2, <1>a, <2>1, <2>2, <2>3, <2>4, <2>5, <2>6, <2>7, <2>8, EarlyStep DEF Writes, BeforeNfs
<1>3. ASSUME NEW copied \in BOOLEAN, NEW certs \in BOOLEAN, NEW apploader \in BOOLEAN,
             Extras(copied, certs, apploader)
      PROVE  IInv'
  <2> DEFINE T == IF copied THEN Written({"base_nfs"}, "made") ELSE Work
  <2>1. pc = "extras" /\ Running
    BY <1>3 DEF Extras, Running
  <2>0. {"base_nfs"} \in SUBSET Names
    BY NamesFacts DEF Scratch
  <2>2. /\ T \in Trees
        /\ DOMAIN T \in {DOMAIN Work, DOMAIN Work \cup {"base_nfs"}}
        /\ \A n \in DOMAIN T \ {"base_nfs"} : T[n] = Work[n]
        /\ \A n \in DOMAIN T : \/ T[n] = [by |-> "made", run |-> run]
                               \/ n \in DOMAIN Work /\ T[n] = Work[n]
    <3>1. CASE copied
      <4>1. /\ T \in Trees
            /\ DOMAIN T = DOMAIN Work \cup {"base_nfs"}
            /\ \A n \in DOMAIN T :
                  T[n] = IF n \in {"base_nfs"} THEN [by |-> "made", run |-> run] ELSE Work[n]
        BY <1>0, <2>0, <2>1, <3>1, WrittenTree
      <4> HIDE DEF T
      <4>. QED  BY <4>1
    <3>2. CASE ~ copied
      BY <1>a, <2>1, <3>2
    <3>. QED  BY <3>1, <3>2
  <2>3. dirs' = [dirs EXCEPT ![conf.dir] = T]
    BY <1>3, <1>b, <2>1 DEF Extras, Work
  <2>4. /\ DOMAIN Work \cap AllHifs = {} /\ BaseFiles \subseteq DOMAIN Work
        /\ \A n \in DOMAIN Work : Work[n].run = run /\ Work[n].by # "cut"
        /\ "gc_disc.img" \notin DOMAIN Work /\ ~ open
    BY <1>0, <2>1 DEF WorkIsOwn, ScratchFollows, PastNfs, PastRemove, PastTik, PastTmd, PastFw,
        PastApp, PastMeta
  <2>5. DOMAIN T \cap AllHifs = {} /\ "gc_disc.img" \notin DOMAIN T
    BY <2>2, <2>4, NamesFacts DEF Scratch
  <2>a. BaseFiles \subseteq DOMAIN T /\ "base_nfs" \notin BaseFiles
    BY <2>2, <2>4, NamesFacts DEF Scratch
  <2>6. T["bootTvTex"].by # "made"
    BY <1>a, <1>c, <2>1, <2>2, <2>a
  <2>7. \A n \in DOMAIN T : T[n].run = run /\ T[n].by # "cut"
    <3> HIDE DEF T
    <3>. QED  BY <2>2, <2>4
  <2>8. /\ extras'.apploader = "user" <=> extras.apploader = "user"
        /\ extras' \in [apploader : {"none", "user", "base"}, certs : BOOLEAN]
    BY <1>0, <1>3, <1>a, <2>1, ConfFacts DEF Extras, WantApploader, UsersApploaderStays
  <2>9. UNCHANGED <<run, conf, open, out, nincfg>> /\ pc' = NextStep
    BY <1>3 DEF Extras
  <2> HIDE DEF T
  <2>. QED  BY <1>a, <2>1, <2>2, <2>3, <2>4, <2>5, <2>6, <2>a, <2>7, <2>8, <2>9, EarlyStep DEF BeforeNfs
<1>4. ASSUME NEW ok \in BOOLEAN, DropExtras(ok) PROVE IInv'
  <2> DEFINE T == IF ok THEN Without("base_nfs") ELSE Work
  <2>1. pc = "dropExtras" /\ Running
    BY <1>4 DEF DropExtras, Running
  <2>2. /\ T \in Trees
        /\ DOMAIN T \in {DOMAIN Work, DOMAIN Work \ {"base_nfs"}}
        /\ \A n \in DOMAIN T : T[n] = Work[n]
    BY <1>0, <1>a, <2>1, WithoutTree
  <2>3. dirs' = [dirs EXCEPT ![conf.dir] = T]
    BY <1>4, <1>b, <2>1 DEF DropExtras, Work
  <2>4. /\ DOMAIN Work \cap AllHifs = {} /\ BaseFiles \subseteq DOMAIN Work
        /\ \A n \in DOMAIN Work : Work[n].run = run /\ Work[n].by # "cut"
        /\ "gc_disc.img" \notin DOMAIN Work /\ ~ open
    BY <1>0, <2>1 DEF WorkIsOwn, ScratchFollows, PastNfs, PastRemove, PastTik, PastTmd, PastFw,
        PastApp, PastMeta
  <2>5. DOMAIN T \cap AllHifs = {} /\ "gc_disc.img" \notin DOMAIN T
    BY <2>2, <2>4
  <2>6. BaseFiles \subseteq DOMAIN T
    BY <2>2, <2>4, NamesFacts DEF Scratch
  <2>7. /\ T["bootTvTex"].by # "made"
        /\ \A n \in DOMAIN T : T[n].run = run /\ T[n].by # "cut"
    BY <1>a, <1>c, <2>1, <2>2, <2>4, <2>6
  <2>8. UNCHANGED <<run, conf, extras, open, out, nincfg>> /\ pc' = NextStep
    BY <1>4 DEF DropExtras
  <2> HIDE DEF T
  <2>. QED  BY <1>a, <2>1, <2>2, <2>3, <2>4, <2>5, <2>6, <2>7, <2>8, EarlyStep DEF BeforeNfs
<1>5. ASSUME Author PROVE IInv'
  <2> DEFINE T == Written({"gc_disc.img"}, "made")
  <2>1. pc = "author" /\ Running
    BY <1>5 DEF Author, Running
  <2>0. {"gc_disc.img"} \in SUBSET Names
    BY NamesFacts DEF Scratch
  <2>2. /\ T \in Trees
        /\ DOMAIN T = DOMAIN Work \cup {"gc_disc.img"}
        /\ \A n \in DOMAIN T :
              T[n] = IF n \in {"gc_disc.img"} THEN [by |-> "made", run |-> run] ELSE Work[n]
    BY <1>0, <2>0, <2>1, WrittenTree
  <2>3. /\ DOMAIN Work \cap AllHifs = {} /\ BaseFiles \subseteq DOMAIN Work
        /\ \A n \in DOMAIN Work : Work[n].run = run /\ Work[n].by # "cut"
    BY <1>0, <2>1 DEF WorkIsOwn, PastNfs, PastRemove, PastTik, PastTmd, PastFw,
        PastApp, PastMeta
  <2>4. DOMAIN T \cap AllHifs = {} /\ BaseFiles \subseteq DOMAIN T /\ "gc_disc.img" \in DOMAIN T
    BY <2>2, <2>3, NamesFacts DEF Scratch
  <2>5. "gc_disc.img" \notin BaseFiles
    BY NamesFacts DEF Scratch
  <2>6. /\ T["bootTvTex"].by # "made"
        /\ \A n \in DOMAIN T : T[n].run = run /\ T[n].by # "cut"
    BY <1>a, <1>c, <2>1, <2>2, <2>3, <2>4, <2>5
  <2>7. /\ UNCHANGED <<run, conf, extras, out, nincfg>> /\ pc' = NextStep /\ open' = TRUE
        /\ dirs' = [dirs EXCEPT ![conf.dir] = T]
    BY <1>5 DEF Author
  <2>8. conf.platform = "gc"
    BY <1>a, <2>1 DEF WiiPcs, PastRemove, PastTik, PastTmd, PastFw, PastApp, PastMeta
  <2> HIDE DEF T
  <2>. QED  BY <1>a, <2>1, <2>2, <2>4, <2>6, <2>7, <2>8, EarlyStep DEF BeforeNfs
<1>6. ASSUME IntoRvlt PROVE IInv'
  <2>1. pc = "close" /\ Running
    BY <1>6 DEF IntoRvlt, Running
  <2>2. /\ DOMAIN Work \cap AllHifs = Hifs(conf.hifs) /\ BaseFiles \subseteq DOMAIN Work
        /\ \A n \in DOMAIN Work : Work[n].run = run /\ Work[n].by # "cut"
        /\ \A n \in DOMAIN Work \cap AllHifs : Work[n].by = "made"
        /\ "gc_disc.img" \in DOMAIN Work <=> conf.platform = "gc"
    BY <1>0, <2>1 DEF WorkIsOwn, ScratchFollows, MadeIn, PastNfs, PastRemove, PastTik, PastTmd, PastFw,
        PastApp, PastMeta
  <2>3. /\ UNCHANGED <<run, conf, extras, out, nincfg>> /\ pc' = NextStep /\ open' = FALSE
        /\ dirs' = [dirs EXCEPT ![conf.dir] = Work]
    BY <1>6, <1>b, <2>1 DEF IntoRvlt, OpenAfterIntoRvlt
  <2>. QED  BY <1>a, <1>c, <2>1, <2>2, <2>3, EarlyStep
<1>7. ASSUME RemoveScratch PROVE IInv'
  <2> DEFINE T == Without("gc_disc.img")
  <2>1. pc = "remove" /\ Running
    BY <1>7 DEF RemoveScratch, Running
  <2>2. /\ T \in Trees
        /\ DOMAIN T = DOMAIN Work \ {"gc_disc.img"}
        /\ \A n \in DOMAIN T : T[n] = Work[n]
    BY <1>0, <2>1, WithoutTree
  <2>3. /\ DOMAIN Work \cap AllHifs = Hifs(conf.hifs) /\ BaseFiles \subseteq DOMAIN Work
        /\ \A n \in DOMAIN Work : Work[n].run = run /\ Work[n].by # "cut"
        /\ \A n \in DOMAIN Work \cap AllHifs : Work[n].by = "made"
        /\ ~ open
    BY <1>0, <2>1 DEF WorkIsOwn, ScratchFollows, MadeIn, PastNfs, PastRemove, PastTik, PastTmd, PastFw,
        PastApp, PastMeta
  <2>4. DOMAIN T \cap AllHifs = Hifs(conf.hifs) /\ BaseFiles \subseteq DOMAIN T
    BY <2>2, <2>3, NamesFacts DEF Scratch
  <2>5. /\ T["bootTvTex"].by # "made" /\ "gc_disc.img" \notin DOMAIN T
        /\ \A n \in DOMAIN T : T[n].run = run /\ T[n].by # "cut"
        /\ \A n \in DOMAIN T \cap AllHifs : T[n].by = "made"
    BY <1>a, <1>c, <2>1, <2>2, <2>3, <2>4
  <2>6. /\ UNCHANGED <<run, conf, extras, open, out, nincfg>> /\ pc' = NextStep
        /\ dirs' = [dirs EXCEPT ![conf.dir] = T]
    BY <1>7 DEF RemoveScratch
  <2> HIDE DEF T
  <2>. QED  BY <1>a, <2>1, <2>2, <2>3, <2>4, <2>5, <2>6, EarlyStep
<1>8. ASSUME WriteTicket \/ WriteTmd \/ PatchFw \/ WriteAppXml \/ WriteMetaXml PROVE IInv'
  <2>1. {"rvlt.tik"} \subseteq BaseFiles /\ {"rvlt.tmd"} \subseteq BaseFiles
        /\ {"fw.img"} \subseteq BaseFiles /\ {"app.xml"} \subseteq BaseFiles
        /\ {"meta.xml"} \subseteq BaseFiles
    BY DEF BaseFiles
  <2>2. ASSUME WriteTicket PROVE IInv'
    BY <2>1, <2>2, LateWrite DEF WriteTicket
  <2>3. ASSUME WriteTmd PROVE IInv'
    BY <2>1, <2>3, LateWrite DEF WriteTmd
  <2>4. ASSUME WriteAppXml PROVE IInv'
    BY <2>1, <2>4, LateWrite DEF WriteAppXml
  <2>5. ASSUME WriteMetaXml PROVE IInv'
    BY <2>1, <2>5, LateWrite DEF WriteMetaXml
  <2>6. ASSUME PatchFw PROVE IInv'
    <3>1. \E S \in {{}, {"fw.img"}} : Writes("fw", S)
      BY <2>6 DEF PatchFw
    <3>. QED  BY <2>1, <3>1, LateWrite
  <2>. QED  BY <1>8, <2>2, <2>3, <2>4, <2>5, <2>6
<1>9. ASSUME WriteTextures PROVE IInv'
  <2>1. PICK found \in SUBSET {"iconTex", "bootTvTex", "bootDrcTex"} :
            Writes("textures", (found \ {"bootDrcTex"}) \cup DrcSource(found))
    BY <1>9 DEF WriteTextures
  <2> DEFINE S == (found \ {"bootDrcTex"}) \cup DrcSource(found)
  <2>2. S \in SUBSET BaseFiles /\ ("bootTvTex" \in S => "bootDrcTex" \in S)
    BY DEF DrcSource, BaseFiles
  <2>3. Writes("textures", S)
    BY <2>1
  <2> HIDE DEF S
  <2>. QED  BY <2>2, <2>3, LateWrite
<1>10. ASSUME Package \/ WriteNincfg PROVE IInv'
  <2> USE DEF BeforeNfs, GcPcs, WiiPcs, PastNfs, PastRemove, PastTik, PastTmd, PastFw,
        PastApp, PastMeta
  <2>1. pc \in {"package", "nincfg"} /\ Running
    BY <1>10 DEF Package, WriteNincfg, Running
  <2>2. UNCHANGED <<run, conf, dirs, extras, open>> /\ Work' = Work
    BY <1>10 DEF Package, WriteNincfg, Work
  <2>3. pc' = NextStep /\ (pc = "package" => out' = run)
        /\ (pc = "nincfg" => out' = out /\ nincfg' = [by |-> "made", run |-> run])
    BY <1>10 DEF Package, WriteNincfg
  <2>4. pc' = (IF pc = "package" /\ conf.platform = "gc" THEN "nincfg" ELSE "return")
    BY <1>0, <1>a, <2>1, <2>3, NextStepIs
  <2>5. TypeOK' /\ Running'
    BY <1>0, <1>a, <2>1, <2>2, <2>4 DEF TypeOK, Running
  <2>6. WorkIsOwn'
    BY <1>0, <2>1, <2>2, <2>4 DEF WorkIsOwn, MadeIn
  <2>7. ScratchFollows' /\ UsersApploaderStays'
    BY <1>0, <2>1, <2>2, <2>4, <2>5 DEF ScratchFollows, UsersApploaderStays
  <2>8. OutputsFollow'
    BY <1>0, <1>a, <2>1, <2>2, <2>3, <2>4 DEF OutputsFollow
  <2>. QED  BY <2>5, <2>6, <2>7, <2>8 DEF IInv
<1>11. ASSUME Return PROVE IInv'
  <2>1. Running
    BY <1>11 DEF Return, Running
  <2>. QED  BY <1>11, <2>1, StoppedTrees, EndStep DEF Return
<1>12. ASSUME Fails PROVE IInv'
    BY <1>12, StoppedTrees, EndStep DEF Fails
<1>13. PlanDisc \/ BuildNfs => IInv'
  <2>1. PlanDisc => IInv'
    BY <1>2 DEF PlanDisc
  <2>2. BuildNfs => Hifs(conf.hifs) \in SUBSET AllHifs
    BY <1>a, HifFacts DEF BuildNfs, Writes, Running
  <2>. QED  BY <1>2, <2>1, <2>2 DEF BuildNfs
<1>. QED  BY <1>1, <1>3, <1>4, <1>5, <1>6, <1>7, <1>8, <1>9, <1>10, <1>11, <1>12, <1>13 DEF Program

\* A run starts, in a directory that is empty or fails.
LEMMA StartIInv ==
    ASSUME IInv, NEW c \in Confs, NEW accepted \in BOOLEAN, Start(c, accepted)
    PROVE  IInv'
<1> USE DEF Ended, Unpackaged
<1>0. TypeOK /\ ~ Running
    BY DEF IInv, Start
<1>1. /\ c.platform \in {"wii", "gc"} /\ c.dir \in {"given", "temp"} /\ c.apploader \in BOOLEAN
    BY PipelineAssumption
<1>2. /\ run' = run + 1 /\ run < MaxRuns /\ conf' = c /\ open' = FALSE
      /\ dirs' = [dirs EXCEPT !.temp = Empty]
      /\ extras' = [apploader |-> IF c.apploader THEN "user" ELSE "none", certs |-> FALSE]
      /\ pc' \in {"stage", "failed"} /\ (pc' = "stage" => Usable(c))
    BY DEF Start
<1>3. dirs' \in [given : Trees, temp : Trees]
    BY <1>0, <1>2, EmptyTree DEF TypeOK
<1>4. run' \in 1 .. MaxRuns
    BY <1>0, <1>2, PipelineAssumption DEF TypeOK
<1>5. extras' \in [apploader : {"none", "user", "base"}, certs : BOOLEAN] /\ open' \in BOOLEAN
    BY <1>2
<1>6. TypeOK'
    BY <1>1, <1>2, <1>3, <1>4, <1>5 DEF TypeOK, BeforeNfs, GcPcs, WiiPcs, Running
<1>7. pc' = "stage" => DOMAIN Work' = {}
    BY <1>0, <1>1, <1>2, EmptyTree DEF Usable, Work, TypeOK
<1>8. WorkIsOwn'
    BY <1>1, <1>2, <1>7 DEF WorkIsOwn, MadeIn, Running, PastNfs, PastRemove, PastTik, PastTmd,
        PastFw, PastApp, PastMeta
<1>9. ScratchFollows'
    BY <1>1, <1>2, <1>7 DEF ScratchFollows, Running
<1>10. UsersApploaderStays' /\ OutputsFollow'
    BY <1>1, <1>2 DEF UsersApploaderStays, OutputsFollow, Running
<1>. QED  BY <1>6, <1>8, <1>9, <1>10 DEF IInv

LEMMA NextIInv == IInv /\ [Next]_vars => IInv'
<1> SUFFICES ASSUME IInv, [Next]_vars PROVE IInv'
    OBVIOUS
<1>1. CASE Program
    BY <1>1, ProgramIInv
<1>2. CASE Kill
    BY <1>2, StoppedTrees, EndStep DEF Kill
<1>3. CASE EmptyGiven
  <2>1. ~ Running /\ dirs' \in [given : Trees, temp : Trees]
    BY <1>3, EmptyTree DEF EmptyGiven, IInv, TypeOK
  <2>2. UNCHANGED <<run, conf, pc, extras, open, out, nincfg>>
    BY <1>3 DEF EmptyGiven
  <2>. QED  BY <2>1, <2>2 DEF IInv, TypeOK, WorkIsOwn, ScratchFollows, UsersApploaderStays,
                 OutputsFollow, Running
<1>4. CASE \E c \in Confs, accepted \in BOOLEAN : Start(c, accepted)
    BY <1>4, StartIInv
<1>5. CASE UNCHANGED vars
    BY <1>5 DEF vars, IInv, TypeOK, WorkIsOwn, ScratchFollows, UsersApploaderStays, OutputsFollow,
        Running, MadeIn, Work
<1>. QED  BY <1>1, <1>2, <1>3, <1>4, <1>5 DEF Next

-----------------------------------------------------------------------------
(***************************************************************************)
(* The theorems.                                                           *)
(***************************************************************************)
\* The invariant above holds whatever runs, failures and kills come one after the other.
THEOREM Invariance == Spec => []IInv
BY InitIInv, NextIInv, PTL DEF Spec

\* The variables keep their types: every work directory is a tree of the program's own files, and
\* the next step is one of the steps of the run's platform.
THEOREM TypeCorrect == Spec => []TypeOK
<1>1. IInv => TypeOK
    BY DEF IInv
<1>. QED  BY <1>1, Invariance, PTL

\* AuthoredDisc's image is removed before the ticket is written, and never while it is open.
THEOREM ScratchFreed == Spec => []ScratchIsFreed
<1>1. IInv => ScratchIsFreed
  <2> SUFFICES ASSUME IInv PROVE ScratchIsFreed
    OBVIOUS
  <2>1. ScratchFollows
    BY DEF IInv
  <2>. QED  BY <2>1 DEF ScratchFollows, ScratchIsFreed, Running, Ended
<1>. QED  BY <1>1, Invariance, PTL

\* What run_pack is handed is whole, this run's, with this image's hif files, the ticket, TMD and
\* XML files made for the title, the user's apploader and matching splash screens -- whatever
\* earlier runs left in the same work directory.
THEOREM OwnPackage == Spec => PackageIsThisRuns
<1> DEFINE Good == /\ \A n \in DOMAIN Packaged : Packaged[n].run = run /\ Packaged[n].by # "cut"
                   /\ DOMAIN Packaged \cap AllHifs = Hifs(conf.hifs)
                   /\ \A n \in (DOMAIN Packaged \cap AllHifs)
                            \cup {"rvlt.tik", "rvlt.tmd", "app.xml", "meta.xml"} : Made(n)
                   /\ conf.apploader <=> extras.apploader = "user"
                   /\ Made("bootTvTex") => Made("bootDrcTex")
<1>1. IInv => [Package => Good]_vars
  <2> SUFFICES ASSUME IInv, Package PROVE Good
    OBVIOUS
  <2>1. pc = "package" /\ Running /\ TypeOK
    BY DEF Package, Running, Ended, IInv
  <2>2. /\ \A n \in DOMAIN Work : Work[n].run = run /\ Work[n].by # "cut"
        /\ DOMAIN Work \cap AllHifs = Hifs(conf.hifs)
        /\ \A n \in DOMAIN Work \cap AllHifs : MadeIn(n)
        /\ MadeIn("rvlt.tik") /\ MadeIn("rvlt.tmd") /\ MadeIn("app.xml") /\ MadeIn("meta.xml")
        /\ MadeIn("bootTvTex") => MadeIn("bootDrcTex")
        /\ BaseFiles \subseteq DOMAIN Work
        /\ conf.apploader <=> extras.apploader = "user"
    BY <2>1 DEF IInv, WorkIsOwn, UsersApploaderStays, PastNfs, PastRemove, PastTik, PastTmd,
        PastFw, PastApp, PastMeta, Unpackaged
  <2>3. DOMAIN Work \in SUBSET Names /\ Work \in [DOMAIN Work -> WorkFile]
    BY <2>1, ConfFacts, TreeElim
  <2>4. /\ DOMAIN Packaged = DOMAIN Work \ Scratch
        /\ \A n \in DOMAIN Packaged : Packaged[n] = Work[n]
    BY DEF Packaged
  <2>5. \A n \in DOMAIN Packaged : Made(n) <=> MadeIn(n)
    <3> SUFFICES ASSUME NEW n \in DOMAIN Packaged PROVE Made(n) <=> MadeIn(n)
      OBVIOUS
    <3>1. n \in DOMAIN Work /\ Packaged[n] = Work[n]
      BY <2>4
    <3>2. Work[n] \in [by : {"base", "made", "cut"}, run : 1 .. MaxRuns] /\ Work[n].run = run
      BY <2>2, <2>3, <3>1 DEF WorkFile
    <3>3. Work[n] = [by |-> Work[n].by, run |-> Work[n].run]
      BY <3>2
    <3>. QED  BY <3>1, <3>2, <3>3 DEF Made, MadeIn
  <2>6. DOMAIN Packaged \cap AllHifs = Hifs(conf.hifs)
    BY <2>2, <2>4, NamesFacts
  <2>7. {"rvlt.tik", "rvlt.tmd", "app.xml", "meta.xml", "bootTvTex", "bootDrcTex"}
            \subseteq DOMAIN Packaged
    BY <2>2, <2>4, NamesFacts DEF BaseFiles
  <2>. QED  BY <2>2, <2>4, <2>5, <2>6, <2>7
<1>. QED  BY <1>1, Invariance, PTL DEF PackageIsThisRuns

\* finish_package and after_package come last: until the packaging the outputs are as they were,
\* nincfg.bin changes only beside this run's package, and Ok means that both are there.
THEOREM Outputs == Spec => OutputsLast
<1> DEFINE Good == /\ out' # out => pc = "package"
                   /\ nincfg' # nincfg => conf.platform = "gc" /\ out = run /\ out' = run
                   /\ Return => /\ out = run
                                /\ conf.platform = "gc" => nincfg = [by |-> "made", run |-> run]
<1>1. IInv /\ [Next]_vars => [Good]_vars
  <2> SUFFICES ASSUME IInv, [Next]_vars PROVE Good
    OBVIOUS
  <2>0. TypeOK /\ OutputsFollow
    BY DEF IInv
  <2>1. \/ UNCHANGED <<out, nincfg>>
        \/ pc = "package" /\ nincfg' = nincfg
        \/ pc = "nincfg" /\ out' = out
    BY DEF Next, vars, Program, Kill, EmptyGiven, Start, Stage, PlanDisc, Extras, DropExtras, Author,
        BuildNfs, IntoRvlt, RemoveScratch, WriteTicket, WriteTmd, PatchFw, WriteAppXml,
        WriteMetaXml, WriteTextures, Package, WriteNincfg, Return, Fails, Writes,
        OutWhenStopped, NincfgWhenStopped
  <2>2. pc = "nincfg" => conf.platform = "gc" /\ out = run
    BY <2>0 DEF TypeOK, OutputsFollow, WiiPcs, Running, Ended, PastRemove, PastTik, PastTmd,
        PastFw, PastApp, PastMeta, Unpackaged
  <2>3. Return => /\ out = run
                  /\ conf.platform = "gc" => nincfg = [by |-> "made", run |-> run]
    BY <2>0 DEF Return, OutputsFollow
  <2>. QED  BY <2>1, <2>2, <2>3
<1>. QED  BY <1>1, Invariance, PTL DEF OutputsLast, Spec
=============================================================================
