------------------------- MODULE BaseSources_proofs -------------------------
(***************************************************************************)
(* The safety of BaseSources, for any titles, directories and archives     *)
(* and whatever the update server does meanwhile: what is staged is one    *)
(* version, whole, and what is borrowed of the base's disc is of one       *)
(* version of it.                                                          *)
(***************************************************************************)
EXTENDS BaseSources, FiniteSetTheorems, WellFoundedInduction, TLAPS

Pcs == {"open", "list", "copy", "tmd", "wait", "extract", "finalize", "disc", "check", "certs",
        "apploader", "remove", "done", "failed"}

\* Types of the variables; and a TMD in hand was served, and is of the version asked for.
TypeOK ==
    /\ job \in Jobs
    /\ latest \in Versions
    /\ pc \in Pcs /\ phase \in {"stage", "disc"} /\ calm \in BOOLEAN
    /\ rec \in Versions \cup {None}
    /\ rec # None => rec <= latest /\ job.version \in {rec, None}
    /\ pc = "wait" => want \in Clusters \cup {"tmd"}
    /\ extras \in [certs : Versions \cup {None}, apploader : Versions \cup {None, User}]

\* A request for the TMD or for the FST; before it is answered, no file is known of.
Asking == pc \in {"open", "list", "tmd"} \/ (pc = "wait" /\ want \in {"tmd", "fst"})

\* Where a run can be, by the kind of the base and the phase.
Where ==
    /\ pc \in {"tmd", "wait", "extract"} => IsNus
    /\ pc \in {"list", "copy"} => ~ IsNus
    /\ phase = "disc" /\ pc = "copy" => job.kind = "wua"
    /\ phase = "disc" => job.gc /\ pc \notin {"open", "list", "finalize", "disc", "failed"}
    /\ phase = "stage" => pc \notin {"check", "certs", "apploader", "remove"}
    /\ phase = "stage" /\ pc = "done" => ~ job.gc
    /\ pc = "disc" => job.gc
    /\ IsNus /\ rec = None => phase = "stage" /\ pc \in {"open", "tmd", "wait", "failed"}
                              /\ (pc = "wait" => want = "tmd")
    /\ ~ IsNus /\ pc \notin {"open", "failed"} => \E x \in Candidates : own = job.roots[x]

\* The title that is copied or extracted, and what of it this phase is to keep.
Source == IF IsNus THEN Tree(job.title, rec) ELSE own
Goal == {f \in Source : Kept(f.name) /\ f.dir \in IF phase = "disc" /\ ~ IsNus
                                                    THEN {"code", "content"} ELSE StageSubdirs}

\* The files so far, and those that todo still names.
Target == IF phase = "stage" THEN build ELSE scratch
FileOf(e) == [dir |-> e.dir, name |-> e.name, ver |-> Data(job.title, rec, e.cluster)]
Left == IF IsNus THEN {FileOf(todo[x]) : x \in {y \in DOMAIN todo : Kept(todo[y].name)}}
                 ELSE {f \in own : Kept(f.name) /\ \E x \in DOMAIN todo : todo[x] = f.dir}

\* Every decoded content is of the version of the TMD in hand, and was wanted.
Contents ==
    /\ \A c \in got :
           rec # None /\ c.cluster \in Clusters /\ c.ver = Data(job.title, rec, c.cluster)
    /\ phase = "stage" /\ (Decoded("game") \/ (pc = "wait" /\ want = "game")) =>
           \E x \in DOMAIN job.title.files :
               job.title.files[x].cluster = "game" /\ ~IsBaseGameNfs(job.title.files[x].name)

\* What is there and what is still to come are the title's.
Progress ==
    /\ Asking => Target = {}
    /\ pc \in {"copy", "extract"} \/ (pc = "wait" /\ ~ Asking) => Target \cup Left = Goal
    /\ pc = "copy" => todo \in Seq(StageSubdirs)
    /\ pc = "extract" \/ (pc = "wait" /\ ~ Asking) =>
           /\ todo \in Seq(Entry)
           /\ \A x \in DOMAIN todo : \E y \in DOMAIN job.title.files : todo[x] = job.title.files[y]
    /\ pc \in {"finalize", "check"} => Target = Goal
    /\ phase = "stage" => scratch = {}
    /\ (phase = "stage" /\ pc = "done") \/ pc = "disc" \/ phase = "disc" =>
           \E t \in WholeTitles : Staged(t) /\ build = StagedOf(t)

DiscFiles(tree) == {f \in tree : f.dir = "content" /\ f.name = "hif_000000.nfs"}

\* The base's disc lies in a part of the title; the extras are of its version, or there are none.
Borrowed ==
    /\ pc \in {"certs", "apploader"} =>
           /\ nfsDir \in {"own", "scratch"} /\ (nfsDir = "own" => ~ IsNus)
           /\ HasDisc(NfsTree) /\ NfsTree \subseteq Source
    /\ job.apploader => extras.apploader = User /\ pc # "apploader"
    /\ ~ job.apploader => extras.apploader # User
    /\ pc \notin {"apploader", "remove", "done"} =>
           extras.certs = None /\ extras.apploader \in {None, User}
    /\ {extras.certs, extras.apploader} \cap Versions \subseteq {f.ver : f \in DiscFiles(Source)}

\* What follows as long as nothing went wrong.
Served ==
    calm =>
        /\ IsNus /\ phase = "stage" =>
               latest = 1 /\ cdn = [id \in Clusters \X Versions |-> IF id[2] = 1 THEN 1 ELSE None]
        /\ IsNus /\ phase = "disc" =>
               /\ ServedWhole
               /\ pc # "tmd" /\ ~ (pc = "wait" /\ want = "tmd") =>
                      rec = IF job.version = None THEN latest ELSE job.version
        /\ phase = "disc" /\ HasDisc(Source) =>
               /\ pc \in {"apploader", "remove", "done"} => extras.certs # None
               /\ pc \in {"remove", "done"} => extras.apploader # None
        /\ phase = "disc" /\ pc = "done" => scratch = {}
        /\ pc = "failed" =>
               IF IsNus THEN rec # None /\ ~Staged(Tree(job.title, rec))
               ELSE \/ \A x \in DOMAIN job.roots : ~Staged(job.roots[x])
                    \/ Cardinality({x \in DOMAIN job.roots : HasCode(job.roots[x])}) > 1
                    \/ job.direct /\ ~Staged(job.roots[1])

IInv == TypeOK /\ Where /\ Contents /\ Progress /\ Borrowed /\ Served

-----------------------------------------------------------------------------
LEMMA JobFacts ==
    ASSUME job \in Jobs
    PROVE  /\ job.kind \in {"dir", "wua", "nus"} /\ job.version \in Versions \cup {None}
           /\ job.gc \in BOOLEAN /\ job.apploader \in BOOLEAN /\ job.direct \in BOOLEAN
           /\ GoodTitle(job.title)
           /\ job.roots \in Seq(SUBSET FileOfTree)
           /\ \A x \in DOMAIN job.roots : GoodRoot(job.title, job.roots[x])
           /\ job.direct => job.kind = "dir" /\ Len(job.roots) = 1
BY JobsAssumption

LEMMA TreeIs ==
    \A v, f : f \in Tree(job.title, v) <=>
        \E x \in DOMAIN job.title.files :
            f = [dir |-> job.title.files[x].dir, name |-> job.title.files[x].name,
                 ver |-> Data(job.title, v, job.title.files[x].cluster)]
BY DEF Tree

LEMMA DataIs == \A t, v, c : Data(t, v, c) \in Versions
BY DEF Data, Versions

LEMMA InitIInv == Init => IInv
<1> SUFFICES ASSUME Init PROVE IInv
    OBVIOUS
<1>1. TypeOK
    BY JobFacts DEF Init, TypeOK, Versions, Pcs
<1>2. Where
    BY DEF Init, Where
<1>3. Contents
    BY DEF Init, Contents, Decoded
<1>4. Progress
    BY DEF Init, Progress, Asking, Target
<1>5. Borrowed
    BY <1>1, ConstantsApart, JobFacts DEF Init, Borrowed, TypeOK
<1>6. Served
    BY DEF Init, Served
<1>. QED  BY <1>1, <1>2, <1>3, <1>4, <1>5, <1>6 DEF IInv

LEMMA PublishContentsIInv == ASSUME IInv, PublishContents PROVE IInv'
<1>0. TypeOK /\ Where /\ Contents /\ Progress /\ Borrowed /\ Served
    BY DEF IInv
<1>1. TypeOK'
    BY <1>0 DEF PublishContents, trees, download, Quietly, TypeOK, Pcs, Where
<1>2. Where'
    BY <1>0 DEF PublishContents, trees, download, Quietly, Where, IsNus, Candidates
<1>3. Contents'
    BY <1>0 DEF PublishContents, trees, download, Quietly, Where, Contents, Decoded
<1>4. Progress'
    BY <1>0 DEF PublishContents, trees, download, Quietly, Where, Progress, Target, Goal, Left,
        Source, FileOf, Asking, IsNus, Kept, StagedOf, WholeTitles
<1>5. Borrowed'
    BY <1>0, ConstantsApart DEF PublishContents, trees, download, Quietly, Where, Borrowed, Source,
        IsNus, TypeOK, NfsTree
<1>6. Served'
    BY <1>0 DEF PublishContents, trees, download, Quietly, Where, Served, Source, IsNus, ServedWhole
<1>. QED  BY <1>1, <1>2, <1>3, <1>4, <1>5, <1>6 DEF IInv

LEMMA PublishTmdIInv == ASSUME IInv, PublishTmd PROVE IInv'
<1>0. TypeOK /\ Where /\ Contents /\ Progress /\ Borrowed /\ Served
    BY DEF IInv
<1>1. TypeOK'
  <2>1. /\ latest = 1 /\ latest' = 2 /\ rec' = rec /\ calm' = FALSE
        /\ UNCHANGED <<job, pc, phase, want, extras>>
    BY DEF PublishTmd, Quietly, download
  <2>2. rec \in {1, 2} \/ rec = None
    BY <1>0 DEF TypeOK, Versions
  <2>3. rec' # None => rec' <= latest' /\ job'.version \in {rec', None}
    BY <1>0, <2>1, <2>2 DEF TypeOK
  <2>. QED  BY <1>0, <2>1, <2>3 DEF TypeOK, Versions
<1>2. Where'
    BY <1>0 DEF PublishTmd, trees, download, Quietly, Where, IsNus, Candidates
<1>3. Contents'
    BY <1>0 DEF PublishTmd, trees, download, Quietly, Where, Contents, Decoded
<1>4. Progress'
    BY <1>0 DEF PublishTmd, trees, download, Quietly, Where, Progress, Target, Goal, Left, Source,
        FileOf, Asking, IsNus, Kept, StagedOf, WholeTitles
<1>5. Borrowed'
    BY <1>0, ConstantsApart DEF PublishTmd, trees, download, Quietly, Where, Borrowed, Source,
        IsNus, TypeOK, NfsTree
<1>6. Served'
    BY <1>0 DEF PublishTmd, trees, download, Quietly, Where, Served, Source, IsNus, ServedWhole
<1>. QED  BY <1>1, <1>2, <1>3, <1>4, <1>5, <1>6 DEF IInv

LEMMA WithdrawIInv == ASSUME IInv, Withdraw PROVE IInv'
<1>0. TypeOK /\ Where /\ Contents /\ Progress /\ Borrowed /\ Served
    BY DEF IInv
<1>1. TypeOK'
    BY <1>0 DEF Withdraw, trees, download, Quietly, TypeOK, Pcs, Where
<1>2. Where'
    BY <1>0 DEF Withdraw, trees, download, Quietly, Where, IsNus, Candidates
<1>3. Contents'
    BY <1>0 DEF Withdraw, trees, download, Quietly, Where, Contents, Decoded
<1>4. Progress'
    BY <1>0 DEF Withdraw, trees, download, Quietly, Where, Progress, Target, Goal, Left, Source,
        FileOf, Asking, IsNus, Kept, StagedOf, WholeTitles
<1>5. Borrowed'
    BY <1>0, ConstantsApart DEF Withdraw, trees, download, Quietly, Where, Borrowed, Source, IsNus,
        TypeOK, NfsTree
<1>6. Served'
    BY <1>0 DEF Withdraw, trees, download, Quietly, Where, Served, Source, IsNus, ServedWhole
<1>. QED  BY <1>1, <1>2, <1>3, <1>4, <1>5, <1>6 DEF IInv

LEMMA AnswerTmdIInv == ASSUME IInv, AnswerTmd PROVE IInv'
<1>0. TypeOK /\ Where /\ Contents /\ Progress /\ Borrowed /\ Served
    BY DEF IInv
<1>1. TypeOK'
    BY <1>0, JobFacts, ConstantsApart DEF AnswerTmd, server, trees, download, TypeOK, Pcs, Where,
        Versions, Clusters
<1>2. Where'
    BY <1>0, <1>1, JobFacts, ConstantsApart DEF AnswerTmd, server, trees, download, Where, IsNus,
        Candidates, TypeOK, Versions
<1>3. Contents'
    BY <1>0 DEF AnswerTmd, server, trees, download, Where, Contents, Decoded
<1>4. Progress'
    BY <1>0 DEF AnswerTmd, server, trees, download, Where, Progress, Target, Goal, Left, Source,
        FileOf, Asking, IsNus, Kept, StagedOf, WholeTitles
<1>5. Borrowed'
    BY <1>0, ConstantsApart DEF AnswerTmd, server, trees, download, Where, Borrowed, Source, IsNus,
        TypeOK, NfsTree
<1>6. Served'
    BY <1>0 DEF AnswerTmd, server, trees, download, Where, Served, Source, IsNus, ServedWhole
<1>. QED  BY <1>1, <1>2, <1>3, <1>4, <1>5, <1>6 DEF IInv

\* What the goal of a phase depends on.
LEMMA GoalSame ==
    ASSUME UNCHANGED <<job, rec, own, phase>>
    PROVE  Goal' = Goal /\ Source' = Source /\ (IsNus <=> IsNus')
BY DEF Goal, Source, IsNus, Kept

LEMMA SourceIs ==
    ASSUME TypeOK, IsNus
    PROVE  /\ \A f : f \in Source
                    <=> \E x \in DOMAIN job.title.files : f = FileOf(job.title.files[x])
           /\ job.title.files \in Seq(Entry)
           /\ \A f : f \in Goal <=> f \in Source /\ Kept(f.name)
<1>1. job.title.files \in Seq(Entry)
    BY JobFacts DEF TypeOK, GoodTitle
<1>2. \A f : f \in Source <=> \E x \in DOMAIN job.title.files : f = FileOf(job.title.files[x])
    BY TreeIs DEF Source, FileOf
<1>3. \A f \in Source : f.dir \in StageSubdirs
  <2> SUFFICES ASSUME NEW x \in DOMAIN job.title.files
               PROVE  FileOf(job.title.files[x]).dir \in StageSubdirs
    BY <1>2
  <2>1. job.title.files[x] \in Entry
    BY <1>1
  <2>. QED  BY <2>1 DEF FileOf, Entry
<1>. QED  BY <1>1, <1>2, <1>3 DEF Goal

\* One entry of a title is done with.
LEMMA LeftHead ==
    ASSUME todo \in Seq(Entry), todo # <<>>, todo' = Tail(todo), IsNus,
           UNCHANGED <<job, rec, own, phase>>
    PROVE  /\ Head(todo) \in Entry /\ todo' \in Seq(Entry)
           /\ \E y \in DOMAIN todo : Head(todo) = todo[y]
           /\ \A x \in DOMAIN todo' : \E y \in DOMAIN todo : todo'[x] = todo[y]
           /\ Left = Left' \cup (IF Kept(Head(todo).name) THEN {FileOf(Head(todo))} ELSE {})
<1>1. /\ Head(todo) \in Entry /\ todo' \in Seq(Entry) /\ Len(todo) \in Nat \ {0}
      /\ DOMAIN todo = 1 .. Len(todo) /\ DOMAIN todo' = 1 .. Len(todo) - 1
      /\ Head(todo) = todo[1] /\ \A x \in DOMAIN todo' : todo'[x] = todo[x + 1]
    OBVIOUS
<1>2. \A e : Kept(e)' <=> Kept(e)
    BY DEF Kept
<1>3. \A e : FileOf(e)' = FileOf(e)
    BY DEF FileOf
<1>4. \A f : f \in Left <=> \E x \in DOMAIN todo : Kept(todo[x].name) /\ f = FileOf(todo[x])
    BY DEF Left
<1>5. \A f : f \in Left' <=> \E x \in DOMAIN todo' : Kept(todo'[x].name) /\ f = FileOf(todo'[x])
    BY <1>2, <1>3 DEF Left, IsNus
<1>6. \A x \in DOMAIN todo : x = 1 \/ (x - 1 \in DOMAIN todo' /\ todo[x] = todo'[x - 1])
    BY <1>1
<1>7. \A x \in DOMAIN todo' : x + 1 \in DOMAIN todo /\ todo'[x] = todo[x + 1]
    BY <1>1
<1>8. 1 \in DOMAIN todo
    BY <1>1
<1>9. \A f : f \in Left <=> f \in Left' \/ (Kept(Head(todo).name) /\ f = FileOf(Head(todo)))
  <2>1. ASSUME NEW f \in Left PROVE f \in Left' \/ (Kept(Head(todo).name) /\ f = FileOf(Head(todo)))
    <3>1. PICK x \in DOMAIN todo : Kept(todo[x].name) /\ f = FileOf(todo[x])
        BY <1>4
    <3>2. CASE x = 1
        BY <1>1, <3>1, <3>2
    <3>3. CASE x # 1
        BY <1>5, <1>6, <3>1, <3>3
    <3>. QED  BY <3>2, <3>3
  <2>2. ASSUME NEW f \in Left' PROVE f \in Left
    BY <1>4, <1>5, <1>7
  <2>3. Kept(Head(todo).name) => FileOf(Head(todo)) \in Left
    BY <1>1, <1>4, <1>8
  <2>. QED  BY <2>1, <2>2, <2>3
<1>10. Left = Left' \cup (IF Kept(Head(todo).name) THEN {FileOf(Head(todo))} ELSE {})
    BY <1>9
<1>. QED  BY <1>1, <1>7, <1>8, <1>10

LEMMA AnswerContentIInv == ASSUME IInv, AnswerContent PROVE IInv'
<1>0. TypeOK /\ Where /\ Contents /\ Progress /\ Borrowed /\ Served
    BY DEF IInv
<1>1. TypeOK'
    BY <1>0 DEF AnswerContent, server, trees, download, GoesWrong, TypeOK, Pcs, Where
<1>2. Where'
    BY <1>0 DEF AnswerContent, server, trees, download, GoesWrong, Where, IsNus, Candidates,
        TypeOK, Clusters
<1>3. Contents'
    BY <1>0 DEF AnswerContent, server, trees, download, GoesWrong, Where, Contents, Decoded,
        TypeOK, Clusters, Verified, IsNus
<1>4. Progress'
  <2>1. /\ pc = "wait" /\ want \in Clusters /\ IsNus /\ TypeOK
        /\ UNCHANGED <<job, server, phase, own, rec, want, trees, nfsDir, extras>>
        /\ \/ pc' = "extract" /\ todo' = IF want = "fst" THEN job.title.files ELSE todo
           \/ phase = "stage" /\ pc' = "failed" /\ UNCHANGED todo
           \/ phase = "disc" /\ pc' = "remove" /\ UNCHANGED todo
    BY <1>0 DEF AnswerContent, GoesWrong, Where, TypeOK
  <2>2. /\ Goal' = Goal /\ Target' = Target /\ WholeTitles' = WholeTitles
        /\ \A e : Kept(e)' <=> Kept(e)
        /\ \A e : FileOf(e)' = FileOf(e)
    BY <2>1, GoalSame DEF server, trees, Target, WholeTitles, IsNus, Kept, FileOf
  <2>3. ASSUME want = "fst", pc' = "extract" PROVE Target' \cup Left' = Goal'
    <3>1. \A f : f \in Left' <=> \E x \in DOMAIN job.title.files :
                     Kept(job.title.files[x].name) /\ f = FileOf(job.title.files[x])
        BY <2>1, <2>2, <2>3 DEF Left, IsNus
    <3>2. \A x \in DOMAIN job.title.files :
              FileOf(job.title.files[x]).name = job.title.files[x].name
        BY DEF FileOf
    <3>3. Left' = Goal
        BY <2>1, <3>1, <3>2, SourceIs
    <3>. QED  BY <1>0, <2>1, <2>2, <2>3, <3>3 DEF Progress, Asking
  <2>4. ASSUME want # "fst", pc' = "extract" PROVE Target' \cup Left' = Goal'
    <3>1. Left' = Left
        BY <2>1, <2>2, <2>4 DEF Left, IsNus
    <3>. QED  BY <1>0, <2>1, <2>2, <2>4, <3>1 DEF Progress, Asking, Clusters
  <2>5. job.title.files \in Seq(Entry)
    BY <2>1, SourceIs
  <2>6. pc' = "extract" =>
           /\ todo' \in Seq(Entry)
           /\ \A x \in DOMAIN todo' :
                 \E y \in DOMAIN job'.title.files : todo'[x] = job'.title.files[y]
    BY <1>0, <2>1, <2>5 DEF Progress, Asking, Clusters
  <2>. QED  BY <1>0, <2>1, <2>2, <2>3, <2>4, <2>6 DEF Progress, Asking, Where, Clusters, server,
                trees
<1>5. Borrowed'
    BY <1>0 DEF AnswerContent, server, trees, download, GoesWrong, Where, Borrowed, Source, IsNus
<1>6. Served'
  <2>1. PICK bytes \in {cdn[Id(job.title, rec, want)], Damaged} :
            /\ calm' = (calm /\ bytes # Damaged)
            /\ IF Verified(bytes) THEN pc' = "extract" ELSE GoesWrong
    BY DEF AnswerContent
  <2>2. /\ pc = "wait" /\ want \in Clusters /\ want # "tmd" /\ IsNus /\ rec \in Versions
        /\ UNCHANGED <<job, server, phase, own, rec, want, trees, nfsDir, extras>>
    BY <1>0 DEF AnswerContent, Where, TypeOK, Clusters
  <2>3. ASSUME calm' PROVE Verified(bytes)
    <3>1. calm /\ bytes = cdn[Id(job.title, rec, want)]
        BY <2>1, <2>3
    <3>2. CASE phase = "stage"
      <4>0. /\ latest = 1
            /\ cdn = [id \in Clusters \X Versions |-> IF id[2] = 1 THEN 1 ELSE None]
        BY <1>0, <2>2, <3>1, <3>2 DEF Served
      <4>1. rec = 1
        <5>1. rec # None /\ rec \in {1, 2}
            BY <2>2, ConstantsApart DEF Versions
        <5>. QED  BY <1>0, <4>0, <5>1 DEF TypeOK
      <4>2. Id(job.title, 1, want) = <<want, 1>> /\ Data(job.title, 1, want) = 1
        BY DEF Id, Data
      <4>3. cdn[<<want, 1>>] = 1
        BY <2>2, <4>0 DEF Versions
      <4>. QED  BY <3>1, <4>1, <4>2, <4>3 DEF Verified
    <3>3. CASE phase = "disc"
        BY <1>0, <2>2, <3>1, <3>3 DEF Served, ServedWhole, Verified
    <3>. QED  BY <1>0, <3>2, <3>3 DEF TypeOK
  <2>4. calm' => calm /\ pc' = "extract"
    BY <2>1, <2>3
  <2>5. calm' => phase' = phase /\ (phase = "disc" => ServedWhole')
    BY <1>0, <2>2, <2>4 DEF Served, ServedWhole, server, IsNus
  <2>. QED  BY <1>0, <2>2, <2>4, <2>5 DEF Served, IsNus, server, trees
<1>. QED  BY <1>1, <1>2, <1>3, <1>4, <1>5, <1>6 DEF IInv

LEMMA AnswerErrorIInv == ASSUME IInv, AnswerError PROVE IInv'
<1>0. TypeOK /\ Where /\ Contents /\ Progress /\ Borrowed /\ Served
    BY DEF IInv
<1>1. TypeOK'
    BY <1>0 DEF AnswerError, server, trees, download, Stops, GoesWrong, TypeOK, Pcs, Where
<1>2. Where'
    BY <1>0 DEF AnswerError, server, trees, download, Stops, GoesWrong, Where, IsNus, Candidates
<1>3. Contents'
    BY <1>0 DEF AnswerError, server, trees, download, Stops, GoesWrong, Where, Contents, Decoded
<1>4. Progress'
    BY <1>0 DEF AnswerError, server, trees, download, Stops, GoesWrong, Where, Progress, Target,
        Goal, Left, Source, FileOf, Asking, IsNus, Kept, StagedOf, WholeTitles
<1>5. Borrowed'
    BY <1>0 DEF AnswerError, server, trees, download, Stops, GoesWrong, Where, Borrowed, Source,
        IsNus
<1>6. Served'
    BY <1>0 DEF AnswerError, server, trees, download, Stops, GoesWrong, Where, Served, Source,
        IsNus, ServedWhole
<1>. QED  BY <1>1, <1>2, <1>3, <1>4, <1>5, <1>6 DEF IInv

LEMMA FiniteInterval == \A n \in Nat : IsFiniteSet(1 .. n)
<1>1. ASSUME NEW n \in Nat PROVE IsFiniteSet(1 .. n)
  <2>1. 1 \in Int /\ n \in Int
    OBVIOUS
  <2>. QED  BY <2>1, FS_Interval, Zenon
<1>. QED  BY <1>1

\* A set of naturals that is not empty has a least element.
LEMMA LeastNatural ==
    ASSUME NEW T \in SUBSET Nat, T # {}
    PROVE  \E x \in T : \A y \in T : x <= y
<1> DEFINE U == {1 .. x : x \in T}
<1>1. U \subseteq FiniteSubsetsOf(Nat) /\ U # {}
  <2>1. ASSUME NEW x \in T PROVE 1 .. x \in SUBSET Nat /\ IsFiniteSet(1 .. x)
    BY FiniteInterval
  <2>. QED  BY <2>1 DEF FiniteSubsetsOf
<1>2. PICK u \in U : \A v \in U : ~ (<<v, u>> \in StrictSubsetOrdering(Nat))
    BY <1>1, FS_StrictSubsetOrderingWellFounded, WFMin
<1>3. PICK x \in T : u = 1 .. x
    BY <1>2
<1>4. ASSUME NEW y \in T, y < x PROVE FALSE
  <2>1. 1 .. y \subseteq 1 .. x /\ 1 .. y # 1 .. x /\ 1 .. y \in SUBSET Nat /\ 1 .. x \in SUBSET Nat
    <3>1. x \in 1 .. x /\ x \notin 1 .. y
        BY <1>4
    <3>. QED  BY <1>4, <3>1
  <2>2. <<1 .. y, 1 .. x>> \in StrictSubsetOrdering(Nat)
    BY <2>1 DEF StrictSubsetOrdering
  <2>. QED  BY <1>2, <1>3, <2>2
<1>. QED  BY <1>4

LEMMA OpenBaseIInv == ASSUME IInv, OpenBase PROVE IInv'
<1>0. TypeOK /\ Where /\ Contents /\ Progress /\ Borrowed /\ Served
    BY DEF IInv
<1>1. TypeOK'
    BY <1>0 DEF OpenBase, server, trees, download, TypeOK, Pcs, Where
<1>2. Where'
    BY <1>0 DEF OpenBase, server, trees, download, Where, IsNus, Candidates
<1>3. Contents'
    BY <1>0 DEF OpenBase, server, trees, download, Where, Contents, Decoded
<1>4. Progress'
    BY <1>0 DEF OpenBase, server, trees, download, Where, Progress, Target, Goal, Left, Source,
        FileOf, Asking, IsNus, Kept, StagedOf, WholeTitles
<1>5. Borrowed'
    BY <1>0, ConstantsApart DEF OpenBase, server, trees, download, Where, Borrowed, Source, IsNus,
        TypeOK, NfsTree
<1>6. Served'
  <2>1. /\ pc = "open"
        /\ UNCHANGED <<job, server, phase, download, todo, trees, nfsDir, extras, calm>>
        /\ phase = "stage" /\ (IsNus' <=> IsNus)
        /\ pc' = "failed" => ~ IsNus /\ Candidates = {}
    BY <1>0 DEF OpenBase, Where, IsNus, TypeOK
  <2>2. \A x \in DOMAIN job.roots : HasCode(job.roots[x]) \/ ~ Staged(job.roots[x])
    BY DEF HasCode, Staged, Has, RequiredCodeFiles
  <2>3. ASSUME pc' = "failed" PROVE \/ \A x \in DOMAIN job.roots : ~Staged(job.roots[x])
                                    \/ job.direct /\ ~Staged(job.roots[1])
    <3> DEFINE withCode == {x \in DOMAIN job.roots : HasCode(job.roots[x])}
    <3>1. CASE job.kind = "wua"
      <4>1. withCode \in SUBSET Nat
        BY <1>0, JobFacts DEF TypeOK
      <4>2. {x \in withCode : \A y \in withCode : x <= y} = {}
        BY <2>1, <2>3, <3>1 DEF Candidates
      <4>3. withCode = {}
        BY <4>1, <4>2, LeastNatural
      <4>. QED  BY <2>2, <4>3
    <3>2. CASE job.kind # "wua" /\ job.direct
      <4>1. 1 \in DOMAIN job.roots
        BY <1>0, <3>2, JobFacts DEF TypeOK
      <4>2. 1 \notin withCode
        BY <2>1, <2>3, <3>2 DEF Candidates
      <4>. QED  BY <2>2, <3>2, <4>1, <4>2
    <3>3. CASE job.kind # "wua" /\ ~ job.direct
      <4>1. withCode = {}
        BY <2>1, <2>3, <3>3 DEF Candidates
      <4>. QED  BY <2>2, <4>1
    <3>. QED  BY <3>1, <3>2, <3>3
  <2>4. pc' # "failed" => pc' \in {"tmd", "list"}
    BY DEF OpenBase
  <2>. QED  BY <1>0, <2>1, <2>3, <2>4 DEF Served, server
<1>. QED  BY <1>1, <1>2, <1>3, <1>4, <1>5, <1>6 DEF IInv

LEMMA ListIInv == ASSUME IInv, List PROVE IInv'
<1>0. TypeOK /\ Where /\ Contents /\ Progress /\ Borrowed /\ Served
    BY DEF IInv
<1>1. TypeOK'
    BY <1>0 DEF List, server, trees, download, TypeOK, Pcs, Where
<1>2. Where'
    BY <1>0 DEF List, server, trees, download, Where, IsNus, Candidates
<1>3. Contents'
    BY <1>0 DEF List, server, trees, download, Where, Contents, Decoded
<1>4. Progress'
  <2>1. /\ pc = "list" /\ pc' = "copy" /\ phase = "stage" /\ ~ IsNus
        /\ UNCHANGED <<job, server, phase, own, download, trees, nfsDir, extras, calm>>
        /\ todo' = <<"code", "content", "meta">>
    BY <1>0 DEF List, Where, TypeOK
  <2>2. /\ todo' \in Seq(StageSubdirs)
        /\ \A d : (\E x \in DOMAIN todo' : todo'[x] = d) <=> d \in StageSubdirs
    <3>1. DOMAIN todo' = {1, 2, 3} /\ todo'[1] = "code" /\ todo'[2] = "content" /\ todo'[3] = "meta"
        BY <2>1
    <3>2. todo' \in Seq(StageSubdirs)
        BY <2>1 DEF StageSubdirs
    <3>. QED  BY <3>1, <3>2 DEF StageSubdirs
  <2>3. Left' = Goal'
    BY <2>1, <2>2 DEF Left, Goal, Source, IsNus, Kept
  <2>4. Target' = {} /\ scratch' = {}
    BY <1>0, <2>1 DEF Progress, Asking, Target, trees
  <2>. QED  BY <2>1, <2>2, <2>3, <2>4 DEF Progress, Asking
<1>5. Borrowed'
    BY <1>0 DEF List, server, trees, download, Where, Borrowed, Source, IsNus
<1>6. Served'
    BY <1>0 DEF List, server, trees, download, Where, Served, Source, IsNus, ServedWhole
<1>. QED  BY <1>1, <1>2, <1>3, <1>4, <1>5, <1>6 DEF IInv

LEMMA CopyIInv == ASSUME IInv, Copy PROVE IInv'
<1>0. TypeOK /\ Where /\ Contents /\ Progress /\ Borrowed /\ Served
    BY DEF IInv
<1>1. TypeOK'
    BY <1>0 DEF Copy, server, trees, download, TypeOK, Pcs, Where
<1>2. Where'
    BY <1>0 DEF Copy, server, trees, download, Where, IsNus, Candidates
<1>3. Contents'
    BY <1>0 DEF Copy, server, trees, download, Where, Contents, Decoded
<1>4. Progress'
  <2>1. /\ pc = "copy" /\ pc' = "copy" /\ ~ IsNus /\ todo # <<>> /\ todo \in Seq(StageSubdirs)
        /\ UNCHANGED <<job, server, phase, own, download, nfsDir, extras, calm>>
        /\ todo' = Tail(todo)
    BY <1>0 DEF Copy, Where, Progress
  <2>2. /\ todo' \in Seq(StageSubdirs)
        /\ \A d : (\E x \in DOMAIN todo : todo[x] = d) <=>
                      d = Head(todo) \/ \E x \in DOMAIN todo' : todo'[x] = d
    <3>1. /\ Len(todo) \in Nat \ {0} /\ todo' \in Seq(StageSubdirs)
          /\ DOMAIN todo = 1 .. Len(todo) /\ DOMAIN todo' = 1 .. Len(todo) - 1
          /\ Head(todo) = todo[1] /\ \A x \in DOMAIN todo' : todo'[x] = todo[x + 1]
        BY <2>1
    <3>2. \A x \in DOMAIN todo : x = 1 \/ (x - 1 \in DOMAIN todo' /\ todo[x] = todo'[x - 1])
        BY <3>1
    <3>3. \A x \in DOMAIN todo' : x + 1 \in DOMAIN todo
        BY <3>1
    <3>. QED  BY <3>1, <3>2, <3>3
  <2>3. /\ Target' = Target \cup {f \in own : f.dir = Head(todo) /\ Kept(f.name)}
        /\ phase = "stage" => scratch' = scratch
        /\ phase # "stage" => build' = build
    BY <2>1 DEF Copy, Target
  <2>4. Goal' = Goal /\ \A e : Kept(e)' <=> Kept(e)
    BY <2>1, GoalSame DEF Kept, download
  <2>5. Left = Left' \cup {f \in own : f.dir = Head(todo) /\ Kept(f.name)}
    BY <2>1, <2>2, <2>4 DEF Left, IsNus
  <2>6. WholeTitles' = WholeTitles
    BY <2>1 DEF WholeTitles, IsNus, server
  <2>. QED  BY <1>0, <2>1, <2>2, <2>3, <2>4, <2>5, <2>6 DEF Progress, Asking, Where
<1>5. Borrowed'
    BY <1>0 DEF Copy, server, trees, download, Where, Borrowed, Source, IsNus
<1>6. Served'
    BY <1>0 DEF Copy, server, trees, download, Where, Served, Source, IsNus, ServedWhole
<1>. QED  BY <1>1, <1>2, <1>3, <1>4, <1>5, <1>6 DEF IInv

LEMMA CopyDoneIInv == ASSUME IInv, CopyDone PROVE IInv'
<1>0. TypeOK /\ Where /\ Contents /\ Progress /\ Borrowed /\ Served
    BY DEF IInv
<1>1. TypeOK'
    BY <1>0 DEF CopyDone, server, trees, download, TypeOK, Pcs, Where
<1>2. Where'
    BY <1>0 DEF CopyDone, server, trees, download, Where, IsNus, Candidates
<1>3. Contents'
    BY <1>0 DEF CopyDone, server, trees, download, Where, Contents, Decoded
<1>4. Progress'
    BY <1>0 DEF CopyDone, server, trees, download, Where, Progress, Target, Goal, Left, Source,
        FileOf, Asking, IsNus, Kept, StagedOf, WholeTitles
<1>5. Borrowed'
    BY <1>0 DEF CopyDone, server, trees, download, Where, Borrowed, Source, IsNus
<1>6. Served'
    BY <1>0 DEF CopyDone, server, trees, download, Where, Served, Source, IsNus, ServedWhole
<1>. QED  BY <1>1, <1>2, <1>3, <1>4, <1>5, <1>6 DEF IInv

LEMMA RequestTmdIInv == ASSUME IInv, RequestTmd PROVE IInv'
<1>0. TypeOK /\ Where /\ Contents /\ Progress /\ Borrowed /\ Served
    BY DEF IInv
<1>1. TypeOK'
    BY <1>0 DEF RequestTmd, server, trees, download, TypeOK, Pcs, Where
<1>2. Where'
    BY <1>0 DEF RequestTmd, server, trees, download, Where, IsNus, Candidates
<1>3. Contents'
    BY <1>0 DEF RequestTmd, server, trees, download, Where, Contents, Decoded
<1>4. Progress'
    BY <1>0 DEF RequestTmd, server, trees, download, Where, Progress, Target, Goal, Left, Source,
        FileOf, Asking, IsNus, Kept, StagedOf, WholeTitles
<1>5. Borrowed'
    BY <1>0 DEF RequestTmd, server, trees, download, Where, Borrowed, Source, IsNus
<1>6. Served'
    BY <1>0 DEF RequestTmd, server, trees, download, Where, Served, Source, IsNus, ServedWhole
<1>. QED  BY <1>1, <1>2, <1>3, <1>4, <1>5, <1>6 DEF IInv

LEMMA SkipFileIInv == ASSUME IInv, SkipFile PROVE IInv'
<1>0. TypeOK /\ Where /\ Contents /\ Progress /\ Borrowed /\ Served
    BY DEF IInv
<1>1. TypeOK'
    BY <1>0 DEF SkipFile, server, trees, download, TypeOK, Pcs, Where
<1>2. Where'
    BY <1>0 DEF SkipFile, server, trees, download, Where, IsNus, Candidates
<1>3. Contents'
    BY <1>0 DEF SkipFile, server, trees, download, Where, Contents, Decoded
<1>4. Progress'
  <2>1. /\ pc = "extract" /\ pc' = "extract" /\ IsNus /\ todo # <<>> /\ todo \in Seq(Entry)
        /\ UNCHANGED <<job, server, phase, own, download, trees, nfsDir, extras, calm>>
        /\ todo' = Tail(todo) /\ ~ Kept(Head(todo).name)
    BY <1>0 DEF SkipFile, Where, Progress
  <2>2. /\ todo' \in Seq(Entry) /\ Left' = Left
        /\ \A x \in DOMAIN todo' : \E y \in DOMAIN todo : todo'[x] = todo[y]
    BY <2>1, LeftHead DEF download
  <2>3. Goal' = Goal /\ Target' = Target /\ WholeTitles' = WholeTitles
    BY <2>1, GoalSame DEF download, trees, server, Target, WholeTitles, IsNus
  <2>. QED  BY <1>0, <2>1, <2>2, <2>3 DEF Progress, Asking, trees
<1>5. Borrowed'
    BY <1>0 DEF SkipFile, server, trees, download, Where, Borrowed, Source, IsNus
<1>6. Served'
    BY <1>0 DEF SkipFile, server, trees, download, Where, Served, Source, IsNus, ServedWhole
<1>. QED  BY <1>1, <1>2, <1>3, <1>4, <1>5, <1>6 DEF IInv

LEMMA RequestContentIInv == ASSUME IInv, RequestContent PROVE IInv'
<1>0. TypeOK /\ Where /\ Contents /\ Progress /\ Borrowed /\ Served
    BY DEF IInv
<1>1. TypeOK'
  <2>1. /\ pc = "extract" /\ pc' = "wait" /\ IsNus /\ todo # <<>> /\ todo \in Seq(Entry)
        /\ UNCHANGED <<job, server, phase, own, rec, got, todo, trees, nfsDir, extras, calm>>
        /\ Kept(Head(todo).name) /\ want' = Head(todo).cluster
    BY <1>0 DEF RequestContent, Where, Progress
  <2>2. Head(todo) \in Entry /\ \E y \in DOMAIN todo : Head(todo) = todo[y]
    BY <2>1
  <2>3. want' \in Clusters \ {"fst"}
    BY <2>1, <2>2 DEF Entry
  <2>. QED  BY <1>0, <2>1, <2>3 DEF TypeOK, Pcs, server
<1>2. Where'
    BY <1>0 DEF RequestContent, server, trees, download, Where, IsNus, Candidates
<1>3. Contents'
  <2>1. /\ pc = "extract" /\ pc' = "wait" /\ IsNus /\ todo # <<>> /\ todo \in Seq(Entry)
        /\ UNCHANGED <<job, server, phase, own, rec, got, todo, trees, nfsDir, extras, calm>>
        /\ Kept(Head(todo).name) /\ want' = Head(todo).cluster
    BY <1>0 DEF RequestContent, Where, Progress
  <2>2. Head(todo) \in Entry /\ \E y \in DOMAIN todo : Head(todo) = todo[y]
    BY <2>1
  <2>3. want' \in Clusters \ {"fst"}
    BY <2>1, <2>2 DEF Entry
  <2>4. \E y \in DOMAIN job.title.files : Head(todo) = job.title.files[y]
    BY <1>0, <2>1, <2>2 DEF Progress
  <2>. QED  BY <1>0, <2>1, <2>4 DEF Contents, Decoded, Kept
<1>4. Progress'
  <2>1. /\ pc = "extract" /\ pc' = "wait" /\ IsNus /\ todo # <<>> /\ todo \in Seq(Entry)
        /\ UNCHANGED <<job, server, phase, own, rec, got, todo, trees, nfsDir, extras, calm>>
        /\ Kept(Head(todo).name) /\ want' = Head(todo).cluster
    BY <1>0 DEF RequestContent, Where, Progress
  <2>2. Head(todo) \in Entry /\ \E y \in DOMAIN todo : Head(todo) = todo[y]
    BY <2>1
  <2>3. want' \in Clusters \ {"fst"}
    BY <2>1, <2>2 DEF Entry
  <2>4. Goal' = Goal /\ Target' = Target /\ Left' = Left /\ WholeTitles' = WholeTitles
    BY <2>1, GoalSame DEF trees, server, Target, WholeTitles, IsNus, Left, FileOf, Kept
  <2>5. want' \notin {"tmd", "fst"}
    BY <2>3 DEF Clusters
  <2>. QED  BY <1>0, <2>1, <2>4, <2>5 DEF Progress, Asking, trees
<1>5. Borrowed'
    BY <1>0 DEF RequestContent, server, trees, download, Where, Borrowed, Source, IsNus
<1>6. Served'
    BY <1>0 DEF RequestContent, server, trees, download, Where, Served, Source, IsNus, ServedWhole
<1>. QED  BY <1>1, <1>2, <1>3, <1>4, <1>5, <1>6 DEF IInv

LEMMA WriteFileIInv == ASSUME IInv, WriteFile PROVE IInv'
<1>0. TypeOK /\ Where /\ Contents /\ Progress /\ Borrowed /\ Served
    BY DEF IInv
<1>1. TypeOK'
    BY <1>0 DEF WriteFile, server, trees, download, TypeOK, Pcs, Where
<1>2. Where'
    BY <1>0 DEF WriteFile, server, trees, download, Where, IsNus, Candidates
<1>3. Contents'
    BY <1>0 DEF WriteFile, server, trees, download, Where, Contents, Decoded
<1>4. Progress'
  <2>1. /\ pc = "extract" /\ pc' = "extract" /\ IsNus /\ todo # <<>> /\ todo \in Seq(Entry)
        /\ UNCHANGED <<job, server, phase, own, download, nfsDir, extras, calm>>
        /\ todo' = Tail(todo) /\ Kept(Head(todo).name)
    BY <1>0 DEF WriteFile, Where, Progress
  <2>2. /\ todo' \in Seq(Entry) /\ Left = Left' \cup {FileOf(Head(todo))}
        /\ \A x \in DOMAIN todo' : \E y \in DOMAIN todo : todo'[x] = todo[y]
    BY <2>1, LeftHead DEF download
  <2>3. (CHOOSE c \in got : c.cluster = Head(todo).cluster).ver
            = Data(job.title, rec, Head(todo).cluster)
    BY <1>0 DEF WriteFile, Decoded, Contents
  <2>4. /\ Target' = Target \cup {FileOf(Head(todo))}
        /\ phase = "stage" => scratch' = scratch
        /\ phase # "stage" => build' = build
    BY <2>1, <2>3 DEF WriteFile, Target, FileOf
  <2>5. Goal' = Goal /\ WholeTitles' = WholeTitles
    BY <2>1, GoalSame DEF download, server, WholeTitles, IsNus
  <2>. QED  BY <1>0, <2>1, <2>2, <2>4, <2>5 DEF Progress, Asking
<1>5. Borrowed'
    BY <1>0 DEF WriteFile, server, trees, download, Where, Borrowed, Source, IsNus
<1>6. Served'
    BY <1>0 DEF WriteFile, server, trees, download, Where, Served, Source, IsNus, ServedWhole
<1>. QED  BY <1>1, <1>2, <1>3, <1>4, <1>5, <1>6 DEF IInv

LEMMA ExtractDoneIInv == ASSUME IInv, ExtractDone PROVE IInv'
<1>0. TypeOK /\ Where /\ Contents /\ Progress /\ Borrowed /\ Served
    BY DEF IInv
<1>1. TypeOK'
    BY <1>0 DEF ExtractDone, server, trees, download, TypeOK, Pcs, Where
<1>2. Where'
    BY <1>0 DEF ExtractDone, server, trees, download, Where, IsNus, Candidates
<1>3. Contents'
    BY <1>0 DEF ExtractDone, server, trees, download, Where, Contents, Decoded
<1>4. Progress'
    BY <1>0 DEF ExtractDone, server, trees, download, Where, Progress, Target, Goal, Left, Source,
        FileOf, Asking, IsNus, Kept, StagedOf, WholeTitles
<1>5. Borrowed'
    BY <1>0 DEF ExtractDone, server, trees, download, Where, Borrowed, Source, IsNus
<1>6. Served'
    BY <1>0 DEF ExtractDone, server, trees, download, Where, Served, Source, IsNus, ServedWhole
<1>. QED  BY <1>1, <1>2, <1>3, <1>4, <1>5, <1>6 DEF IInv

LEMMA TimesOutIInv == ASSUME IInv, TimesOut PROVE IInv'
<1>0. TypeOK /\ Where /\ Contents /\ Progress /\ Borrowed /\ Served
    BY DEF IInv
<1>1. TypeOK'
    BY <1>0 DEF TimesOut, server, trees, download, Stops, GoesWrong, TypeOK, Pcs, Where
<1>2. Where'
    BY <1>0 DEF TimesOut, server, trees, download, Stops, GoesWrong, Where, IsNus, Candidates
<1>3. Contents'
    BY <1>0 DEF TimesOut, server, trees, download, Stops, GoesWrong, Where, Contents, Decoded
<1>4. Progress'
    BY <1>0 DEF TimesOut, server, trees, download, Stops, GoesWrong, Where, Progress, Target, Goal,
        Left, Source, FileOf, Asking, IsNus, Kept, StagedOf, WholeTitles
<1>5. Borrowed'
    BY <1>0 DEF TimesOut, server, trees, download, Stops, GoesWrong, Where, Borrowed, Source, IsNus
<1>6. Served'
    BY <1>0 DEF TimesOut, server, trees, download, Stops, GoesWrong, Where, Served, Source, IsNus,
        ServedWhole
<1>. QED  BY <1>1, <1>2, <1>3, <1>4, <1>5, <1>6 DEF IInv

\* What is staged in full, is of a title that may be staged.
LEMMA SourceWhole ==
    ASSUME TypeOK, Where, pc = "finalize"
    PROVE  Source \in WholeTitles
<1>1. CASE IsNus
  <2>1. rec \in Versions /\ rec \in 1 .. latest /\ job.version \in {rec, None}
    BY <1>1, ConstantsApart DEF Where, TypeOK, Versions
  <2>. QED  BY <1>1, <2>1 DEF Source, WholeTitles
<1>2. CASE ~ IsNus
    BY <1>2 DEF Where, Source, WholeTitles, Candidates
<1>. QED  BY <1>1, <1>2

LEMMA StagedGoal ==
    ASSUME phase = "stage"
    PROVE  Goal = StagedOf(Source) /\ (Staged(Goal) <=> Staged(Source))
<1>1. Goal = StagedOf(Source)
    BY DEF Goal, StagedOf, Kept
<1>2. \A n \in RequiredCodeFiles : ~ IsBaseGameNfs(n)
    BY DEF RequiredCodeFiles, IsBaseGameNfs, HifFiles
<1>3. \A n \in RequiredCodeFiles : Has(Goal, "code", n) <=> Has(Source, "code", n)
    BY <1>1, <1>2 DEF Has, StagedOf, StageSubdirs
<1>. QED  BY <1>1, <1>3 DEF Staged

LEMMA FinalizeIInv == ASSUME IInv, Finalize PROVE IInv'
<1>0. TypeOK /\ Where /\ Contents /\ Progress /\ Borrowed /\ Served
    BY DEF IInv
<1>1. TypeOK'
    BY <1>0 DEF Finalize, server, trees, download, TypeOK, Pcs, Where
<1>2. Where'
    BY <1>0 DEF Finalize, server, trees, download, Where, IsNus, Candidates
<1>3. Contents'
    BY <1>0 DEF Finalize, server, trees, download, Where, Contents, Decoded
<1>4. Progress'
  <2>1. /\ pc = "finalize" /\ phase = "stage" /\ build = Goal
        /\ UNCHANGED <<job, server, phase, own, download, todo, trees, nfsDir, extras, calm>>
        /\ pc' \in {"failed", "disc", "done"} /\ (pc' # "failed" => Staged(build))
    BY <1>0 DEF Finalize, Where, TypeOK, Progress, Target
  <2>2. Source \in WholeTitles
    BY <1>0, <2>1, SourceWhole
  <2>3. build = StagedOf(Source) /\ (Staged(build) <=> Staged(Source))
    BY <2>1, StagedGoal
  <2>4. WholeTitles' = WholeTitles
    BY <2>1 DEF WholeTitles, IsNus, server
  <2>. QED  BY <1>0, <2>1, <2>2, <2>3, <2>4 DEF Progress, Asking, trees
<1>5. Borrowed'
    BY <1>0 DEF Finalize, server, trees, download, Where, Borrowed, Source, IsNus
<1>6. Served'
  <2>1. /\ pc = "finalize" /\ phase = "stage" /\ build = Goal
        /\ UNCHANGED <<job, server, phase, own, download, todo, trees, nfsDir, extras, calm>>
        /\ pc' \in {"failed", "disc", "done"} /\ (pc' = "failed" => ~ Staged(build))
    BY <1>0 DEF Finalize, Where, TypeOK, Progress, Target
  <2>2. pc' = "failed" => ~ Staged(Source)
    BY <2>1, StagedGoal
  <2>3. ASSUME pc' = "failed", IsNus PROVE rec # None /\ ~ Staged(Tree(job.title, rec))
    BY <1>0, <2>1, <2>2, <2>3 DEF Where, Source
  <2>4. ASSUME pc' = "failed", ~ IsNus
        PROVE  \/ \A x \in DOMAIN job.roots : ~Staged(job.roots[x])
               \/ Cardinality({x \in DOMAIN job.roots : HasCode(job.roots[x])}) > 1
               \/ job.direct /\ ~Staged(job.roots[1])
    <3> DEFINE withCode == {x \in DOMAIN job.roots : HasCode(job.roots[x])}
    <3>1. PICK x \in Candidates : own = job.roots[x]
        BY <1>0, <2>1, <2>4 DEF Where
    <3>2. ~ Staged(job.roots[x])
        BY <2>2, <2>4, <3>1 DEF Source
    <3>3. x \in withCode /\ (job.direct => x = 1)
        BY <1>0, <3>1, JobFacts DEF Candidates, TypeOK
    <3>4. \A y \in DOMAIN job.roots : y \in withCode \/ ~ Staged(job.roots[y])
        BY DEF HasCode, Staged, Has, RequiredCodeFiles
    <3>5. ASSUME NEW y \in withCode, y # x PROVE Cardinality(withCode) > 1
      <4>1. IsFiniteSet(withCode)
        <5>1. DOMAIN job.roots = 1 .. Len(job.roots) /\ Len(job.roots) \in Nat
            BY <1>0, JobFacts DEF TypeOK
        <5>2. IsFiniteSet(1 .. Len(job.roots))
            BY <5>1, FiniteInterval
        <5>. QED  BY <5>1, <5>2, FS_Subset
      <4>2. IsFiniteSet({x}) /\ Cardinality({x}) = 1
        BY FS_Singleton
      <4>3. Cardinality({x} \cup {y}) = 2 /\ {x} \cup {y} \in SUBSET withCode
        <5>1. y \notin {x} /\ {x} \cup {y} \in SUBSET withCode
            BY <3>3, <3>5
        <5>2. Cardinality({x} \cup {y}) = 1 + 1
            BY <4>2, <5>1, FS_AddElement
        <5>. QED  BY <5>1, <5>2
      <4>4. Cardinality(withCode) \in Nat /\ Cardinality({x} \cup {y}) <= Cardinality(withCode)
        BY <4>1, <4>3, FS_Subset, FS_CardinalityType
      <4>. QED  BY <4>3, <4>4
    <3>. QED  BY <3>2, <3>3, <3>4, <3>5
  <2>5. calm' => calm /\ phase' = "stage" /\ (IsNus' <=> IsNus)
    BY <2>1 DEF IsNus
  <2>. QED  BY <1>0, <2>1, <2>3, <2>4, <2>5 DEF Served, server, download
<1>. QED  BY <1>1, <1>2, <1>3, <1>4, <1>5, <1>6 DEF IInv

LEMMA MaterializeDirIInv == ASSUME IInv, MaterializeDir PROVE IInv'
<1>0. TypeOK /\ Where /\ Contents /\ Progress /\ Borrowed /\ Served
    BY DEF IInv
<1>1. TypeOK'
    BY <1>0 DEF MaterializeDir, server, trees, download, StartExtras, TypeOK, Pcs, Where
<1>2. Where'
    BY <1>0 DEF MaterializeDir, server, trees, download, StartExtras, Where, IsNus, Candidates
<1>3. Contents'
    BY <1>0 DEF MaterializeDir, server, trees, download, StartExtras, Where, Contents, Decoded
<1>4. Progress'
    BY <1>0 DEF MaterializeDir, server, trees, download, StartExtras, Where, Progress, Target,
        Goal, Left, Source, FileOf, Asking, IsNus, Kept, StagedOf, WholeTitles
<1>5. Borrowed'
    BY <1>0, ConstantsApart DEF MaterializeDir, server, trees, download, StartExtras, Where,
        Borrowed, Source, IsNus, TypeOK, NfsTree
<1>6. Served'
    BY <1>0 DEF MaterializeDir, server, trees, download, StartExtras, Where, Served, Source, IsNus,
        ServedWhole
<1>. QED  BY <1>1, <1>2, <1>3, <1>4, <1>5, <1>6 DEF IInv

LEMMA MaterializeWuaIInv == ASSUME IInv, MaterializeWua PROVE IInv'
<1>0. TypeOK /\ Where /\ Contents /\ Progress /\ Borrowed /\ Served
    BY DEF IInv
<1>1. TypeOK'
    BY <1>0 DEF MaterializeWua, server, trees, download, StartExtras, TypeOK, Pcs, Where
<1>2. Where'
    BY <1>0 DEF MaterializeWua, server, trees, download, StartExtras, Where, IsNus, Candidates
<1>3. Contents'
    BY <1>0 DEF MaterializeWua, server, trees, download, StartExtras, Where, Contents, Decoded
<1>4. Progress'
  <2>1. /\ pc = "disc" /\ pc' \in {"copy", "remove"}
        /\ phase = "stage" /\ phase' = "disc" /\ ~ IsNus
        /\ UNCHANGED <<job, server, own, download, trees, extras, nfsDir>>
        /\ todo' = <<"content", "code">>
    BY <1>0 DEF MaterializeWua, StartExtras, Where, TypeOK, IsNus
  <2>2. todo' \in Seq(StageSubdirs)
        /\ \A d : (\E x \in DOMAIN todo' : todo'[x] = d) <=> d \in {"code", "content"}
    <3>1. DOMAIN todo' = {1, 2} /\ todo'[1] = "content" /\ todo'[2] = "code"
        BY <2>1
    <3>2. todo' \in Seq(StageSubdirs)
        BY <2>1 DEF StageSubdirs
    <3>. QED  BY <3>1, <3>2
  <2>3. Left' = Goal'
    BY <2>1, <2>2 DEF Left, Goal, Source, IsNus, Kept
  <2>4. Target' = {}
    BY <1>0, <2>1 DEF Progress, Target, trees
  <2>5. WholeTitles' = WholeTitles
    BY <2>1 DEF WholeTitles, IsNus, server
  <2>. QED  BY <1>0, <2>1, <2>2, <2>3, <2>4, <2>5 DEF Progress, Asking, trees
<1>5. Borrowed'
    BY <1>0 DEF MaterializeWua, server, trees, download, StartExtras, Where, Borrowed, Source, IsNus
<1>6. Served'
  <2>1. /\ pc = "disc" /\ phase' = "disc" /\ pc' \in {"copy", "remove"} /\ ~ IsNus /\ ~ IsNus'
        /\ Source' = Source /\ (pc' = "remove" => ~ HasDisc(own))
    BY <1>0 DEF MaterializeWua, StartExtras, IsNus, Source, HasDisc
  <2>. QED  BY <2>1 DEF Served, Source
<1>. QED  BY <1>1, <1>2, <1>3, <1>4, <1>5, <1>6 DEF IInv

LEMMA MaterializeNusIInv == ASSUME IInv, MaterializeNus PROVE IInv'
<1>0. TypeOK /\ Where /\ Contents /\ Progress /\ Borrowed /\ Served
    BY DEF IInv
<1>1. TypeOK'
    BY <1>0 DEF MaterializeNus, server, trees, download, StartExtras, TypeOK, Pcs, Where
<1>2. Where'
    BY <1>0 DEF MaterializeNus, server, trees, download, StartExtras, Where, IsNus, Candidates
<1>3. Contents'
    BY <1>0 DEF MaterializeNus, server, trees, download, StartExtras, Where, Contents, Decoded
<1>4. Progress'
  <2>1. /\ pc = "disc" /\ phase = "stage" /\ phase' = "disc" /\ pc' = "tmd"
        /\ UNCHANGED <<job, server, own, download, trees, extras, nfsDir>>
    BY <1>0 DEF MaterializeNus, StartExtras, Where, TypeOK
  <2>2. Target' = {}
    BY <1>0, <2>1 DEF Progress, Target, trees
  <2>3. WholeTitles' = WholeTitles
    BY <2>1 DEF WholeTitles, IsNus, server
  <2>. QED  BY <1>0, <2>1, <2>2, <2>3 DEF Progress, Asking, trees
<1>5. Borrowed'
    BY <1>0 DEF MaterializeNus, server, trees, download, StartExtras, Where, Borrowed, Source, IsNus
<1>6. Served'
    BY <1>0 DEF MaterializeNus, server, trees, download, StartExtras, Where, Served, Source, IsNus,
        ServedWhole
<1>. QED  BY <1>1, <1>2, <1>3, <1>4, <1>5, <1>6 DEF IInv

LEMMA CheckMaterializedIInv == ASSUME IInv, CheckMaterialized PROVE IInv'
<1>0. TypeOK /\ Where /\ Contents /\ Progress /\ Borrowed /\ Served
    BY DEF IInv
<1>1. TypeOK'
    BY <1>0 DEF CheckMaterialized, server, trees, download, TypeOK, Pcs, Where
<1>2. Where'
    BY <1>0 DEF CheckMaterialized, server, trees, download, Where, IsNus, Candidates
<1>3. Contents'
    BY <1>0 DEF CheckMaterialized, server, trees, download, Where, Contents, Decoded
<1>4. Progress'
    BY <1>0 DEF CheckMaterialized, server, trees, download, Where, Progress, Target, Goal, Left,
        Source, FileOf, Asking, IsNus, Kept, StagedOf, WholeTitles
<1>5. Borrowed'
  <2>1. /\ pc = "check" /\ phase = "disc" /\ scratch = Goal
        /\ UNCHANGED <<job, server, phase, own, download, todo, trees, extras, calm>>
        /\ \/ pc' = "certs" /\ nfsDir' = "scratch" /\ HasDisc(scratch)
           \/ pc' = "remove"
    BY <1>0 DEF CheckMaterialized, Progress, Target, Where, TypeOK
  <2>2. Goal \subseteq Source
    BY DEF Goal
  <2>3. Source' = Source /\ scratch' = scratch /\ (nfsDir' = "scratch" => NfsTree' = scratch)
    BY <2>1, GoalSame DEF trees, download, NfsTree
  <2>. QED  BY <1>0, <2>1, <2>2, <2>3 DEF Borrowed, IsNus
<1>6. Served'
  <2>1. /\ pc = "check" /\ phase = "disc" /\ scratch = Goal
        /\ UNCHANGED <<job, server, phase, own, download, todo, trees, extras, calm>>
        /\ \/ pc' = "certs"
           \/ pc' = "remove" /\ ~ HasDisc(scratch)
    BY <1>0 DEF CheckMaterialized, Progress, Target, Where, TypeOK
  <2>2. HasDisc(Goal) <=> HasDisc(Source)
    BY <2>1 DEF Goal, HasDisc, Has, Kept, IsBaseGameNfs, HifFiles, StageSubdirs
  <2>3. Source' = Source /\ (IsNus' <=> IsNus)
    BY <2>1, GoalSame DEF download
  <2>4. ServedWhole' = ServedWhole
    BY <2>1 DEF ServedWhole, server
  <2>. QED  BY <1>0, <2>1, <2>2, <2>3, <2>4 DEF Served, server, download, trees
<1>. QED  BY <1>1, <1>2, <1>3, <1>4, <1>5, <1>6 DEF IInv

\* The disc that is read is of one version of the base's, and the key beside it is its own.
LEMMA DiscFacts ==
    ASSUME IInv, pc \in {"certs", "apploader"}
    PROVE  /\ DiscVer \in Versions
           /\ DiscVer \in {f.ver : f \in DiscFiles(Source)}
           /\ Readable
<1>0. /\ TypeOK /\ Where /\ HasDisc(NfsTree)
      /\ NfsTree \subseteq Source /\ nfsDir \in {"own", "scratch"}
    BY DEF IInv, Borrowed
<1>1. PICK d \in NfsTree : d = CHOOSE f \in NfsTree : f.dir = "content" /\ f.name = "hif_000000.nfs"
    BY <1>0 DEF HasDisc, Has
<1>2. d.dir = "content" /\ d.name = "hif_000000.nfs" /\ d.ver = DiscVer
    BY <1>0, <1>1 DEF HasDisc, Has, DiscVer, VerOf
<1>3. PICK k \in NfsTree : k = CHOOSE f \in NfsTree : f.dir = "code" /\ f.name = "htk.bin"
    BY <1>0 DEF HasDisc, Has
<1>4. k.dir = "code" /\ k.name = "htk.bin" /\ k.ver = VerOf(NfsTree, "code", "htk.bin")
    BY <1>0, <1>3 DEF HasDisc, Has, VerOf
<1>5. d \in Source /\ k \in Source
    BY <1>0
<1>6. CASE IsNus
  <2>1. PICK x \in DOMAIN job.title.files : d = FileOf(job.title.files[x])
    BY <1>0, <1>5, <1>6, SourceIs
  <2>2. PICK y \in DOMAIN job.title.files : k = FileOf(job.title.files[y])
    BY <1>0, <1>5, <1>6, SourceIs
  <2>3. d.ver = Data(job.title, rec, "game") /\ k.ver = Data(job.title, rec, "code")
    BY <1>0, <1>2, <1>4, <2>1, <2>2, JobFacts DEF TypeOK, GoodTitle, FileOf
  <2>4. k.ver = KeyOf(job.title, d.ver)
    BY <1>0, <2>3, JobFacts DEF TypeOK, GoodTitle, KeyOf, Data
  <2>5. d.ver \in Versions
    BY <2>3, DataIs
  <2>. QED  BY <1>2, <1>4, <1>5, <2>4, <2>5 DEF DiscFiles, Readable
<1>7. CASE ~ IsNus
  <2>1. PICK x \in DOMAIN job.roots : own = job.roots[x]
    BY <1>0, <1>7 DEF Where, Candidates
  <2>2. own \subseteq FileOfTree /\ GoodRoot(job.title, own)
    BY <1>0, <2>1, JobFacts DEF TypeOK
  <2>3. Source = own
    BY <1>7 DEF Source
  <2>4. HasDisc(own)
    BY <1>2, <1>4, <1>5, <2>3 DEF HasDisc, Has
  <2>5. VerOf(own, "content", "hif_000000.nfs") = d.ver
    <3>1. PICK e \in own : e = CHOOSE f \in own : f.dir = "content" /\ f.name = "hif_000000.nfs"
        BY <2>4 DEF HasDisc, Has
    <3>2. e.dir = "content" /\ e.name = "hif_000000.nfs"
        BY <2>4, <3>1 DEF HasDisc, Has
    <3>3. e = d
        BY <1>2, <1>5, <2>2, <2>3, <3>2 DEF GoodRoot
    <3>. QED  BY <3>1, <3>3 DEF VerOf
  <2>6. VerOf(own, "code", "htk.bin") = k.ver
    <3>1. PICK e \in own : e = CHOOSE f \in own : f.dir = "code" /\ f.name = "htk.bin"
        BY <2>4 DEF HasDisc, Has
    <3>2. e.dir = "code" /\ e.name = "htk.bin"
        BY <2>4, <3>1 DEF HasDisc, Has
    <3>3. e = k
        BY <1>4, <1>5, <2>2, <2>3, <3>2 DEF GoodRoot
    <3>. QED  BY <3>1, <3>3 DEF VerOf
  <2>7. k.ver = KeyOf(job.title, d.ver)
    BY <2>2, <2>4, <2>5, <2>6 DEF GoodRoot
  <2>8. d.ver \in Versions
    BY <1>5, <2>2, <2>3 DEF FileOfTree
  <2>. QED  BY <1>2, <1>4, <1>5, <2>7, <2>8 DEF DiscFiles, Readable
<1>. QED  BY <1>6, <1>7

LEMMA ReadCertsIInv == ASSUME IInv, NEW ok \in BOOLEAN, ReadCerts(ok) PROVE IInv'
<1>0. TypeOK /\ Where /\ Contents /\ Progress /\ Borrowed /\ Served
    BY DEF IInv
<1>1. TypeOK'
  <2>1. /\ pc = "certs" /\ phase = "disc"
        /\ UNCHANGED <<job, server, phase, own, download, todo, trees, nfsDir>>
        /\ extras' = [extras EXCEPT !.certs = IF ok THEN DiscVer ELSE None]
        /\ calm' = (calm /\ ok)
        /\ pc' = IF job.apploader THEN "remove" ELSE "apploader"
    BY <1>0, DiscFacts DEF ReadCerts, Where, TypeOK
  <2>2. /\ DiscVer \in Versions /\ DiscVer \in {f.ver : f \in DiscFiles(Source)}
        /\ DiscVer # None /\ DiscVer # User
    BY <2>1, DiscFacts, ConstantsApart
  <2>3. Source' = Source /\ NfsTree' = NfsTree /\ (IsNus' <=> IsNus)
    BY <2>1, GoalSame DEF download, trees, NfsTree
  <2>. QED  BY <1>0, <2>1, <2>2, JobFacts DEF TypeOK, Pcs, server, download
<1>2. Where'
    BY <1>0 DEF ReadCerts, server, trees, download, Where, IsNus, Candidates
<1>3. Contents'
    BY <1>0 DEF ReadCerts, server, trees, download, Where, Contents, Decoded
<1>4. Progress'
    BY <1>0 DEF ReadCerts, server, trees, download, Where, Progress, Target, Goal, Left, Source,
        FileOf, Asking, IsNus, Kept, StagedOf, WholeTitles
<1>5. Borrowed'
  <2>1. /\ pc = "certs" /\ phase = "disc"
        /\ UNCHANGED <<job, server, phase, own, download, todo, trees, nfsDir>>
        /\ extras' = [extras EXCEPT !.certs = IF ok THEN DiscVer ELSE None]
        /\ calm' = (calm /\ ok)
        /\ pc' = IF job.apploader THEN "remove" ELSE "apploader"
    BY <1>0, DiscFacts DEF ReadCerts, Where, TypeOK
  <2>2. /\ DiscVer \in Versions /\ DiscVer \in {f.ver : f \in DiscFiles(Source)}
        /\ DiscVer # None /\ DiscVer # User
    BY <2>1, DiscFacts, ConstantsApart
  <2>3. Source' = Source /\ NfsTree' = NfsTree /\ (IsNus' <=> IsNus)
    BY <2>1, GoalSame DEF download, trees, NfsTree
  <2>4. extras \in [certs : Versions \cup {None}, apploader : Versions \cup {None, User}]
    BY <1>0 DEF TypeOK
  <2>. QED  BY <1>0, <2>1, <2>2, <2>3, <2>4, ConstantsApart DEF Borrowed
<1>6. Served'
  <2>1. /\ pc = "certs" /\ phase = "disc"
        /\ UNCHANGED <<job, server, phase, own, download, todo, trees, nfsDir>>
        /\ extras' = [extras EXCEPT !.certs = IF ok THEN DiscVer ELSE None]
        /\ calm' = (calm /\ ok)
        /\ pc' = IF job.apploader THEN "remove" ELSE "apploader"
    BY <1>0, DiscFacts DEF ReadCerts, Where, TypeOK
  <2>2. /\ DiscVer \in Versions /\ DiscVer \in {f.ver : f \in DiscFiles(Source)}
        /\ DiscVer # None /\ DiscVer # User
    BY <2>1, DiscFacts, ConstantsApart
  <2>3. Source' = Source /\ NfsTree' = NfsTree /\ (IsNus' <=> IsNus)
    BY <2>1, GoalSame DEF download, trees, NfsTree
  <2>4. ServedWhole' = ServedWhole
    BY <2>1 DEF ServedWhole, server
  <2>5. /\ extras \in [certs : Versions \cup {None}, apploader : Versions \cup {None, User}]
        /\ job.apploader => extras.apploader = User
    BY <1>0 DEF TypeOK, Borrowed
  <2>. QED  BY <1>0, <2>1, <2>2, <2>3, <2>4, <2>5, ConstantsApart DEF Served, server, download,
                trees
<1>. QED  BY <1>1, <1>2, <1>3, <1>4, <1>5, <1>6 DEF IInv

LEMMA ReadApploaderIInv == ASSUME IInv, NEW ok \in BOOLEAN, ReadApploader(ok) PROVE IInv'
<1>0. TypeOK /\ Where /\ Contents /\ Progress /\ Borrowed /\ Served
    BY DEF IInv
<1>1. TypeOK'
  <2>1. /\ pc = "apploader" /\ phase = "disc"
        /\ UNCHANGED <<job, server, phase, own, download, todo, trees, nfsDir>>
        /\ extras' = [extras EXCEPT !.apploader = IF ok THEN DiscVer ELSE @]
        /\ calm' = (calm /\ ok)
        /\ pc' = "remove"
    BY <1>0, DiscFacts DEF ReadApploader, Where, TypeOK
  <2>2. /\ DiscVer \in Versions /\ DiscVer \in {f.ver : f \in DiscFiles(Source)}
        /\ DiscVer # None /\ DiscVer # User
    BY <2>1, DiscFacts, ConstantsApart
  <2>3. Source' = Source /\ NfsTree' = NfsTree /\ (IsNus' <=> IsNus)
    BY <2>1, GoalSame DEF download, trees, NfsTree
  <2>. QED  BY <1>0, <2>1, <2>2, JobFacts DEF TypeOK, Pcs, server, download
<1>2. Where'
    BY <1>0 DEF ReadApploader, server, trees, download, Where, IsNus, Candidates
<1>3. Contents'
    BY <1>0 DEF ReadApploader, server, trees, download, Where, Contents, Decoded
<1>4. Progress'
    BY <1>0 DEF ReadApploader, server, trees, download, Where, Progress, Target, Goal, Left,
        Source, FileOf, Asking, IsNus, Kept, StagedOf, WholeTitles
<1>5. Borrowed'
  <2>1. /\ pc = "apploader" /\ phase = "disc"
        /\ UNCHANGED <<job, server, phase, own, download, todo, trees, nfsDir>>
        /\ extras' = [extras EXCEPT !.apploader = IF ok THEN DiscVer ELSE @]
        /\ calm' = (calm /\ ok)
        /\ pc' = "remove"
    BY <1>0, DiscFacts DEF ReadApploader, Where, TypeOK
  <2>2. /\ DiscVer \in Versions /\ DiscVer \in {f.ver : f \in DiscFiles(Source)}
        /\ DiscVer # None /\ DiscVer # User
    BY <2>1, DiscFacts, ConstantsApart
  <2>3. Source' = Source /\ NfsTree' = NfsTree /\ (IsNus' <=> IsNus)
    BY <2>1, GoalSame DEF download, trees, NfsTree
  <2>4. extras \in [certs : Versions \cup {None}, apploader : Versions \cup {None, User}]
    BY <1>0 DEF TypeOK
  <2>. QED  BY <1>0, <2>1, <2>2, <2>3, <2>4, ConstantsApart DEF Borrowed
<1>6. Served'
  <2>1. /\ pc = "apploader" /\ phase = "disc"
        /\ UNCHANGED <<job, server, phase, own, download, todo, trees, nfsDir>>
        /\ extras' = [extras EXCEPT !.apploader = IF ok THEN DiscVer ELSE @]
        /\ calm' = (calm /\ ok)
        /\ pc' = "remove"
    BY <1>0, DiscFacts DEF ReadApploader, Where, TypeOK
  <2>2. /\ DiscVer \in Versions /\ DiscVer \in {f.ver : f \in DiscFiles(Source)}
        /\ DiscVer # None /\ DiscVer # User
    BY <2>1, DiscFacts, ConstantsApart
  <2>3. Source' = Source /\ NfsTree' = NfsTree /\ (IsNus' <=> IsNus)
    BY <2>1, GoalSame DEF download, trees, NfsTree
  <2>4. ServedWhole' = ServedWhole
    BY <2>1 DEF ServedWhole, server
  <2>5. /\ extras \in [certs : Versions \cup {None}, apploader : Versions \cup {None, User}]
        /\ job.apploader => extras.apploader = User
    BY <1>0 DEF TypeOK, Borrowed
  <2>. QED  BY <1>0, <2>1, <2>2, <2>3, <2>4, <2>5, ConstantsApart DEF Served, server, download,
                trees
<1>. QED  BY <1>1, <1>2, <1>3, <1>4, <1>5, <1>6 DEF IInv

LEMMA RemoveScratchIInv == ASSUME IInv, NEW ok \in BOOLEAN, RemoveScratch(ok) PROVE IInv'
<1>0. TypeOK /\ Where /\ Contents /\ Progress /\ Borrowed /\ Served
    BY DEF IInv
<1>1. TypeOK'
    BY <1>0 DEF RemoveScratch, server, trees, download, TypeOK, Pcs, Where
<1>2. Where'
    BY <1>0 DEF RemoveScratch, server, trees, download, Where, IsNus, Candidates
<1>3. Contents'
    BY <1>0 DEF RemoveScratch, server, trees, download, Where, Contents, Decoded
<1>4. Progress'
    BY <1>0 DEF RemoveScratch, server, trees, download, Where, Progress, Target, Goal, Left,
        Source, FileOf, Asking, IsNus, Kept, StagedOf, WholeTitles
<1>5. Borrowed'
    BY <1>0 DEF RemoveScratch, server, trees, download, Where, Borrowed, Source, IsNus
<1>6. Served'
    BY <1>0 DEF RemoveScratch, server, trees, download, Where, Served, Source, IsNus, ServedWhole
<1>. QED  BY <1>1, <1>2, <1>3, <1>4, <1>5, <1>6 DEF IInv

LEMMA StepFailsIInv == ASSUME IInv, StepFails PROVE IInv'
<1>0. TypeOK /\ Where /\ Contents /\ Progress /\ Borrowed /\ Served
    BY DEF IInv
<1>1. TypeOK'
    BY <1>0 DEF StepFails, server, trees, download, Stops, GoesWrong, TypeOK, Pcs, Where
<1>2. Where'
  <2>1. /\ pc # "wait" /\ pc' = (IF phase = "stage" THEN "failed" ELSE "remove")
        /\ UNCHANGED <<job, server, phase, own, download, todo, trees, nfsDir, extras>>
        /\ pc \notin {"certs", "apploader", "remove", "done", "failed"}
    BY DEF StepFails, Stops, GoesWrong, Running, Ended
  <2>2. Candidates' = Candidates /\ (IsNus' <=> IsNus) /\ rec' = rec
    BY <2>1 DEF Candidates, IsNus, download
  <2>. QED  BY <1>0, <2>1, <2>2 DEF Where, TypeOK
<1>3. Contents'
    BY <1>0 DEF StepFails, server, trees, download, Stops, GoesWrong, Where, Contents, Decoded
<1>4. Progress'
    BY <1>0 DEF StepFails, server, trees, download, Stops, GoesWrong, Where, Progress, Target,
        Goal, Left, Source, FileOf, Asking, IsNus, Kept, StagedOf, WholeTitles
<1>5. Borrowed'
  <2>1. /\ pc' \in {"failed", "remove"}
        /\ pc \notin {"certs", "apploader", "remove", "done", "failed"}
        /\ UNCHANGED <<job, server, phase, own, download, todo, trees, nfsDir, extras>>
    BY DEF StepFails, Stops, GoesWrong, Running, Ended
  <2>2. Source' = Source
    BY <2>1, GoalSame DEF download
  <2>. QED  BY <1>0, <2>1, <2>2 DEF Borrowed
<1>6. Served'
    BY <1>0 DEF StepFails, server, trees, download, Stops, GoesWrong, Where, Served, Source, IsNus,
        ServedWhole
<1>. QED  BY <1>1, <1>2, <1>3, <1>4, <1>5, <1>6 DEF IInv

LEMMA NextIInv == IInv /\ [Next]_vars => IInv'
<1> SUFFICES ASSUME IInv, [Next]_vars PROVE IInv'
    OBVIOUS
<1>1. CASE Program
  <2>1. CASE \E ok \in BOOLEAN : ReadCerts(ok) \/ ReadApploader(ok) \/ RemoveScratch(ok)
    BY <2>1, ReadCertsIInv, ReadApploaderIInv, RemoveScratchIInv
  <2>. QED  BY <1>1, <2>1, OpenBaseIInv, ListIInv, CopyIInv, CopyDoneIInv, RequestTmdIInv,
                SkipFileIInv, RequestContentIInv, WriteFileIInv, ExtractDoneIInv, TimesOutIInv,
                FinalizeIInv, MaterializeDirIInv, MaterializeWuaIInv, MaterializeNusIInv,
                CheckMaterializedIInv DEF Program
<1>2. CASE Server
    BY <1>2, PublishContentsIInv, PublishTmdIInv, WithdrawIInv, AnswerTmdIInv, AnswerContentIInv,
       AnswerErrorIInv DEF Server
<1>3. CASE StepFails
    BY <1>3, StepFailsIInv
<1>4. CASE UNCHANGED vars
  <2>1. UNCHANGED <<job, latest, cdn, pc, phase, own, rec, want, got, todo, build, scratch, nfsDir,
                    extras, calm>>
    BY <1>4 DEF vars
  <2>2. /\ Goal' = Goal /\ Source' = Source /\ (IsNus' <=> IsNus) /\ Target' = Target
        /\ Left' = Left /\ WholeTitles' = WholeTitles /\ NfsTree' = NfsTree
        /\ Candidates' = Candidates /\ ServedWhole' = ServedWhole /\ (Asking' <=> Asking)
    BY <2>1 DEF Goal, Source, IsNus, Target, Left, WholeTitles, NfsTree, Candidates, ServedWhole,
        Asking, Kept, FileOf
  <2>3. TypeOK' /\ Where'
    BY <2>1, <2>2 DEF IInv, TypeOK, Where
  <2>4. Contents' /\ Progress'
    BY <2>1, <2>2 DEF IInv, Contents, Progress, Decoded
  <2>5. Borrowed' /\ Served'
    BY <2>1, <2>2 DEF IInv, Borrowed, Served
  <2>. QED  BY <2>3, <2>4, <2>5 DEF IInv
<1>. QED  BY <1>1, <1>2, <1>3, <1>4 DEF Next

-----------------------------------------------------------------------------
(***************************************************************************)
(* The theorems.                                                           *)
(***************************************************************************)
\* The invariant holds whatever the server publishes, withdraws or sends, and whatever fails.
THEOREM Invariance == Spec => []IInv
BY InitIInv, NextIInv, PTL DEF Spec

\* The types of the state; a TMD in hand is one that was served, of the version asked for.
THEOREM TypeCorrect == Spec => []TypeOK
<1>1. IInv => TypeOK
    BY DEF IInv
<1>. QED  BY <1>1, Invariance, PTL

\* stage, finalize_stage and decode_content: once staging returned, the build directory holds one
\* version of the title that may be staged, all of it and nothing else; the base's own game was not
\* downloaded for it; and no usable title is refused while nothing goes wrong.
THEOREM WholeTitle == Spec => []StagedTitleIsWhole
<1>1. IInv => StagedTitleIsWhole
  <2> SUFFICES ASSUME IInv PROVE StagedTitleIsWhole
    OBVIOUS
  <2>1. TypeOK /\ Where /\ Contents /\ Progress /\ Served
    BY DEF IInv
  <2>2. pc = "done" \/ phase = "disc" => \E t \in WholeTitles : Staged(t) /\ build = StagedOf(t)
    BY <2>1 DEF TypeOK, Progress
  <2>3. phase = "stage" /\ Decoded("game") =>
            \E x \in DOMAIN job.title.files :
                job.title.files[x].cluster = "game" /\ ~IsBaseGameNfs(job.title.files[x].name)
    BY <2>1 DEF Contents
  <2>. QED  BY <2>1, <2>2, <2>3 DEF StagedTitleIsWhole, Served
<1>. QED  BY <1>1, Invariance, PTL

\* base_disc_extras: certificates and apploader are of one version of the base's disc, read with its
\* own key; they are found if the disc is there and nothing goes wrong; the user's apploader stays;
\* and the copy of the disc is gone.
THEOREM ExtrasFromTheDisc == Spec => []ExtrasComeFromTheBaseDisc
<1>1. IInv => ExtrasComeFromTheBaseDisc
  <2> SUFFICES ASSUME IInv, pc = "done", job.gc PROVE ExtrasComeFromTheBaseDisc
    BY DEF ExtrasComeFromTheBaseDisc
  <2>1. TypeOK /\ Where /\ Borrowed /\ Served
    BY DEF IInv
  <2>2. phase = "disc" /\ job.apploader \in BOOLEAN
    BY <2>1, JobFacts DEF TypeOK, Where
  <2> DEFINE disc == IF IsNus THEN Tree(job.title, IF rec = None THEN 1 ELSE rec) ELSE own
  <2>3. disc = Source
    BY <2>1, <2>2 DEF Where, Source
  <2>4. job.apploader <=> extras.apploader = User
    BY <2>1, <2>2 DEF Borrowed
  <2>5. {extras.certs, extras.apploader} \ {None, User} \subseteq {f.ver : f \in DiscFiles(Source)}
    BY <2>1 DEF Borrowed, TypeOK
  <2>6. calm /\ HasDisc(Source) => extras.certs # None /\ extras.apploader # None /\ scratch = {}
    BY <2>1, <2>2 DEF Served
  <2>7. IsNus \/ \E x \in DOMAIN job.roots : own = job.roots[x]
    BY <2>1 DEF Where, Candidates
  <2> HIDE DEF disc
  <2>8. ExtrasComeFromTheBaseDisc <=>
            /\ job.apploader <=> extras.apploader = User
            /\ {extras.certs, extras.apploader} \ {None, User}
                   \subseteq {f.ver : f \in DiscFiles(disc)}
            /\ calm /\ HasDisc(disc) =>
                   extras.certs # None /\ extras.apploader # None /\ scratch = {}
            /\ IsNus \/ \E x \in DOMAIN job.roots : own = job.roots[x]
    BY DEF ExtrasComeFromTheBaseDisc, DiscFiles, disc
  <2>. QED  BY <2>3, <2>4, <2>5, <2>6, <2>7, <2>8
<1>. QED  BY <1>1, Invariance, PTL
=============================================================================
