----------------------------- MODULE WupPackage -----------------------------
(***************************************************************************)
(* Publication of an installable WUP package into an output directory that *)
(* earlier builds may have left in any state: crates/core/src/package,     *)
(* build_package with its StagedOutputs and clean_stale_outputs.           *)
(*                                                                         *)
(* A build lists the directory and removes every known output name, plans  *)
(* the contents, writes each output as <name>.part in registration order   *)
(* and then renames the parts one by one to their final names, title.tmd   *)
(* last.  Every file-system call may fail; the process may be killed       *)
(* between any two steps (and while a part is half written); the next      *)
(* build starts from whatever is left.  File contents are abstracted to    *)
(* the build that wrote them and whether the write finished.               *)
(***************************************************************************)
EXTENDS Naturals, Sequences

CONSTANTS MaxContents, \* bound: a plan has at most this many contents
          MaxBuilds,   \* bound: this many builds are started in one behaviour
          NoFile       \* the directory holds no file of that name

ASSUME BoundsAssumption == MaxContents \in Nat \ {0} /\ MaxBuilds \in Nat
ASSUME NoFileAssumption == NoFile \notin [build : Nat, whole : BOOLEAN]

VARIABLES
    final,    \* the outputs under their final names: [Names -> Files \cup {NoFile}]
    part,     \* the <name>.part siblings
    pc,       \* where build_package is; "idle" when no process runs
    todo,     \* sweep: directory entries listed and not yet visited
    plan,     \* the content plan of the build (of the last one, when idle)
    out,      \* staging: the output being written
    pending,  \* StagedOutputs.pending: the names registered so far, in order
    renamed,  \* commit: how many of pending have been renamed
    cursor,   \* drop and undo: how many of pending have been visited
    build,    \* history: builds started so far; stamps the files they write
    result,   \* history: how the last build ended
    dirty     \* history: listing the directory or a removal failed in this build

disk == <<final, part>>
vars == <<final, part, pc, todo, plan, out, pending, renamed, cursor,
          build, result, dirty>>

(***************************************************************************)
(* Output names and files.                                                 *)
(***************************************************************************)
App(c) == <<"app", c>>
H3(c)  == <<"h3", c>>
Cert   == <<"cert", 0>>
Tik    == <<"tik", 0>>
Tmd    == <<"tmd", 0>>

ContentIds == 0 .. (MaxContents - 1)
Names   == ({"app", "h3"} \X ContentIds) \cup {Cert, Tik, Tmd}
Files   == [build : 1 .. MaxBuilds, whole : BOOLEAN]
Entries == {"final", "part"} \X Names

\* Content 0 is the FST, which is never hashed.
Plans == UNION { [count : {n}, hashed : SUBSET (1 .. (n - 1))] : n \in 1 .. MaxContents }

Outputs(p) == {App(c) : c \in 0 .. (p.count - 1)} \cup {H3(c) : c \in p.hashed}
                \cup {Cert, Tik, Tmd}

Partial  == [build |-> build, whole |-> FALSE]
Complete == [build |-> build, whole |-> TRUE]

\* Mutant: the sweep forgets the .part leftovers of a killed build.
SweepableFinals == {<<"final", n>> : n \in {m \in Names : final[m] # NoFile}}

\* Mutant: is_known_output_name does not know .h3 files.
SweepableNoH3 == {<<"final", n>> : n \in {m \in Names : final[m] # NoFile /\ m[1] # "h3"}}
                   \cup {<<"part", n>> : n \in {m \in Names : part[m] # NoFile}}

\* The entries of the directory that is_sweepable_output_name accepts.
Sweepable == {<<"final", n>> : n \in {m \in Names : final[m] # NoFile}}
               \cup {<<"part", n>> : n \in {m \in Names : part[m] # NoFile}}

-----------------------------------------------------------------------------
Init ==
    /\ final = [n \in Names |-> NoFile]
    /\ part = [n \in Names |-> NoFile]
    /\ pc = "idle"
    /\ todo = {}
    /\ plan = [count |-> 1, hashed |-> {}]
    /\ out = App(0)
    /\ pending = <<>>
    /\ renamed = 0
    /\ cursor = 0
    /\ build = 0
    /\ result = "none"
    /\ dirty = FALSE

Return(r) == pc' = "idle" /\ result' = r

(***************************************************************************)
(* create_dir_all and read_dir, then clean_stale_outputs: the listed       *)
(* entries are visited in directory order, which is any order; the first   *)
(* error ends the build where it is.                                       *)
(***************************************************************************)
Start ==
    /\ pc = "idle" /\ build < MaxBuilds
    /\ pc' = "sweep"
    /\ build' = build + 1
    /\ todo' = Sweepable
    /\ pending' = <<>> /\ renamed' = 0 /\ cursor' = 0
    /\ result' = "none" /\ dirty' = FALSE
    /\ UNCHANGED <<disk, plan, out>>

RemoveEntry(e) ==
    /\ final' = IF e[1] = "final" THEN [final EXCEPT ![e[2]] = NoFile] ELSE final
    /\ part' = IF e[1] = "part" THEN [part EXCEPT ![e[2]] = NoFile] ELSE part

SweepRemove(e) ==
    /\ pc = "sweep" /\ e \in todo
    /\ RemoveEntry(e)
    /\ todo' = todo \ {e}
    /\ UNCHANGED <<pc, plan, out, pending, renamed, cursor, build, result, dirty>>

\* Mutant: a file that cannot be removed is skipped and the build goes on.
SweepSkips ==
    /\ pc = "sweep"
    /\ \E e \in todo : todo' = todo \ {e}
    /\ dirty' = TRUE
    /\ UNCHANGED <<disk, pc, plan, out, pending, renamed, cursor, build, result>>

SweepFails ==
    /\ pc = "sweep"
    /\ Return("err")
    /\ dirty' = TRUE
    /\ UNCHANGED <<disk, todo, plan, out, pending, renamed, cursor, build>>

\* content::plan runs on the staged tree after the sweep; it may reject the tree.
PlanContents(p) ==
    /\ pc = "sweep" /\ todo = {}
    /\ plan' = p
    /\ out' = App(0)
    /\ pc' = "create"
    /\ UNCHANGED <<disk, todo, pending, renamed, cursor, build, result, dirty>>

PlanFails ==
    /\ pc = "sweep" /\ todo = {}
    /\ Return("err")
    /\ UNCHANGED <<disk, todo, plan, out, pending, renamed, cursor, build, dirty>>

(***************************************************************************)
(* Staging.  StagedOutputs::stage registers the name before the file       *)
(* exists; File::create / fs::write create it, possibly over nothing, and  *)
(* the bytes follow.  The order of outputs is the order of the loop over   *)
(* plan.contents and of the three metadata files after it.                 *)
(***************************************************************************)
\* Mutant: the loop runs one content too far.
AfterContentTooFar(p, c) == IF c + 1 <= p.count THEN App(c + 1) ELSE Cert

AfterContent(p, c) == IF c + 1 < p.count THEN App(c + 1) ELSE Cert

After(p, n) ==
    CASE n[1] = "app"  -> IF n[2] \in p.hashed THEN H3(n[2]) ELSE AfterContent(p, n[2])
      [] n[1] = "h3"   -> AfterContent(p, n[2])
      [] n[1] = "cert" -> Tik
      [] n[1] = "tik"  -> Tmd

CreatePart ==
    /\ pc = "create"
    /\ pending' = Append(pending, out)
    /\ part' = [part EXCEPT ![out] = Partial]
    /\ pc' = "write"
    /\ UNCHANGED <<final, todo, plan, out, renamed, cursor, build, result, dirty>>

\* Creating the part fails, or assemble_content does, after the name was registered.
CreateFails ==
    /\ pc = "create"
    /\ pending' = Append(pending, out)
    /\ pc' = "drop"
    /\ UNCHANGED <<disk, todo, plan, out, renamed, cursor, build, result, dirty>>

FinishPart ==
    /\ pc = "write"
    /\ part' = [part EXCEPT ![out] = Complete]
    /\ IF out = Tmd THEN pc' = "commit" /\ out' = out
                    ELSE pc' = "create" /\ out' = After(plan, out)
    /\ UNCHANGED <<final, todo, plan, pending, renamed, cursor, build, result, dirty>>

WriteFails ==
    /\ pc = "write"
    /\ pc' = "drop"
    /\ UNCHANGED <<disk, todo, plan, out, pending, renamed, cursor, build, result, dirty>>

\* Drop for StagedOutputs: best-effort removal of every registered part.
\* rm is whether this removal succeeds; removing a file that is not there changes nothing.
DropStep(rm) ==
    /\ pc = "drop" /\ cursor < Len(pending)
    /\ cursor' = cursor + 1
    /\ part' = IF rm THEN [part EXCEPT ![pending[cursor']] = NoFile] ELSE part
    /\ dirty' = (dirty \/ ~rm)
    /\ UNCHANGED <<final, pc, todo, plan, out, pending, renamed, build, result>>

DropDone ==
    /\ pc = "drop" /\ cursor = Len(pending)
    /\ Return("err")
    /\ UNCHANGED <<disk, todo, plan, out, pending, renamed, cursor, build, dirty>>

(***************************************************************************)
(* StagedOutputs::commit.                                                  *)
(***************************************************************************)
\* Mutant: the TMD is renamed first.
RenameBackwards ==
    /\ pc = "commit" /\ renamed < Len(pending)
    /\ LET n == pending[Len(pending) - renamed] IN
         /\ final' = [final EXCEPT ![n] = part[n]]
         /\ part' = [part EXCEPT ![n] = NoFile]
    /\ renamed' = renamed + 1
    /\ UNCHANGED <<pc, todo, plan, out, pending, cursor, build, result, dirty>>

\* Mutant: an output is renamed as soon as it is written.
RenameWhenWritten ==
    /\ pc \in {"create", "commit"} /\ renamed < Len(pending)
    /\ LET n == pending[renamed + 1] IN
         /\ final' = [final EXCEPT ![n] = part[n]]
         /\ part' = [part EXCEPT ![n] = NoFile]
    /\ renamed' = renamed + 1
    /\ UNCHANGED <<pc, todo, plan, out, pending, cursor, build, result, dirty>>

Rename ==
    /\ pc = "commit" /\ renamed < Len(pending)
    /\ LET n == pending[renamed + 1] IN
         /\ final' = [final EXCEPT ![n] = part[n]]
         /\ part' = [part EXCEPT ![n] = NoFile]
    /\ renamed' = renamed + 1
    /\ UNCHANGED <<pc, todo, plan, out, pending, cursor, build, result, dirty>>

RenameFails ==
    /\ pc = "commit" /\ renamed < Len(pending)
    /\ pc' = "undo"
    /\ UNCHANGED <<disk, todo, plan, out, pending, renamed, cursor, build, result, dirty>>

CommitDone ==
    /\ pc = "commit" /\ renamed = Len(pending)
    /\ Return("ok")
    /\ UNCHANGED <<disk, todo, plan, out, pending, renamed, cursor, build, dirty>>

\* Mutant: a failed commit removes the remaining parts only.
UndoPartsOnly(rm) ==
    /\ pc = "undo" /\ cursor < Len(pending)
    /\ cursor' = cursor + 1
    /\ IF rm THEN RemoveEntry(<<"part", pending[cursor']>>) ELSE UNCHANGED disk
    /\ dirty' = (dirty \/ ~rm)
    /\ UNCHANGED <<pc, todo, plan, out, pending, renamed, build, result>>

\* After a failed rename: the finals already renamed, then the remaining parts.
UndoStep(rm) ==
    /\ pc = "undo" /\ cursor < Len(pending)
    /\ cursor' = cursor + 1
    /\ LET e == <<IF cursor < renamed THEN "final" ELSE "part", pending[cursor']>>
       IN IF rm THEN RemoveEntry(e) ELSE UNCHANGED disk
    /\ dirty' = (dirty \/ ~rm)
    /\ UNCHANGED <<pc, todo, plan, out, pending, renamed, build, result>>

UndoDone ==
    /\ pc = "undo" /\ cursor = Len(pending)
    /\ Return("err")
    /\ UNCHANGED <<disk, todo, plan, out, pending, renamed, cursor, build, dirty>>

\* SIGKILL, a crash of the machine: no destructor runs, the directory stays as it is.
Kill ==
    /\ pc # "idle"
    /\ Return("killed")
    /\ UNCHANGED <<disk, todo, plan, out, pending, renamed, cursor, build, dirty>>

-----------------------------------------------------------------------------
Sweep   == SweepFails \/ PlanFails \/ (\E e \in Entries : SweepRemove(e))
             \/ (\E p \in Plans : PlanContents(p))
Stage   == CreatePart \/ CreateFails \/ FinishPart \/ WriteFails
Discard == DropDone \/ (\E rm \in BOOLEAN : DropStep(rm))
Commit  == Rename \/ RenameFails \/ CommitDone
Undo    == UndoDone \/ (\E rm \in BOOLEAN : UndoStep(rm))

Program == Sweep \/ Stage \/ Discard \/ Commit \/ Undo
Next    == Start \/ Program \/ Kill

Spec == Init /\ [][Next]_vars

-----------------------------------------------------------------------------
PcValues == {"idle", "sweep", "create", "write", "drop", "commit", "undo"}

(***************************************************************************)
(* Type invariant.                                                         *)
(***************************************************************************)
TypeOK ==
    /\ final \in [Names -> Files \cup {NoFile}]
    /\ part \in [Names -> Files \cup {NoFile}]
    /\ pc \in PcValues
    /\ todo \subseteq Entries
    /\ plan \in Plans
    /\ out \in Names
    /\ pending \in Seq(Names)
    /\ renamed \in 0 .. Len(pending)
    /\ cursor \in 0 .. Len(pending)
    /\ build \in 0 .. MaxBuilds
    /\ result \in {"none", "ok", "err", "killed"}
    /\ dirty \in BOOLEAN

\* The directory holds the outputs of plan p, all whole and all written by build b,
\* and no other output under a final name.
HoldsPackage(p, b) ==
    final = [n \in Names |-> IF n \in Outputs(p) THEN [build |-> b, whole |-> TRUE]
                                                 ELSE NoFile]

\* title.tmd is what installers key on: whenever it is the one of the latest build --
\* also after a kill, a failed rename or a failed cleanup -- the whole package of that
\* build stands beside it and nothing of any earlier build does (StagedOutputs).
TmdSealsPackage ==
    (final[Tmd] # NoFile /\ final[Tmd].build = build) => HoldsPackage(plan, build)

\* Installers copy everything they find: at no time do files of two builds, final or
\* part, lie side by side (clean_stale_outputs must have emptied the directory before
\* the first output of a build is created).
NeverMixed ==
    \A m, n \in Names :
        LET at(k) == {final[k], part[k]} \ {NoFile} IN
        \A f \in at(m), g \in at(n) : f.build = g.build

\* A build that returned Ok leaves exactly its package and no .part, whatever a killed or
\* failed build left in the directory before it.
SuccessIsExact ==
    (pc = "idle" /\ result = "ok") =>
        /\ HoldsPackage(plan, build)
        /\ \A n \in Names : part[n] = NoFile

\* A build that returned an error, with every removal it tried succeeding, leaves neither
\* a final output nor a .part, also when a rename failed half way through commit.
FailureLeavesNothing ==
    (pc = "idle" /\ result = "err" /\ ~dirty) =>
        \A n \in Names : final[n] = NoFile /\ part[n] = NoFile

\* A final name appears only once every output of the build is on disk, whole, under one of its
\* two names, and only where no file stands (StagedOutputs: "the destinations are free", and on
\* Windows a rename fails if they are not).
PublishesOnlyWhole ==
    [][\A n \in Names :
          final'[n] \notin {final[n], NoFile} =>
              /\ final[n] = NoFile /\ final'[n] = Complete
              /\ \A m \in Outputs(plan) : Complete \in {final[m], part[m]}]_vars

\* What the doc of build_package promises ("a failure never leaves an installable-looking
\* partial package behind"): after an error a title.tmd has all the outputs it lists.
NoInstallablePartialAfterFailure ==
    (pc = "idle" /\ result = "err" /\ final[Tmd] # NoFile) =>
        \A n \in Outputs(plan) : final[n] # NoFile

(***************************************************************************)
(* What an installer sees: nothing without a title.tmd, every file next to *)
(* it otherwise.  Seen this way a package appears in one step.             *)
(***************************************************************************)
InstallerView ==
    IF final[Tmd] = NoFile THEN {}
    ELSE {<<n, final[n]>> : n \in {m \in Names : final[m] # NoFile}}

Publication == INSTANCE AtomicPublication
                 WITH view <- InstallerView,
                      Packages <- {Outputs(p) : p \in Plans},
                      Builds <- 1 .. MaxBuilds

\* build_package implements atomic publication.
PublishesAtomically == Publication!Spec
=============================================================================
