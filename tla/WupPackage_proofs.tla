------------------------- MODULE WupPackage_proofs -------------------------
(***************************************************************************)
(* The safety properties of WupPackage for any number of contents and of   *)
(* builds: the package is sealed by its title.tmd, builds never mix, a     *)
(* success is exact, a clean failure leaves nothing, and the installer's   *)
(* view implements AtomicPublication.                                      *)
(***************************************************************************)
EXTENDS WupPackage, TLAPS

\* The order build_package stages outputs in: contents by index, each .app before its .h3,
\* then the certificate, the ticket and the TMD.
Rank(n) ==
    CASE n[1] = "app"  -> 2 * n[2]
      [] n[1] = "h3"   -> 2 * n[2] + 1
      [] n[1] = "cert" -> 2 * MaxContents
      [] n[1] = "tik"  -> 2 * MaxContents + 1
      [] n[1] = "tmd"  -> 2 * MaxContents + 2

-----------------------------------------------------------------------------
(***************************************************************************)
(* The inductive invariant: for each program counter, what the directory   *)
(* holds in terms of the registered outputs.                               *)
(***************************************************************************)
Registered(lo, hi) == {pending[i] : i \in lo .. hi}
Staged             == Registered(1, Len(pending))

WholeOn(S) == [n \in Names |-> IF n \in S THEN Complete ELSE NoFile]
Nothing    == [n \in Names |-> NoFile]

Distinct == \A i, j \in 1 .. Len(pending) : pending[i] = pending[j] => i = j

\* No file is stamped by a build that has not started.
Stamped ==
    \A n \in Names : /\ final[n] # NoFile => final[n].build <= build
                     /\ part[n] # NoFile => part[n].build <= build

Started == pc # "idle" => build > 0

SweepInv ==
    pc = "sweep" =>
        /\ \A n \in Names :
             /\ final[n] # NoFile => <<"final", n>> \in todo /\ final[n].build < build
             /\ part[n] # NoFile => <<"part", n>> \in todo /\ part[n].build < build
        /\ pending = <<>> /\ renamed = 0 /\ cursor = 0 /\ ~dirty

CreateInv ==
    pc = "create" =>
        /\ final = Nothing /\ part = WholeOn(Staged)
        /\ out \in Outputs(plan)
        /\ Staged = {n \in Outputs(plan) : Rank(n) < Rank(out)}
        /\ Distinct /\ renamed = 0 /\ cursor = 0 /\ ~dirty

WriteInv ==
    pc = "write" =>
        /\ final = Nothing /\ part = [WholeOn(Staged) EXCEPT ![out] = Partial]
        /\ out \in Outputs(plan)
        /\ Staged = {n \in Outputs(plan) : Rank(n) <= Rank(out)}
        /\ Len(pending) > 0 /\ pending[Len(pending)] = out
        /\ Distinct /\ renamed = 0 /\ cursor = 0 /\ ~dirty

CommitInv ==
    pc = "commit" =>
        /\ final = WholeOn(Registered(1, renamed))
        /\ part = WholeOn(Registered(renamed + 1, Len(pending)))
        /\ Staged = Outputs(plan)
        /\ Len(pending) > 0 /\ pending[Len(pending)] = Tmd
        /\ Distinct /\ cursor = 0 /\ ~dirty

\* What is left of file k of the build: nothing, unless it was not reached or not removed.
Left(S) == {pending[i] : i \in {j \in S : j > cursor \/ dirty}}

DropInv ==
    pc = "drop" =>
        /\ final = Nothing
        /\ \A n \in Names :
             part[n] # NoFile => part[n].build = build /\ n \in Left(1 .. Len(pending))

UndoInv ==
    pc = "undo" =>
        /\ renamed < Len(pending)
        /\ final[Tmd] = NoFile
        /\ \A n \in Names :
             /\ final[n] # NoFile => final[n].build = build /\ n \in Left(1 .. renamed)
             /\ part[n] # NoFile =>
                  part[n].build = build /\ n \in Left((renamed + 1) .. Len(pending))

Phases == SweepInv /\ CreateInv /\ WriteInv /\ CommitInv /\ DropInv /\ UndoInv
Claims == TmdSealsPackage /\ NeverMixed /\ SuccessIsExact /\ FailureLeavesNothing
IInv   == TypeOK /\ Stamped /\ Started /\ Phases /\ Claims

-----------------------------------------------------------------------------
(***************************************************************************)
(* Outputs and their order.                                                *)
(***************************************************************************)
LEMMA PlanShape ==
  ASSUME NEW p \in Plans
  PROVE  /\ p.count \in 1 .. MaxContents
         /\ p.hashed \subseteq 1 .. (p.count - 1)
  BY BoundsAssumption DEF Plans

LEMMA NameCases ==
  ASSUME NEW n \in Names
  PROVE  \/ \E c \in ContentIds : n = App(c)
         \/ \E c \in ContentIds : n = H3(c)
         \/ n = Cert \/ n = Tik \/ n = Tmd
  BY DEF Names, App, H3

LEMMA OutputCases ==
  ASSUME NEW p \in Plans, NEW n \in Outputs(p)
  PROVE  \/ \E c \in 0 .. (p.count - 1) : n = App(c)
         \/ \E c \in p.hashed : n = H3(c)
         \/ n = Cert \/ n = Tik \/ n = Tmd
  BY DEF Outputs

LEMMA OutputsAreNames ==
  ASSUME NEW p \in Plans
  PROVE  /\ Outputs(p) \subseteq Names
         /\ App(0) \in Outputs(p) /\ Tmd \in Outputs(p)
  BY PlanShape, BoundsAssumption DEF Outputs, Names, App, H3, Cert, Tik, Tmd, ContentIds

LEMMA RankOf ==
  /\ \A c : Rank(App(c)) = 2 * c /\ Rank(H3(c)) = 2 * c + 1
  /\ Rank(Cert) = 2 * MaxContents
  /\ Rank(Tik) = 2 * MaxContents + 1
  /\ Rank(Tmd) = 2 * MaxContents + 2
  BY DEF Rank, App, H3, Cert, Tik, Tmd

LEMMA RankInjective ==
  ASSUME NEW m \in Names, NEW n \in Names, Rank(m) = Rank(n)
  PROVE  m = n
  BY RankOf, NameCases, BoundsAssumption DEF ContentIds

LEMMA RankBounds ==
  ASSUME NEW n \in Names
  PROVE  Rank(n) \in Nat /\ Rank(n) <= Rank(Tmd) /\ Rank(App(0)) <= Rank(n)
  BY RankOf, NameCases, BoundsAssumption DEF ContentIds

LEMMA OutputRanks ==
  ASSUME NEW p \in Plans
  PROVE  \A m \in Outputs(p) :
           \/ \E c \in 0 .. (p.count - 1) : Rank(m) = 2 * c
           \/ \E c \in p.hashed : Rank(m) = 2 * c + 1
           \/ Rank(m) \in {2 * MaxContents, 2 * MaxContents + 1, 2 * MaxContents + 2}
  BY OutputCases, RankOf

LEMMA AfterIsNext ==
  ASSUME NEW p \in Plans, NEW n \in Outputs(p), n # Tmd
  PROVE  /\ After(p, n) \in Outputs(p)
         /\ \A m \in Outputs(p) : Rank(m) < Rank(After(p, n)) <=> Rank(m) <= Rank(n)
<1> USE BoundsAssumption
<1>0. /\ p.count \in 1 .. MaxContents /\ p.hashed \subseteq 1 .. (p.count - 1)
      /\ Cert \in Outputs(p) /\ Tik \in Outputs(p) /\ Tmd \in Outputs(p)
      /\ \A c \in 0 .. (p.count - 1) : App(c) \in Outputs(p)
      /\ \A c \in p.hashed : H3(c) \in Outputs(p)
  BY PlanShape DEF Outputs
<1>1. ASSUME NEW c \in 0 .. (p.count - 1),
             Rank(n) = 2 * c + 1 \/ (Rank(n) = 2 * c /\ c \notin p.hashed)
      PROVE  /\ AfterContent(p, c) \in Outputs(p)
             /\ \A m \in Outputs(p) : Rank(m) < Rank(AfterContent(p, c)) <=> Rank(m) <= Rank(n)
  <2>1. CASE c + 1 < p.count
    <3>1. AfterContent(p, c) = App(c + 1)
      BY <2>1 DEF AfterContent
    <3>2. Rank(App(c + 1)) = 2 * (c + 1) /\ App(c + 1) \in Outputs(p)
      <4>1. c + 1 \in 0 .. (p.count - 1)
        BY <1>0, <2>1
      <4>2. App(c + 1) \in Outputs(p)
        BY <1>0, <4>1
      <4>3. Rank(App(c + 1)) = 2 * (c + 1)
        BY RankOf
      <4>4. QED
        BY <4>2, <4>3
    <3>3. ASSUME NEW m \in Outputs(p)
          PROVE  Rank(m) < 2 * (c + 1) <=> Rank(m) <= Rank(n)
      <4>1. CASE \E d \in 0 .. (p.count - 1) : Rank(m) = 2 * d
        BY <1>0, <1>1, <2>1, <4>1
      <4>2. CASE \E d \in p.hashed : Rank(m) = 2 * d + 1
        BY <1>0, <1>1, <2>1, <4>2
      <4>3. CASE Rank(m) \in {2 * MaxContents, 2 * MaxContents + 1, 2 * MaxContents + 2}
        BY <1>0, <1>1, <2>1, <4>3
      <4>4. QED
        BY <4>1, <4>2, <4>3, OutputRanks
    <3>4. QED
      BY <3>1, <3>2, <3>3
  <2>2. CASE ~(c + 1 < p.count)
    <3>1. AfterContent(p, c) = Cert /\ Rank(Cert) = 2 * MaxContents /\ Cert \in Outputs(p)
      BY <1>0, <2>2, RankOf DEF AfterContent
    <3>2. ASSUME NEW m \in Outputs(p)
          PROVE  Rank(m) < 2 * MaxContents <=> Rank(m) <= Rank(n)
      <4>1. CASE \E d \in 0 .. (p.count - 1) : Rank(m) = 2 * d
        BY <1>0, <1>1, <2>2, <4>1
      <4>2. CASE \E d \in p.hashed : Rank(m) = 2 * d + 1
        BY <1>0, <1>1, <2>2, <4>2
      <4>3. CASE Rank(m) \in {2 * MaxContents, 2 * MaxContents + 1, 2 * MaxContents + 2}
        BY <1>0, <1>1, <2>2, <4>3
      <4>4. QED
        BY <4>1, <4>2, <4>3, OutputRanks
    <3>3. QED
      BY <3>1, <3>2
  <2>3. QED
    BY <2>1, <2>2
<1>2. CASE \E c \in 0 .. (p.count - 1) : n = App(c)
  <2>1. PICK c \in 0 .. (p.count - 1) : n = App(c)
    BY <1>2
  <2>2. CASE c \in p.hashed
    <3>1. After(p, n) = H3(c)
      BY <2>1, <2>2 DEF After, App
    <3>2. Rank(n) = 2 * c /\ Rank(H3(c)) = 2 * c + 1 /\ H3(c) \in Outputs(p)
      BY <1>0, <2>1, <2>2, RankOf
    <3>3. ASSUME NEW m \in Outputs(p)
          PROVE  Rank(m) < 2 * c + 1 <=> Rank(m) <= 2 * c
      BY <1>0, OutputRanks
    <3>4. QED
      BY <3>1, <3>2, <3>3
  <2>3. CASE c \notin p.hashed
    <3>1. After(p, n) = AfterContent(p, c)
      BY <2>1, <2>3 DEF After, App
    <3>2. QED
      BY <1>1, <2>1, <2>3, <3>1, RankOf
  <2>4. QED
    BY <2>2, <2>3
<1>3. CASE \E c \in p.hashed : n = H3(c)
  <2>1. PICK c \in p.hashed : n = H3(c)
    BY <1>3
  <2>2. After(p, n) = AfterContent(p, c)
    BY <2>1 DEF After, H3
  <2>3. c \in 0 .. (p.count - 1) /\ Rank(n) = 2 * c + 1
    BY <1>0, <2>1, RankOf
  <2>4. QED
    BY <1>1, <2>2, <2>3
<1>4. CASE n = Cert
  <2>1. After(p, n) = Tik
    BY <1>4 DEF After, Cert
  <2>2. QED
    BY <1>0, <1>4, <2>1, OutputCases, RankOf
<1>5. CASE n = Tik
  <2>1. After(p, n) = Tmd
    BY <1>5 DEF After, Tik
  <2>2. QED
    BY <1>0, <1>5, <2>1, OutputCases, RankOf
<1>6. QED
  BY <1>2, <1>3, <1>4, <1>5, OutputCases

-----------------------------------------------------------------------------
(***************************************************************************)
(* The steps.                                                              *)
(***************************************************************************)
LEMMA BuildTyped ==
  ASSUME TypeOK
  PROVE  /\ build \in Nat
         /\ \A n \in Names :
              /\ final[n] \in Files \cup {NoFile} /\ part[n] \in Files \cup {NoFile}
              /\ final[n] # NoFile => final[n].build \in Nat
              /\ part[n] # NoFile => part[n].build \in Nat
  BY BoundsAssumption DEF TypeOK, Files

LEMMA FilesOf ==
  TypeOK /\ build > 0 =>
    /\ Complete \in Files /\ Partial \in Files
    /\ Complete # NoFile /\ Partial # NoFile
    /\ Complete.build = build /\ Partial.build = build
<1> SUFFICES ASSUME TypeOK, build > 0
             PROVE  /\ Complete \in Files /\ Partial \in Files
                    /\ Complete # NoFile /\ Partial # NoFile
                    /\ Complete.build = build /\ Partial.build = build
  OBVIOUS
<1>1. build \in 1 .. MaxBuilds
  BY BoundsAssumption DEF TypeOK
<1>2. Complete \in Files /\ Partial \in Files
  BY <1>1 DEF Files, Complete, Partial
<1>3. Files \subseteq [build : Nat, whole : BOOLEAN]
  BY BoundsAssumption DEF Files
<1>4. Complete # NoFile /\ Partial # NoFile
  BY <1>2, <1>3, NoFileAssumption
<1>5. QED
  BY <1>2, <1>4 DEF Complete, Partial

Active == pc \in {"create", "write", "commit", "drop", "undo"}

\* While a build writes, commits or cleans up, what the phase says of the directory implies
\* what is claimed of it.
LEMMA ActiveFacts == TypeOK /\ Started /\ Phases /\ Active => Stamped /\ Claims
<1> SUFFICES ASSUME TypeOK, Started, Phases, Active PROVE Stamped /\ Claims
  OBVIOUS
<1>1. build \in Nat /\ build > 0 /\ Tmd \in Names
  BY BuildTyped DEF Started, Active, Names, Tmd
<1>2. /\ Complete # NoFile /\ Partial # NoFile
      /\ Complete.build = build /\ Partial.build = build
  BY <1>1, FilesOf
<1>3. ASSUME NEW n \in Names
      PROVE  /\ final[n] # NoFile => final[n].build = build
             /\ part[n] # NoFile => part[n].build = build
  <2>1. CASE pc = "create"
    BY <1>2, <2>1 DEF Phases, CreateInv, Nothing, WholeOn
  <2>2. CASE pc = "write"
    BY <1>2, <2>2 DEF Phases, WriteInv, Nothing, WholeOn
  <2>3. CASE pc = "commit"
    BY <1>2, <2>3 DEF Phases, CommitInv, WholeOn
  <2>4. CASE pc = "drop"
    BY <2>4 DEF Phases, DropInv, Nothing
  <2>5. CASE pc = "undo"
    BY <2>5 DEF Phases, UndoInv
  <2>6. QED
    BY <2>1, <2>2, <2>3, <2>4, <2>5 DEF Active
<1>4. Stamped
  BY <1>1, <1>3 DEF Stamped
<1>5. NeverMixed
  BY <1>3 DEF NeverMixed
<1>6. SuccessIsExact /\ FailureLeavesNothing
  BY DEF SuccessIsExact, FailureLeavesNothing, Active
<1>7. TmdSealsPackage
  <2>1. CASE pc # "commit"
    <3>1. final[Tmd] = NoFile
      BY <1>1, <2>1
         DEF Active, Phases, CreateInv, WriteInv, DropInv, UndoInv, Nothing
    <3>2. QED
      BY <3>1 DEF TmdSealsPackage
  <2>2. CASE pc = "commit" /\ final[Tmd] # NoFile
    <3>1. /\ final = WholeOn(Registered(1, renamed)) /\ Staged = Outputs(plan)
          /\ pending[Len(pending)] = Tmd /\ Distinct /\ Len(pending) > 0
      BY <2>2 DEF Phases, CommitInv
    <3>2. Tmd \in Registered(1, renamed)
      BY <1>1, <2>2, <3>1 DEF WholeOn
    <3>3. renamed = Len(pending)
      BY <3>1, <3>2 DEF TypeOK, Registered, Distinct
    <3>4. final = WholeOn(Outputs(plan))
      BY <3>1, <3>3 DEF Staged
    <3>5. QED
      BY <3>4 DEF WholeOn, Complete, TmdSealsPackage, HoldsPackage
  <2>3. QED
    BY <2>1, <2>2 DEF TmdSealsPackage
<1>8. QED
  BY <1>4, <1>5, <1>6, <1>7 DEF Claims

\* The next step of a build that goes on: its phase and its types are all there is to show.
LEMMA ActiveIInv ==
  ASSUME TypeOK', Started', Phases', Active'
  PROVE  IInv'
<1>1. (Stamped /\ Claims)'
  BY ActiveFacts, PTL
<1>2. QED
  BY <1>1 DEF IInv

LEMMA InitIInv == Init => IInv
<1> SUFFICES ASSUME Init PROVE IInv
  OBVIOUS
<1> USE BoundsAssumption DEF Init
<1>1. plan \in Plans
  BY DEF Plans
<1>2. out \in Names /\ Tmd \in Names
  BY DEF Names, App, Tmd, ContentIds
<1>3. TypeOK
  <2>1. /\ pending \in Seq(Names) /\ renamed \in 0 .. Len(pending) /\ cursor \in 0 .. Len(pending)
        /\ build \in 0 .. MaxBuilds
    OBVIOUS
  <2>2. dirty \in BOOLEAN /\ result \in {"none", "ok", "err", "killed"} /\ pc \in PcValues
    BY Zenon DEF PcValues
  <2>3. /\ final \in [Names -> Files \cup {NoFile}] /\ part \in [Names -> Files \cup {NoFile}]
        /\ todo \subseteq Entries
    OBVIOUS
  <2>4. QED
    BY <1>1, <1>2, <2>1, <2>2, <2>3 DEF TypeOK
<1>4. Stamped /\ Started
  BY DEF Stamped, Started
<1>5. Phases
  BY DEF Phases, SweepInv, CreateInv, WriteInv, CommitInv, DropInv, UndoInv
<1>6. Claims
  BY <1>2 DEF Claims, TmdSealsPackage, NeverMixed, SuccessIsExact, FailureLeavesNothing
<1>7. QED
  BY <1>3, <1>4, <1>5, <1>6 DEF IInv

\* A step back to idle that changes no file preserves everything but what it claims about
\* the result; Kill claims nothing.
LEMMA ReturnIInv ==
  ASSUME IInv, NEW r \in {"ok", "err", "killed"}, Return(r),
         UNCHANGED <<disk, plan, out, pending, renamed, cursor, build>>,
         todo' \subseteq Entries, dirty' \in BOOLEAN,
         r = "ok" => HoldsPackage(plan, build) /\ \A n \in Names : part[n] = NoFile,
         r = "err" /\ ~dirty' => \A n \in Names : final[n] = NoFile /\ part[n] = NoFile
  PROVE  IInv'
<1>1. /\ pc' = "idle" /\ result' = r /\ final' = final /\ part' = part /\ plan' = plan
      /\ out' = out /\ pending' = pending /\ renamed' = renamed /\ cursor' = cursor
      /\ build' = build
  BY DEF Return, disk
<1>2. TypeOK'
  BY <1>1 DEF IInv, TypeOK, PcValues
<1>3. Stamped' /\ Started'
  BY <1>1 DEF IInv, Stamped, Started
<1>4. Phases'
  BY <1>1 DEF Phases, SweepInv, CreateInv, WriteInv, CommitInv, DropInv, UndoInv
<1>5. TmdSealsPackage' /\ NeverMixed'
  BY <1>1 DEF IInv, Claims, TmdSealsPackage, NeverMixed, HoldsPackage
<1>6. SuccessIsExact' /\ FailureLeavesNothing'
  BY <1>1 DEF SuccessIsExact, FailureLeavesNothing, HoldsPackage
<1>7. QED
  BY <1>2, <1>3, <1>4, <1>5, <1>6 DEF IInv, Claims

LEMMA StartIInv == ASSUME IInv, Start PROVE IInv'
<1> USE BoundsAssumption
<1>1. /\ pc' = "sweep" /\ build' = build + 1 /\ todo' = Sweepable /\ pending' = <<>>
      /\ renamed' = 0 /\ cursor' = 0 /\ result' = "none" /\ dirty' = FALSE
      /\ final' = final /\ part' = part /\ plan' = plan /\ out' = out /\ build < MaxBuilds
      /\ build \in Nat
  BY DEF Start, disk, IInv, TypeOK
<1>2. Sweepable \subseteq Entries
  BY DEF Sweepable, Entries
<1>3. TypeOK'
  <2>1. pending' \in Seq(Names) /\ Len(pending') = 0
    BY <1>1
  <2>2. build' \in 0 .. MaxBuilds /\ renamed' \in 0 .. Len(pending') /\ cursor' \in 0 .. Len(pending')
    BY <1>1, <2>1
  <2>3. dirty' \in BOOLEAN /\ result' \in {"none", "ok", "err", "killed"} /\ pc' \in PcValues
    BY <1>1, Zenon DEF PcValues
  <2>4. QED
    BY <1>1, <1>2, <2>1, <2>2, <2>3 DEF IInv, TypeOK
<1>4. ASSUME NEW n \in Names
      PROVE  /\ final[n] # NoFile => final[n].build \in Nat /\ final[n].build < build + 1
             /\ part[n] # NoFile => part[n].build \in Nat /\ part[n].build < build + 1
  <2>1. /\ final[n] # NoFile => final[n].build \in Nat /\ final[n].build <= build
        /\ part[n] # NoFile => part[n].build \in Nat /\ part[n].build <= build
    BY BuildTyped DEF IInv, Stamped
  <2>2. QED
    BY <1>1, <2>1
<1>5. Stamped' /\ Started'
  <2>1. Started'
    BY <1>1 DEF Started
  <2>2. ASSUME NEW n \in Names
        PROVE  /\ final'[n] # NoFile => final'[n].build <= build'
               /\ part'[n] # NoFile => part'[n].build <= build'
    BY <1>1, <1>4
  <2>3. QED
    BY <2>1, <2>2 DEF Stamped
<1>6. SweepInv'
  <2>1. ASSUME NEW n \in Names
        PROVE  /\ final'[n] # NoFile => <<"final", n>> \in todo' /\ final'[n].build < build'
               /\ part'[n] # NoFile => <<"part", n>> \in todo' /\ part'[n].build < build'
    BY <1>1, <1>4 DEF Sweepable
  <2>2. QED
    BY <1>1, <2>1 DEF SweepInv
<1>7. Phases'
  BY <1>1, <1>6 DEF Phases, CreateInv, WriteInv, CommitInv, DropInv, UndoInv
<1>8. TmdSealsPackage'
  <2>1. Tmd \in Names
    BY DEF Names, Tmd
  <2>2. final[Tmd] # NoFile => final[Tmd].build \in Nat /\ final[Tmd].build < build + 1
    BY <1>4, <2>1
  <2>3. QED
    BY <1>1, <2>2 DEF TmdSealsPackage
<1>9. NeverMixed'
  BY <1>1 DEF IInv, Claims, NeverMixed
<1>10. SuccessIsExact' /\ FailureLeavesNothing'
  BY <1>1 DEF SuccessIsExact, FailureLeavesNothing
<1>11. QED
  BY <1>3, <1>5, <1>7, <1>8, <1>9, <1>10 DEF IInv, Claims

LEMMA SweepRemoveIInv == ASSUME IInv, NEW e \in Entries, SweepRemove(e) PROVE IInv'
<1> USE BoundsAssumption
<1>1. /\ pc = "sweep" /\ todo' = todo \ {e} /\ pc' = pc /\ plan' = plan /\ out' = out
      /\ pending' = pending /\ renamed' = renamed /\ cursor' = cursor /\ build' = build
      /\ result' = result /\ dirty' = dirty
  BY DEF SweepRemove
<1>2. /\ final' \in [Names -> Files \cup {NoFile}] /\ part' \in [Names -> Files \cup {NoFile}]
      /\ \A n \in Names : final'[n] # NoFile => final'[n] = final[n] /\ <<"final", n>> # e
      /\ \A n \in Names : part'[n] # NoFile => part'[n] = part[n] /\ <<"part", n>> # e
  BY DEF SweepRemove, RemoveEntry, IInv, TypeOK, Entries
<1>3. TypeOK'
  BY <1>1, <1>2 DEF IInv, TypeOK
<1>4. Stamped' /\ Started'
  BY <1>1, <1>2 DEF IInv, Stamped, Started
<1>5. SweepInv'
  BY <1>1, <1>2 DEF IInv, Phases, SweepInv
<1>6. Phases'
  BY <1>1, <1>5 DEF Phases, CreateInv, WriteInv, CommitInv, DropInv, UndoInv
<1>7. Tmd \in Names
  BY DEF Names, Tmd
<1>8. TmdSealsPackage'
  <2>1. final[Tmd] # NoFile => final[Tmd].build \in Nat /\ final[Tmd].build < build
    BY <1>1, <1>7, BuildTyped DEF IInv, Phases, SweepInv
  <2>2. build \in Nat
    BY BuildTyped DEF IInv
  <2>3. QED
    BY <1>1, <1>2, <1>7, <2>1, <2>2 DEF TmdSealsPackage
<1>9. NeverMixed'
  BY <1>2 DEF IInv, Claims, NeverMixed
<1>10. SuccessIsExact' /\ FailureLeavesNothing'
  BY <1>1 DEF SuccessIsExact, FailureLeavesNothing
<1>11. QED
  BY <1>3, <1>4, <1>6, <1>8, <1>9, <1>10 DEF IInv, Claims

LEMMA SweepFailsIInv == ASSUME IInv, SweepFails PROVE IInv'
<1>1. Return("err") /\ UNCHANGED <<disk, plan, out, pending, renamed, cursor, build>>
      /\ todo' \subseteq Entries /\ dirty' = TRUE
  BY DEF SweepFails, IInv, TypeOK
<1>2. dirty' \in BOOLEAN
  BY <1>1, Zenon
<1>3. QED
  BY <1>1, <1>2, ReturnIInv

LEMMA PlanFailsIInv == ASSUME IInv, PlanFails PROVE IInv'
<1>1. Return("err") /\ UNCHANGED <<disk, plan, out, pending, renamed, cursor, build>>
      /\ todo' \subseteq Entries /\ dirty' \in BOOLEAN
  BY DEF PlanFails, IInv, TypeOK
<1>2. \A n \in Names : final[n] = NoFile /\ part[n] = NoFile
  BY DEF PlanFails, IInv, Phases, SweepInv
<1>3. QED
  BY <1>1, <1>2, ReturnIInv

LEMMA DropDoneIInv == ASSUME IInv, DropDone PROVE IInv'
<1>1. Return("err") /\ UNCHANGED <<disk, plan, out, pending, renamed, cursor, build>>
      /\ todo' \subseteq Entries /\ dirty' \in BOOLEAN /\ dirty' = dirty
  BY DEF DropDone, IInv, TypeOK
<1>2. ~dirty => \A n \in Names : final[n] = NoFile /\ part[n] = NoFile
  BY DEF DropDone, IInv, TypeOK, Phases, DropInv, Nothing, Left
<1>3. QED
  BY <1>1, <1>2, ReturnIInv

LEMMA UndoDoneIInv == ASSUME IInv, UndoDone PROVE IInv'
<1>1. Return("err") /\ UNCHANGED <<disk, plan, out, pending, renamed, cursor, build>>
      /\ todo' \subseteq Entries /\ dirty' \in BOOLEAN /\ dirty' = dirty
  BY DEF UndoDone, IInv, TypeOK
<1>2. ~dirty => \A n \in Names : final[n] = NoFile /\ part[n] = NoFile
  BY DEF UndoDone, IInv, TypeOK, Phases, UndoInv, Left
<1>3. QED
  BY <1>1, <1>2, ReturnIInv

LEMMA CommitDoneIInv == ASSUME IInv, CommitDone PROVE IInv'
<1>1. Return("ok") /\ UNCHANGED <<disk, plan, out, pending, renamed, cursor, build>>
      /\ todo' \subseteq Entries /\ dirty' \in BOOLEAN
  BY DEF CommitDone, IInv, TypeOK
<1>2. /\ final = WholeOn(Staged) /\ Staged = Outputs(plan)
      /\ part = WholeOn(Registered(renamed + 1, Len(pending))) /\ renamed = Len(pending)
  BY DEF CommitDone, IInv, Phases, CommitInv, Staged
<1>3. Registered(renamed + 1, Len(pending)) = {}
  BY <1>2 DEF Registered, IInv, TypeOK
<1>4. HoldsPackage(plan, build) /\ \A n \in Names : part[n] = NoFile
  BY <1>2, <1>3 DEF WholeOn, HoldsPackage, Complete
<1>5. QED
  BY <1>1, <1>4, ReturnIInv

LEMMA KillIInv == ASSUME IInv, Kill PROVE IInv'
<1>1. Return("killed") /\ UNCHANGED <<disk, plan, out, pending, renamed, cursor, build>>
      /\ todo' \subseteq Entries /\ dirty' \in BOOLEAN
  BY DEF Kill, IInv, TypeOK
<1>2. QED
  BY <1>1, ReturnIInv

\* Registering one more output.
LEMMA RegisterOne ==
  ASSUME NEW q \in Seq(Names), NEW n \in Names, NEW r, r = Append(q, n)
  PROVE  /\ r \in Seq(Names) /\ Len(r) = Len(q) + 1 /\ r[Len(r)] = n
         /\ \A i \in 1 .. Len(q) : r[i] = q[i]
         /\ {r[i] : i \in 1 .. Len(r)} = {q[i] : i \in 1 .. Len(q)} \cup {n}
<1>1. /\ r \in Seq(Names) /\ Len(r) = Len(q) + 1 /\ r[Len(r)] = n
      /\ \A i \in 1 .. Len(q) : r[i] = q[i]
  OBVIOUS
<1>2. 1 .. Len(r) = (1 .. Len(q)) \cup {Len(r)}
  BY <1>1
<1>3. QED
  BY <1>1, <1>2

LEMMA PlanContentsIInv == ASSUME IInv, NEW p \in Plans, PlanContents(p) PROVE IInv'
<1>1. /\ pc = "sweep" /\ todo = {} /\ pc' = "create" /\ plan' = p /\ out' = App(0)
      /\ final' = final /\ part' = part /\ todo' = todo /\ pending' = pending
      /\ renamed' = renamed /\ cursor' = cursor /\ build' = build /\ result' = result
      /\ dirty' = dirty
  BY DEF PlanContents, disk
<1>2. TypeOK'
  BY <1>1, OutputsAreNames DEF IInv, TypeOK, PcValues
<1>3. Started' /\ Active'
  BY <1>1 DEF IInv, Started, Active
<1>4. /\ pending = <<>> /\ renamed = 0 /\ cursor = 0 /\ ~dirty
      /\ \A n \in Names : final[n] = NoFile /\ part[n] = NoFile
  BY <1>1 DEF IInv, Phases, SweepInv
<1>5. Staged' = {} /\ Distinct'
  BY <1>1, <1>4 DEF Staged, Registered, Distinct
<1>6. final' = Nothing /\ part' = WholeOn(Staged)'
  BY <1>1, <1>4, <1>5 DEF Nothing, WholeOn, IInv, TypeOK
<1>7. out' \in Outputs(p) /\ \A n \in Outputs(p) : ~(Rank(n) < Rank(out'))
  BY <1>1, OutputsAreNames, RankBounds
<1>8. CreateInv'
  BY <1>1, <1>4, <1>5, <1>6, <1>7 DEF CreateInv
<1>9. Phases'
  BY <1>1, <1>8 DEF Phases, SweepInv, WriteInv, CommitInv, DropInv, UndoInv
<1>10. QED
  BY <1>2, <1>3, <1>9, ActiveIInv

LEMMA CreatePartIInv == ASSUME IInv, CreatePart PROVE IInv'
<1>1. /\ pc = "create" /\ pc' = "write" /\ pending' = Append(pending, out)
      /\ part' = [part EXCEPT ![out] = Partial] /\ final' = final /\ todo' = todo
      /\ plan' = plan /\ out' = out /\ renamed' = renamed /\ cursor' = cursor
      /\ build' = build /\ result' = result /\ dirty' = dirty
  BY DEF CreatePart
<1>2. /\ final = Nothing /\ part = WholeOn(Staged) /\ out \in Outputs(plan)
      /\ Staged = {n \in Outputs(plan) : Rank(n) < Rank(out)}
      /\ Distinct /\ renamed = 0 /\ cursor = 0 /\ ~dirty
  BY <1>1 DEF IInv, Phases, CreateInv
<1>3. /\ pending \in Seq(Names) /\ out \in Names /\ plan \in Plans /\ Outputs(plan) \subseteq Names
  BY OutputsAreNames DEF IInv, TypeOK
<1>4. /\ pending' \in Seq(Names) /\ Len(pending') = Len(pending) + 1
      /\ pending'[Len(pending')] = out /\ \A i \in 1 .. Len(pending) : pending'[i] = pending[i]
      /\ Staged' = Staged \cup {out}
  BY <1>1, <1>3, RegisterOne DEF Staged, Registered
<1>5. Started' /\ Active'
  BY <1>1 DEF IInv, Started, Active
<1>6. TypeOK'
  <2>1. Partial \in Files
    BY <1>1, FilesOf DEF IInv, Started
  <2>2. part' \in [Names -> Files \cup {NoFile}]
    BY <1>1, <2>1 DEF IInv, TypeOK
  <2>3. renamed' \in 0 .. Len(pending') /\ cursor' \in 0 .. Len(pending')
    BY <1>1, <1>2, <1>3, <1>4
  <2>4. QED
    BY <1>1, <1>4, <2>2, <2>3 DEF IInv, TypeOK, PcValues
<1>7. Staged' = {n \in Outputs(plan) : Rank(n) <= Rank(out)}
  <2>1. ASSUME NEW n \in Outputs(plan)
        PROVE  Rank(n) <= Rank(out) <=> (Rank(n) < Rank(out) \/ n = out)
    BY <1>3, RankInjective, RankBounds
  <2>2. QED
    BY <1>2, <1>4, <2>1
<1>8. Distinct'
  <2>1. out \notin Staged
    BY <1>2, <1>3, RankBounds
  <2>2. \A i \in 1 .. Len(pending) : pending[i] # out
    BY <2>1 DEF Staged, Registered
  <2>3. QED
    BY <1>2, <1>3, <1>4, <2>2 DEF Distinct
<1>9. part' = [WholeOn(Staged) EXCEPT ![out] = Partial]'
  BY <1>1, <1>2, <1>3, <1>4 DEF WholeOn, Complete, Partial
<1>10. WriteInv'
  <2>1. final' = Nothing /\ Len(pending') > 0 /\ ~dirty'
    BY <1>1, <1>2, <1>3, <1>4
  <2>2. QED
    BY <1>1, <1>2, <1>4, <1>7, <1>8, <1>9, <2>1 DEF WriteInv
<1>11. Phases'
  BY <1>1, <1>10 DEF Phases, SweepInv, CreateInv, CommitInv, DropInv, UndoInv
<1>12. QED
  BY <1>5, <1>6, <1>11, ActiveIInv

LEMMA CreateFailsIInv == ASSUME IInv, CreateFails PROVE IInv'
<1>1. /\ pc = "create" /\ pc' = "drop" /\ pending' = Append(pending, out)
      /\ part' = part /\ final' = final /\ todo' = todo
      /\ plan' = plan /\ out' = out /\ renamed' = renamed /\ cursor' = cursor
      /\ build' = build /\ result' = result /\ dirty' = dirty
  BY DEF CreateFails, disk
<1>2. final = Nothing /\ part = WholeOn(Staged) /\ renamed = 0 /\ cursor = 0
  BY <1>1 DEF IInv, Phases, CreateInv
<1>3. pending \in Seq(Names) /\ out \in Names
  BY DEF IInv, TypeOK
<1>4. /\ pending' \in Seq(Names) /\ Len(pending') = Len(pending) + 1
      /\ Staged' = Staged \cup {out}
  BY <1>1, <1>3, RegisterOne DEF Staged, Registered
<1>5. Started' /\ Active'
  BY <1>1 DEF IInv, Started, Active
<1>6. TypeOK'
  <2>1. renamed' \in 0 .. Len(pending') /\ cursor' \in 0 .. Len(pending')
    BY <1>1, <1>2, <1>3, <1>4
  <2>2. QED
    BY <1>1, <1>4, <2>1 DEF IInv, TypeOK, PcValues
<1>7. DropInv'
  <2>1. ASSUME NEW n \in Names, part[n] # NoFile
        PROVE  part[n].build = build /\ n \in Left(1 .. Len(pending))'
    <3>1. n \in Staged /\ part[n] = Complete
      BY <1>2, <2>1 DEF WholeOn
    <3>2. PICK i \in 1 .. Len(pending') : pending'[i] = n
      BY <1>4, <3>1 DEF Staged, Registered
    <3>3. i > cursor'
      BY <1>1, <1>2, <3>2
    <3>4. QED
      BY <3>1, <3>2, <3>3 DEF Left, Complete
  <2>2. QED
    BY <1>1, <1>2, <2>1 DEF DropInv, Nothing
<1>8. Phases'
  BY <1>1, <1>7 DEF Phases, SweepInv, CreateInv, WriteInv, CommitInv, UndoInv
<1>9. QED
  BY <1>5, <1>6, <1>8, ActiveIInv

LEMMA FinishPartIInv == ASSUME IInv, FinishPart PROVE IInv'
<1>1. /\ pc = "write" /\ part' = [part EXCEPT ![out] = Complete]
      /\ final' = final /\ todo' = todo /\ plan' = plan /\ pending' = pending
      /\ renamed' = renamed /\ cursor' = cursor /\ build' = build /\ result' = result
      /\ dirty' = dirty
  BY DEF FinishPart
<1>2. /\ final = Nothing /\ part = [WholeOn(Staged) EXCEPT ![out] = Partial]
      /\ out \in Outputs(plan) /\ Staged = {n \in Outputs(plan) : Rank(n) <= Rank(out)}
      /\ Len(pending) > 0 /\ pending[Len(pending)] = out
      /\ Distinct /\ renamed = 0 /\ cursor = 0 /\ ~dirty
  BY <1>1 DEF IInv, Phases, WriteInv
<1>3. /\ pending \in Seq(Names) /\ out \in Names /\ plan \in Plans /\ Outputs(plan) \subseteq Names
      /\ Len(pending) \in Nat
  BY OutputsAreNames DEF IInv, TypeOK
<1>4. Staged' = Staged /\ Distinct' /\ out \in Staged
  <2>1. out \in Staged
    BY <1>2, <1>3, RankBounds
  <2>2. QED
    BY <1>1, <1>2, <2>1 DEF Staged, Registered, Distinct
<1>5. part' = WholeOn(Staged)'
  BY <1>1, <1>2, <1>3, <1>4 DEF WholeOn, Complete
<1>6. Started' /\ Active'
  BY <1>1 DEF FinishPart, IInv, Started, Active
<1>7. part' \in [Names -> Files \cup {NoFile}]
  <2>1. Complete \in Files
    BY <1>1, FilesOf DEF IInv, Started
  <2>2. QED
    BY <1>1, <2>1 DEF IInv, TypeOK
<1>8. CASE out = Tmd
  <2>1. pc' = "commit" /\ out' = out
    BY <1>8 DEF FinishPart
  <2>2. TypeOK'
    BY <1>1, <1>7, <2>1 DEF IInv, TypeOK, PcValues
  <2>3. Staged = Outputs(plan)
    BY <1>2, <1>3, <1>8, RankBounds
  <2>4. Registered(1, renamed)' = {}
    BY <1>1, <1>2 DEF Registered
  <2>5. final' = WholeOn(Registered(1, renamed))'
    BY <1>1, <1>2, <2>4 DEF WholeOn, Nothing
  <2>6. part' = WholeOn(Registered(renamed + 1, Len(pending)))'
    BY <1>1, <1>2, <1>4, <1>5 DEF Staged
  <2>7. CommitInv'
    BY <1>1, <1>2, <1>4, <1>8, <2>3, <2>5, <2>6 DEF CommitInv
  <2>8. Phases'
    BY <2>1, <2>7 DEF Phases, SweepInv, CreateInv, WriteInv, DropInv, UndoInv
  <2>9. QED
    BY <1>6, <2>2, <2>8, ActiveIInv
<1>9. CASE out # Tmd
  <2>1. pc' = "create" /\ out' = After(plan, out)
    BY <1>9 DEF FinishPart
  <2>2. /\ out' \in Outputs(plan)
        /\ \A m \in Outputs(plan) : Rank(m) < Rank(out') <=> Rank(m) <= Rank(out)
    BY <1>2, <1>3, <1>9, <2>1, AfterIsNext
  <2>3. TypeOK'
    BY <1>1, <1>3, <1>7, <2>1, <2>2 DEF IInv, TypeOK, PcValues
  <2>4. Staged' = {n \in Outputs(plan) : Rank(n) < Rank(out')}
    BY <1>2, <1>4, <2>2
  <2>5. CreateInv'
    BY <1>1, <1>2, <1>4, <1>5, <2>2, <2>4 DEF CreateInv, Nothing
  <2>6. Phases'
    BY <2>1, <2>5 DEF Phases, SweepInv, WriteInv, CommitInv, DropInv, UndoInv
  <2>7. QED
    BY <1>6, <2>3, <2>6, ActiveIInv
<1>10. QED
  BY <1>8, <1>9

LEMMA WriteFailsIInv == ASSUME IInv, WriteFails PROVE IInv'
<1>1. /\ pc = "write" /\ pc' = "drop" /\ pending' = pending
      /\ part' = part /\ final' = final /\ todo' = todo
      /\ plan' = plan /\ out' = out /\ renamed' = renamed /\ cursor' = cursor
      /\ build' = build /\ result' = result /\ dirty' = dirty
  BY DEF WriteFails, disk
<1>2. /\ final = Nothing /\ part = [WholeOn(Staged) EXCEPT ![out] = Partial] /\ cursor = 0
      /\ Len(pending) > 0 /\ pending[Len(pending)] = out
  BY <1>1 DEF IInv, Phases, WriteInv
<1>3. Started' /\ Active'
  BY <1>1 DEF IInv, Started, Active
<1>4. TypeOK'
  BY <1>1 DEF IInv, TypeOK, PcValues
<1>5. DropInv'
  <2>1. ASSUME NEW n \in Names, part[n] # NoFile
        PROVE  part[n].build = build /\ n \in Left(1 .. Len(pending))
    <3>1. Len(pending) \in 1 .. Len(pending)
      BY <1>2 DEF IInv, TypeOK
    <3>2. (n \in Staged \/ n = out) /\ part[n] \in {Complete, Partial}
      BY <1>2, <2>1 DEF WholeOn
    <3>3. PICK i \in 1 .. Len(pending) : pending[i] = n
      BY <1>2, <3>1, <3>2 DEF Staged, Registered
    <3>4. QED
      BY <1>2, <3>2, <3>3 DEF Left, Complete, Partial
  <2>2. QED
    BY <1>1, <1>2, <2>1 DEF DropInv, Nothing, Left
<1>6. Phases'
  BY <1>1, <1>5 DEF Phases, SweepInv, CreateInv, WriteInv, CommitInv, UndoInv
<1>7. QED
  BY <1>3, <1>4, <1>6, ActiveIInv

LEMMA DropStepIInv == ASSUME IInv, NEW rm \in BOOLEAN, DropStep(rm) PROVE IInv'
<1>1. /\ pc = "drop" /\ cursor < Len(pending) /\ cursor' = cursor + 1
      /\ part' = IF rm THEN [part EXCEPT ![pending[cursor']] = NoFile] ELSE part
      /\ dirty' = (dirty \/ ~rm)
      /\ final' = final /\ todo' = todo /\ pc' = pc /\ pending' = pending
      /\ plan' = plan /\ out' = out /\ renamed' = renamed
      /\ build' = build /\ result' = result
  BY DEF DropStep
<1>2. /\ final = Nothing
      /\ \A n \in Names :
           part[n] # NoFile => part[n].build = build /\ n \in Left(1 .. Len(pending))
  BY <1>1 DEF IInv, Phases, DropInv
<1>3. Started' /\ Active'
  BY <1>1 DEF IInv, Started, Active
<1>4. cursor \in Nat /\ Len(pending) \in Nat
  BY DEF IInv, TypeOK
<1>5. TypeOK'
  <2>1. cursor' \in 0 .. Len(pending')
    BY <1>1, <1>4
  <2>2. part' \in [Names -> Files \cup {NoFile}]
    BY <1>1 DEF IInv, TypeOK
  <2>3. dirty' \in BOOLEAN
    BY <1>1 DEF IInv, TypeOK
  <2>4. QED
    BY <1>1, <2>1, <2>2, <2>3 DEF IInv, TypeOK
<1>6. DropInv'
  <2>1. ASSUME NEW n \in Names, part'[n] # NoFile
        PROVE  part'[n].build = build /\ n \in Left(1 .. Len(pending))'
    <3>1. part'[n] = part[n] /\ (rm => n # pending[cursor + 1])
      BY <1>1, <2>1 DEF IInv, TypeOK
    <3>2. part[n].build = build /\ n \in Left(1 .. Len(pending))
      BY <1>2, <2>1, <3>1
    <3>3. PICK i \in 1 .. Len(pending) : pending[i] = n /\ (i > cursor \/ dirty)
      BY <3>2 DEF Left
    <3>4. i > cursor' \/ dirty'
      <4>1. dirty \/ ~rm => dirty'
        BY <1>1
      <4>2. i > cursor /\ i # cursor + 1 => i > cursor'
        BY <1>1, <1>4
      <4>3. rm => i # cursor + 1
        BY <3>1, <3>3
      <4>4. QED
        BY <3>3, <4>1, <4>2, <4>3, Zenon
    <3>5. QED
      BY <1>1, <3>1, <3>2, <3>3, <3>4 DEF Left
  <2>2. QED
    BY <1>1, <1>2, <2>1 DEF DropInv, Nothing
<1>7. Phases'
  BY <1>1, <1>6 DEF Phases, SweepInv, CreateInv, WriteInv, CommitInv, UndoInv
<1>8. QED
  BY <1>3, <1>5, <1>7, ActiveIInv

LEMMA RenameIInv == ASSUME IInv, Rename PROVE IInv'
<1> DEFINE k == renamed + 1
           n == pending[k]
<1>1. /\ pc = "commit" /\ renamed < Len(pending) /\ renamed' = k
      /\ final' = [final EXCEPT ![n] = part[n]] /\ part' = [part EXCEPT ![n] = NoFile]
      /\ todo' = todo /\ pc' = pc /\ pending' = pending
      /\ plan' = plan /\ out' = out /\ cursor' = cursor
      /\ build' = build /\ result' = result /\ dirty' = dirty
  BY DEF Rename
<1>2. /\ final = WholeOn(Registered(1, renamed))
      /\ part = WholeOn(Registered(k, Len(pending)))
      /\ Staged = Outputs(plan) /\ Len(pending) > 0 /\ pending[Len(pending)] = Tmd
      /\ Distinct /\ cursor = 0 /\ ~dirty
  BY <1>1 DEF IInv, Phases, CommitInv
<1>3. /\ pending \in Seq(Names) /\ renamed \in Nat /\ Len(pending) \in Nat
      /\ k \in 1 .. Len(pending) /\ n \in Names
  BY <1>1 DEF IInv, TypeOK
<1>4. Started' /\ Active'
  BY <1>1 DEF IInv, Started, Active
<1>5. TypeOK'
  <2>1. part[n] \in Files \cup {NoFile}
    BY <1>3 DEF IInv, TypeOK
  <2>2. /\ final' \in [Names -> Files \cup {NoFile}] /\ part' \in [Names -> Files \cup {NoFile}]
        /\ renamed' \in 0 .. Len(pending')
    BY <1>1, <1>3, <2>1 DEF IInv, TypeOK
  <2>3. QED
    BY <1>1, <2>2 DEF IInv, TypeOK
<1>6. n \in Registered(k, Len(pending)) /\ part[n] = Complete
  BY <1>2, <1>3 DEF Registered, WholeOn
<1>7. Registered(1, k) = Registered(1, renamed) \cup {n}
  <2>1. 1 .. k = (1 .. renamed) \cup {k}
    BY <1>3
  <2>2. QED
    BY <2>1 DEF Registered
<1>8. Registered(k + 1, Len(pending)) = Registered(k, Len(pending)) \ {n}
  <2>1. k .. Len(pending) = ((k + 1) .. Len(pending)) \cup {k}
    BY <1>3
  <2>2. \A i \in (k + 1) .. Len(pending) : pending[i] # n
    BY <1>2, <1>3 DEF Distinct
  <2>3. QED
    BY <2>1, <2>2 DEF Registered
<1> HIDE DEF k, n
<1>9. final' = WholeOn(Registered(1, k))
  BY <1>1, <1>2, <1>3, <1>6, <1>7 DEF WholeOn
<1>10. part' = WholeOn(Registered(k + 1, Len(pending)))
  BY <1>1, <1>2, <1>3, <1>8 DEF WholeOn
<1>11. CommitInv'
  <2>1. /\ Registered(1, renamed)' = Registered(1, k)
        /\ Registered(renamed + 1, Len(pending))' = Registered(k + 1, Len(pending))
        /\ Staged' = Staged
    BY <1>1 DEF Registered, Staged
  <2>2. final' = WholeOn(Registered(1, renamed))'
    BY <1>1, <1>9, <2>1 DEF WholeOn, Complete
  <2>3. part' = WholeOn(Registered(renamed + 1, Len(pending)))'
    BY <1>1, <1>10, <2>1 DEF WholeOn, Complete
  <2>4. Distinct'
    BY <1>1, <1>2 DEF Distinct
  <2>5. QED
    BY <1>1, <1>2, <2>1, <2>2, <2>3, <2>4 DEF CommitInv
<1>12. Phases'
  BY <1>1, <1>11 DEF Phases, SweepInv, CreateInv, WriteInv, DropInv, UndoInv
<1>13. QED
  BY <1>4, <1>5, <1>12, ActiveIInv

LEMMA RenameFailsIInv == ASSUME IInv, RenameFails PROVE IInv'
<1>1. /\ pc = "commit" /\ renamed < Len(pending) /\ pc' = "undo" /\ pending' = pending
      /\ part' = part /\ final' = final /\ todo' = todo
      /\ plan' = plan /\ out' = out /\ renamed' = renamed /\ cursor' = cursor
      /\ build' = build /\ result' = result /\ dirty' = dirty
  BY DEF RenameFails, disk
<1>2. /\ final = WholeOn(Registered(1, renamed))
      /\ part = WholeOn(Registered(renamed + 1, Len(pending)))
      /\ pending[Len(pending)] = Tmd /\ Distinct /\ cursor = 0
  BY <1>1 DEF IInv, Phases, CommitInv
<1>3. renamed \in Nat /\ Len(pending) \in Nat /\ Tmd \in Names
  BY DEF IInv, TypeOK, Names, Tmd
<1>4. Started' /\ Active'
  BY <1>1 DEF IInv, Started, Active
<1>5. TypeOK'
  BY <1>1 DEF IInv, TypeOK, PcValues
<1>6. final[Tmd] = NoFile
  <2>1. Tmd \notin Registered(1, renamed)
    BY <1>1, <1>2, <1>3 DEF Registered, Distinct
  <2>2. QED
    BY <1>2, <1>3, <2>1 DEF WholeOn
<1>7. \A i \in 1 .. renamed : i > cursor
  BY <1>2, <1>3
<1>8. \A i \in (renamed + 1) .. Len(pending) : i > cursor
  BY <1>2, <1>3
<1>9. ASSUME NEW n \in Names
      PROVE  /\ final[n] # NoFile => final[n].build = build /\ n \in Left(1 .. renamed)
             /\ part[n] # NoFile =>
                  part[n].build = build /\ n \in Left((renamed + 1) .. Len(pending))
  BY <1>2, <1>7, <1>8 DEF WholeOn, Complete, Left, Registered
<1>10. UndoInv'
  BY <1>1, <1>6, <1>9 DEF UndoInv, Left
<1>11. Phases'
  BY <1>1, <1>10 DEF Phases, SweepInv, CreateInv, WriteInv, CommitInv, DropInv
<1>12. QED
  BY <1>4, <1>5, <1>11, ActiveIInv

\* What the cleanup has not reached, or failed to remove, after one more step of it.
LEMMA LeftAfterStep ==
  ASSUME IInv, cursor' = cursor + 1, pending' = pending, NEW rm \in BOOLEAN,
         dirty' = (dirty \/ ~rm), NEW S \in SUBSET (1 .. Len(pending)),
         NEW n \in Left(S), rm /\ cursor + 1 \in S => n # pending[cursor + 1]
  PROVE  n \in Left(S)'
<1>1. PICK i \in S : pending[i] = n /\ (i > cursor \/ dirty)
  BY DEF Left
<1>2. cursor \in Nat /\ i \in Nat
  BY <1>1 DEF IInv, TypeOK
<1>3. i > cursor' \/ dirty'
  <2>1. dirty \/ ~rm => dirty'
    OBVIOUS
  <2>2. i > cursor /\ i # cursor + 1 => i > cursor'
    BY <1>2
  <2>3. rm => i # cursor + 1
    BY <1>1
  <2>4. QED
    BY <1>1, <2>1, <2>2, <2>3, Zenon
<1>4. QED
  BY <1>1, <1>3 DEF Left

LEMMA UndoStepIInv == ASSUME IInv, NEW rm \in BOOLEAN, UndoStep(rm) PROVE IInv'
<1>1. /\ pc = "undo" /\ cursor < Len(pending) /\ cursor' = cursor + 1
      /\ dirty' = (dirty \/ ~rm)
      /\ todo' = todo /\ pc' = pc /\ pending' = pending
      /\ plan' = plan /\ out' = out /\ renamed' = renamed
      /\ build' = build /\ result' = result
  BY DEF UndoStep
<1>2. /\ renamed < Len(pending) /\ final[Tmd] = NoFile
      /\ \A n \in Names :
           /\ final[n] # NoFile => final[n].build = build /\ n \in Left(1 .. renamed)
           /\ part[n] # NoFile =>
                part[n].build = build /\ n \in Left((renamed + 1) .. Len(pending))
  BY <1>1 DEF IInv, Phases, UndoInv
<1>3. cursor \in Nat /\ Len(pending) \in Nat /\ renamed \in Nat /\ Tmd \in Names
  BY DEF IInv, TypeOK, Names, Tmd
<1>4. Started' /\ Active'
  BY <1>1 DEF IInv, Started, Active
<1>5. /\ final' \in [Names -> Files \cup {NoFile}] /\ part' \in [Names -> Files \cup {NoFile}]
      /\ \A n \in Names : final'[n] # NoFile =>
           final'[n] = final[n] /\ (rm /\ cursor < renamed => n # pending[cursor + 1])
      /\ \A n \in Names : part'[n] # NoFile =>
           part'[n] = part[n] /\ (rm /\ ~(cursor < renamed) => n # pending[cursor + 1])
  BY <1>1 DEF UndoStep, RemoveEntry, disk, IInv, TypeOK
<1>6. TypeOK'
  <2>1. cursor' \in 0 .. Len(pending')
    BY <1>1, <1>3
  <2>2. dirty' \in BOOLEAN
    BY <1>1 DEF IInv, TypeOK
  <2>3. QED
    BY <1>1, <1>5, <2>1, <2>2 DEF IInv, TypeOK
<1>7. ASSUME NEW n \in Names, final'[n] # NoFile
      PROVE  final'[n].build = build /\ n \in Left(1 .. renamed)'
  <2>1. final'[n].build = build /\ n \in Left(1 .. renamed)
    BY <1>2, <1>5, <1>7
  <2>2. 1 .. renamed \in SUBSET (1 .. Len(pending))
    BY <1>2, <1>3
  <2>3. cursor + 1 \in 1 .. renamed => cursor < renamed
    BY <1>3
  <2>4. rm /\ cursor + 1 \in 1 .. renamed => n # pending[cursor + 1]
    BY <1>5, <1>7, <2>3
  <2>5. n \in {pending[i] : i \in {j \in 1 .. renamed : j > cursor \/ dirty}}'
    BY <1>1, <2>1, <2>2, <2>4, LeftAfterStep DEF Left
  <2>6. QED
    BY <1>1, <2>1, <2>5 DEF Left
<1>8. ASSUME NEW n \in Names, part'[n] # NoFile
      PROVE  part'[n].build = build /\ n \in Left((renamed + 1) .. Len(pending))'
  <2>1. part'[n].build = build /\ n \in Left((renamed + 1) .. Len(pending))
    BY <1>2, <1>5, <1>8
  <2>2. (renamed + 1) .. Len(pending) \in SUBSET (1 .. Len(pending))
    BY <1>2, <1>3
  <2>3. cursor + 1 \in (renamed + 1) .. Len(pending) => ~(cursor < renamed)
    BY <1>3
  <2>4. rm /\ cursor + 1 \in (renamed + 1) .. Len(pending) => n # pending[cursor + 1]
    BY <1>5, <1>8, <2>3
  <2>5. n \in {pending[i] : i \in {j \in (renamed + 1) .. Len(pending) : j > cursor \/ dirty}}'
    BY <1>1, <2>1, <2>2, <2>4, LeftAfterStep DEF Left
  <2>6. QED
    BY <1>1, <2>1, <2>5 DEF Left
<1>9. final'[Tmd] = NoFile
  BY <1>2, <1>3, <1>5
<1>10. UndoInv'
  BY <1>1, <1>2, <1>7, <1>8, <1>9 DEF UndoInv
<1>11. Phases'
  BY <1>1, <1>10 DEF Phases, SweepInv, CreateInv, WriteInv, CommitInv, DropInv
<1>12. QED
  BY <1>4, <1>6, <1>11, ActiveIInv

LEMMA NextIInv == IInv /\ [Next]_vars => IInv'
<1> SUFFICES ASSUME IInv, [Next]_vars PROVE IInv'
  OBVIOUS
<1>1. CASE Start
  BY <1>1, StartIInv
<1>2. CASE Sweep
  BY <1>2, SweepFailsIInv, PlanFailsIInv, SweepRemoveIInv, PlanContentsIInv DEF Sweep
<1>3. CASE Stage
  BY <1>3, CreatePartIInv, CreateFailsIInv, FinishPartIInv, WriteFailsIInv DEF Stage
<1>4. CASE Discard
  BY <1>4, DropDoneIInv, DropStepIInv DEF Discard
<1>5. CASE Commit
  BY <1>5, RenameIInv, RenameFailsIInv, CommitDoneIInv DEF Commit
<1>6. CASE Undo
  BY <1>6, UndoDoneIInv, UndoStepIInv DEF Undo
<1>7. CASE Kill
  BY <1>7, KillIInv
<1>8. CASE UNCHANGED vars
  <2>1. UNCHANGED <<final, part, pc, todo, plan, out>> /\
        UNCHANGED <<pending, renamed, cursor, build, result, dirty>>
    BY <1>8 DEF vars
  <2>2. TypeOK' /\ Stamped' /\ Started'
    BY <2>1 DEF IInv, TypeOK, Stamped, Started
  <2>3. SweepInv' /\ DropInv' /\ UndoInv'
    BY <2>1 DEF IInv, Phases, SweepInv, DropInv, UndoInv, Nothing, Left
  <2>4. CreateInv' /\ WriteInv' /\ CommitInv'
    BY <2>1 DEF IInv, Phases, CreateInv, WriteInv, CommitInv, Nothing, WholeOn, Staged,
                Registered, Distinct, Complete, Partial
  <2>5. Claims'
    BY <2>1 DEF IInv, Claims, TmdSealsPackage, NeverMixed, SuccessIsExact,
                FailureLeavesNothing, HoldsPackage
  <2>6. QED
    BY <2>2, <2>3, <2>4, <2>5 DEF IInv, Phases
<1>9. QED
  BY <1>1, <1>2, <1>3, <1>4, <1>5, <1>6, <1>7, <1>8 DEF Next, Program

LEMMA Inductive == Spec => []IInv
  BY InitIInv, NextIInv, PTL DEF Spec

-----------------------------------------------------------------------------
(***************************************************************************)
(* The theorems.                                                           *)
(***************************************************************************)
\* Every state of every run of build_package is of the declared type.
THEOREM TypeCorrect == Spec => []TypeOK
<1>1. IInv => TypeOK
  BY DEF IInv
<1>2. QED
  BY Inductive, <1>1, PTL

\* A title.tmd of the latest build always has that build's whole package, and nothing else,
\* beside it: whatever fails and whenever the process is killed (StagedOutputs).
THEOREM Sealed == Spec => []TmdSealsPackage
<1>1. IInv => TmdSealsPackage
  BY DEF IInv, Claims
<1>2. QED
  BY Inductive, <1>1, PTL

\* Files of two builds never lie side by side in the output directory (clean_stale_outputs).
THEOREM Unmixed == Spec => []NeverMixed
<1>1. IInv => NeverMixed
  BY DEF IInv, Claims
<1>2. QED
  BY Inductive, <1>1, PTL

\* build_package returns Ok only with exactly its package in the directory.
THEOREM Exact == Spec => []SuccessIsExact
<1>1. IInv => SuccessIsExact
  BY DEF IInv, Claims
<1>2. QED
  BY Inductive, <1>1, PTL

\* build_package that returns an error leaves no output behind unless a removal failed too.
THEOREM CleanFailure == Spec => []FailureLeavesNothing
<1>1. IInv => FailureLeavesNothing
  BY DEF IInv, Claims
<1>2. QED
  BY Inductive, <1>1, PTL

\* A rename of commit finds its destination free, and every output of the build whole under one
\* of its two names (StagedOutputs, commit).
LEMMA RenameFindsAllWhole ==
  ASSUME IInv, Rename
  PROVE  \A n \in Names :
           final'[n] \notin {final[n], NoFile} =>
             /\ final[n] = NoFile /\ final'[n] = Complete
             /\ \A m \in Outputs(plan) : Complete \in {final[m], part[m]}
<1> DEFINE k == renamed + 1
           d == pending[k]
<1>1. /\ pc = "commit" /\ renamed < Len(pending)
      /\ final' = [final EXCEPT ![d] = part[d]]
  BY DEF Rename
<1>2. /\ final = WholeOn(Registered(1, renamed))
      /\ part = WholeOn(Registered(k, Len(pending)))
      /\ Staged = Outputs(plan) /\ Distinct
  BY <1>1 DEF IInv, Phases, CommitInv
<1>3. /\ renamed \in Nat /\ Len(pending) \in Nat /\ k \in 1 .. Len(pending) /\ d \in Names
      /\ final \in [Names -> Files \cup {NoFile}]
      /\ Outputs(plan) \subseteq Names
  BY <1>1, OutputsAreNames DEF IInv, TypeOK
<1>4. d \in Registered(k, Len(pending)) /\ d \notin Registered(1, renamed)
  BY <1>1, <1>2, <1>3 DEF Registered, Distinct
<1>5. final[d] = NoFile /\ part[d] = Complete
  BY <1>2, <1>3, <1>4 DEF WholeOn
<1>6. \A n \in Names : n # d => final'[n] = final[n]
  BY <1>1, <1>3
<1>7. final'[d] = Complete
  BY <1>1, <1>3, <1>5
<1>8. ASSUME NEW m \in Outputs(plan) PROVE Complete \in {final[m], part[m]}
  <2>1. m \in Registered(1, renamed) \/ m \in Registered(k, Len(pending))
    BY <1>2, <1>3 DEF Staged, Registered
  <2>2. QED
    BY <1>2, <1>3, <2>1 DEF WholeOn
<1> HIDE DEF k, d
<1>9. QED
  BY <1>5, <1>6, <1>7, <1>8

\* No final name appears before the whole package is on disk, nor over a file that stands there:
\* for any plan, after any number of failed and killed builds (StagedOutputs).
THEOREM OnlyWhole == Spec => PublishesOnlyWhole
<1> DEFINE Whole(n) == final'[n] \notin {final[n], NoFile} =>
                         /\ final[n] = NoFile /\ final'[n] = Complete
                         /\ \A m \in Outputs(plan) : Complete \in {final[m], part[m]}
<1>1. IInv /\ [Next]_vars => [\A n \in Names : Whole(n)]_vars
  <2> SUFFICES ASSUME IInv, [Next]_vars, NEW n \in Names
               PROVE  Whole(n)
    OBVIOUS
  <2>0. TypeOK
    BY DEF IInv
  <2>1. CASE \E e \in Entries : SweepRemove(e)
    BY <2>0, <2>1 DEF SweepRemove, RemoveEntry, TypeOK
  <2>2. CASE \E rm \in BOOLEAN : UndoStep(rm)
    BY <2>0, <2>2 DEF UndoStep, RemoveEntry, TypeOK, disk
  <2>3. CASE Rename
    BY <2>3, RenameFindsAllWhole
  <2>4. CASE final' = final
    BY <2>4
  <2>5. QED
    <3>1. CASE Start \/ Kill \/ UNCHANGED vars
      BY <2>4, <3>1 DEF Start, Kill, vars, disk
    <3>2. CASE SweepFails \/ PlanFails \/ \E p \in Plans : PlanContents(p)
      BY <2>4, <3>2 DEF SweepFails, PlanFails, PlanContents, disk
    <3>3. CASE Stage
      BY <2>4, <3>3 DEF Stage, CreatePart, CreateFails, FinishPart, WriteFails, disk
    <3>4. CASE Discard
      BY <2>4, <3>4 DEF Discard, DropDone, DropStep, disk
    <3>5. CASE RenameFails \/ CommitDone \/ UndoDone
      BY <2>4, <3>5 DEF RenameFails, CommitDone, UndoDone, disk
    <3>6. QED
      BY <2>1, <2>2, <2>3, <3>1, <3>2, <3>3, <3>4, <3>5 DEF Next, Program, Sweep, Commit, Undo
<1>2. QED
  BY Inductive, <1>1, PTL DEF Spec, PublishesOnlyWhole

-----------------------------------------------------------------------------
(***************************************************************************)
(* build_package implements atomic publication.                            *)
(***************************************************************************)
LEMMA RemovalsWithdraw ==
  ASSUME TypeOK, TypeOK',
         \A n \in Names : final'[n] # NoFile => final'[n] = final[n]
  PROVE  InstallerView' \subseteq InstallerView
<1>1. Tmd \in Names
  BY DEF Names, Tmd
<1>2. CASE final'[Tmd] = NoFile
  BY <1>2 DEF InstallerView
<1>3. CASE final'[Tmd] # NoFile
  <2>1. final[Tmd] # NoFile
    BY <1>1, <1>3
  <2>2. ASSUME NEW n \in Names, final'[n] # NoFile
        PROVE  final[n] # NoFile /\ <<n, final'[n]>> = <<n, final[n]>>
    BY <2>2
  <2>3. QED
    BY <1>3, <2>1, <2>2 DEF InstallerView
<1>4. QED
  BY <1>2, <1>3

LEMMA RenamePublishes ==
  ASSUME IInv, IInv', Rename
  PROVE  [Publication!Next]_InstallerView
<1> DEFINE n == pending[renamed + 1]
<1>1. /\ pc = "commit" /\ renamed < Len(pending)
      /\ final' = [final EXCEPT ![n] = part[n]] /\ plan' = plan /\ build' = build
  BY DEF Rename
<1>2. /\ final = WholeOn(Registered(1, renamed)) /\ pending[Len(pending)] = Tmd /\ Distinct
  BY <1>1 DEF IInv, Phases, CommitInv
<1>3. /\ renamed \in Nat /\ Len(pending) \in Nat /\ n \in Names /\ Tmd \in Names
      /\ plan \in Plans /\ build \in Nat /\ build > 0 /\ build \in 1 .. MaxBuilds
      /\ final \in [Names -> Files \cup {NoFile}]
  BY <1>1, BoundsAssumption DEF IInv, TypeOK, Names, Tmd, Started
<1>4. final[Tmd] = NoFile
  <2>1. Tmd \notin Registered(1, renamed)
    BY <1>1, <1>2, <1>3 DEF Registered, Distinct
  <2>2. QED
    BY <1>2, <1>3, <2>1 DEF WholeOn
<1>5. InstallerView = {}
  BY <1>4 DEF InstallerView
<1>6. CASE final'[Tmd] = NoFile
  BY <1>5, <1>6 DEF InstallerView
<1>7. CASE final'[Tmd] # NoFile
  <2>1. Complete' = Complete
    BY <1>1 DEF Complete
  <2>2. Complete # NoFile /\ Complete = [build |-> build, whole |-> TRUE]
    BY <1>3, FilesOf DEF IInv, Complete
  <2>3. final'[Tmd].build = build'
    <3>1. pc' = "commit"
      BY <1>1 DEF Rename
    <3>2. (final = WholeOn(Registered(1, renamed)))'
      BY <3>1 DEF IInv, Phases, CommitInv
    <3>3. final'[Tmd] = Complete'
      BY <1>3, <1>7, <3>2 DEF WholeOn
    <3>4. QED
      BY <1>1, <2>1, <2>2, <3>3 DEF Complete
  <2>4. HoldsPackage(plan, build)'
    BY <1>7, <2>3 DEF IInv, Claims, TmdSealsPackage
  <2>5. \A m \in Names : final'[m] = IF m \in Outputs(plan) THEN Complete ELSE NoFile
    BY <1>1, <2>2, <2>4 DEF HoldsPackage, Outputs
  <2>6. {m \in Names : final'[m] # NoFile} = Outputs(plan)
    BY <1>3, <2>2, <2>5, OutputsAreNames
  <2>7. InstallerView' = Outputs(plan) \X {[build |-> build, whole |-> TRUE]}
    <3>1. InstallerView' = {<<m, final'[m]>> : m \in {k \in Names : final'[k] # NoFile}}
      BY <1>7 DEF InstallerView
    <3>2. InstallerView' = {<<m, final'[m]>> : m \in Outputs(plan)}
      BY <2>6, <3>1
    <3>3. \A m \in Outputs(plan) : final'[m] = Complete
      BY <1>3, <2>5, OutputsAreNames
    <3>4. InstallerView' = Outputs(plan) \X {Complete}
      BY <3>2, <3>3
    <3>5. QED
      BY <2>2, <3>4
  <2>8. Publication!Publish(Outputs(plan), build)
    BY <1>5, <2>7 DEF Publication!Publish
  <2>9. QED
    BY <1>3, <2>8 DEF Publication!Next
<1>8. QED
  BY <1>6, <1>7

\* An installer sees a package appear in one step, complete and by one build, and after that
\* only files of it disappear (StagedOutputs, commit).
THEOREM Atomic == Spec => PublishesAtomically
<1>1. Init => Publication!Init
  <2> SUFFICES ASSUME Init PROVE InstallerView = {}
    BY DEF Publication!Init
  <2>1. Tmd \in Names
    BY DEF Names, Tmd
  <2>2. final[Tmd] = NoFile
    BY <2>1 DEF Init
  <2>3. QED
    BY <2>2 DEF InstallerView
<1>2. IInv /\ IInv' /\ [Next]_vars => [Publication!Next]_InstallerView
  <2> SUFFICES ASSUME IInv, IInv', [Next]_vars
               PROVE  [Publication!Next]_InstallerView
    OBVIOUS
  <2>0. TypeOK /\ TypeOK'
    BY DEF IInv
  <2>1. CASE \E e \in Entries : SweepRemove(e)
    <3>1. \A n \in Names : final'[n] # NoFile => final'[n] = final[n]
      BY <2>0, <2>1 DEF SweepRemove, RemoveEntry, TypeOK
    <3>2. QED
      BY <2>0, <3>1, RemovalsWithdraw DEF Publication!Next, Publication!Withdraw
  <2>2. CASE \E rm \in BOOLEAN : UndoStep(rm)
    <3>1. \A n \in Names : final'[n] # NoFile => final'[n] = final[n]
      BY <2>0, <2>2 DEF UndoStep, RemoveEntry, TypeOK, disk
    <3>2. QED
      BY <2>0, <3>1, RemovalsWithdraw DEF Publication!Next, Publication!Withdraw
  <2>3. CASE Rename
    BY <2>3, RenamePublishes
  <2>4. CASE final' = final
    BY <2>4 DEF InstallerView
  <2>5. QED
    <3>1. CASE Start \/ Kill \/ UNCHANGED vars
      BY <2>4, <3>1 DEF Start, Kill, vars, disk
    <3>2. CASE SweepFails \/ PlanFails \/ \E p \in Plans : PlanContents(p)
      BY <2>4, <3>2 DEF SweepFails, PlanFails, PlanContents, disk
    <3>3. CASE Stage
      BY <2>4, <3>3 DEF Stage, CreatePart, CreateFails, FinishPart, WriteFails, disk
    <3>4. CASE Discard
      BY <2>4, <3>4 DEF Discard, DropDone, DropStep, disk
    <3>5. CASE RenameFails \/ CommitDone \/ UndoDone
      BY <2>4, <3>5 DEF RenameFails, CommitDone, UndoDone, disk
    <3>6. QED
      BY <2>1, <2>2, <2>3, <3>1, <3>2, <3>3, <3>4, <3>5 DEF Next, Program, Sweep, Commit, Undo
<1>3. QED
  BY Inductive, <1>1, <1>2, PTL DEF Spec, PublishesAtomically, Publication!Spec

=============================================================================
