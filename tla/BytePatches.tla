----------------------------- MODULE BytePatches -----------------------------
(***************************************************************************)
(* The search-and-replace patches of the firmware image and of the game's  *)
(* executable: crates/core/src/fwimg.rs (patch_file, apply_patches,        *)
(* unmatched_groups) and video.rs (find_dol_edits), with the splice that   *)
(* nfs/mod.rs makes of the edits.                                          *)
(*                                                                         *)
(* fw.img is searched and written in one pass over one buffer, so a patch  *)
(* sees what the patches before it wrote; the edits of main.dol are all    *)
(* found before any is written.  Offsets count from 0, as in the code.     *)
(***************************************************************************)
EXTENDS Integers, Sequences, FiniteSets

CONSTANTS DeflickerPattern, \* video.rs DEFLICKER_PATTERN, its 356 bytes or their ends
          DitheringPattern, \* video.rs DITHERING_PATTERN, its 40 bytes or their ends
          Overrun,          \* a patch that writes outside its match, which fwimg.rs expects
          Jobs              \* what is patched, and with what

\* A patch is known by its signature where the code gives it a name.
Patch(group, find, at, write, all) ==
    [name |-> find, group |-> group, find |-> find, at |-> at, write |-> write, all |-> all,
     from |-> 0]

FAKESIGN_A == Patch("fakesign", <<\h20, \h07, \h23, \hA2>>, 1, <<0>>, TRUE)
FAKESIGN_B == Patch("fakesign", <<\h20, \h07, \h4B, \h0B>>, 1, <<0>>, TRUE)
AHBPROT == Patch("AHBPROT",
    <<\hD0, \h0B, \h23, \h08, \h43, \h13, \h60, \h0B>>, 0, <<\h46, \hC0>>, FALSE)
MEMPROT == Patch("MEMPROT",
    <<\h01, \h94, \hB5, \h00, \h4B, \h08, \h22, \h01>>, 6, <<\h22, \h00>>, FALSE)
PASSTHROUGH_1 == Patch("wiimote-passthrough-1",
    <<\h13, \h8B, \hB0, \h20, \h4B, \h01, \h68, \h18, \h47, \h70, \h00, \h00, \h13, \h8B>>,
    6, <<\h20, \h00>>, FALSE)
PASSTHROUGH_2 == Patch("wiimote-passthrough-2",
    <<\h13, \h8B, \hB0, \h68, \hB5, \h00, \h28, \h00, \hD0, \h03, \h49, \h02, \h22, \h09, \hF0,
      \h04, \hFF, \h1D, \hBD, \h00, \h13, \h8B, \hA0, \h04>>,
    6, <<\hF0, \h04, \hFF, \h21, \h48, \h02, \h21, \h09, \hF0, \h04, \hFE, \hF9>>, FALSE)
PASSTHROUGH_3 == Patch("wiimote-passthrough-3",
    <<\h1C, \h28, \h46, \h69, \h22, \h09, \hF0, \h01, \hFA, \hB9, \h20, \h00, \hE7, \hBE, \h78,
      \h63>>,
    6, <<\hF7, \hFC, \hFB, \h95>>, FALSE)
NINTENDONT_1 == Patch("nintendont-1",
    <<\hFB, \hF8, \hFF, \hFF, \hFB, \hF6, \hB5, \hF0, \h46, \h5F, \h46, \h56, \h46, \h4D, \h46,
      \h44, \hB4, \hF0, \hB0, \hBA, \h1C, \h0F, \h1C, \h15, \h93, \h18, \h24, \h00>>,
    6, <<\hE5, \h9F, \h10, \h04, \hE5, \h91, \h00, \h00, \hE1, \h2F, \hFF, \h10, \h12, \hFF, \hFF,
         \hE0>>, FALSE)
NINTENDONT_2 == Patch("nintendont-2",
    <<\hF8, \hF2, \hF0, \h00, \hFF, \h4E, \h68, \h4B, \h2B, \h06, \hD1, \h0C, \h68, \h8B, \h2B,
      \h00, \hD1, \h09, \h68, \hC8, \h68, \h42, \h23, \hA9, \h00, \h9B, \h42, \h9A, \hD1, \h03,
      \h69, \h02>>,
    6, <<\h49, \h01, \h47, \h88, \h46, \hC0, \hE0, \h01, \h12, \hFF, \hFE, \h00, \h22, \h00, \h23,
         \h01, \h46, \hC0, \h46, \hC0>>, FALSE)
NINTENDONT_3 == Patch("nintendont-3",
    <<\h00, \h00, \h0F, \h00, \h00, \h00, \h02, \h00, \h00, \h00, \h00, \hFF, \hFF>>,
    6, <<\h03>>, FALSE)

FAKESIGN_PATCHES == <<FAKESIGN_A, FAKESIGN_B>>
HOMEBREW_PATCHES ==
    FAKESIGN_PATCHES \o <<AHBPROT, MEMPROT, PASSTHROUGH_1, PASSTHROUGH_2, PASSTHROUGH_3,
                          NINTENDONT_1, NINTENDONT_2, NINTENDONT_3>>
OverrunPatches == <<Overrun>>

\* The edits of main.dol, in the order they are looked for.  The branch that skips the
\* dithering set-up is written before the routine, which is looked for from offset 8 on.
Deflicker == Patch("deflicker", DeflickerPattern, Len(DeflickerPattern) - 4,
                   <<\h48, \h00, \h00, \h40>>, FALSE)
Dithering == [Patch("dithering", DitheringPattern, -4, <<\h48, \h00, \h00, \h28>>, FALSE)
              EXCEPT !.from = 8]
HalfVFilter == Patch("half-vfilter", <<\h08, \h08, \h0A, \h0C, \h0A, \h08, \h08>>, 0,
                     <<\h04, \h04, \h10, \h10, \h10, \h04, \h04>>, TRUE)
VIDEO_PATCHES == <<Deflicker, Dithering, HalfVFilter>>

AnyPatch == [name : Seq(Nat), group : STRING, find : Seq(Nat) \ {<<>>}, at : Int, write : Seq(Nat),
             all : BOOLEAN, from : Nat]

VARIABLES
    job,     \* [kind, image, rounds]: the bytes at first, and the patch tables, run by run
    pc,      \* "read", "search", "splice", "write", "warn", "done", "error"
    round,   \* the run: a base directory may have been patched by an earlier one
    file,    \* what the file holds
    data,    \* the buffer
    k,       \* search: the patch looked for
    i,       \* search: the offset looked at from
    hits,    \* search: the sites of patch k so far
    applied, \* names of the patches that matched
    edits,   \* the edits of main.dol
    warned   \* for each run, the groups it warns of

vars == <<job, pc, round, file, data, k, i, hits, applied, edits, warned>>

patches == job.rounds[round]
p == patches[k]

(***************************************************************************)
(* Matching and overwriting.                                               *)
(***************************************************************************)
\* Mutant: the last offset at which the signature fits is not looked at.
MatchesShort(d, find, from) ==
    {o \in from .. (Len(d) - Len(find) - 1) : \A x \in DOMAIN find : d[o + x] = find[x]}
Matches(d, find, from) ==
    {o \in from .. (Len(d) - Len(find)) : \A x \in DOMAIN find : d[o + x] = find[x]}

First(S) == CHOOSE o \in S : \A other \in S : o <= other

Overwrite(d, off, bytes) ==
    [x \in DOMAIN d |-> IF x \in (off + 1) .. (off + Len(bytes)) THEN bytes[x - off] ELSE d[x]]

Fits(d, off, bytes) == off + Len(bytes) <= Len(d)

(***************************************************************************)
(* The runs.                                                               *)
(***************************************************************************)
Init ==
    /\ job \in Jobs
    /\ file = job.image /\ data = <<>>
    /\ pc = "read" /\ round = 1 /\ k = 1 /\ i = 0 /\ hits = 0
    /\ applied = {} /\ edits = <<>> /\ warned = <<>>

ReadImage ==
    /\ pc = "read"
    /\ pc' = "search" /\ data' = file
    /\ k' = 1 /\ i' = patches[1].from /\ hits' = 0 /\ applied' = {}
    /\ UNCHANGED <<job, round, file, edits, warned>>

\* On to the next patch, n sites of this one having been found.
NextPatch(n) ==
    /\ applied' = IF n > 0 THEN applied \cup {p.name} ELSE applied
    /\ hits' = 0
    /\ IF k < Len(patches)
       THEN k' = k + 1 /\ i' = patches[k + 1].from /\ pc' = "search"
       ELSE k' = k /\ i' = i /\ pc' = IF job.kind = "dol" THEN "splice" ELSE "write"

AfterHit(o) ==
    IF p.all THEN hits' = hits + 1 /\ i' = o + Len(p.find) /\ UNCHANGED <<k, applied, pc>>
             ELSE NextPatch(hits + 1)

\* apply_patches: a match is overwritten at once.
PatchMatch ==
    /\ pc = "search" /\ job.kind = "fw" /\ Matches(data, p.find, i) # {}
    /\ LET o == First(Matches(data, p.find, i)) IN
        /\ Fits(data, o + p.at, p.write)
        /\ data' = Overwrite(data, o + p.at, p.write)
        /\ AfterHit(o)
    /\ UNCHANGED <<job, round, file, edits, warned>>

\* A write past the end of the image is skipped, and the patch with it.
RefuseMatch ==
    /\ pc = "search" /\ job.kind = "fw" /\ Matches(data, p.find, i) # {}
    /\ ~Fits(data, First(Matches(data, p.find, i)) + p.at, p.write)
    /\ NextPatch(hits)
    /\ UNCHANGED <<job, round, file, data, edits, warned>>

\* find_dol_edits: a match is noted.
NoteEdit ==
    /\ pc = "search" /\ job.kind = "dol" /\ Matches(data, p.find, i) # {}
    /\ LET o == First(Matches(data, p.find, i)) IN
        /\ edits' = Append(edits, [offset |-> o + p.at, bytes |-> p.write])
        /\ AfterHit(o)
    /\ UNCHANGED <<job, round, file, data, warned>>

NoMatch ==
    /\ pc = "search" /\ Matches(data, p.find, i) = {}
    /\ NextPatch(hits)
    /\ UNCHANGED <<job, round, file, data, edits, warned>>

\* The sectors of main.dol are overlaid with one edit after the other as they are written.
SpliceEdit ==
    /\ pc = "splice"
    /\ IF edits = <<>> THEN pc' = "write" /\ UNCHANGED <<data, edits>>
       ELSE /\ data' = Overwrite(data, Head(edits).offset, Head(edits).bytes)
            /\ edits' = Tail(edits) /\ UNCHANGED pc
    /\ UNCHANGED <<job, round, file, k, i, hits, applied, warned>>

\* An image nothing matched in is not written.
WriteBack ==
    /\ pc = "write"
    /\ pc' = "warn" /\ file' = IF applied = {} THEN file ELSE data
    /\ UNCHANGED <<job, round, data, k, i, hits, applied, edits, warned>>

\* std::fs::write cuts the file to nothing first: what it holds when it fails is a prefix.
WriteFails ==
    /\ pc = "write" /\ applied # {}
    /\ pc' = "error" /\ \E n \in {0, Len(data) \div 2} : file' = SubSeq(data, 1, n)
    /\ UNCHANGED <<job, round, data, k, i, hits, applied, edits, warned>>

UnmatchedGroups(ps, names) ==
    {ps[x].group : x \in {y \in DOMAIN ps :
        ~\E z \in DOMAIN ps : ps[z].group = ps[y].group /\ ps[z].name \in names}}

Warn ==
    /\ pc = "warn"
    /\ warned' = Append(warned, UnmatchedGroups(patches, applied))
    /\ IF round < Len(job.rounds) THEN pc' = "read" /\ round' = round + 1
                                  ELSE pc' = "done" /\ UNCHANGED round
    /\ UNCHANGED <<job, file, data, k, i, hits, applied, edits>>

Next ==
    \/ ReadImage \/ PatchMatch \/ RefuseMatch \/ NoteEdit \/ NoMatch \/ SpliceEdit
    \/ WriteBack \/ WriteFails \/ Warn

Spec == Init /\ [][Next]_vars

(***************************************************************************)
(* What the patches promise.                                               *)
(***************************************************************************)
\* The sites of patch q in d: where its signature occurs and overlaps no earlier site, all
\* of them or the first, if the image holds what is to be written.
Occurrences(d, q) ==
    {o \in q.from .. Len(d) :
        o + Len(q.find) <= Len(d) /\ SubSeq(d, o + 1, o + Len(q.find)) = q.find}

Sites(d, q) ==
    LET all == Occurrences(d, q)
        disjoint == CHOOSE S \in SUBSET all :
            \A o \in all : o \in S <=> ~\E e \in S : e < o /\ o < e + Len(q.find)
        wanted == IF q.all \/ all = {} THEN disjoint ELSE {First(all)}
    IN {o \in wanted : o + q.at + Len(q.write) <= Len(d)}

Written(d, ps, x) ==
    {y \in DOMAIN ps : \E o \in Sites(d, ps[y]) :
        x \in (o + ps[y].at + 1) .. (o + ps[y].at + Len(ps[y].write))}

\* d with every site of ps replaced, the sites being those of d itself.
Replaced(d, ps) ==
    [x \in DOMAIN d |->
        IF Written(d, ps, x) = {} THEN d[x]
        ELSE LET q == ps[CHOOSE y \in Written(d, ps, x) : \A z \in Written(d, ps, x) : z <= y]
                 o == CHOOSE e \in Sites(d, q) :
                          x \in (e + q.at + 1) .. (e + q.at + Len(q.write))
             IN q.write[x - o - q.at]]

\* A later run's table holds the earlier one's, or is held by it.
AllPatches(rounds) == IF \E r \in DOMAIN rounds : rounds[r] = HOMEBREW_PATCHES
                      THEN HOMEBREW_PATCHES ELSE rounds[1]

\* The bytes a patch writes at a site <<y, o>>: of patch y of the table a, at offset o.
SitesOf(d, a) == UNION {{y} \X Sites(d, a[y]) : y \in DOMAIN a}
Cover(a, s) == (s[2] + a[s[1]].at + 1) .. (s[2] + a[s[1]].at + Len(a[s[1]].write))

\* In the image of b no two sites share a byte that is written; and where the window of a signature
\* meets one, it is the window of that site, or it differs from the signature in a byte, before
\* that is written and after.  If the image is searched twice, no signature stands where it is
\* not a site, and one that is written is one no more.
StandApart(b) ==
    LET d == b.image
        a == AllPatches(b.rounds)
        sites == SitesOf(d, a)
        r == Replaced(d, a) IN
    /\ \A s, t \in sites : s # t => Cover(a, s) \cap Cover(a, t) = {}
    /\ \A y \in DOMAIN a : \A e \in a[y].from .. (Len(d) - Len(a[y].find)) : \A s \in sites :
          Cover(a, s) \cap (e + 1) .. (e + Len(a[y].find)) # {} =>
              s = <<y, e>> \/ \E x \in DOMAIN a[y].find : a[y].find[x] \notin {d[e + x], r[e + x]}
    /\ Len(b.rounds) > 1 => \A y \in DOMAIN a :
          /\ \A o \in Occurrences(d, a[y]) :
                o + a[y].at + Len(a[y].write) <= Len(d) => o \in Sites(d, a[y])
          /\ \A o \in Sites(d, a[y]) : \E x \in DOMAIN a[y].find : r[o + x] # a[y].find[x]

Missing(ps) ==
    {ps[x].group : x \in {y \in DOMAIN ps :
        \A z \in DOMAIN ps : ps[z].group = ps[y].group => Sites(job.image, ps[z]) = {}}}

\* Searching and overwriting in one pass, patch after patch and run after run, comes to
\* replacing the sites of the original image and nothing else: a site that ends with the image
\* counts, and a signature the image cuts off does not (apply_patches, find_dol_edits).  Of an
\* fw.img this is said where its sites stand apart: elsewhere one patch may destroy or make
\* another's site.  The first run warns of the groups that have no site in the image, an
\* alternative's site counting for its group.
PatchesTheOriginalSites ==
    /\ pc = "done" => file = Replaced(job.image, AllPatches(job.rounds))
    /\ warned # <<>> => warned[1] = Missing(job.rounds[1])
    /\ pc \in {"read", "search"} /\ round = 1 => file = job.image
=============================================================================
