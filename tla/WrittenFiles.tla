---------------------------- MODULE WrittenFiles ----------------------------
(***************************************************************************)
(* The files a run makes for other programs to read: the Wii disc of a     *)
(* GameCube game (AuthoredDisc), fw.img and main.dol for the console's     *)
(* processors (BytePatches), nincfg.bin for Nintendont, from the command   *)
(* line on (CommandLine), and meta.xml for the console's menu (MetaXml).   *)
(*                                                                         *)
(* They are made one after the other and share nothing: a behaviour makes  *)
(* one of them, named by file.  The variables of the others are idle.      *)
(***************************************************************************)
EXTENDS AuthoredDisc

CONSTANTS DeflickerPattern, DitheringPattern, Overrun, Jobs, \* of BytePatches
          Calls,                                             \* of CommandLine
          Documents, Requests, NoLength, Garbled,            \* of MetaXml
          Idle

VARIABLES
    making,                                                  \* which file is made
    job, round, file, k, i, hits, applied, edits, warned,    \* of BytePatches, with pc and data
    cli, disc, dir, net, config, nincfg,                     \* of CommandLine, with pc and warned
    req, doc, pos, out, app                                  \* of MetaXml, with pc

Patches == INSTANCE BytePatches
Command == INSTANCE CommandLine
Meta    == INSTANCE MetaXml

ASSUME CallsAssumption == Calls \subseteq Command!Call

\* A table has no signature twice and writes nothing before the image; the runs over one image
\* search it for more or less of one table; an edit of main.dol is no longer than its signature
\* and ends with it.
ASSUME JobsAssumption ==
    \A b \in Jobs :
        /\ b.kind \in {"fw", "dol"} /\ b.image \in Seq(Nat)
        /\ b.rounds \in Seq(Seq(Patches!AnyPatch) \ {<<>>}) \ {<<>>}
        /\ \A r \in DOMAIN b.rounds : \A y \in DOMAIN b.rounds[r] :
              LET all == Patches!AllPatches(b.rounds)
                  q == all[y] IN
              /\ y \in DOMAIN all /\ b.rounds[r][y] = q
              /\ \A z \in DOMAIN all : all[z].name = q.name => z = y
              /\ q.from + q.at >= 0
              /\ b.kind = "dol" => /\ Len(b.rounds) = 1 /\ Len(q.write) <= Len(q.find)
                                   /\ q.at + Len(q.write) <= Len(q.find)

\* A text is one event: the reader ends it at the next markup.
ASSUME DocumentsAssumption ==
    \A d \in Documents : /\ d \in Seq(Meta!Events)
                         /\ \A n \in 2 .. Len(d) : ~ (d[n - 1].ev = "text" /\ d[n].ev = "text")

ownDisc  == <<in, sys, g, h3, headers, result>>
ownPatch == <<job, round, file, k, i, hits, applied, edits>>
ownCall  == <<cli, disc, dir, net, config, nincfg>>
ownMeta  == <<req, doc, pos, out, app>>
allVars  == <<making, vars, ownPatch, warned, ownCall, ownMeta>>

NoDisc  == in = Idle /\ sys = Idle /\ g = Idle /\ h3 = Idle /\ headers = Idle /\ result = Idle
NoPatch == /\ job = Idle /\ round = Idle /\ file = Idle /\ k = Idle /\ i = Idle /\ hits = Idle
           /\ applied = Idle /\ edits = Idle
NoCall  == /\ cli = Idle /\ disc = Idle /\ dir = Idle /\ net = Idle /\ config = Idle
           /\ nincfg = Idle
NoMeta  == req = Idle /\ doc = Idle /\ pos = Idle /\ out = Idle /\ app = Idle

MakeDisc  == making = "disc" /\ Init /\ warned = Idle /\ NoPatch /\ NoCall /\ NoMeta
MakePatch == making = "patch" /\ Patches!Init /\ NoDisc /\ NoCall /\ NoMeta
MakeCall  == making = "call" /\ Command!Init /\ data = Idle /\ NoDisc /\ NoPatch /\ NoMeta
MakeMeta  == /\ making = "meta" /\ Meta!Init /\ data = Idle /\ warned = Idle
             /\ NoDisc /\ NoPatch /\ NoCall

FilesInit == MakeDisc \/ MakePatch \/ MakeCall \/ MakeMeta

DiscStep  == making = "disc" /\ Next /\ UNCHANGED <<making, ownPatch, warned, ownCall, ownMeta>>
PatchStep == making = "patch" /\ Patches!Next /\ UNCHANGED <<making, ownDisc, ownCall, ownMeta>>
CallStep  == /\ making = "call" /\ Command!Next
             /\ UNCHANGED <<making, data, ownDisc, ownPatch, ownMeta>>
MetaStep  == /\ making = "meta" /\ Meta!Next
             /\ UNCHANGED <<making, data, warned, ownDisc, ownPatch, ownCall>>

FilesNext == DiscStep \/ PatchStep \/ CallStep \/ MetaStep

FilesSpec == FilesInit /\ [][FilesNext]_allVars

-----------------------------------------------------------------------------
\* A console can follow a disc that was authored from its header to the last byte (AuthoredDisc,
\* author_gc_disc).
DiscIsReadable == making = "disc" => DiscReadsBack

\* A disc is refused for a limit it exceeds, and only then (AuthoredDisc, u32_field).
DiscIsRefusedOverLimit == making = "disc" => RefusedOnlyOverLimit

\* fw.img and main.dol have the sites of the original image replaced, and nothing else
\* (BytePatches, apply_patches and find_dol_edits).
SitesArePatched == making = "patch" => Patches!PatchesTheOriginalSites

\* Every option is used or named in a warning (CommandLine, gc_only_flags_given and run).
OptionsAreHeeded == making = "call" => Command!NothingSilentlyIgnored

\* A call ends well only with a nincfg.bin that Nintendont reads as it was typed, whatever file
\* stood there and however its writing may fail (CommandLine, nincfg::generate, run_gamecube).
SettingsArrive == making = "call" => Command!NintendontReadsWhatWasAsked

\* The network is left alone by a call that cannot work (CommandLine, run).
NetworkIsLast == making = "call" => Command!NetworkComesLast

\* The elements of meta.xml name the game and the rest is as it was (MetaXml, patch).
MetaNamesTheGame == making = "meta" => Meta!TitleNamesTheGame
=============================================================================
