----------------------------- MODULE CommandLine -----------------------------
(***************************************************************************)
(* One call of the program up to the pipeline: Cli and run of              *)
(* crates/cli/src/main.rs, with the checks of keys.rs, cert.rs and         *)
(* nintendont.rs that they make; then the end of the run, where the        *)
(* GameCube path writes nincfg.bin beside a finished package.              *)
(*                                                                         *)
(* A Cli has the fields of the struct of that name: an option's default    *)
(* stands for its absence, which is how the code takes it, too: an option  *)
(* that is given with its default value is not told from an absent one.    *)
(***************************************************************************)
EXTENDS Nincfg

CONSTANT Calls  \* what is typed, and what it is typed upon

VARIABLES
    cli,     \* the parsed arguments
    disc,    \* what the input is: "wii", "gc" or "neither"
    dir,     \* the work directory: "temp", "absent", "empty" or "dirty"
    pc,      \* next step, or how the call ended
    warned,  \* arguments a warning names
    net,     \* what was fetched
    config,  \* Config handed to the pipeline
    nincfg   \* nincfg.bin in the directory the output is put in

vars == <<cli, disc, dir, pc, warned, net, config, nincfg>>

None == [none |-> TRUE]

\* A nincfg.bin that an earlier build left for its game, one of which only a part was written, and
\* one that this call wrote.
Earlier       == [earlier |-> TRUE]
Cut           == [cut |-> TRUE]
Written(file) == [written |-> file]

GoodKey == [form |-> "hex32", retail |-> TRUE]

Default ==
    [base |-> "none", base_title_id |-> "none", base_title_key |-> "none",
     base_version |-> "none", nus_url |-> "none",
     wiiu_common_key |-> GoodKey, cert |-> "good",
     title |-> "none", icon |-> "none", boot_tv |-> "none", boot_drc |-> "none", region |-> "us",
     no_gamepad |-> FALSE, offline |-> FALSE,
     deflicker |-> FALSE, half_vfilter |-> FALSE, remove_dithering |-> FALSE,
     keep_gaps |-> FALSE, trim_zeros |-> FALSE,
     gamecube |-> FALSE, nintendont |-> "none", apploader |-> "none", gc_disc_id |-> "none",
     gc_disc_title |-> "none", widescreen |-> FALSE, gc_language |-> "auto", gc_video |-> "auto",
     no_memcard |-> FALSE, gc_memcard_blocks |-> 251, gc_max_pads |-> 4, gc_gamepad_slot |-> 0,
     cheats |-> NoPath]

\* Paths and texts are known by what the program can tell of them.
Path == [name : STRING, ascii : BOOLEAN, len : Nat]

Cli ==
    [base : STRING, base_title_id : STRING, base_title_key : STRING,
     base_version : STRING, nus_url : STRING,
     wiiu_common_key : [form : STRING, retail : BOOLEAN], cert : STRING,
     title : STRING, icon : STRING, boot_tv : STRING, boot_drc : STRING, region : STRING,
     no_gamepad : BOOLEAN, offline : BOOLEAN,
     deflicker : BOOLEAN, half_vfilter : BOOLEAN, remove_dithering : BOOLEAN,
     keep_gaps : BOOLEAN, trim_zeros : BOOLEAN,
     gamecube : BOOLEAN, nintendont : {"none", "file", "missing"}, apploader : STRING,
     gc_disc_id : STRING, gc_disc_title : STRING, widescreen : BOOLEAN, gc_language : STRING,
     gc_video : STRING, no_memcard : BOOLEAN, gc_memcard_blocks : Nat, gc_max_pads : Nat,
     gc_gamepad_slot : Nat, cheats : Path]

\* A command line, the input it names, and what it finds as its work directory and nincfg.bin.
Call ==
    [cli : Cli, disc : {"wii", "gc", "neither"}, dir : {"temp", "absent", "empty", "dirty"},
     nincfg : {None, Earlier}]

VideoFlags == {"deflicker", "half_vfilter", "remove_dithering"}

\* Mutant: the list of the options that only GameCube has misses one.
GcOnlyFlagsForgotten ==
    {"widescreen", "gc_language", "gc_video", "no_memcard", "gc_memcard_blocks",
     "gc_gamepad_slot", "cheats", "nintendont", "apploader", "gc_disc_id", "gc_disc_title"}

GcOnlyFlags ==
    {"widescreen", "gc_language", "gc_video", "no_memcard", "gc_memcard_blocks", "gc_max_pads",
     "gc_gamepad_slot", "cheats", "nintendont", "apploader", "gc_disc_id", "gc_disc_title"}
WiiOnlyFlags == {"keep_gaps", "trim_zeros"}

\* gc_only_flags_given and wii_only_flags_given: what differs from its default.
Changed(flags) == {a \in flags : cli[a] # Default[a]}

MemcardSizes ==
    [n \in {59, 123, 251, 507, 1019} |->
        CASE n = 59 -> 0 [] n = 123 -> 1 [] n = 251 -> 2 [] n = 507 -> 3 [] n = 1019 -> 4]

\* clap: one source of the base, what a NUS base requires, and the ranges of the numbers.
Parses(c) ==
    /\ (c.base # "none") # (c.base_title_id # "none")
    /\ (c.base_title_id # "none") <=> (c.base_title_key # "none")
    /\ \A a \in {"base_version", "nus_url"} : c[a] # "none" => c.base_title_id # "none"
    /\ c.gc_memcard_blocks \in DOMAIN MemcardSizes
    /\ c.gc_max_pads \in 0 .. 4 /\ c.gc_gamepad_slot \in 0 .. 3

\* parse_key and validate.
KeyOk(k) == k.form \in {"raw16", "hex32", "spacedHex32"} /\ k.retail

\* CertChain::from_bytes: the size, the first signature's type, the root.
CertOk(c) == c = "good"

\* build_base: a directory or an archive is opened, a NUS base is only spelled out.
BaseOk(c) ==
    IF c.base # "none" THEN c.base = "good"
    ELSE c.base_title_id = "hex16" /\ c.base_title_key = "hex32"

\* parse_gc_disc_id
DiscIdOk(id) == id \in {"none", "CEMU69"}

Memcard(c) == MemcardSizes[c.gc_memcard_blocks]

IsGameCube == cli.gamecube \/ disc = "gc"

\* build_gc_options, but for the bytes of Nintendont and of the apploader.
GcOptions(c) ==
    [nintendont |-> IF c.nintendont = "none" THEN "download" ELSE c.nintendont,
     apploader |-> c.apploader, disc_id |-> c.gc_disc_id, disc_title |-> c.gc_disc_title,
     widescreen |-> c.widescreen, language |-> c.gc_language, video_mode |-> c.gc_video,
     memcard_emu |-> ~ c.no_memcard, memcard_blocks |-> Memcard(c),
     max_pads |-> c.gc_max_pads, wiiu_gamepad_slot |-> c.gc_gamepad_slot,
     cheat_path |-> c.cheats]

\* config_from_cli
ConfigFrom(c, gamecube) ==
    [title |-> c.title, icon_png |-> c.icon, boot_tv_png |-> c.boot_tv,
     boot_drc_png |-> c.boot_drc, region |-> c.region, gamepad |-> ~ c.no_gamepad,
     online |-> ~ c.offline,
     video |-> [a \in VideoFlags |-> c[a]],
     skip_gaps |-> ~ c.keep_gaps, trim_zeros |-> c.trim_zeros,
     gamecube |-> IF gamecube THEN GcOptions(c) ELSE None]

\* run_gamecube's options of nincfg.bin, for the game on the disc.
NincfgOptions(gc) ==
    [game_id |-> "GAME", widescreen |-> gc.widescreen, language |-> gc.language,
     video_mode |-> gc.video_mode, memcard_emu |-> gc.memcard_emu,
     memcard_blocks |-> gc.memcard_blocks, max_pads |-> gc.max_pads,
     wiiu_gamepad_slot |-> gc.wiiu_gamepad_slot, cheat_path |-> gc.cheat_path]

\* What of a configuration run and run_gamecube look at.
WiiOnlyConfig == {"video", "skip_gaps", "trim_zeros"}
Used(cfg) ==
    [f \in IF cfg.gamecube = None THEN DOMAIN cfg ELSE DOMAIN cfg \ WiiOnlyConfig |-> cfg[f]]

-----------------------------------------------------------------------------
Init ==
    /\ \E c \in Calls : cli = c.cli /\ disc = c.disc /\ dir = c.dir /\ nincfg = c.nincfg
    /\ pc = "parse"
    /\ warned = {} /\ net = {} /\ config = None

call == <<cli, disc>>

\* A check that sends the call on to the next step or ends it.
Checked(step, ok, next) ==
    /\ pc = step
    /\ pc' = IF ok THEN next ELSE "refused"
    /\ UNCHANGED <<call, dir, warned, net, config, nincfg>>

Parse == Checked("parse", Parses(cli), "workdir")

\* prepare_work_dir, or a temporary directory.
PrepareWorkDir ==
    /\ pc = "workdir"
    /\ dir' = IF dir = "absent" THEN "empty" ELSE dir
    /\ pc' = IF dir = "dirty" THEN "refused" ELSE "key"
    /\ UNCHANGED <<call, warned, net, config, nincfg>>

LoadKey == Checked("key", KeyOk(cli.wiiu_common_key), "cert")
LoadCert == Checked("cert", CertOk(cli.cert), "base")
BuildBase == Checked("base", BaseOk(cli), "probe")

\* --gamecube leaves the input unread.
Probe == Checked("probe", cli.gamecube \/ disc # "neither", "warn")

Warn ==
    /\ pc = "warn"
    /\ warned' = IF IsGameCube
                 THEN (IF Changed(VideoFlags) = {} THEN {} ELSE VideoFlags) \cup Changed(WiiOnlyFlags)
                 ELSE Changed(GcOnlyFlags)
    /\ pc' = IF IsGameCube THEN "nintendont" ELSE "config"
    /\ UNCHANGED <<call, dir, net, config, nincfg>>

\* The forwarder is a file, or is downloaded and has the pinned hash.
ReadNintendont ==
    /\ pc = "nintendont" /\ cli.nintendont # "none"
    /\ pc' = IF cli.nintendont = "file" THEN "gcOptions" ELSE "refused"
    /\ UNCHANGED <<call, dir, warned, net, config, nincfg>>

\* Mutant: --offline is not asked.
DownloadNintendontAnyway(genuine) ==
    /\ pc = "nintendont" /\ cli.nintendont = "none"
    /\ net' = net \cup {"nintendont"}
    /\ pc' = IF genuine THEN "gcOptions" ELSE "refused"
    /\ UNCHANGED <<call, dir, warned, config, nincfg>>

DownloadNintendont(genuine) ==
    /\ pc = "nintendont" /\ cli.nintendont = "none"
    /\ IF cli.offline THEN net' = net ELSE net' = net \cup {"nintendont"}
    /\ pc' = IF ~ cli.offline /\ genuine THEN "gcOptions" ELSE "refused"
    /\ UNCHANGED <<call, dir, warned, config, nincfg>>

BuildGcOptions ==
    Checked("gcOptions", cli.apploader # "missing" /\ DiscIdOk(cli.gc_disc_id), "config")

Configure ==
    /\ pc = "config"
    /\ config' = ConfigFrom(cli, IsGameCube)
    /\ pc' = "pipeline"
    /\ UNCHANGED <<call, dir, warned, net, nincfg>>

\* The pipeline up to the package: the input is opened as what the mode takes it for, a NUS base
\* is downloaded, and online the title and the art are looked up.
RunPipeline(ok) ==
    /\ pc = "pipeline"
    /\ net' = net \cup (IF cli.base = "none" THEN {"base"} ELSE {})
                  \cup (IF config.online THEN {"art"} ELSE {})
                  \cup (IF config.online /\ config.title = "none" THEN {"gametdb"} ELSE {})
    /\ ok => (disc = "gc") = (config.gamecube # None)
    /\ dir' = IF dir = "temp" THEN dir ELSE "dirty"
    /\ pc' = IF ~ ok THEN "failed" ELSE IF config.gamecube = None THEN "done" ELSE "packaged"
    /\ UNCHANGED <<call, warned, config, nincfg>>

(***************************************************************************)
(* after_package of run_gamecube, with the package in place.  The settings *)
(* are first looked at here.  A file that stands there is written over; a  *)
(* failure of std::path::absolute, or to open the file, leaves it alone,   *)
(* and a write that fails leaves a part of the new one.                    *)
(***************************************************************************)
PackagedOptions == NincfgOptions(config.gamecube)

RefuseSettings ==
    /\ pc = "packaged" /\ ~ Acceptable(PackagedOptions)
    /\ pc' = "refusedLate"
    /\ UNCHANGED <<call, dir, warned, net, config, nincfg>>

WriteNincfg ==
    /\ pc = "packaged" /\ Acceptable(PackagedOptions)
    /\ nincfg' = Written(Generate(PackagedOptions))
    /\ pc' = "done"
    /\ UNCHANGED <<call, dir, warned, net, config>>

\* Mutant: the result of fs::write is not looked at.
WriteIgnored ==
    /\ pc = "packaged" /\ Acceptable(PackagedOptions)
    /\ nincfg' \in {nincfg, Cut}
    /\ pc' = "done"
    /\ UNCHANGED <<call, dir, warned, net, config>>

WriteFails ==
    /\ pc = "packaged" /\ Acceptable(PackagedOptions)
    /\ nincfg' \in {nincfg, Cut}
    /\ pc' = "unwritten"
    /\ UNCHANGED <<call, dir, warned, net, config>>

Next ==
    \/ Parse \/ PrepareWorkDir \/ LoadKey \/ LoadCert \/ BuildBase \/ Probe \/ Warn
    \/ ReadNintendont
    \/ \E genuine \in BOOLEAN : DownloadNintendont(genuine)
    \/ BuildGcOptions \/ Configure
    \/ \E ok \in BOOLEAN : RunPipeline(ok)
    \/ RefuseSettings \/ WriteNincfg \/ WriteFails

Spec == Init /\ [][Next]_vars

-----------------------------------------------------------------------------
\* Options that ask for something of the package or of nincfg.bin: not the keys, the base and the
\* mode.
Settings ==
    DOMAIN Default \ {"base", "base_title_id", "base_title_key", "base_version", "nus_url",
                      "wiiu_common_key", "cert", "offline", "gamecube"}

\* An option that is set does something or is named in a warning: with its default in its place,
\* what the pipeline looks at would be another configuration.  Between Cli, the two lists of
\* options of one console, Config and the two ways through the pipeline, none falls through.
NothingSilentlyIgnored ==
    config # None =>
        \A a \in Settings :
            cli[a] # Default[a] =>
                \/ a \in warned
                \/ Used(ConfigFrom([cli EXCEPT ![a] = Default[a]], IsGameCube)) # Used(config)

\* The settings typed on the command line, as Nintendont is to have them.
Asked ==
    [Config |-> {"AUTO_BOOT"} \cup (IF cli.no_memcard THEN {} ELSE {"MEMCARDEMU"})
                    \cup (IF cli.widescreen THEN {"FORCE_WIDE", "WIIU_WIDE"} ELSE {})
                    \cup (IF cli.cheats = NoPath THEN {} ELSE {"CHEATS", "CHEAT_PATH"}),
     VideoMode |-> VideoModeValue(cli.gc_video), Language |-> LanguageValue(cli.gc_language),
     GamePath |-> "di:/game.iso", CheatPath |-> cli.cheats, MaxPads |-> cli.gc_max_pads,
     GameID |-> "GAME", MemCardBlocks |-> MemcardSizes[cli.gc_memcard_blocks],
     WiiUGamepadSlot |-> cli.gc_gamepad_slot]

\* A GameCube call ends well only with a nincfg.bin of its own: Nintendont, which finds the fields
\* where a C compiler puts them and rejects a file for one bad value, accepts it and reads what was
\* typed, be there the file of another game before it.  That file is not touched for a call that
\* comes to nothing, and only a write that fails leaves a cut one, with the error reported.  Of
\* the settings only a cheat path is refused that late, all others having been checked before.
NintendontReadsWhatWasAsked ==
    /\ pc = "done" /\ IsGameCube =>
          /\ nincfg \notin {None, Earlier, Cut}
          /\ NintendontAcceptsFile(nincfg.written)
          /\ \A f \in DOMAIN Asked : Field(nincfg.written, f) = Asked[f]
    /\ pc \notin {"done", "unwritten"} => nincfg \in {None, Earlier}
    /\ pc = "unwritten" => nincfg \in {None, Earlier, Cut}
    /\ pc = "refusedLate" => ~ cli.cheats.ascii \/ cli.cheats.len > 254

\* The comments in run and on --offline: nothing is fetched for a call whose work directory, key,
\* certificates or base are bad, and with --offline nothing but a base that was asked for by id.
NetworkComesLast ==
    /\ net # {} => /\ Parses(cli) /\ KeyOk(cli.wiiu_common_key) /\ CertOk(cli.cert)
                   /\ BaseOk(cli) /\ pc \notin {"parse", "workdir", "key", "cert", "base", "probe"}
    /\ cli.offline => net \subseteq {"base"}
=============================================================================
