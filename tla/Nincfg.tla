------------------------------- MODULE Nincfg -------------------------------
(***************************************************************************)
(* nincfg.bin as crates/core/src/nincfg.rs writes it, and as Nintendont,   *)
(* a C program, reads it: as a struct whose fields the compiler aligns.    *)
(* A file is a function from the offsets that were written to the values;  *)
(* every other byte is zero.  Sets of flag names stand for bit masks.      *)
(***************************************************************************)
EXTENDS Naturals, Sequences, TLC

PathLen == 255
MaxPadsLimit == 4
MemcardBlocksLimit == 4
WiiuGamepadSlotLimit == 3

\* Mutant: the record is packed.
OffPacked ==
    [Magicbytes |-> 0, Version |-> 4, Config |-> 8, VideoMode |-> 12, Language |-> 16,
     GamePath |-> 20, CheatPath |-> 275, MaxPads |-> 530, GameID |-> 534, MemCardBlocks |-> 538,
     VideoScale |-> 539, VideoOffset |-> 540, NetworkProfile |-> 541, WiiUGamepadSlot |-> 542]

Off ==
    [Magicbytes |-> 0, Version |-> 4, Config |-> 8, VideoMode |-> 12, Language |-> 16,
     GamePath |-> 20, CheatPath |-> 275, MaxPads |-> 532, GameID |-> 536, MemCardBlocks |-> 540,
     VideoScale |-> 541, VideoOffset |-> 542, NetworkProfile |-> 543, WiiUGamepadSlot |-> 544]

Languages == <<"english", "german", "french", "spanish", "italian", "dutch">>
LanguageValue(l) ==
    IF l = "auto" THEN "-1" ELSE ToString((CHOOSE i \in DOMAIN Languages : Languages[i] = l) - 1)

VideoModeValue(m) ==
    CASE m = "auto" -> {}
      [] m = "ntsc" -> {"FORCE", "NTSC"}
      [] m = "pal50" -> {"FORCE", "PAL50"}
      [] m = "pal60" -> {"FORCE", "PAL60"}
      [] m = "mpal" -> {"FORCE", "MPAL"}
      [] m = "progressive" -> {"FORCE", "NTSC", "PROG"}
      [] m = "none" -> {"NONE"}

NoPath == [name |-> "none", ascii |-> TRUE, len |-> 0]

\* put_cstr: the part of a string that fits beside its terminator.
CStr(path) == [path EXCEPT !.len = IF path.len < PathLen - 1 THEN path.len ELSE PathLen - 1]

Acceptable(opts) ==
    /\ opts.max_pads <= MaxPadsLimit
    /\ opts.memcard_blocks <= MemcardBlocksLimit
    /\ opts.wiiu_gamepad_slot <= WiiuGamepadSlotLimit
    /\ opts.cheat_path.ascii
    /\ opts.cheat_path.len <= PathLen - 1

ConfigBits(opts) ==
    {"AUTO_BOOT"}
        \cup (IF opts.memcard_emu THEN {"MEMCARDEMU"} ELSE {})
        \cup (IF opts.widescreen THEN {"FORCE_WIDE", "WIIU_WIDE"} ELSE {})
        \cup (IF opts.cheat_path # NoPath THEN {"CHEATS", "CHEAT_PATH"} ELSE {})

Values(opts) ==
    [Magicbytes |-> "magic", Version |-> 10, Config |-> ConfigBits(opts),
     VideoMode |-> VideoModeValue(opts.video_mode), Language |-> LanguageValue(opts.language),
     GamePath |-> "di:/game.iso", CheatPath |-> CStr(opts.cheat_path), MaxPads |-> opts.max_pads,
     GameID |-> opts.game_id, MemCardBlocks |-> opts.memcard_blocks,
     WiiUGamepadSlot |-> opts.wiiu_gamepad_slot]

\* generate, of options it accepts: each value at the offset of its field.
Generate(opts) ==
    [o \in {Off[f] : f \in DOMAIN Values(opts)} |->
        Values(opts)[CHOOSE f \in DOMAIN Values(opts) : Off[f] = o]]

-----------------------------------------------------------------------------
\* Nintendont's NIN_CFG: its fields in order, their sizes and alignments.

Word(name) == [name |-> name, size |-> 4, align |-> 4]
Chars(name, n) == [name |-> name, size |-> n, align |-> 1]
NinCfg ==
    <<Word("Magicbytes"), Word("Version"), Word("Config"), Word("VideoMode"), Word("Language"),
      Chars("GamePath", 255), Chars("CheatPath", 255), Word("MaxPads"), Word("GameID"),
      Chars("MemCardBlocks", 1), Chars("VideoScale", 1), Chars("VideoOffset", 1),
      Chars("NetworkProfile", 1), Word("WiiUGamepadSlot")>>

\* The offset a C compiler gives the i-th field.
COffset[i \in 1 .. Len(NinCfg)] ==
    IF i = 1 THEN 0
    ELSE LET end == COffset[i - 1] + NinCfg[i - 1].size
         IN ((end + NinCfg[i].align - 1) \div NinCfg[i].align) * NinCfg[i].align

Field(file, name) ==
    LET at == COffset[CHOOSE i \in DOMAIN NinCfg : NinCfg[i].name = name]
    IN IF at \in DOMAIN file THEN file[at] ELSE 0

\* It runs with the settings only if every value it checks is in range.
NintendontAcceptsFile(file) ==
    /\ Field(file, "Magicbytes") = "magic" /\ Field(file, "Version") = 10
    /\ Field(file, "MaxPads") \in 0 .. 4
    /\ Field(file, "MemCardBlocks") \in 0 .. 4
    /\ Field(file, "WiiUGamepadSlot") \in 0 .. 3
=============================================================================
