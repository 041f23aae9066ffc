--------------------------- MODULE MCWrittenFiles ---------------------------
(***************************************************************************)
(* What the files of WrittenFiles are made from.                           *)
(***************************************************************************)
EXTENDS WrittenFiles, FiniteSets

\* The constructors of the three modules, which the inputs are put together with.
Image == INSTANCE BytePatches WITH Jobs <- {}, Overrun <- Idle
Usual == INSTANCE CommandLine WITH Calls <- {}
Xml   == INSTANCE MetaXml WITH Documents <- {}, Requests <- {}

(***************************************************************************)
(* Discs around every limit: an object that ends on, before or after an    *)
(* alignment, images that end on, before or after a cluster and a group,   *)
(* an image larger than its field, a partition larger than the H3 table.   *)
(***************************************************************************)
MCDiscs ==
    [apploader : {0, 3, 4}, dol : {1, 4, 5, 21}, iso : {0, 1, 4, 8, 13, 20, 21}, certs : {0, 2, 3}]

(***************************************************************************)
(* Images put together from the signatures: whole, cut off, abutting and,  *)
(* where the end of one is the start of another, overlapping.              *)
(***************************************************************************)
\* The ends of the two long signatures of video.rs.
MCDeflicker == <<\h2C, \h03, \h00, \h00, \h41, \h82, \h00, \h40>>
MCDithering == <<\h3C, \h80, \hCC, \h01, \h4E, \h80, \h00, \h20>>

\* The patch of fwimg.rs's own test.
MCOverrun == Image!Patch("overrun", <<\hDE, \hAD>>, 2, <<\hBE, \hEF>>, FALSE)

Finds(ps) == {ps[x].find : x \in DOMAIN ps}
CutOff(s, n) == SubSeq(s, 1, Len(s) - n)
Filler == {<<>>, <<\hEA>>}

\* s and t with the last n bytes of s the first n of t.
Overlaps(s, t) ==
    {s \o SubSeq(t, n + 1, Len(t)) :
        n \in {m \in 1 .. (IF Len(s) < Len(t) THEN Len(s) ELSE Len(t)) :
                  SubSeq(s, Len(s) - m + 1, Len(s)) = SubSeq(t, 1, m)}}

Pairs(ps) == UNION {{s \o t} \cup Overlaps(s, t) : s, t \in Finds(ps)}
Ends(ps) == UNION {{f \o s, f \o CutOff(s, 1), SubSeq(s, 2, Len(s)) \o s \o f} :
                       s \in Finds(ps), f \in Filler}
Middles(ps) == {s \o CutOff(t, 1) \o u : s, t, u \in Finds(ps)}

\* No signature that is replaced only once stands twice in d.
Single(ps, d) ==
    \A x \in DOMAIN ps : ps[x].all \/ Cardinality(Image!Occurrences(d, ps[x])) <= 1

FwImages == {<<>>} \cup Pairs(Image!HOMEBREW_PATCHES) \cup Ends(Image!HOMEBREW_PATCHES)

FwRounds(d) ==
    {<<Image!FAKESIGN_PATCHES>>, <<Image!HOMEBREW_PATCHES>>} \cup
    (IF Single(Image!HOMEBREW_PATCHES, d)
     THEN {<<s, t>> : s, t \in {Image!FAKESIGN_PATCHES, Image!HOMEBREW_PATCHES}} ELSE {})

DolImages ==
    {f \o d : f \in {<<>>, <<0, 0, 0, 0, 0, 0, 0>>, <<0, 0, 0, 0, 0, 0, 0, 0>>},
              d \in Pairs(Image!VIDEO_PATCHES) \cup Ends(Image!VIDEO_PATCHES) \cup Middles(Image!VIDEO_PATCHES)}

MCJobs ==
    UNION {{[kind |-> "fw", image |-> d, rounds |-> r] : r \in FwRounds(d)} : d \in FwImages}
    \cup {[kind |-> "fw", image |-> d, rounds |-> << <<MCOverrun>> >>] :
             d \in UNION {{f, f \o MCOverrun.find, f \o MCOverrun.find \o <<1>>,
                           f \o MCOverrun.find \o <<1, 2>>} : f \in Filler}}
    \cup {[kind |-> "dol", image |-> d, rounds |-> <<Image!VIDEO_PATCHES>>] : d \in DolImages}

(***************************************************************************)
(* Calls with up to two things out of the ordinary, among the arguments,   *)
(* the work directory, the input and a nincfg.bin of another game; and     *)
(* every way to name a base.                                               *)
(***************************************************************************)
Path(name, ascii, len) == [name |-> name, ascii |-> ascii, len |-> len]

\* What may be typed for an argument; a default may be typed too.
Typed ==
    [wiiu_common_key |-> {[form |-> "raw16", retail |-> TRUE], [form |-> "hex32", retail |-> FALSE],
                          [form |-> "short", retail |-> TRUE]},
     cert |-> {"noRoot"}, title |-> {"Name"}, icon |-> {"file"}, boot_tv |-> {"file"},
     boot_drc |-> {"file"}, region |-> {"us", "eu"}, no_gamepad |-> {TRUE}, offline |-> {TRUE},
     deflicker |-> {TRUE}, half_vfilter |-> {TRUE}, remove_dithering |-> {TRUE},
     keep_gaps |-> {TRUE}, trim_zeros |-> {TRUE}, gamecube |-> {TRUE},
     nintendont |-> {"file", "missing"}, apploader |-> {"file", "missing"},
     gc_disc_id |-> {"CEMU69", "umlauts"}, gc_disc_title |-> {"PunEmu 1.1"},
     widescreen |-> {TRUE}, gc_language |-> {"auto", "english", "dutch"},
     gc_video |-> {"ntsc", "pal50", "pal60", "mpal", "progressive", "none"},
     no_memcard |-> {TRUE}, gc_memcard_blocks |-> {59, 251, 300, 1019}, gc_max_pads |-> {0, 4, 5},
     gc_gamepad_slot |-> {3, 4},
     cheats |-> {Path("game.gct", TRUE, 254), Path("game.gct", TRUE, 255),
                 Path("umlaut.gct", FALSE, 11)},
     base |-> {"good", "bad"}, base_title_id |-> {"hex16", "bad"}, base_title_key |-> {"hex32"},
     base_version |-> {"1"}, nus_url |-> {"url"}]

Ordinary == [cli |-> [Usual!Default EXCEPT !.base = "good"], disc |-> "wii",
             dir |-> "temp", nincfg |-> Usual!None]

With(c, a, v) == [c EXCEPT !.cli[a] = v]

Twists(c) ==
    {With(c, a, v) : <<a, v>> \in UNION {{<<a, v>> : v \in Typed[a]} : a \in DOMAIN Typed}}

FromNus(c) == [c EXCEPT !.cli.base = "none"]

Places == {[Ordinary EXCEPT !.disc = d] : d \in {"wii", "gc"}}
OneTwist == UNION {Twists(c) : c \in Places}

MCCalls ==
    OneTwist \cup UNION {Twists(c) : c \in OneTwist}
    \cup {[c EXCEPT !.dir = d] : c \in OneTwist, d \in {"absent", "empty", "dirty"}}
    \cup {[c EXCEPT !.disc = "neither"] : c \in OneTwist}
    \cup {[c EXCEPT !.nincfg = Usual!Earlier] : c \in OneTwist}
    \cup {With(FromNus(c), "base_title_id", "hex16") : c \in OneTwist}
    \cup {With(With(FromNus(c), "base_title_id", "hex16"), "base_title_key", "hex32") :
              c \in OneTwist}

(***************************************************************************)
(* meta.xml files of two elements, of any of the kinds the template has,   *)
(* in every form XML allows for them, and files that are cut or not well   *)
(* formed.                                                                 *)
(***************************************************************************)
Old == Xml!Text(<<"base">>, 4, 0)
Headers == {
    <<<<"longname", "en">>, "string", 7>>, <<<<"shortname", "ja">>, "string", NoLength>>,
    <<<<"longname", "xx">>, "string", 2>>, <<<<"publisher", "en">>, "string", 9>>,
    <<<<"longname", "en">>, "string", Garbled>>, <<<<"longname", "en">>, Xml!GarbledType, 7>>,
    <<<<"longname", "en">>, Xml!GarbledType, NoLength>>,
    <<<<"title_id", "">>, "hexBinary", 8>>, <<<<"group_id", "">>, "hexBinary", 8>>,
    <<<<"product_code", "">>, "string", 10>>, <<<<"drc_use", "">>, "unsignedInt", 1>>,
    <<<<"version", "">>, "unsignedInt", 1>>}

Contents == {
    <<>>, <<Xml!Chars("text", Old)>>, <<Xml!Chars("cdata", Old)>>,
    <<Xml!Chars("comment", Xml!NoText), Xml!Chars("text", Old)>>,
    <<Xml!Chars("text", Old), Xml!Chars("comment", Xml!NoText)>>,
    <<Xml!Start(<<"b", "">>, "", NoLength), Xml!Chars("text", Old), Xml!End(<<"b", "">>)>>,
    <<Xml!Chars("broken", Xml!NoText)>>, <<Xml!Chars("text", Old), Xml!Chars("broken", Xml!NoText)>>}

Elem(h, content) == <<Xml!Start(h[1], h[2], h[3])>> \o content \o <<Xml!End(h[1])>>
Elems == {Elem(h, c) : h \in Headers, c \in Contents} \cup {<<Xml!SelfClosed(h[1], h[2], h[3])>> : h \in Headers}
OrdinaryElems == {Elem(<<<<"longname", "en">>, "string", 7>>, <<Xml!Chars("text", Old)>>),
                  <<Xml!SelfClosed(<<"title_id", "">>, "hexBinary", 8)>>,
                  Elem(<<<<"version", "">>, "unsignedInt", 1>>, <<Xml!Chars("text", Old)>>)}

Menu(a, b) == <<Xml!Start(<<"menu", "">>, "", NoLength)>> \o a \o <<Xml!Chars("text", Xml!Text(<<" ">>, 1, 0))>>
                \o b \o <<Xml!End(<<"menu", "">>)>>
Whole == {Menu(a, b) : a \in Elems, b \in OrdinaryElems} \cup {Menu(a, b) : a \in OrdinaryElems, b \in Elems}
CutMenus == UNION {{SubSeq(d, 1, n) : n \in 1 .. (Len(d) - 1)} :
              d \in {Menu(a, b) : a \in OrdinaryElems, b \in OrdinaryElems}}
MCDocuments == Whole \cup CutMenus

Id(bad) == [name |-> "GAME", bad |-> bad]
Name(n, marks) == Xml!Text(<<"name">>, n, marks)
Request(title, online, database) ==
    [id |-> Id(0), title |-> title, online |-> online, database |-> database,
     region |-> "usa", gamepad |-> TRUE, gc |-> FALSE]
Lines == <<[key |-> "OTHR", value |-> Xml!Text(<<"other">>, 5, 0)],
           [key |-> "GAME", value |-> Xml!Text(<<"listed">>, 6, 0)],
           [key |-> "GAME", value |-> Xml!Text(<<"listed again">>, 12, 0)]>>

\* Names of the declared length, one more, and one that is longer once escaped.
MCRequests == {
    Request(<<Name(7, 0)>>, TRUE, Lines), Request(<<Name(8, 0)>>, FALSE, <<>>),
    Request(<<Name(2, 1)>>, FALSE, <<>>), Request(<<Name(3, 1)>>, FALSE, <<>>),
    Request(<<Xml!NoText>>, FALSE, <<>>),
    Request(<<>>, TRUE, Lines), Request(<<>>, TRUE, <<>>),
    [Request(<<>>, FALSE, Lines) EXCEPT !.id = Id(1), !.gc = TRUE],
    [Request(<<>>, FALSE, Lines) EXCEPT !.gamepad = FALSE]}
=============================================================================
