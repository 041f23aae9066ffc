------------------------------ MODULE MetaXml ------------------------------
(***************************************************************************)
(* The metadata of an injected title: crates/core/src/meta (titleid.rs     *)
(* derive, appxml.rs generate, metaxml.rs patch), with the choice of its   *)
(* name in pipeline.rs (resolve_title) and assets/gametdb.rs               *)
(* (parse_wiitdb).                                                         *)
(*                                                                         *)
(* patch copies the events that quick-xml reads from the base's meta.xml   *)
(* to a writer, one per pass of its loop, and rewrites the elements it     *)
(* knows.  An event is a record; of a text it is known what it says and    *)
(* how many bytes it takes, "&" apart, which is escaped as it is written.  *)
(***************************************************************************)
EXTENDS Integers, Sequences, FiniteSetsExt

CONSTANTS Documents, \* the meta.xml of base titles, as event sequences
          Requests,  \* what is injected: id, title, online, database, region, gamepad, gc
          NoLength,  \* an element without a length attribute, or with one that is no number
          Garbled    \* the attributes are not well formed, up to the length

Text(says, plain, marks) == [says |-> says, plain |-> plain, marks |-> marks]
NoText == Text(<<>>, 0, 0)
TextLen(t) == t.plain + t.marks
EscapedLen(t) == t.plain + 5 * t.marks

\* The events of quick-xml's reader; a name is split at its language suffix.
Event(ev, name, type, length, text) ==
    [ev |-> ev, name |-> name, type |-> type, length |-> length, text |-> text]
Start(name, type, length) == Event("start", name, type, length, NoText)
SelfClosed(name, type, length) == Event("empty", name, type, length, NoText)
End(name) == Event("end", name, "", NoLength, NoText)
Chars(ev, text) == Event(ev, <<"", "">>, "", NoLength, text)

Texts == [says : Seq(STRING), plain : Nat, marks : Nat]

\* The events patch does not look at are all comments here, an error of the reader is "broken".
Kinds == {"start", "empty", "end", "text", "cdata", "comment", "broken"}
Events == [ev : Kinds, name : STRING \X STRING, type : STRING,
           length : Nat \cup {NoLength, Garbled}, text : Texts]

\* The attributes are not well formed between the length and the type.
GarbledType == "garbled"

VARIABLES req, doc, pc, pos, out, app

vars == <<req, doc, pc, pos, out, app>>

(***************************************************************************)
(* The values of the game.                                                 *)
(***************************************************************************)
LANGS == {"ja", "en", "fr", "de", "it", "es", "zhs", "ko", "nl", "pt", "ru", "zht"}

\* An id is read lossily: a byte that is no UTF-8 becomes one character of three bytes.
IdLen(bytes, bad) == bytes + 2 * bad

TitleIds(id) ==
    [title_id |-> Text(<<"title", id.name>>, 16, 0),
     group_id |-> Text(<<"group", id.name>>, 8, 0),
     reserved_flag2 |-> Text(<<"group", id.name>>, 8, 0),
     product_code |-> Text(<<"WUP-N-", id.name>>, 6 + IdLen(4, id.bad), 0)]

GameId(id) == Text(<<id.name>>, IdLen(6, id.bad), 0)

\* The first line of the database that is of this id, if there is one.
ParseWiitdb(lines, id) ==
    LET hits == {i \in DOMAIN lines : lines[i].key = id.name}
    IN IF hits = {} THEN <<>> ELSE <<lines[Min(hits)].value>>

ResolveTitle(r) ==
    LET found == IF r.online THEN ParseWiitdb(r.database, r.id) ELSE <<>>
    IN Head(r.title \o found \o <<GameId(r.id)>>)

DrcUse(gc, gamepad) ==
    CASE gc /\ gamepad -> Text(<<"65537">>, 5, 0)
      [] gc # gamepad  -> Text(<<"1">>, 1, 0)
      [] OTHER         -> Text(<<"0">>, 1, 0)

Values(r) ==
    LET ids == TitleIds(r.id)
    IN [title_id |-> ids.title_id, group_id |-> ids.group_id,
        reserved_flag2 |-> ids.reserved_flag2, product_code |-> ids.product_code,
        region |-> Text(<<r.region>>, 8, 0), drc_use |-> DrcUse(r.gc, r.gamepad),
        longname |-> ResolveTitle(r), shortname |-> ResolveTitle(r), publisher |-> NoText]

Localized == {"longname", "shortname", "publisher"}

Replaced(name) ==
    IF name[1] \in Localized THEN name[2] \in LANGS
                             ELSE name[2] = "" /\ name[1] \in DOMAIN Values(req)
Replacement(name) == Values(req)[name[1]]

\* Mutant: the length is taken before the text is escaped.
MeasuredPlain(t) == TextLen(t)
Measured(t) == EscapedLen(t)

\* check_length: a string has at most length bytes, a hexBinary exactly twice its digits.
WrongLength(e, t) ==
    /\ e.length \notin {NoLength, Garbled}
    /\ \/ e.type = "string" /\ Measured(t) > e.length
       \/ e.type = "hexBinary" /\ TextLen(t) # 2 * e.length

\* read_attr fails: of the length, or of the type, which is asked for only if there is a length.
Unreadable(e) == e.length = Garbled \/ (e.length # NoLength /\ e.type = GarbledType)

\* The element passes check_length with the value it is to hold.
Passes(e, t) == ~ Unreadable(e) /\ ~ WrongLength(e, t)

(***************************************************************************)
(* generate, then patch.                                                   *)
(***************************************************************************)
Init ==
    /\ req \in Requests /\ doc \in Documents
    /\ pc = "app" /\ pos = 1 /\ out = <<>> /\ app = <<>>

Generate ==
    /\ pc = "app"
    /\ app' = <<TitleIds(req.id).title_id, TitleIds(req.id).group_id>>
    /\ pc' = "read"
    /\ UNCHANGED <<req, doc, pos, out>>

Reading(i) == pc = "read" /\ i \in DOMAIN doc /\ doc[i].ev # "broken"
Target(e) == e.ev \in {"start", "empty"} /\ Replaced(e.name)

PassThrough ==
    /\ Reading(pos) /\ ~ Target(doc[pos])
    /\ out' = Append(out, doc[pos]) /\ pos' = pos + 1
    /\ UNCHANGED <<req, doc, pc, app>>

\* No event is written for an empty text.
TextEvent(t) == IF TextLen(t) = 0 THEN <<>> ELSE <<Chars("text", t)>>

\* The event after the start is dropped if it is text, and the one after that is taken for the
\* end, whatever it is; past the end of the document there is none.
AfterText == IF Reading(pos + 1) /\ doc[pos + 1].ev = "text" THEN pos + 2 ELSE pos + 1
EventAt(i) == IF i \in DOMAIN doc THEN <<doc[i]>> ELSE <<>>

Replace ==
    /\ Reading(pos) /\ Target(doc[pos]) /\ doc[pos].ev = "start"
    /\ Passes(doc[pos], Replacement(doc[pos].name))
    /\ AfterText \in DOMAIN doc => Reading(AfterText)
    /\ out' = out \o <<doc[pos]>> \o TextEvent(Replacement(doc[pos].name)) \o EventAt(AfterText)
    /\ pos' = AfterText + 1
    /\ UNCHANGED <<req, doc, pc, app>>

\* A self-closing element becomes a start, the text and an end.
Expand ==
    /\ Reading(pos) /\ Target(doc[pos]) /\ doc[pos].ev = "empty"
    /\ LET e == doc[pos] IN
        /\ Passes(e, Replacement(e.name))
        /\ out' = out \o <<Start(e.name, e.type, e.length)>>
                      \o TextEvent(Replacement(e.name)) \o <<End(e.name)>>
    /\ pos' = pos + 1
    /\ UNCHANGED <<req, doc, pc, app>>

Refuse ==
    /\ Reading(pos) /\ Target(doc[pos]) /\ WrongLength(doc[pos], Replacement(doc[pos].name))
    /\ pc' = "refused"
    /\ UNCHANGED <<req, doc, pos, out, app>>

\* The reader's error, in the loop, in the content of an element to be replaced or in its
\* attributes.
ReadFails ==
    /\ pc = "read"
    /\ \/ Reading(pos) /\ Target(doc[pos]) /\ Unreadable(doc[pos])
       \/ \E i \in {pos, pos + 1, AfterText} \cap DOMAIN doc :
             /\ doc[i].ev = "broken"
             /\ i > pos => /\ Target(doc[pos]) /\ doc[pos].ev = "start"
                           /\ Passes(doc[pos], Replacement(doc[pos].name))
    /\ pc' = "unreadable"
    /\ UNCHANGED <<req, doc, pos, out, app>>

Finish ==
    /\ pc = "read" /\ pos > Len(doc)
    /\ pc' = "done"
    /\ UNCHANGED <<req, doc, pos, out, app>>

Next == Generate \/ PassThrough \/ Replace \/ Expand \/ Refuse \/ ReadFails \/ Finish

Spec == Init /\ [][Next]_vars

-----------------------------------------------------------------------------
(***************************************************************************)
(* Reading the file: its elements in order, each with its own characters;  *)
(* of those that have not ended the innermost comes first.                 *)
(***************************************************************************)
Unread == [open |-> <<>>, elements |-> <<>>]
Element(e) == [name |-> e.name, type |-> e.type, length |-> e.length, content |-> <<>>]

Read(r, e) ==
    CASE e.ev = "start" -> [open |-> <<Len(r.elements) + 1>> \o r.open,
                            elements |-> Append(r.elements, Element(e))]
      [] e.ev = "empty" -> [r EXCEPT !.elements = Append(@, Element(e))]
      [] e.ev = "end" /\ r.open # <<>> -> [r EXCEPT !.open = Tail(@)]
      [] e.ev \in {"text", "cdata"} /\ r.open # <<>> ->
             [r EXCEPT !.elements[Head(r.open)].content = Append(@, e.text)]
      [] OTHER -> r

\* What is read of d after each of its events.
After(d) ==
    LET read[n \in 0 .. Len(d)] == IF n = 0 THEN Unread ELSE Read(read[n - 1], d[n])
    IN read

Elements(d) == After(d)[Len(d)].elements

\* What an element is to hold; a text of no bytes is none.
Asked(e) ==
    IF ~ Replaced(e.name) THEN e.content
    ELSE IF TextLen(Replacement(e.name)) = 0 THEN <<>> ELSE <<Replacement(e.name)>>

Fits(e) ==
    LET t == Replacement(e.name) IN
    Replaced(e.name) /\ e.length \notin {NoLength, Garbled} =>
        /\ e.type = "string" => ~ EscapedLen(t) > e.length
        /\ e.type = "hexBinary" => TextLen(t) = 2 * e.length

NamesTheGame ==
    /\ Elements(out) = [n \in DOMAIN Elements(doc) |->
            [Elements(doc)[n] EXCEPT !.content = Asked(Elements(doc)[n])]]
    /\ \A n \in DOMAIN Elements(doc) :
          LET e == Elements(doc)[n] IN Fits(e) /\ (Replaced(e.name) => e.length # Garbled)

\* What the elements to be replaced hold, in every base title there is: text, or nothing.  (The
\* document may be cut off in one.)
Plain(d) ==
    \A i \in DOMAIN d : Target(d[i]) /\ d[i].ev = "start" =>
        \E j \in (i + 1) .. (Len(d) + 1) :
            /\ \A k \in (i + 1) .. (j - 1) : d[k].ev = "text"
            /\ j \in DOMAIN d => d[j].ev = "end"

\* The meta.xml of a finished title has the elements of the base's, and each holds what it held
\* or, if it is one of the game's, the game's value within the length it declares, under the
\* title id of app.xml; a base is refused only for a value that does not fit, and one whose
\* lengths cannot be read is not patched as if it had none.
TitleNamesTheGame ==
    /\ pc = "done" /\ Plain(doc) => NamesTheGame
    /\ pc = "done" /\ Plain(doc) => \A n \in DOMAIN Elements(out) :
          LET e == Elements(out)[n] IN
            /\ e.name = <<"title_id", "">> => e.content = <<app[1]>>
            /\ e.name = <<"group_id", "">> => e.content = <<app[2]>>
    /\ pc = "refused" => \E n \in DOMAIN Elements(doc) : ~ Fits(Elements(doc)[n])
=============================================================================
