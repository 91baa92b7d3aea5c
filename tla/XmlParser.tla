--------------------------------- MODULE XmlParser ---------------------------------
(******************************************************************************)
(* The parser of XML (parser/parser.cpp): a machine that reads one character  *)
(* at a time, from a stack of readers, and sends events to a SAX handler.     *)
(*                                                                            *)
(* A character is a string; a name that is spelled out in the code (xmlns,    *)
(* ENTITY, CDATA), a namespace URL and an entity name are one character.      *)
(* Left out: DOCTYPE with SYSTEM or PUBLIC and NDATA, which read files, and   *)
(* the entities of parameters, '%'.                                           *)
(******************************************************************************)
EXTENDS Integers, Sequences, SequencesExt

CONSTANTS
    LowCharacters,   \* the characters of names and of texts below 0x80, markup aside
    HighCharacters   \* those from 0x80 to 0xff

Spaces == {" ", "\n", "\t", "\r"}
isText(c) == c \in LowCharacters \cup HighCharacters \cup {":", "-", "two others"}

--------------------------------------------------------------------------------
(* Reading characters: a high character is itself in UTF-8, and a byte in      *)
(* ISO-8859-1, which a reader of UTF-8 takes as it is.                         *)

Byte(c) == "byte " \o c
Bytes == {Byte(c) : c \in HighCharacters}
OfByte(b) == CHOOSE c \in HighCharacters : Byte(c) = b
Decode(encoding, c) ==
    CASE c \in Bytes -> OfByte(c)
      [] c \in HighCharacters /\ encoding = "ISO-8859-1" -> "two others"
      [] OTHER -> c

Reader(chars, delimiter) ==
    [chars |-> chars, at |-> 1, encoding |-> "UTF-8", previousDelimiter |-> delimiter]

(* Readers that are finished leave the stack, and give back the delimiter.     *)
RECURSIVE DequeueReader(_)
DequeueReader(p) ==
    IF Len(p.readers) = 1 \/ Head(p.readers).at <= Len(Head(p.readers).chars) THEN p
    ELSE DequeueReader([p EXCEPT !.delimiter = Head(p.readers).previousDelimiter,
                                 !.readers = Tail(p.readers)])

NextChar(p) ==
    LET q == DequeueReader(p)
        r == Head(q.readers)
    IN IF r.at > Len(r.chars) THEN [q EXCEPT !.ended = TRUE]
       ELSE [q EXCEPT !.cur = Decode(r.encoding, r.chars[r.at]), !.readers[1].at = @ + 1]

EnqueueReader(p, chars) ==
    [p EXCEPT !.readers = <<Reader(chars, p.delimiter)>> \o @, !.delimiter = ""]

--------------------------------------------------------------------------------
(* The buffers, the events and the transitions.                                *)

Invalid(p) == [p EXCEPT !.invalid = TRUE, !.ended = TRUE]
Send(p, event) == [p EXCEPT !.events = Append(@, event)]
Go(p, state) == [p EXCEPT !.state = state]
GoNext(p, state) == Go(NextChar(p), state)
NewName(p) == [p EXCEPT !.name = <<>>, !.ns = <<>>]
(* A name keeps the low byte of its characters.                                *)
LowByte(c) == IF c \in HighCharacters THEN Byte(c) ELSE c
ExtendName(p) ==
    IF p.cur = ":" THEN Invalid(p) ELSE NextChar([p EXCEPT !.name = Append(@, LowByte(p.cur))])
ExtendText(p) == NextChar([p EXCEPT !.text = Append(@, p.cur)])
ExtendValue(p) == NextChar([p EXCEPT !.value = Append(@, p.cur)])
PutNameInNs(p) ==
    IF p.ns # <<>> THEN Invalid(p) ELSE NextChar([p EXCEPT !.ns = p.name, !.name = <<>>])
PushText(p) ==
    IF p.text = <<>> THEN p
    ELSE [Send(p, [event |-> "text", text |-> p.text]) EXCEPT !.text = <<>>]
EventElement(p) == Send(p, [event |-> "element", ns |-> p.ns, name |-> p.name])
EventAttrEnd(p) == Send(p, [event |-> "attributes end"])
EventElementEnd(p) == Send(p, [event |-> "element end", ns |-> p.ns, name |-> p.name])
UnnestSpecial(p) ==
    IF p.specialLevel = 0 THEN Invalid(p)
    ELSE Go([p EXCEPT !.specialLevel = @ - 1],
            IF p.specialLevel > 1 THEN "SpecialStart" ELSE "Outside")

--------------------------------------------------------------------------------
(* The states.  Outside and inside of texts.                                   *)

Outside(p) ==
    CASE p.cur = "<" -> GoNext(p, "Enter")
      [] p.cur \in Spaces /\ ~p.keepAllText -> NextChar(p)
      [] OTHER -> Go([p EXCEPT !.text = <<>>], "Text")

StartEntity(p) == GoNext([p EXCEPT !.stateBeforeEntity = p.state, !.entity = <<>>], "Entity")

Text(p) ==
    CASE p.cur = "&" -> StartEntity(p)
      [] p.cur = "<" -> GoNext(p, "Enter")
      [] p.cur = "\r" -> NextChar(p)
      [] OTHER -> ExtendText(p)

Enter(p) ==
    CASE p.cur = "?" -> GoNext(PushText(p), "PI")
      [] p.cur = "!" -> Go([NewName(p) EXCEPT !.specialLevel = 1], "SpecialStart")
      [] isText(p.cur) -> Go(NewName(PushText(p)), "Name")
      [] p.cur = "/" -> Go(NewName(NextChar(PushText(p))), "EndName")
      [] OTHER -> Invalid(p)

(* Elements and their attributes.                                              *)

Name(p) ==
    CASE p.cur \in Spaces /\ p.name = <<>> -> NextChar(p)
      [] p.cur \in Spaces /\ p.name # <<>> -> GoNext(EventElement(p), "Inside")
      [] p.cur = ":" -> PutNameInNs(p)
      [] p.cur = ">" -> GoNext(EventAttrEnd(EventElement(p)), "Outside")
      [] p.cur = "/" -> Go(EventElement(p), "Inside")
      [] isText(p.cur) /\ p.cur # ":" -> ExtendName(p)
      [] OTHER -> Invalid(p)

Inside(p) ==
    CASE isText(p.cur) -> Go(NewName(p), "AttrName")
      [] p.cur \in {"/", ">"} ->
            LET q == NextChar(p)
            IN IF q.ended THEN q
               ELSE Go(EventAttrEnd(q), IF p.cur = "/" THEN "End" ELSE "Outside")
      [] p.cur \in Spaces -> NextChar(p)
      [] OTHER -> Invalid(p)

AttrName(p) ==
    CASE p.cur = ":" -> PutNameInNs(p)
      [] isText(p.cur) /\ p.cur # ":" -> ExtendName(p)
      [] p.cur = "=" -> GoNext(p, "AttrEqual")
      [] p.cur = " " -> GoNext(p, "AttrBeforeEqual")
      [] OTHER -> Invalid(p)

AttrBeforeEqual(p) ==
    CASE p.cur = "=" -> GoNext(p, "AttrEqual")
      [] p.cur \in {" ", "\n", "\r"} -> NextChar(p)
      [] OTHER -> Invalid(p)

AttrEqual(p) ==
    CASE p.cur \in {"\"", "'"} ->
            Go([NextChar([p EXCEPT !.delimiter = p.cur]) EXCEPT !.value = <<>>], "AttrValue")
      [] p.cur \in Spaces -> NextChar(p)
      [] p.cur = "&" -> StartEntity(p)
      [] OTHER -> Invalid(p)

AttrValue(p) ==
    CASE p.cur = p.delimiter ->
            GoNext(Send(p, [event |-> "attribute", ns |-> p.ns, name |-> p.name,
                            value |-> p.value]), "Inside")
      [] p.cur = "&" /\ p.cur # p.delimiter -> StartEntity(p)
      [] OTHER -> ExtendValue(p)

End(p) ==
    IF p.cur # ">" THEN Invalid(p)
    ELSE Go([NextChar(Send(p, [event |-> "short element end"])) EXCEPT !.text = <<>>], "Outside")

EndName(p) ==
    CASE p.cur = ">" -> Go([NextChar(EventElementEnd(p)) EXCEPT !.text = <<>>], "Outside")
      [] p.cur = ":" -> PutNameInNs(p)
      [] isText(p.cur) /\ p.cur # ":" -> ExtendName(p)
      [] p.cur \in Spaces ->
            Go([NextChar(EventElementEnd(p)) EXCEPT !.text = <<>>], "EndNamePost")
      [] OTHER -> Invalid(p)

EndNamePost(p) ==
    CASE p.cur \in Spaces -> NextChar(p)
      [] p.cur = ">" -> GoNext(p, "Outside")
      [] OTHER -> Invalid(p)

--------------------------------------------------------------------------------
(* Processing instructions, comments and CDATA.                                *)

PI(p) == IF isText(p.cur) THEN Go(NewName(p), "PIName") ELSE NextChar(p)

PIName(p) ==
    IF isText(p.cur) THEN ExtendName(p)
    ELSE Go([NextChar(p) EXCEPT !.text = <<>>], "PIContents")

PIContents(p) == IF p.cur = "?" THEN GoNext(p, "PIEnd") ELSE ExtendText(p)

(* The declaration of XML: the encoding that is looked for is ISO-8859-1.      *)
PIEnd(p) ==
    IF p.cur # ">" THEN Invalid(p)
    ELSE LET sent == Send(p, [event |-> "PI", name |-> p.name, text |-> p.text])
             read == [sent EXCEPT
                        !.readers[1].encoding =
                            IF p.name = <<"xml">> /\ "ISO-8859-1" \in ToSet(p.text)
                            THEN "ISO-8859-1" ELSE @,
                        !.text = <<>>]
         IN GoNext(read, "Outside")

SpecialStart(p) ==
    CASE p.cur \in Spaces ->
            LET q == [NextChar(p) EXCEPT !.value = <<>>]
            IN CASE p.name = <<"!", "ENTITY">> -> Go(NewName(q), "EntityDecl")
                 [] p.name = <<"!", "DOCTYPE">> -> Go(NewName(q), "DocTypeName")
                 [] OTHER -> Go(q, "Special")
      [] p.cur = ">" ->
            IF p.specialLevel = 1 THEN UnnestSpecial(NextChar(p)) ELSE Invalid(p)
      [] p.cur = "[" /\ p.name = <<"!", "[", "CDATA">> ->
            GoNext([NewName(p) EXCEPT !.value = <<>>], "CData")
      [] OTHER ->
            LET q == ExtendName(p)
            IN IF Len(q.name) > 2 /\ SubSeq(q.name, 1, 3) = <<"!", "-", "-">>
               THEN Go([NewName(q) EXCEPT !.value = <<>>], "Comment") ELSE q

(* What may be the end is kept in the name until it is known not to be.        *)
NotTheEnd(p) == NewName(ExtendValue([p EXCEPT !.value = @ \o p.name]))

Comment(p) ==
    CASE p.cur = "-" -> IF Len(p.name) = 2 THEN NextChar(p) ELSE ExtendName(p)
      [] p.cur = ">" /\ Len(p.name) = 2 ->
            LET ended == [p EXCEPT !.name = Append(@, ">")]
                q == IF p.keepComments
                     THEN Send(PushText(ended), [event |-> "comment", text |-> p.value])
                     ELSE ended
            IN IF p.specialLevel = 1
               THEN Go(NextChar([q EXCEPT !.specialLevel = 0]),
                       IF q.text # <<>> THEN "Text" ELSE "Outside")
               ELSE UnnestSpecial(NextChar(q))
      [] OTHER -> NotTheEnd(p)

CData(p) ==
    CASE p.cur = "]" -> IF Len(p.name) = 2 THEN NextChar(p) ELSE ExtendName(p)
      [] p.cur = ">" /\ Len(p.name) = 2 ->
            LET q == NextChar(p)
            IN IF q.ended THEN q
               ELSE Go([q EXCEPT !.text = @ \o p.value, !.value = <<>>, !.specialLevel = @ - 1],
                       "Text")
      [] OTHER -> NotTheEnd(p)

--------------------------------------------------------------------------------
(* The document type, with its declarations.                                   *)

DocTypeName(p) ==
    CASE p.cur \in Spaces /\ p.name = <<>> -> NextChar(p)
      [] p.cur \in Spaces /\ p.name # <<>> -> Go([NextChar(p) EXCEPT !.value = <<>>], "DocTypeValue")
      [] p.cur \in {"[", "<", "]", ">"} -> Invalid(p)
      [] p.cur = ":" -> PutNameInNs(p)
      [] OTHER -> ExtendName(p)

DocTypeValue(p) ==
    CASE p.cur \in Spaces -> IF p.value = <<>> THEN NextChar(p) ELSE Invalid(p)
      [] p.cur = "[" -> GoNext([p EXCEPT !.specialLevel = @ + 1], "Special")
      [] OTHER -> ExtendValue(p)

Special(p) ==
    CASE p.cur \in {"<", "["} ->
            Go(NewName(NextChar([p EXCEPT !.specialLevel = @ + 1])), "SpecialStart")
      [] p.cur \in {">", "]"} ->
            UnnestSpecial(NextChar(IF p.name = <<"!", "ELEMENT">> THEN NewName(p) ELSE p))
      [] OTHER -> ExtendValue(p)

EntityDecl(p) ==
    CASE p.cur \in Spaces /\ p.name = <<>> -> NextChar(p)
      [] p.cur \in Spaces /\ p.name # <<>> ->
            Go([NextChar(p) EXCEPT !.value = <<>>], "EntityValue")
      [] isText(p.cur) -> ExtendName(p)
      [] OTHER -> Invalid(p)

EntityValue(p) ==
    CASE p.cur \in Spaces -> IF p.value = <<>> THEN NextChar(p) ELSE Invalid(p)
      [] p.cur \in {"\"", "'"} ->
            Go([NextChar([p EXCEPT !.delimiter = p.cur]) EXCEPT !.value = <<>>], "EntityValQuot")
      [] OTHER -> ExtendValue(p)

EntityValQuot(p) ==
    IF p.cur # p.delimiter THEN ExtendValue(p)
    ELSE GoNext([p EXCEPT !.entities = Append(@, [name |-> p.name, value |-> p.value])],
                "EntityValEnd")

EntityValEnd(p) ==
    CASE p.cur \in Spaces -> NextChar(p)
      [] p.cur = ">" -> Go(p, "SpecialEnd")
      [] OTHER -> Invalid(p)

SpecialEnd(p) ==
    CASE p.cur = ">" -> UnnestSpecial(NextChar(p))
      [] p.cur \in Spaces -> NextChar(p)
      [] OTHER -> Invalid(p)

--------------------------------------------------------------------------------
(* Entities: a character by its number, one of XML, or one of the document,    *)
(* whose value is read in its place.                                           *)

XmlEntities == [lt |-> "<", gt |-> ">", amp |-> "&", quot |-> "\"", apos |-> "'"]
Number(c) == "number " \o c
Numbers == {Number(c) : c \in HighCharacters}
OfNumber(n) == CHOOSE c \in HighCharacters : Number(c) = n

ExtendTextValue(p, c) ==
    CASE p.stateBeforeEntity = "Text" -> [p EXCEPT !.text = Append(@, c)]
      [] p.stateBeforeEntity = "AttrValue" -> [p EXCEPT !.value = Append(@, c)]
      [] OTHER -> Invalid(p)

Entity(p) ==
    IF p.cur # ";" THEN NextChar([p EXCEPT !.entity = Append(@, p.cur)])
    ELSE LET known == SelectSeq(p.entities, LAMBDA e : e.name = p.entity)
             found ==
               CASE Len(p.entity) = 2 /\ Head(p.entity) = "#" /\ p.entity[2] \in Numbers ->
                        ExtendTextValue(p, OfNumber(p.entity[2]))
                 [] Len(p.entity) = 1 /\ Head(p.entity) \in DOMAIN XmlEntities ->
                        ExtendTextValue(p, XmlEntities[Head(p.entity)])
                 [] known # <<>> -> EnqueueReader(p, Last(known).value)
                 [] OTHER -> Invalid(p)
         IN GoNext(found, p.stateBeforeEntity)

--------------------------------------------------------------------------------
Step(p) ==
    CASE p.state = "Outside" -> Outside(p)
      [] p.state = "Text" -> Text(p)
      [] p.state = "Enter" -> Enter(p)
      [] p.state = "Name" -> Name(p)
      [] p.state = "Inside" -> Inside(p)
      [] p.state = "AttrName" -> AttrName(p)
      [] p.state = "AttrBeforeEqual" -> AttrBeforeEqual(p)
      [] p.state = "AttrEqual" -> AttrEqual(p)
      [] p.state = "AttrValue" -> AttrValue(p)
      [] p.state = "End" -> End(p)
      [] p.state = "EndName" -> EndName(p)
      [] p.state = "EndNamePost" -> EndNamePost(p)
      [] p.state = "PI" -> PI(p)
      [] p.state = "PIName" -> PIName(p)
      [] p.state = "PIContents" -> PIContents(p)
      [] p.state = "PIEnd" -> PIEnd(p)
      [] p.state = "SpecialStart" -> SpecialStart(p)
      [] p.state = "Special" -> Special(p)
      [] p.state = "SpecialEnd" -> SpecialEnd(p)
      [] p.state = "Comment" -> Comment(p)
      [] p.state = "CData" -> CData(p)
      [] p.state = "DocTypeName" -> DocTypeName(p)
      [] p.state = "DocTypeValue" -> DocTypeValue(p)
      [] p.state = "EntityDecl" -> EntityDecl(p)
      [] p.state = "EntityValue" -> EntityValue(p)
      [] p.state = "EntityValQuot" -> EntityValQuot(p)
      [] p.state = "EntityValEnd" -> EntityValEnd(p)
      [] p.state = "Entity" -> Entity(p)

RECURSIVE InternalParse(_)
InternalParse(p) ==
    IF p.invalid THEN p ELSE IF p.ended THEN PushText(p) ELSE InternalParse(Step(p))

(* The events of a file; invalid tells that an exception ends them.            *)
Parse(chars, keepAllText, keepComments) ==
    InternalParse(NextChar(
        [state |-> "Outside", stateBeforeEntity |-> "", specialLevel |-> 0,
         name |-> <<>>, ns |-> <<>>, value |-> <<>>, text |-> <<>>, entity |-> <<>>,
         delimiter |-> "", entities |-> <<>>,
         readers |-> <<Reader(chars, "")>>,
         cur |-> "", ended |-> FALSE, invalid |-> FALSE, events |-> <<>>,
         keepAllText |-> keepAllText, keepComments |-> keepComments]))
================================================================================
