-------------------------------- MODULE XmlDocument --------------------------------
(******************************************************************************)
(* Documents as they are written (ElementRef::toXML, dom/toxml.cpp, on        *)
(* BufferedWriter) and read again: the events of the parser build a document  *)
(* (SAXHandlerDom).  A document is the list of its nodes in document order.   *)
(*                                                                            *)
(* Both keep the prefixes in scope in a NamespaceAlias, here a stack of       *)
(* levels: what NamespaceAlias.tla shows of declarations that declare no      *)
(* prefix for a namespace that the level has, as those here, is that pop()    *)
(* gives back the level below.                                                *)
(******************************************************************************)
EXTENDS XmlParser, XmlNodes, FiniteSets

CONSTANTS
    Families,     \* families of documents: [contents, maxNodes], the nodes they are made
                  \* of and the bound on their number, by the name of the family
    Styles        \* how a file is written by hand: see PrintFile

VARIABLES
    document,
    family        \* the one it is of

vars == <<document, family>>

Node(content, father) == [content |-> content, father |-> father]

Nodes == DOMAIN document
IsElement(e) == document[e].content.kind = "element"
IsText(content) == content.kind = "text"
FatherOf(e) == document[e].father
ChildrenOf(e) == SelectSeq([i \in Nodes |-> i], LAMBDA x : FatherOf(x) = e)
GetChild(e) == IF ChildrenOf(e) = <<>> THEN 0 ELSE Head(ChildrenOf(e))
GetYounger(e) ==
    LET younger == SelectSeq(ChildrenOf(FatherOf(e)), LAMBDA x : x > e)
    IN IF younger = <<>> THEN 0 ELSE Head(younger)

--------------------------------------------------------------------------------
(* The prefixes in scope.                                                      *)

NoAlias == [namespaceOf |-> [p \in {"p", "q", Xmlns} |-> Nothing],
            prefixOf |-> [n \in {"n1", "n2", Nothing} |-> Nothing]]
Level(scopes) == Last(scopes)
Push(scopes) == Append(scopes, Last(scopes))
Pop(scopes) == Front(scopes)
SetNamespacePrefix(scopes, prefix, ns) ==
    [scopes EXCEPT ![Len(scopes)] = [namespaceOf |-> [@.namespaceOf EXCEPT ![prefix] = ns],
                                     prefixOf |-> [@.prefixOf EXCEPT ![ns] = prefix]]]
Declare(scopes, aliases) ==
    FoldLeft(LAMBDA s, alias : SetNamespacePrefix(s, alias.prefix, alias.ns), scopes, aliases)

RECURSIVE ScopesOf(_)
ScopesOf(e) ==
    IF e = 0 THEN <<NoAlias>>
    ELSE Declare(Push(ScopesOf(FatherOf(e))), document[e].content.aliases)
InScope(e) == Level(ScopesOf(e))

--------------------------------------------------------------------------------
(* The document grows by its end.  Its names have prefixes, as in the file it  *)
(* was read from; no text is next to another one, or out of any element.       *)

Init == document = <<>> /\ family \in DOMAIN Families

RECURSIVE Ancestors(_)
Ancestors(e) == IF e = 0 THEN {0} ELSE {e} \cup Ancestors(FatherOf(e))

HasPrefix(level, ns, prefixes) ==
    IF ns = Nothing THEN level.namespaceOf[Xmlns] = Nothing
    ELSE \E p \in prefixes : level.namespaceOf[p] = ns

AppendLastChild(father, content) ==
    /\ Len(document) < Families[family].maxNodes
    /\ father \in Ancestors(Len(document))
    /\ father # 0 => IsElement(father)
    /\ IsText(content) => /\ father # 0
                          /\ LET brothers == ChildrenOf(father)
                             IN brothers # <<>> => ~IsText(document[Last(brothers)].content)
    /\ LET level == Level(Declare(ScopesOf(father), content.aliases))
       IN /\ HasPrefix(level, content.ns, DOMAIN level.namespaceOf)
          /\ \A i \in DOMAIN content.attributes :
                 LET ns == content.attributes[i].ns
                 IN ns # Nothing => HasPrefix(level, ns, {"p", "q"})
    /\ document' = Append(document, Node(content, father))
    /\ UNCHANGED family

Next == \E father \in 0 .. Len(document), content \in Families[family].contents :
            AppendLastChild(father, content)

Spec == Init /\ [][Next]_vars

--------------------------------------------------------------------------------
(* Writing characters (BufferedWriter::serializeText).                         *)

(* Mutant of SerializeChar: what is between quotes is not special.             *)
SerializeCharRaw(c, protect, protectQuote, encoding) ==
    CASE c = "<" /\ protect -> <<"&", "lt", ";">>
      [] c = ">" /\ protect -> <<"&", "gt", ";">>
      [] c = "&" /\ protect -> <<"&", "amp", ";">>
      [] OTHER -> <<c>>

SerializeChar(c, protect, protectQuote, encoding) ==
    CASE c \in HighCharacters /\ encoding = "ISO-8859-1" -> <<Byte(c)>>
      [] c \in HighCharacters /\ encoding = "US-ASCII" -> <<"&", "#", Number(c), ";">>
      [] c = "<" /\ protect -> <<"&", "lt", ";">>
      [] c = ">" /\ protect -> <<"&", "gt", ";">>
      [] c = "\"" /\ protectQuote -> <<"&", "quot", ";">>
      [] c = "&" /\ protect -> <<"&", "amp", ";">>
      [] OTHER -> <<c>>

StartCData == <<"<", "!", "[", "CDATA", "[">>
EndCData == <<"]", "]", ">">>

SerializeText(text, protectQuote, encoding) ==
    FlattenSeq([i \in DOMAIN text |-> SerializeChar(text[i], TRUE, protectQuote, encoding)])
SerializeCData(text, encoding) ==
    LET Chars(c) == SerializeChar(c, FALSE, FALSE, encoding)
        Written(c) == IF Chars(c)[1] = "&" /\ c # "&" THEN EndCData \o Chars(c) \o StartCData
                      ELSE Chars(c)
    IN StartCData \o FlattenSeq([i \in DOMAIN text |-> Written(text[i])]) \o EndCData

(* The name of a key: KeyCache::getKey.                                        *)
GetKey(level, ns, name) ==
    IF ns = Nothing \/ level.prefixOf[ns] = Xmlns THEN name
    ELSE <<level.prefixOf[ns], ":">> \o name

AliasKey(prefix) == IF prefix = Xmlns THEN <<Xmlns>> ELSE <<Xmlns, ":", prefix>>
Attribute(key, value) == <<" ">> \o key \o <<"=", "\"">> \o value \o <<"\"">>

(* The attributes of an element as they are written: sorted by their names,    *)
(* those that declare prefixes are the last ones.                              *)
WriteAttributes(content, level, sort, encoding) ==
    LET aliases == FlattenSeq([i \in DOMAIN content.aliases |->
                       Attribute(AliasKey(content.aliases[i].prefix),
                                 IF content.aliases[i].ns = Nothing THEN <<>>
                                 ELSE <<content.aliases[i].ns>>)])
        others == FlattenSeq([i \in DOMAIN content.attributes |->
                       LET a == content.attributes[i]
                       IN Attribute(GetKey(level, a.ns, a.name),
                                    SerializeText(a.value, TRUE, encoding))])
    IN IF sort THEN others \o aliases ELSE aliases \o others

EndTag(w, key) == [w EXCEPT !.out = @ \o <<"<", "/">> \o key \o <<">">>]
NewLine(w, flags) ==
    IF w.lastWasText \/ flags.noIndent THEN w ELSE [w EXCEPT !.out = Append(@, "\n")]

(* The node w.current, down to the sign that ends the start of an element.     *)
WriteNode(w, flags) ==
    LET content == document[w.current].content
        Add(v, chars) == [v EXCEPT !.out = @ \o chars, !.lastWasText = IsText(content)]
    IN CASE content.kind = "text" ->
              Add(w, IF content.cdata THEN SerializeCData(content.text, flags.encoding)
                     ELSE SerializeText(content.text, FALSE, flags.encoding))
         [] content.kind = "comment" ->
              Add(w, <<"<", "!", "-", "-", " ">> \o content.text \o <<" ", "-", "-", ">">>)
         [] content.kind = "PI" ->
              Add(w, <<"<", "?">> \o content.name \o <<" ">> \o content.text \o <<"?", ">">>
                     \o IF FatherOf(w.current) = FatherOf(w.top) THEN <<"\n">> ELSE <<>>)
         [] content.kind = "element" ->
              LET v == [NewLine(w, flags) EXCEPT !.scopes = Declare(@, content.aliases)]
                  level == Level(v.scopes)
              IN Add(v, <<"<">> \o GetKey(level, content.ns, content.name)
                        \o WriteAttributes(content, level, flags.sort, flags.encoding)
                        \o IF GetChild(w.current) # 0 THEN <<">">> ELSE <<"/", ">">>)

KeyOf(w) == GetKey(Level(w.scopes), document[w.current].content.ns,
                   document[w.current].content.name)
CloseElement(w, flags) ==
    IF GetChild(w.current) = 0 THEN w
    ELSE EndTag([NewLine(w, flags) EXCEPT !.lastWasText = FALSE], KeyOf(w))

(* Mutant of MoveToYounger: the scope of the brother is not left.              *)
MoveToYoungerInside(w) == [w EXCEPT !.current = GetYounger(@)]
MoveToYounger(w) == [w EXCEPT !.current = GetYounger(@), !.scopes = Push(Pop(@))]

RECURSIVE WriteFrom(_, _), AfterNode(_, _)
WriteFrom(w, flags) ==
    LET v == WriteNode(w, flags)
    IN IF GetChild(v.current) # 0
       THEN WriteFrom([v EXCEPT !.current = GetChild(@), !.scopes = Push(@)], flags)
       ELSE AfterNode(v, flags)
AfterNode(w, flags) ==
    LET v == CloseElement(w, flags)
    IN IF v.current = v.top
       THEN IF GetYounger(v.top) = 0 /\ ~flags.noIndent THEN Append(v.out, "\n") ELSE v.out
       ELSE IF GetYounger(v.current) = 0
       THEN AfterNode([v EXCEPT !.current = FatherOf(@), !.scopes = Pop(@)], flags)
       ELSE WriteFrom(MoveToYounger(v), flags)

XMLHeader(encoding) ==
    <<"<", "?", "xml", " ", "encoding", "=", "\"", encoding, "\"", "?", ">", "\n">>

(* The children of the root, each with a NamespaceAlias of its own.            *)
ToXML(flags) ==
    LET top == ChildrenOf(0)
        File(e) == WriteFrom([current |-> e, top |-> e, lastWasText |-> TRUE,
                              scopes |-> Push(<<NoAlias>>), out |-> <<>>], flags)
    IN (IF top = <<>> THEN <<>> ELSE XMLHeader(flags.encoding))
       \o FlattenSeq([i \in DOMAIN top |-> File(top[i])])

--------------------------------------------------------------------------------
(* Reading: the events make a document (SAXHandlerDom).                        *)

Reject(h) == [h EXCEPT !.invalid = TRUE]
Content(h) == h.nodes[h.current].content
AppendNode(h, content) == [h EXCEPT !.nodes = Append(@, Node(content, h.current))]

OnElement(h, e) ==
    LET scopes == Push(h.scopes)
        prefix == IF e.ns = <<>> THEN Nothing ELSE Head(e.ns)
        ns == Level(scopes).namespaceOf[IF prefix = Nothing THEN Xmlns ELSE prefix]
        new == AppendNode(h, [Element(ns, <<>>, <<>>) EXCEPT !.name = e.name])
    IN [new EXCEPT !.current = Len(new.nodes), !.scopes = scopes, !.elementPrefix = prefix,
                   !.deferred = prefix # Nothing /\ ns = Nothing]

(* A declaration names the element again when it is of its prefix.             *)
DeclareAlias(h, prefix, ns, renames) ==
    LET named == IF renames THEN [h EXCEPT !.nodes[h.current].content.ns = ns] ELSE h
    IN [named EXCEPT !.scopes = SetNamespacePrefix(@, prefix, ns),
                     !.nodes[h.current].content.aliases =
                         Append(@, [prefix |-> prefix, ns |-> ns])]

OnAttr(h, e) ==
    CASE e.ns = <<Xmlns>> ->
            IF e.value = <<>> THEN Reject(h)
            ELSE LET renames == Head(e.name) = h.elementPrefix
                     declared == DeclareAlias(h, Head(e.name), Head(e.value), renames)
                 IN [declared EXCEPT !.deferred = @ /\ ~renames]
      [] e.ns = <<>> /\ e.name = <<Xmlns>> ->
            DeclareAlias(h, Xmlns, IF e.value = <<>> THEN Nothing ELSE Head(e.value),
                         h.elementPrefix = Nothing)
      [] OTHER ->
            [h EXCEPT !.parsed = Append(@, [prefix |-> IF e.ns = <<>> THEN Nothing ELSE Head(e.ns),
                                            name |-> e.name, value |-> e.value])]

(* Mutant of OnAttrEnd: the first declarations only.                        *)
OnAttrEndEarly(h) ==
    LET level == h.scopes[Len(h.scopes) - 1]
        Resolved(a) == IF a.prefix = Nothing THEN Nothing ELSE level.namespaceOf[a.prefix]
    IN IF h.deferred \/ \E a \in ToSet(h.parsed) : a.prefix # Nothing /\ Resolved(a) = Nothing
       THEN Reject(h)
       ELSE [h EXCEPT !.nodes[h.current].content.attributes =
                          [i \in DOMAIN h.parsed |-> [ns |-> Resolved(h.parsed[i]),
                                                      name |-> h.parsed[i].name,
                                                      value |-> h.parsed[i].value]],
                      !.parsed = <<>>, !.elementPrefix = Nothing]

(* The attributes are named once all the declarations are known.               *)
OnAttrEnd(h) ==
    LET Resolved(a) == IF a.prefix = Nothing THEN Nothing ELSE Level(h.scopes).namespaceOf[a.prefix]
    IN IF h.deferred \/ \E a \in ToSet(h.parsed) : a.prefix # Nothing /\ Resolved(a) = Nothing
       THEN Reject(h)
       ELSE [h EXCEPT !.nodes[h.current].content.attributes =
                          [i \in DOMAIN h.parsed |-> [ns |-> Resolved(h.parsed[i]),
                                                      name |-> h.parsed[i].name,
                                                      value |-> h.parsed[i].value]],
                      !.parsed = <<>>, !.elementPrefix = Nothing]

ElementEnds(h) == [h EXCEPT !.scopes = Pop(@), !.current = h.nodes[@].father]
OnElementEnd(h, e) ==
    LET prefix == IF e.ns = <<>> THEN Xmlns ELSE Head(e.ns)
        ns == Level(h.scopes).namespaceOf[prefix]
    IN IF h.current = 0 THEN Reject(h)
       ELSE IF (prefix # Xmlns /\ ns = Nothing) \/ ns # Content(h).ns \/ e.name # Content(h).name
       THEN Reject(h) ELSE ElementEnds(h)

IsSpaces(text) == ToSet(text) \subseteq Spaces
OnText(h, text) ==
    IF h.current = 0 THEN IF Head(text) = ">" THEN Reject(h) ELSE h
    ELSE IF h.keepTextMode # "all" /\ IsSpaces(text) THEN h
    ELSE AppendNode(h, Leaf("text", text, FALSE))

SendEvent(h, e) ==
    IF h.invalid THEN h
    ELSE CASE e.event = "element" -> OnElement(h, e)
           [] e.event = "attribute" -> OnAttr(h, e)
           [] e.event = "attributes end" -> OnAttrEnd(h)
           [] e.event = "element end" -> OnElementEnd(h, e)
           [] e.event = "short element end" -> IF h.current = 0 THEN Reject(h) ELSE ElementEnds(h)
           [] e.event = "text" -> OnText(h, e.text)
           [] e.event = "comment" -> AppendNode(h, Leaf("comment", e.text, FALSE))
           [] e.event = "PI" ->
                IF e.name = <<"xml">> THEN h
                ELSE AppendNode(h, [Leaf("PI", e.text, FALSE) EXCEPT !.name = e.name])

(* The document that the events of a file give.                                *)
StartHandler(keepTextMode) ==
    [nodes |-> <<>>, current |-> 0, scopes |-> Push(<<NoAlias>>),
     elementPrefix |-> Nothing, deferred |-> FALSE, parsed |-> <<>>,
     keepTextMode |-> keepTextMode, invalid |-> FALSE]

EndDocument(h) == [nodes |-> h.nodes, invalid |-> h.invalid \/ h.current # 0]

SendEvents(parsed, keepTextMode) ==
    IF parsed.invalid THEN [nodes |-> <<>>, invalid |-> TRUE]
    ELSE EndDocument(FoldLeft(SendEvent, StartHandler(keepTextMode), parsed.events))

Read(chars, keepAllText, keepComments, keepTextMode) ==
    SendEvents(Parse(chars, keepAllText, keepComments), keepTextMode)

--------------------------------------------------------------------------------
(* What a document is, whatever the order of attributes, and what is kept of   *)
(* it by a way to read it.                                                     *)

RECURSIVE Tree(_, _)
Tree(nodes, e) ==
    LET c == nodes[e].content
        children == SelectSeq([i \in DOMAIN nodes |-> i], LAMBDA x : nodes[x].father = e)
    IN [kind |-> c.kind, ns |-> c.ns, name |-> c.name, aliases |-> ToSet(c.aliases),
        attributes |-> ToSet(c.attributes), text |-> c.text,
        children |-> [i \in DOMAIN children |-> Tree(nodes, children[i])]]
Trees(nodes) ==
    LET top == SelectSeq([i \in DOMAIN nodes |-> i], LAMBDA x : nodes[x].father = 0)
    IN [i \in DOMAIN top |-> Tree(nodes, top[i])]

RECURSIVE Stripped(_)
Stripped(text) ==
    IF text # <<>> /\ Head(text) \in Spaces THEN Stripped(Tail(text)) ELSE text

(* Texts that follow each other are one.                                       *)
Joined(s, t) ==
    IF s # <<>> /\ t.kind = "text" /\ Last(s).kind = "text"
    THEN [s EXCEPT ![Len(s)].text = @ \o t.text] ELSE Append(s, t)

RECURSIVE Kept(_, _, _)
Kept(nodes, e, way) ==
    LET children == SelectSeq([i \in DOMAIN nodes |-> i], LAMBDA x : nodes[x].father = e)
        Seen(x) ==
            LET c == nodes[x].content
                text == CASE c.kind = "text" /\ ~way.keepAllText /\ ~c.cdata -> Stripped(c.text)
                          [] c.kind = "comment" /\ way.padded -> <<" ">> \o c.text \o <<" ">>
                          [] OTHER -> c.text
            IN [kind |-> c.kind, ns |-> c.ns, name |-> c.name, aliases |-> ToSet(c.aliases),
                attributes |-> ToSet(c.attributes), text |-> text,
                children |-> Kept(nodes, x, way)]
        there == SelectSeq([i \in DOMAIN children |-> Seen(children[i])],
                           LAMBDA t : t.kind = "comment" => way.keepComments)
    IN SelectSeq(FoldLeft(Joined, <<>>, there),
                 LAMBDA t : t.kind = "text" =>
                     t.text # <<>> /\ (way.keepTextMode # "all" => ~IsSpaces(t.text)))

IsMeant(read, way) == ~read.invalid /\ Trees(read.nodes) = Kept(document, 0, way)

ReadsAs(chars, way) ==
    IsMeant(Read(chars, way.keepAllText, way.keepComments, way.keepTextMode), way)

--------------------------------------------------------------------------------
(* Files written by hand.  A style is [quote, spaces, cdata, short, entity,    *)
(* sort]: the quotes, spaces wherever they may be, texts in CDATA sections,    *)
(* the form of an element without content, an entity for "x", attributes       *)
(* before declarations.                                                        *)

PrefixFor(level, ns) == CHOOSE p \in {"p", "q"} : level.namespaceOf[p] = ns
PrintKey(level, ns, name, prefixed) ==
    IF ns = Nothing \/ (~prefixed /\ level.namespaceOf[Xmlns] = ns) THEN name
    ELSE <<PrefixFor(level, ns), ":">> \o name

PrintChars(text, style) ==
    FlattenSeq([i \in DOMAIN text |->
        CASE text[i] = "x" /\ style.entity -> <<"&", "e", ";">>
          [] text[i] = "<" -> <<"&", "lt", ";">>
          [] text[i] = "&" -> <<"&", "amp", ";">>
          [] text[i] = style.quote -> <<"&", IF text[i] = "'" THEN "apos" ELSE "quot", ";">>
          [] OTHER -> <<text[i]>>])

PrintAttribute(key, value, style) ==
    (IF style.spaces THEN <<"\n", " ">> \o key \o <<" ", "=", "\n">> ELSE <<" ">> \o key \o <<"=">>)
    \o <<style.quote>> \o value \o <<style.quote>>

RECURSIVE PrintNode(_, _)
PrintNode(e, style) ==
    LET c == document[e].content
        level == InScope(e)
        key == PrintKey(level, c.ns, c.name, FALSE)
        space == IF style.spaces THEN <<" ", "\n">> ELSE <<>>
        aliases == FlattenSeq([i \in DOMAIN c.aliases |->
                      PrintAttribute(AliasKey(c.aliases[i].prefix),
                                     IF c.aliases[i].ns = Nothing THEN <<>>
                                     ELSE <<c.aliases[i].ns>>, style)])
        others == FlattenSeq([i \in DOMAIN c.attributes |->
                      PrintAttribute(PrintKey(level, c.attributes[i].ns, c.attributes[i].name, TRUE),
                                     PrintChars(c.attributes[i].value, style), style)])
        children == ChildrenOf(e)
    IN CASE c.kind = "text" -> IF style.cdata THEN StartCData \o c.text \o EndCData
                               ELSE PrintChars(c.text, style)
         [] c.kind = "comment" -> <<"<", "!", "-", "-">> \o c.text \o <<"-", "-", ">">>
         [] c.kind = "PI" -> <<"<", "?">> \o c.name \o <<" ">> \o c.text \o <<"?", ">">>
         [] c.kind = "element" ->
              <<"<">> \o key
              \o (IF style.sort THEN others \o aliases ELSE aliases \o others) \o space
              \o IF children = <<>> /\ style.short THEN <<"/", ">">>
                 ELSE <<">">> \o FlattenSeq([i \in DOMAIN children |-> PrintNode(children[i], style)])
                      \o <<"<", "/">> \o key \o space \o <<">">>

PrintFile(style) ==
    LET top == ChildrenOf(0)
    IN (IF ~style.entity THEN <<>>
        ELSE <<"<", "!", "DOCTYPE", " ", "a", " ", "[", "\n", "<", "!", "ENTITY", " ", "e", " ",
               "\"", "x", "\"", " ", ">", "\n", "]", ">", "\n">>)
       \o FlattenSeq([i \in DOMAIN top |-> PrintNode(top[i], style)])

--------------------------------------------------------------------------------
(* Properties.                                                                 *)

TypeOK == /\ Len(document) <= Families[family].maxNodes
          /\ \A e \in Nodes : FatherOf(e) \in 0 .. e - 1

Way(keepAllText, keepComments, keepTextMode, padded) ==
    [keepAllText |-> keepAllText, keepComments |-> keepComments,
     keepTextMode |-> keepTextMode, padded |-> padded]

(* The prefix of a namespace that was declared last, the one the code writes,  *)
(* still is one of that namespace; it is not the default one, for attributes.  *)
Writable(e) ==
    LET c == document[e].content
        level == InScope(e)
        Stands(ns) == ns # Nothing => level.namespaceOf[level.prefixOf[ns]] = ns
    IN /\ Stands(c.ns)
       /\ \A i \in DOMAIN c.attributes :
              LET ns == c.attributes[i].ns
              IN Stands(ns) /\ (ns # Nothing => level.prefixOf[ns] # Xmlns)

(* What toXML() writes is read as the document it was: without indentation,    *)
(* sorted and in another encoding, as for xsl:output; indented, and read       *)
(* without spaces, as Parser does unless told; or read as a stylesheet is      *)
(* (Env::fetchDocumentRoot), without comments.                                 *)
ReadsBack ==
    (\A e \in Nodes : Writable(e)) =>
        /\ ReadsAs(ToXML([noIndent |-> TRUE, sort |-> TRUE, encoding |-> "ISO-8859-1"]),
                   Way(TRUE, TRUE, "all", TRUE))
        /\ ReadsAs(ToXML([noIndent |-> FALSE, sort |-> FALSE, encoding |-> "UTF-8"]),
                   Way(FALSE, TRUE, "all", TRUE))
        /\ ReadsAs(ToXML([noIndent |-> TRUE, sort |-> TRUE, encoding |-> "US-ASCII"]),
                   Way(TRUE, FALSE, "xsl", TRUE))

(* A file is read as the document it means, however it is written              *)
(* (Parser::internalParse, SAXHandlerDom).                                     *)
ReadAsMeant == \A style \in Styles : ReadsAs(PrintFile(style), Way(TRUE, TRUE, "all", FALSE))
================================================================================
