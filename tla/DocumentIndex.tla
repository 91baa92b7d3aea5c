------------------------------ MODULE DocumentIndex ------------------------------
(* The indexes of a document: maps from the value of an attribute to elements,  *)
(* built in one pass when they are declared (xem:set-meta-indexer) or first     *)
(* used (key(), id()), and kept up to date, for the first kind, by the DOM      *)
(* events that the changes of the document send. The changes are those of the   *)
(* instructions of XUpdate.                                                     *)
EXTENDS Naturals, Sequences, FiniteSets, SequencesExt

CONSTANTS
    MaxElements,   \* the elements that a document may have besides its root
    MaxValue,      \* the values of the attribute are 1 .. MaxValue
    Setups         \* the indexes that are checked, each with the edits around it

Elements == 1 .. MaxElements
Root == 0
Nodes == Elements \cup {Root}
NoNode == MaxElements + 1
NoValue == 0                       \* no attribute, or the empty string
Values == 1 .. MaxValue

(* hashString(): values that differ may have the same hash.                     *)
Hash(v) == v % 2
Hashes == {0, 1}

Edits == {"append", "attribute", "insert", "remove", "remove attribute", "update attribute"}

(* The declaration of an index, and the edits that happen before and after it.  *)
SetupType ==
    [kind : {"index", "key"}, match : {"a", "a[@k]", "@k"}, scope : {"/", "ancestor::s"},
     orderby : BOOLEAN, early : BOOLEAN, before : SUBSET Edits, after : SUBSET Edits]

VARIABLES
    setup,      \* the declaration of the index
    declared,   \* it has been built
    doc,        \* the document, with the maps of its index
    current,    \* the element that a NodeFlowDom writes to, or NoNode
    open,       \* the elements around it that the NodeFlowDom will go back to
    inserted    \* the NodeFlowDom was made for an element that was inserted

vars == <<setup, declared, doc, current, open, inserted>>

(* The state of a document: the children, names and attributes of its elements, *)
(* the map that each holds for the index, from hashes to lists, and whether an  *)
(* assertion of the code has failed.                                            *)
EmptyMap == [h \in Hashes |-> <<>>]
EmptyDocument ==
    [children |-> [n \in Nodes |-> <<>>], name |-> [n \in Nodes |-> ""],
     k |-> [n \in Nodes |-> NoValue], maps |-> [n \in Nodes |-> EmptyMap], broken |-> FALSE]

Alive(d) == {e \in Elements : d.name[e] # ""}
Father(d, e) == CHOOSE n \in Nodes : e \in Range(d.children[n])
Ancestors(d, e) ==
    LET above[n \in Nodes] ==
            IF n = Root THEN {} ELSE {Father(d, n)} \cup above[Father(d, n)]
    IN  above[e]

--------------------------------------------------------------------------------
(* Events.                                                                      *)

(* A node: the element, or its attribute. XPath::matches().                     *)
Node(e, isAttribute) == [element |-> e, isAttribute |-> isAttribute]
Matches(d, node) ==
    CASE setup.match = "@k"    -> node.isAttribute
      [] setup.match = "a"     -> ~node.isAttribute /\ d.name[node.element] = "a"
      [] setup.match = "a[@k]" -> /\ ~node.isAttribute /\ d.name[node.element] = "a"
                                  /\ d.k[node.element] # NoValue

(* DomEvent::addQNames(), of the last step of the pattern and of the attributes *)
(* that are its predicates; buildEventMap().                                    *)
ElementQNames == IF setup.match = "@k" THEN {} ELSE {"a"}
AttributeQNames == IF setup.match = "a" THEN {} ELSE {"k"}
InEventMap(d, node) ==
    IF node.isAttribute THEN "k" \in AttributeQNames
    ELSE d.name[node.element] \in ElementQNames

(* getScope(): the element that holds the map, when the scope is one element.   *)
Scopes(d, e) ==
    IF setup.scope = "/" THEN {Root} ELSE {n \in Ancestors(d, e) : d.name[n] = "s"}
NoScope(d, e) == Cardinality(Scopes(d, e)) # 1
Scope(d, e) == CHOOSE n \in Scopes(d, e) : TRUE

(* ElementMultiMapRef::insert(), remove(): the value is that of the element     *)
(* now; nothing happens without one. Each call adds or takes one entry.         *)
Insert(d, e) ==
    IF NoScope(d, e) \/ d.k[e] = NoValue THEN d
    ELSE [d EXCEPT !.maps[Scope(d, e)][Hash(d.k[e])] = Append(@, e)]
Erase(d, e) ==
    IF d.k[e] = NoValue THEN d
    ELSE LET list == d.maps[Scope(d, e)][Hash(d.k[e])]
         IN  IF list = <<>> THEN [d EXCEPT !.broken = TRUE]
             ELSE IF e \notin Range(list) THEN d
             ELSE [d EXCEPT !.maps[Scope(d, e)][Hash(d.k[e])] =
                                RemoveAt(@, CHOOSE i \in DOMAIN @ :
                                                @[i] = e /\ \A j \in 1 .. i - 1 : @[j] # e)]

(* domMetaIndexerSort(): an element that is not the last one, or is less than   *)
(* the one before, goes before the first that it is less than.                  *)
Sort(d, e) ==
    LET father == Father(d, e)
        siblings == d.children[father]
        InPlace == /\ Last(siblings) = e
                   /\ Len(siblings) > 1 => d.k[siblings[Len(siblings) - 1]] <= d.k[e]
        others == SelectSeq(siblings, LAMBDA c : c # e)
        Greater == {i \in DOMAIN others : d.k[e] < d.k[others[i]]}
    IN  IF InPlace THEN d
        ELSE IF Greater = {} THEN [d EXCEPT !.children[father] = others, !.broken = TRUE]
        ELSE [d EXCEPT !.children[father] =
                  InsertAt(others, CHOOSE i \in Greater : \A j \in Greater : i <= j, e)]

(* domMetaIndexerTrigger().                                                     *)
Trigger(d, e, type) ==
    IF type \in {"CreateAttribute", "AfterModifyAttribute", "CreateElement"}
    THEN LET added == Insert(d, e)
         IN  IF setup.orderby /\ ~NoScope(d, e) THEN Sort(added, e) ELSE added
    ELSE IF NoScope(d, e) THEN [d EXCEPT !.broken = TRUE] ELSE Erase(d, e)

(* processEvent(): an attribute is handled when it matches, or its element.     *)
ProcessEvent(d, type, node) ==
    IF /\ declared /\ setup.kind = "index" /\ ~d.broken
       /\ InEventMap(d, node)
       /\ \/ Matches(d, node)
          \/ node.isAttribute /\ Matches(d, Node(node.element, FALSE))
    THEN Trigger(d, node.element, type) ELSE d

--------------------------------------------------------------------------------
(* The pass that builds an index.                                               *)

(* evalFunctionKeyBuild(): down to the first child, else to the next sibling of *)
(* the closest element that has one, until the base element is met again.       *)
Visited(d) ==
    LET Younger(n) ==
            LET siblings == d.children[Father(d, n)]
                i == CHOOSE i \in DOMAIN siblings : siblings[i] = n
            IN  IF i = Len(siblings) THEN {} ELSE {siblings[i + 1]}
        up[n \in Nodes] ==
            IF n = Root THEN {} ELSE IF Younger(n) # {} THEN Younger(n) ELSE up[Father(d, n)]
        Next(n) == IF d.children[n] # <<>> THEN {Head(d.children[n])} ELSE up[n]
        visit[i \in 0 .. MaxElements] ==
            IF i = 0 THEN <<Root>>
            ELSE LET next == IF Len(visit[i - 1]) < i THEN {} ELSE Next(Last(visit[i - 1]))
                 IN  visit[i - 1] \o SetToSeq(next)
    IN  IF d.children[Root] = <<>> THEN <<>> ELSE visit[MaxElements]

Build(d) ==
    FoldLeft(LAMBDA b, n : IF Matches(b, Node(n, FALSE)) THEN Insert(b, n) ELSE b,
             d, Visited(d))

(* evalFunctionKeyGet(): the elements under the hash that have the value.       *)
Found(d, scope, v) == {e \in Range(d.maps[scope][Hash(v)]) : d.k[e] = v}

--------------------------------------------------------------------------------
(* Changes of the document.                                                     *)

(* A mutant of SetAttribute(): the value that goes is not announced.            *)
SetAttributeUnannounced(d, e, v) ==
    ProcessEvent([d EXCEPT !.k[e] = v], "CreateAttribute", Node(e, TRUE))

(* ElementRef::addAttr() with events.                                           *)
SetAttribute(d, e, v) ==
    LET node == Node(e, TRUE)
    IN  IF d.k[e] = NoValue
        THEN ProcessEvent([d EXCEPT !.k[e] = v], "CreateAttribute", node)
        ELSE LET before == ProcessEvent(d, "BeforeModifyAttribute", node)
             IN  ProcessEvent([before EXCEPT !.k[e] = v], "AfterModifyAttribute", node)

(* deleteElement(): the event of an element, its children, the events of its    *)
(* attributes, then the attributes, maps included, and the element.             *)
DeleteElement(d, e) ==
    LET Dispose(b, n) ==
            LET father == Father(b, n)
            IN  [b EXCEPT !.children[father] = SelectSeq(@, LAMBDA c : c # n),
                          !.name[n] = "", !.k[n] = NoValue, !.maps[n] = EmptyMap]
        steps[n \in Nodes] ==
            <<<<"DeleteElement", n>>>> \o FlattenSeq([i \in DOMAIN d.children[n] |->
                                                          steps[d.children[n][i]]])
            \o (IF d.k[n] = NoValue THEN <<>> ELSE <<<<"DeleteAttribute", n>>>>)
            \o <<<<"Dispose", n>>>>
        Take(b, step) ==
            CASE b.broken                     -> b
              [] step[1] = "Dispose"          -> Dispose(b, step[2])
              [] step[1] = "DeleteElement"    -> ProcessEvent(b, step[1], Node(step[2], FALSE))
              [] step[1] = "DeleteAttribute"  -> ProcessEvent(b, step[1], Node(step[2], TRUE))
    IN  FoldLeft(Take, d, steps[e])

Free(d) == Elements \ Alive(d)
NewId(d) == CHOOSE e \in Free(d) : \A f \in Free(d) : e <= f
Named(d, e, name) == [d EXCEPT !.name[e] = name]

--------------------------------------------------------------------------------
Init ==
    /\ setup \in Setups
    /\ declared = FALSE
    /\ doc = EmptyDocument
    /\ current = NoNode /\ open = <<>> /\ inserted = FALSE

Ready == current = NoNode /\ ~doc.broken
Allowed(edit) == edit \in (IF declared THEN setup.after ELSE setup.before)

(* xemInstructionSetMetaIndexer(), or the first key().                          *)
Declare ==
    /\ Ready /\ ~declared
    /\ setup.early => Alive(doc) = {}
    /\ declared' = TRUE
    /\ doc' = Build(doc)
    /\ UNCHANGED <<setup, current, open, inserted>>

(* xupdate:append, and xupdate:update of an element: a NodeFlowDom on it.       *)
AppendTo(e) ==
    /\ Ready /\ Allowed("append")
    /\ current' = e
    /\ UNCHANGED <<setup, declared, doc, open, inserted>>

(* xupdateProcessElement(): the NodeFlowDom is on the new element, which it     *)
(* will not end.                                                                *)
InsertBeside(e, after) ==
    /\ Ready /\ Allowed("insert") /\ Free(doc) # {}
    /\ LET new == NewId(doc)
           father == Father(doc, e)
           siblings == doc.children[father]
           i == CHOOSE i \in DOMAIN siblings : siblings[i] = e
           place == IF after THEN i + 1 ELSE i
       IN  /\ doc' = Named([doc EXCEPT !.children[father] = InsertAt(@, place, new)], new,
                           doc.name[e])
           /\ current' = new
    /\ inserted' = TRUE
    /\ UNCHANGED <<setup, declared, open>>

(* Elements s are children of the root, elements a are in them.                 *)
NewElement(name) ==
    /\ current # NoNode /\ ~doc.broken /\ Free(doc) # {}
    /\ name = "s" <=> current = Root
    /\ LET new == NewId(doc)
       IN  /\ doc' = Named([doc EXCEPT !.children[current] = Append(@, new)], new, name)
           /\ current' = new
    /\ open' = Append(open, current)
    /\ UNCHANGED <<setup, declared, inserted>>

(* NodeFlowDom::newAttribute(), on an element just made, or on the base.        *)
NewAttribute(v) ==
    /\ current \in Elements /\ ~doc.broken
    /\ doc.name[current] = "a"
    /\ open # <<>> \/ inserted \/ Allowed("attribute")
    /\ doc' = SetAttribute(doc, current, v)
    /\ UNCHANGED <<setup, declared, current, open, inserted>>

ElementEnd ==
    /\ open # <<>> /\ ~doc.broken
    /\ doc' = ProcessEvent(doc, "CreateElement", Node(current, FALSE))
    /\ current' = Last(open) /\ open' = Front(open)
    /\ UNCHANGED <<setup, declared, inserted>>

EndInstruction ==
    /\ current # NoNode /\ open = <<>>
    /\ current' = NoNode /\ inserted' = FALSE
    /\ UNCHANGED <<setup, declared, doc, open>>

(* xupdate:remove of an element, and of an attribute, which sends no event.     *)
RemoveElement(e) ==
    /\ Ready /\ Allowed("remove")
    /\ doc' = DeleteElement(doc, e)
    /\ UNCHANGED <<setup, declared, current, open, inserted>>
RemoveAttribute(e) ==
    /\ Ready /\ Allowed("remove attribute") /\ doc.k[e] # NoValue
    /\ doc' = [doc EXCEPT !.k[e] = NoValue]
    /\ UNCHANGED <<setup, declared, current, open, inserted>>

(* xupdate:update of an attribute (AttributeRef::setString): no event.          *)
UpdateAttribute(e, v) ==
    /\ Ready /\ Allowed("update attribute") /\ doc.k[e] # NoValue
    /\ doc' = [doc EXCEPT !.k[e] = v]
    /\ UNCHANGED <<setup, declared, current, open, inserted>>

Next ==
    \/ Declare
    \/ \E e \in Alive(doc) \cup {Root} : AppendTo(e)
    \/ \E e \in Alive(doc), after \in BOOLEAN : InsertBeside(e, after)
    \/ \E name \in {"a", "s"} : NewElement(name)
    \/ \E v \in Values : NewAttribute(v)
    \/ ElementEnd
    \/ EndInstruction
    \/ \E e \in Alive(doc) : RemoveElement(e) \/ RemoveAttribute(e)
    \/ \E e \in Alive(doc), v \in Values : UpdateAttribute(e, v)

Spec == Init /\ [][Next]_vars

--------------------------------------------------------------------------------
(* Properties.                                                                  *)

TypeOK ==
    /\ setup \in SetupType /\ declared \in BOOLEAN
    /\ \A n \in Nodes : /\ doc.children[n] \in Seq(Elements)
                        /\ doc.name[n] \in {"", "a", "s"} /\ doc.k[n] \in Values \cup {NoValue}
                        /\ \A h \in Hashes : doc.maps[n][h] \in Seq(Elements)
    /\ current \in Nodes \cup {NoNode}
    /\ open \in Seq(Nodes) /\ inserted \in BOOLEAN

(* The elements an index should find for a value in a scope.                    *)
Indexed(scope, v) ==
    {e \in Alive(doc) : /\ doc.k[e] = v /\ Scopes(doc, e) = {scope}
                        /\ \E isAttribute \in BOOLEAN : Matches(doc, Node(e, isAttribute))}

(* The elements that a NodeFlowDom has not ended.                               *)
Unended == IF open = <<>> THEN {} ELSE {current} \cup Range(Tail(open))

(* An index finds the elements that match and are ended, by the values that     *)
(* they have now, in their scope; its maps have no entry for another element,   *)
(* such as one that is gone, and no removal looks for an entry that is missing  *)
(* (domMetaIndexerTrigger, evalFunctionKeyBuild, evalFunctionKeyGet).           *)
IndexExact ==
    /\ ~doc.broken
    /\ declared =>
           \A scope \in Nodes :
               /\ \A v \in Values : Found(doc, scope, v) \ Unended = Indexed(scope, v) \ Unended
               /\ \A h \in Hashes :
                      Range(doc.maps[scope][h]) \subseteq
                          UNION {Indexed(scope, v) : v \in {w \in Values : Hash(w) = h}}

(* An index with an order keeps the elements that it sorts in that order        *)
(* (domMetaIndexerSort).                                                        *)
SiblingsSorted ==
    setup.orderby /\ declared /\ open = <<>> =>
        \A n \in Alive(doc) : \A i \in 1 .. Len(doc.children[n]) - 1 :
            doc.k[doc.children[n][i]] <= doc.k[doc.children[n][i + 1]]
================================================================================
