--------------------------- MODULE JournaledDocument ----------------------------
(******************************************************************************)
(* The tree of a document, dom/elementref.cpp, and the journal of what is done*)
(* to it, kern/journaleddocument.cpp: a branch is forked, both documents are  *)
(* changed, and the journal of the fork is applied to the document it comes   *)
(* from (PersistentDocument::merge).                                          *)
(*                                                                            *)
(* An element is known by its pointer inside a document, and by its ElementId *)
(* in the journal. The content of an element stands for its attributes, the   *)
(* content of a text node for its text.                                       *)
(******************************************************************************)
EXTENDS Naturals, FiniteSets, Sequences

CONSTANTS
    MaxElements, \* bound: the elements of a document, enough for the changes
    IdBlock,     \* the ElementIds reserved at once (256)
    Contents,    \* the values of an attribute or of a text: 1, ... (0: no attribute)
    MaxEdits,    \* bound: the changes made to both documents
    MaxBaseEdits,  \* bound: those made to the base
    Edits        \* what is done that the journal does not carry: a subset of
                 \* {"attributeFirst", "removeCreated", "deleteAttribute", "move"}

NullPtr == 0
Root == 1
Documents == {"base", "fork"}
Pointers == 1 .. MaxElements
Kinds == {"element", "text"}
InsertOps == {"InsertChild", "AppendChild", "InsertBefore", "InsertAfter"}

VARIABLES
    doc,           \* of each document: [tree, index, reserved, journal]
    nextElementId, \* SuperBlock::nextElementId
    forked,        \* the base when the branch was forked
    edits,         \* the changes made to each document
    uncarried,     \* those of Edits the fork was changed by
    merged         \* the tree that was merged into the base, when it was not changed

vars == <<doc, nextElementId, forked, edits, uncarried, merged>>

NoTree == <<>>

(* In a document: the elements by pointer, the pointers in the order they were *)
(* indexed by ElementId, and the ids that are reserved and not assigned yet.   *)
Element(id, kind, content) ==
    [id |-> id, kind |-> kind, content |-> content, father |-> NullPtr, elder |-> NullPtr,
     younger |-> NullPtr, child |-> NullPtr, lastChild |-> NullPtr]

With(t, p, x) == [q \in DOMAIN t \cup {p} |-> IF q = p THEN x ELSE t[q]]

--------------------------------------------------------------------------------
(* The tree.                                                                   *)

Set(t, p, field, q) == IF p = NullPtr THEN t ELSE [t EXCEPT ![p][field] = q]

AppendLastChild(t, me, new) ==
    LET last == t[me].lastChild
        linked == Set(Set(t, new, "father", me), me, "lastChild", new)
    IN  IF last = NullPtr THEN Set(linked, me, "child", new)
        ELSE Set(Set(linked, new, "elder", last), last, "younger", new)

InsertAfter(t, me, new) ==
    LET father == t[me].father
        younger == t[me].younger
        linked == Set(Set(Set(t, new, "father", father), new, "elder", me), me, "younger", new)
    IN  IF younger = NullPtr THEN Set(linked, father, "lastChild", new)
        ELSE Set(Set(linked, younger, "elder", new), new, "younger", younger)

InsertChild(t, me, new) ==
    LET old == t[me].child
        linked == Set(Set(t, new, "father", me), me, "child", new)
    IN  IF old = NullPtr THEN Set(linked, me, "lastChild", new)
        ELSE Set(Set(linked, old, "elder", new), new, "younger", old)

InsertBefore(t, me, new) ==
    IF t[me].elder = NullPtr THEN InsertChild(t, t[me].father, new)
    ELSE InsertAfter(t, t[me].elder, new)

Link(t, op, me, new) ==
    CASE op = "InsertChild"  -> InsertChild(t, me, new)
      [] op = "AppendChild"  -> AppendLastChild(t, me, new)
      [] op = "InsertBefore" -> InsertBefore(t, me, new)
      [] op = "InsertAfter"  -> InsertAfter(t, me, new)

\* Mutant: the last child of the father is not the elder of the one that leaves.
UnlinkElementFromFatherFirst(t, me) ==
    LET x == t[me]
        father == IF t[x.father].child = me THEN Set(t, x.father, "child", x.younger) ELSE t
        between == Set(Set(father, x.elder, "younger", x.younger), x.younger, "elder", x.elder)
    IN  Set(Set(Set(between, me, "father", NullPtr), me, "elder", NullPtr), me, "younger", NullPtr)

UnlinkElementFromFather(t, me) ==
    LET x == t[me]
        first == IF t[x.father].child = me THEN Set(t, x.father, "child", x.younger) ELSE t
        last == IF t[x.father].lastChild = me THEN Set(first, x.father, "lastChild", x.elder)
                ELSE first
        between == Set(Set(last, x.elder, "younger", x.younger), x.younger, "elder", x.elder)
    IN  Set(Set(Set(between, me, "father", NullPtr), me, "elder", NullPtr), me, "younger", NullPtr)

(* The children of an element in order, and an element with what is below it:  *)
(* an element comes after its children, in the order deleteElement() deletes.  *)
Below(t, me) ==
    LET after[p \in Pointers \cup {NullPtr}] ==
            IF p = NullPtr THEN <<>> ELSE after[t[p].child] \o <<p>> \o after[t[p].younger]
    IN  after[t[me].child] \o <<me>>

(* What a reader sees of the tree: nested elements.                            *)
Seen(t) ==
    LET from[p \in Pointers \cup {NullPtr}] ==
            IF p = NullPtr THEN <<>>
            ELSE <<<<t[p].id, t[p].kind, t[p].content, from[t[p].child]>>>> \o from[t[p].younger]
    IN  from[Root]

--------------------------------------------------------------------------------
(* A document: x is one of the documents.                                      *)

NoElement == NullPtr
GetElementById(x, id) ==
    LET found == {i \in 1 .. Len(x.index) : x.tree[x.index[i]].id = id}
    IN  IF found = {} THEN NoElement
        ELSE x.index[CHOOSE i \in found : \A j \in found : i <= j]

AppendJournal(x, op, base, alt) ==
    [x EXCEPT !.journal = Append(@, [op |-> op, base |-> x.tree[base].id, alt |-> alt])]

FreePtr(x) == CHOOSE p \in Pointers \ DOMAIN x.tree : \A q \in Pointers \ DOMAIN x.tree : p <= q

(* createElement() and createTextualNode(): the element is indexed, unlinked.  *)
CreateElement(x, id, kind, content) ==
    [x EXCEPT !.tree = With(@, FreePtr(x), Element(id, kind, content)),
              !.index = Append(@, FreePtr(x))]

(* Links an element that exists, and says it in the journal.                   *)
Insert(x, op, base, new) ==
    AppendJournal([x EXCEPT !.tree = Link(@, op, base, new)], op, base, x.tree[new].id)

(* setText() and addAttr(): a text that is not linked is not journaled.        *)
SetContent(x, me, content) ==
    LET changed == [x EXCEPT !.tree[me].content = content]
    IN  IF x.tree[me].kind = "element"
        THEN AppendJournal(changed, "UpdateAttribute", me, x.tree[me].id)
        ELSE IF x.tree[me].father # NullPtr
        THEN AppendJournal(changed, "UpdateTextNode", me, x.tree[me].id)
        ELSE changed

(* deleteElement(): what is below first.                                       *)
\* Mutant: the elements below are deleted without a journal item, and stay indexed.
DeleteElementAlone(x, me) ==
    LET journaled == AppendJournal(x, "Remove", me, x.tree[me].id)
    IN  [journaled EXCEPT
            !.tree = LET t == UnlinkElementFromFather(@, me) IN [q \in DOMAIN t \ {me} |-> t[q]],
            !.index = SelectSeq(@, LAMBDA p : p # me)]

DeleteElement(x, me) ==
    LET gone == Below(x.tree, me)
        deleted[n \in 0 .. Len(gone)] ==
            IF n = 0 THEN x
            ELSE LET before == deleted[n - 1]
                     p == gone[n]
                     journaled == AppendJournal(before, "Remove", p, before.tree[p].id)
                     unlinked == UnlinkElementFromFather(before.tree, p)
                 IN  [journaled EXCEPT !.tree = [q \in DOMAIN unlinked \ {p} |-> unlinked[q]],
                                       !.index = SelectSeq(@, LAMBDA q : q # p)]
    IN  deleted[Len(gone)]

(* getFreeElementId(): the ids are reserved by blocks for the whole store.     *)
Reserved(x, next) ==
    IF x.reserved.first = x.reserved.last THEN [first |-> next, last |-> next + IdBlock]
    ELSE x.reserved

--------------------------------------------------------------------------------
(* Applying the journal of a source to a target.                               *)

Copied(x, item) == [x EXCEPT !.journal = Append(@, item)]

(* applyJournalCreateElement(): a text comes with its text, as it is in the    *)
(* source now, an element without its attributes.                              *)
ApplyCreateElement(x, item, base, alt) ==
    LET content == IF alt.kind = "text" THEN alt.content ELSE 0
    IN  Insert(CreateElement(x, item.alt, alt.kind, content), item.op, base, FreePtr(x))

(* One item: skipped when its base is not in the target, or what it is about   *)
(* not in the source any more. The item is copied at the end of the journal of *)
(* the target, which already has what the change itself appended.              *)
\* Mutant: the items that insert are applied by appending to the father.
ApplyItemAppended(x, item, source) ==
    LET base == GetElementById(x, item.base)
        alt == GetElementById(source, item.alt)
        father == IF x.tree[base].father = NullPtr THEN base ELSE x.tree[base].father
    IN  IF base = NoElement \/ (item.op # "Remove" /\ alt = NoElement) THEN x
        ELSE CASE item.op \in {"InsertBefore", "InsertAfter"} ->
                    Copied(ApplyCreateElement(x, [item EXCEPT !.op = "AppendChild"],
                                              father, source.tree[alt]), item)
               [] item.op \in InsertOps -> Copied(ApplyCreateElement(x, item, base, source.tree[alt]), item)
               [] item.op = "Remove" -> Copied(DeleteElement(x, base), item)
               [] OTHER -> Copied(SetContent(x, base, source.tree[alt].content), item)

ApplyItem(x, item, source) ==
    LET base == GetElementById(x, item.base)
        alt == GetElementById(source, item.alt)
    IN  IF base = NoElement \/ (item.op # "Remove" /\ alt = NoElement) THEN x
        ELSE CASE item.op \in InsertOps -> Copied(ApplyCreateElement(x, item, base, source.tree[alt]), item)
               [] item.op = "Remove" -> Copied(DeleteElement(x, base), item)
               [] OTHER -> Copied(SetContent(x, base, source.tree[alt].content), item)

(* An attribute that was set and deleted since is not found: it throws, and the*)
(* revision of the merge is removed.                                           *)
Thrown == <<>>
Throws(x, item, source) ==
    LET alt == GetElementById(source, item.alt)
    IN  /\ item.op = "UpdateAttribute" /\ GetElementById(x, item.base) # NoElement
        /\ alt # NoElement /\ source.tree[alt].content = 0

ApplyJournal(x, source) ==
    LET item(n) == source.journal[n]
        applied[n \in 0 .. Len(source.journal)] ==
            IF n = 0 THEN x
            ELSE IF applied[n - 1] = Thrown \/ Throws(applied[n - 1], item(n), source) THEN Thrown
            ELSE ApplyItem(applied[n - 1], item(n), source)
        end == applied[Len(source.journal)]
    IN  IF end = Thrown THEN x ELSE end

--------------------------------------------------------------------------------
(* A document with two elements, committed, and what is done to it and its fork*)
(* after the branch is forked. The two do not see each other before the merge: *)
(* what is done to the base is done first.                                     *)

Created == [tree |-> [p \in {Root} |-> Element(1, "element", 0)], index |-> <<Root>>,
            reserved |-> [first |-> 1, last |-> IdBlock], journal |-> <<>>]

Init ==
    /\ \E kind \in Kinds :
         LET x == CreateElement(CreateElement(Created, 2, "element", 0), 3, kind, 1)
             first == [x EXCEPT !.tree = AppendLastChild(AppendLastChild(@, Root, 2), 2, 3)]
         IN  doc = [d \in {"base"} |-> [first EXCEPT !.reserved.first = 3]]
    /\ nextElementId = IdBlock
    /\ forked = NoTree
    /\ edits = [d \in Documents |-> 0]
    /\ uncarried = {}
    /\ merged = NoTree

(* The fork takes the pages of the base and starts a journal. It keeps the ids *)
(* reserved by the base (the code that makes them zero is compiled out).       *)
Fork ==
    /\ DOMAIN doc = {"base"} /\ merged = NoTree
    /\ doc' = [d \in Documents |-> [doc["base"] EXCEPT !.journal = IF d = "fork" THEN <<>> ELSE @]]
    /\ forked' = Seen(doc["base"].tree)
    /\ UNCHANGED <<nextElementId, edits, uncarried, merged>>

Editable ==
    IF DOMAIN doc # Documents \/ merged # NoTree \/ edits["base"] + edits["fork"] >= MaxEdits
    THEN {}
    ELSE {d \in Documents : d = "base" => edits["fork"] = 0 /\ edits["base"] < MaxBaseEdits}

Edit(d) ==
    /\ edits' = [edits EXCEPT ![d] = @ + 1]
    /\ UNCHANGED <<forked, merged>>

Change(d, x) == doc' = [doc EXCEPT ![d] = x]
Carried == UNCHANGED uncarried
Uncarried(edit) == edit \in Edits /\ uncarried' = uncarried \cup {edit}

(* An element is created and inserted. Its attributes may be set before it is. *)
CreateAndInsert(d, op, base, kind, content) ==
    /\ Edit(d) /\ base \in DOMAIN doc[d].tree
    /\ doc[d].tree[base].kind = "element" \/ op \in {"InsertBefore", "InsertAfter"}
    /\ base = Root => op \in {"InsertChild", "AppendChild"}
    /\ IF kind = "element" /\ content # 0 THEN Uncarried("attributeFirst")
       ELSE Carried /\ (kind = "text" => content # 0)
    /\ LET ids == Reserved(doc[d], nextElementId)
           new == FreePtr(doc[d])
           reserved == [doc[d] EXCEPT !.reserved = [ids EXCEPT !.first = @ + 1]]
           created == CreateElement(reserved, ids.first + 1, kind, 0)
           filled == IF content = 0 THEN created ELSE SetContent(created, new, content)
       IN  /\ Change(d, Insert(filled, op, base, new))
           /\ nextElementId' = IF ids = doc[d].reserved THEN nextElementId
                               ELSE nextElementId + IdBlock

(* addAttr() and setText() of an element of the document, or deleteAttr(), that*)
(* is not journaled.                                                           *)
Update(d, me, content) ==
    /\ Edit(d) /\ me \in DOMAIN doc[d].tree \ {Root}
    /\ content # doc[d].tree[me].content
    /\ IF content # 0 THEN Carried /\ Change(d, SetContent(doc[d], me, content))
       ELSE /\ Uncarried("deleteAttribute") /\ doc[d].tree[me].kind = "element"
            /\ Change(d, [doc[d] EXCEPT !.tree[me].content = 0])
    /\ UNCHANGED nextElementId

(* deleteElement(), of an element of the first document unless created ones  *)
(* are removed too.                                                            *)
Delete(d, me) ==
    /\ Edit(d) /\ me \in DOMAIN doc[d].tree \ {Root}
    /\ IF doc[d].tree[me].id \in 1 .. 3 THEN Carried ELSE Uncarried("removeCreated")
    /\ Change(d, DeleteElement(doc[d], me))
    /\ UNCHANGED nextElementId

(* unlinkElementFromFather(), that is not journaled, and appendLastChild().    *)
Move(d, me, base) ==
    /\ Uncarried("move") /\ Edit(d)
    /\ {me, base} \subseteq DOMAIN doc[d].tree /\ me # Root /\ doc[d].tree[base].kind = "element"
    /\ \A i \in 1 .. Len(Below(doc[d].tree, me)) : Below(doc[d].tree, me)[i] # base
    /\ Change(d, Insert([doc[d] EXCEPT !.tree = UnlinkElementFromFather(@, me)],
                        "AppendChild", base, me))
    /\ UNCHANGED nextElementId

(* PersistentDocument::merge(): the journal is applied to a new revision of the*)
(* base, and the branch of the fork removed.                                   *)
Merge ==
    /\ DOMAIN doc = Documents
    /\ doc' = [d \in {"base"} |-> ApplyJournal(doc[d], doc["fork"])]
    /\ merged' = IF Seen(doc["base"].tree) = forked THEN Seen(doc["fork"].tree)
                 ELSE Seen(doc'["base"].tree)
    /\ forked' = NoTree
    /\ UNCHANGED <<nextElementId, edits, uncarried>>

Next ==
    \/ Fork
    \/ \E d \in Editable, base \in Pointers, op \in InsertOps, kind \in Kinds,
          content \in {0, 1} : CreateAndInsert(d, op, base, kind, content)
    \/ \E d \in Editable, me \in Pointers, content \in Contents \cup {0} : Update(d, me, content)
    \/ \E d \in Editable, me \in Pointers : Delete(d, me)
    \/ \E d \in Editable, me, base \in Pointers : Move(d, me, base)
    \/ Merge

Spec == Init /\ [][Next]_vars

--------------------------------------------------------------------------------
(* The check of the elements of a document, checkContents().                   *)

(* `Invalid father ptr`, `Invalid elder ptr`.                                  *)
ChildChecked(t, p) ==
    t[p].child # NullPtr =>
        /\ t[p].child \in DOMAIN t
        /\ t[t[p].child].father = p /\ t[t[p].child].elder = NullPtr

(* `Invalid fathers between me`, `Invalid elder link`.                         *)
YoungerChecked(t, p) ==
    t[p].younger # NullPtr =>
        /\ t[p].younger \in DOMAIN t
        /\ t[t[p].younger].father = t[p].father /\ t[t[p].younger].elder = p

(* The elements as the check visits them, from the root: the first child, the  *)
(* younger, or the younger of the closest ancestor that has one, until the root*)
(* is reached again. Bound: twice as many as there can be.                     *)
ElementsChecked(t) ==
    LET up[p \in Pointers, n \in 0 .. MaxElements] ==
            IF p = Root \/ p \notin DOMAIN t \/ n = 0 THEN NullPtr
            ELSE IF t[p].younger # NullPtr THEN t[p].younger ELSE up[t[p].father, n - 1]
        After(p) == IF t[p].child # NullPtr THEN t[p].child ELSE up[p, MaxElements]
        visited[p \in Pointers \cup {NullPtr}, n \in 0 .. 2 * MaxElements] ==
            IF p \notin DOMAIN t \/ n = 0 THEN <<>> ELSE <<p>> \o visited[After(p), n - 1]
    IN  visited[Root, 2 * MaxElements]

--------------------------------------------------------------------------------
(* Properties.                                                                 *)

TypeOK ==
    /\ \A d \in DOMAIN doc :
         /\ DOMAIN doc[d].tree \subseteq Pointers
         /\ \A p \in DOMAIN doc[d].tree :
              doc[d].tree[p] \in [id : 1 .. nextElementId, kind : Kinds, content : Contents \cup {0},
                                  father : Pointers \cup {0}, elder : Pointers \cup {0},
                                  younger : Pointers \cup {0}, child : Pointers \cup {0},
                                  lastChild : Pointers \cup {0}]
         /\ doc[d].reserved.first <= doc[d].reserved.last /\ doc[d].reserved.last <= nextElementId
    /\ edits \in [Documents -> 0 .. MaxEdits]

(* The links of the elements make one tree that holds them all: a deletion, an *)
(* insertion next to any other element or a merge leaves no element that cannot*)
(* be reached from the root, no dangling link and no index entry of a deleted  *)
(* element (what checkContents() reports of a persistent document).            *)
TreeConsistent ==
    \A d \in DOMAIN doc :
        LET t == doc[d].tree
        IN  /\ \A p \in DOMAIN t : ChildChecked(t, p) /\ YoungerChecked(t, p)
            /\ \A p \in DOMAIN t :
                   /\ p # Root <=> t[p].father # NullPtr
                   /\ t[p].child = NullPtr <=> t[p].lastChild = NullPtr
            /\ \A p \in DOMAIN t \ {Root} :
                   /\ t[p].father \in DOMAIN t
                   /\ t[p].younger = NullPtr <=> t[t[p].father].lastChild = p
            /\ LET walk == ElementsChecked(t)
               IN  {walk[i] : i \in 1 .. Len(walk)} = DOMAIN t /\ Len(walk) = Cardinality(DOMAIN t)
            /\ {doc[d].index[i] : i \in 1 .. Len(doc[d].index)} = DOMAIN t
            /\ Len(doc[d].index) = Cardinality(DOMAIN t)

(* A merge into a document that nobody changed since the fork gives the tree of*)
(* the fork, but for the changes the journal does not carry: which element is  *)
(* inserted and next to which one, with what is read from the source when the  *)
(* journal is applied, is enough for insertions, updates and deletions in any  *)
(* order (TestMerge).                                                          *)
MergedAsForked ==
    merged # NoTree /\ uncarried = {} => Seen(doc["base"].tree) = merged

(* The same of any change (`Be more relax about target elements we can not     *)
(* find, they may be deleted`, applyJournal).                                  *)
MergedWhateverWasDone == merged # NoTree => Seen(doc["base"].tree) = merged

(* `ElementIds are assigned for all branches and all revisions, so that they   *)
(* can remain consistent in case of branch merges` (superblock.h): the elements*)
(* of a merged document have ids of their own.                                 *)
IdentifiersUnique ==
    \A d \in DOMAIN doc : \A p, q \in DOMAIN doc[d].tree :
        doc[d].tree[p].id = doc[d].tree[q].id => p = q
================================================================================
