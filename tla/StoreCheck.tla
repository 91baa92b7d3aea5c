------------------------------- MODULE StoreCheck -------------------------------
(* The check of a store (PersistentStore::checkAllContents): it walks the       *)
(* branches, their revisions and the tree of each, references every page it     *)
(* meets in a table of all pages, and compares the counts of the revisions and  *)
(* their relative pages with those of the revisions that they derive from.      *)
EXTENDS Indirection, Sequences

(* checkBranch(): the revisions of a branch, from the last one back.            *)
Line(b) ==
    LET line[r \in 0 .. MaxRevision] == IF r = 0 THEN {} ELSE {r} \cup line[revision[r].last]
    IN  line[lastRevision[b]]
Checked == UNION {Line(b) : b \in Branches}

(* The revisions in the table of relative pages when r is checked, oldest first *)
(* and r at the end: those of its branch before it, and, in the copy that a     *)
(* forked branch gets, those that were there after the revision it forks from.  *)
TableOf(r) ==
    LET table[q \in 0 .. MaxRevision] ==
            IF q = 0 THEN <<>>
            ELSE Append(table[IF revision[q].last # 0 THEN revision[q].last
                              ELSE revision[q].base], q)
    IN  table[r]

(* checkPages(): the pages that the tree of r references, each with the place   *)
(* of the pointer, the type of the page, the first relative page it is for, and *)
(* if it is stolen. The relative pages are counted from the pointers that are   *)
(* set only.                                                                    *)
Reference(r, place, to, covers, stolen) ==
    [revision |-> r, place |-> place, to |-> to, type |-> page[to].type,
     covers |-> covers, stolen |-> stolen]

SegmentReferences(r, at, covers, stolen) ==
    {Reference(r, <<at, i>>, page[at].info[i].absolute, covers + i,
               stolen \/ page[at].info[i].revision # r) :
        i \in {j \in DOMAIN page[at].info : page[at].info[j].absolute # 0}}

References(r) ==
    LET walk[level \in 1 .. revision[r].level, at \in AbsolutePages,
             covers \in 0 .. Covered(revision[r].level), stolen \in BOOLEAN] ==
            IF level = 1 THEN SegmentReferences(r, at, covers, stolen)
            ELSE LET pointers == page[at].pointers
                     set == {i \in DOMAIN pointers : pointers[i] # NullPage}
                     First(i) == covers +
                         Covered(level - 1) * Cardinality({j \in set : j < i})
                     Stolen(i) == stolen \/ pointers[i].stolen
                 IN  UNION {{Reference(r, <<at, i>>, pointers[i].to, First(i), Stolen(i))}
                             \cup walk[level - 1, pointers[i].to, First(i), Stolen(i)] :
                               i \in set}
        root == revision[r].firstPage
    IN  {Reference(r, <<0, 0>>, root.to, 0, root.stolen)}
        \cup walk[revision[r].level, root.to, 0, root.stolen]

Own(references) == {x \in references : ~x.stolen}

(* referencePage(): a page is set by one reference, and those that stole it     *)
(* agree with it on what it is.                                                 *)
ReferencesAgree(references) ==
    \A x, y \in references :
        x.to = y.to => /\ x.type = y.type /\ x.covers = y.covers
                       /\ ~x.stolen /\ ~y.stolen => x = y

(* checkUnsetPages(), with the pages of the free lists set before.              *)
PagesSet(references) ==
    {x.to : x \in Own(references)} = {a \in AbsolutePages : page[a] # Free}

(* checkRevision(): the revision counts the pages that it does not steal.       *)
CountExact(r, references) == revision[r].ownedPages = Cardinality(Own(references[r]))

(* checkRelativePages(): every relative page but the first is declared once by  *)
(* the revision, and one that is stolen is that of the last revision that owns  *)
(* it.                                                                          *)
RelativePagesResolved(r, references) ==
    LET table == TableOf(r)
        Declared(q, p) == {x \in references[q] : x.type = "Segment" /\ x.covers = p}
        Owners(p) == {i \in 1 .. Len(table) - 1 : Own(Declared(table[i], p)) # {}}
    IN  \A p \in 1 .. revision[r].next - 1 :
            /\ Cardinality(Declared(r, p)) = 1
            /\ \A x \in Declared(r, p) :
                   x.stolen => /\ Owners(p) # {}
                               /\ \A y \in Own(Declared(table[Max(Owners(p))], p)) : y.to = x.to

--------------------------------------------------------------------------------
(* Properties.                                                                  *)

(* The check of the store finds no error, after any history of writes, forks,   *)
(* commits and removals of branches: each page in use is referenced once by its *)
(* owner, the others that see it stole it, the revisions count their pages      *)
(* right, and a relative page that a revision did not write is the one of the   *)
(* last revision that did, over the line of revisions and the branches they     *)
(* fork from. Dropping a branch then frees its pages and no page of another.    *)
CheckPasses ==
    LET references == [r \in Checked |-> References(r)]
        all == UNION {references[r] : r \in Checked}
    IN  /\ Checked = Live
        /\ ReferencesAgree(all)
        /\ PagesSet(all)
        /\ \A r \in Checked : CountExact(r, references) /\ RelativePagesResolved(r, references)
=============================================================================
