--------------------------- MODULE SegmentAllocator ----------------------------
(******************************************************************************)
(* The segments of a document: DocumentAllocator (kern/documentallocator.cpp) *)
(* with the two ways of getting new relative pages, that of                   *)
(* PersistentDocumentAllocator and that of VolatileDocumentAllocator.         *)
(*                                                                            *)
(* Addresses and sizes are counted in units of sizeof(FreeSegment), the       *)
(* granularity of alignSize(). A free segment holds the links of two lists in *)
(* its own bytes: the list of the segments of its size level, doubly linked,  *)
(* and the list of the free segments that start in its page, in the order of  *)
(* their offsets. A document allocator that does not coalesce has no lists by *)
(* page. Only allocation profile 0 is ever used (getAllocationProfile()).     *)
(******************************************************************************)
EXTENDS Naturals, FiniteSets, Sequences

CONSTANTS
    PageUnits,      \* PageSize
    AreaPages,      \* the pages of an area
    MinimumNumber,  \* the pages PersistentDocumentAllocator takes at a time
    LevelNumber,    \* FreeSegmentsLevelHeader::levelNumber
    HeadUnits,      \* the first segment of a document, its DocumentHead
    Sizes,          \* the sizes that are allocated afterwards
    MaxPages        \* bound: the relative pages of the document

NullPtr == 0
levelOther == LevelNumber - 1
Units == 0 .. PageUnits * MaxPages - 1
Pages == 0 .. MaxPages - 1
PageOf(seg) == seg \div PageUnits

VARIABLES
    coalesces,  \* __assertDocumentHasCoalesce
    document,   \* [next, hole, inPage, free]: the pages, the heads of the lists
                \*   and the segments marked as free, see TypeOK
    allocated,  \* the segments in use: a function from their pointer to their size
    lost        \* the units skipped at the end of an area by a volatile document

vars == <<coalesces, document, allocated, lost>>

FreeSegment == [size : Nat, last : Units, next : Units,
                nextInPage : 1 .. PageUnits]

TypeOK ==
    /\ coalesces \in BOOLEAN
    /\ document.next \in 0 .. MaxPages
    /\ document.hole \in [0 .. levelOther -> Units]
    /\ document.inPage \in [Pages -> 0 .. 2 * PageUnits]
    /\ DOMAIN document.free \subseteq Units
    /\ \A seg \in DOMAIN document.free : document.free[seg] \in FreeSegment
    /\ \A seg \in DOMAIN allocated : allocated[seg] > 0
    /\ lost \subseteq Units

--------------------------------------------------------------------------------
(* The lists.                                                                  *)

Level(size) == IF size \in 1 .. levelOther THEN size - 1 ELSE levelOther

(* The free segments of a page, following nextInPage.                          *)
InPage(d, page) ==
    LET from[offset \in 0 .. 2 * PageUnits] ==
            IF offset >= PageUnits THEN <<>>
            ELSE LET seg == page * PageUnits + offset
                 IN  <<seg>> \o from[d.free[seg].nextInPage]
    IN  from[d.inPage[page]]

Position(list, seg) == {i \in 1 .. Len(list) : list[i] = seg}

\* Mutant: the segment after the one that leaves the list keeps its link to it.
UnlinkFromLevelOneWay(d, seg, level) ==
    IF d.hole[level] = seg THEN [d EXCEPT !.hole[level] = d.free[seg].next]
    ELSE [d EXCEPT !.free[d.free[seg].last].next = d.free[seg].next]

UnlinkFromLevel(d, seg, level) ==
    LET s == d.free[seg]
        unlinked == IF d.hole[level] = seg THEN [d EXCEPT !.hole[level] = s.next]
                    ELSE [d EXCEPT !.free[s.last].next = s.next]
    IN  IF s.next = NullPtr THEN unlinked
        ELSE [unlinked EXCEPT !.free[s.next].last = s.last]

UnlinkFromPage(d, seg) ==
    LET list == InPage(d, PageOf(seg))
    IN  IF ~coalesces \/ Position(list, seg) = {} THEN d
        ELSE LET i == CHOOSE i \in Position(list, seg) : TRUE
                 next == d.free[seg].nextInPage
             IN  IF i = 1 THEN [d EXCEPT !.inPage[PageOf(seg)] = next]
                 ELSE [d EXCEPT !.free[list[i - 1]].nextInPage = next]

(* unmarkSegmentAsFree(): the bytes stop being a free segment.                 *)
UnmarkSegmentAsFree(d, seg, level) ==
    LET unlinked == UnlinkFromPage(UnlinkFromLevel(d, seg, level), seg)
    IN  [unlinked EXCEPT !.free = [s \in DOMAIN @ \ {seg} |-> @[s]]]

\* Mutant: a free segment is put at the head of the list of its page.
InsertInPageFirst(d, seg) ==
    IF ~coalesces THEN d
    ELSE [d EXCEPT !.free[seg].nextInPage =
                       IF d.inPage[PageOf(seg)] < PageUnits THEN d.inPage[PageOf(seg)] ELSE @,
                   !.inPage[PageOf(seg)] = seg % PageUnits]

(* The first segment of the page list with a successor after the offset.       *)
InsertInPage(d, seg) ==
    LET page == PageOf(seg)
        offset == seg % PageUnits
        list == InPage(d, page)
        before == {i \in 1 .. Len(list) : d.free[list[i]].nextInPage > offset}
    IN  IF ~coalesces THEN d
        ELSE IF list = <<>> THEN [d EXCEPT !.inPage[page] = offset]
        ELSE IF offset < d.inPage[page]
        THEN [d EXCEPT !.free[seg].nextInPage = d.inPage[page], !.inPage[page] = offset]
        ELSE LET i == CHOOSE i \in before : \A j \in before : i <= j
             IN  [d EXCEPT !.free[seg].nextInPage = d.free[list[i]].nextInPage,
                           !.free[list[i]].nextInPage = offset]

(* markSegmentAsFree() after coalescion: at the head of the list of its level. *)
MarkSegmentAsFree(d, seg, size) ==
    LET level == Level(size)
        head == d.hole[level]
        linked == IF head = NullPtr THEN d ELSE [d EXCEPT !.free[head].last = seg]
        new == [size |-> size, last |-> NullPtr, next |-> head, nextInPage |-> PageUnits]
        marked == [linked EXCEPT !.hole[level] = seg,
                                 !.free = [s \in DOMAIN @ \cup {seg} |->
                                              IF s = seg THEN new ELSE @[s]]]
    IN  InsertInPage(marked, seg)

\* Mutant: the freed segment grows to the left, and the free one at its left
\* stays in its lists.
FreeAndCoalesceStillListed(d, seg, size) ==
    LET list == InPage(d, PageOf(seg))
        left == {i \in 1 .. Len(list) : list[i] + d.free[list[i]].size = seg}
    IN  IF ~coalesces \/ left = {} THEN MarkSegmentAsFree(d, seg, size)
        ELSE LET s == list[CHOOSE i \in left : TRUE]
             IN  [d EXCEPT !.free[s].size = @ + size]

(* coalesceFreeSegment(): the free segments that start in the same page and end*)
(* or begin where the freed one begins or ends are merged with it.             *)
FreeAndCoalesce(d, seg, size) ==
    LET list == InPage(d, PageOf(seg))
        Listed(P(_)) == {s \in {list[i] : i \in 1 .. Len(list)} : P(s)}
        left == Listed(LAMBDA s : s + d.free[s].size = seg)
        right == Listed(LAMBDA s : seg + size = s)
        Unmark(h, S) == IF S = {} THEN h
                        ELSE LET s == CHOOSE s \in S : TRUE
                             IN  UnmarkSegmentAsFree(h, s, Level(h.free[s].size))
        first == IF left = {} THEN seg ELSE CHOOSE s \in left : TRUE
        SizeOf(S) == IF S = {} THEN 0 ELSE d.free[CHOOSE s \in S : TRUE].size
    IN  IF coalesces
        THEN MarkSegmentAsFree(Unmark(Unmark(d, left), right), first,
                               SizeOf(left) + size + SizeOf(right))
        ELSE MarkSegmentAsFree(d, seg, size)

--------------------------------------------------------------------------------
(* Allocation. Both ways give the document afterwards and the pointer.         *)

(* The head of a list is taken when it is large enough, and only the head; what*)
(* remains of it is marked again, without coalescion.                          *)
FromHole(d, size, level) ==
    LET seg == d.hole[level]
        taken == UnmarkSegmentAsFree(d, seg, level)
        rest == d.free[seg].size - size
    IN  [ptr |-> seg,
         document |-> IF rest = 0 THEN taken ELSE MarkSegmentAsFree(taken, seg + size, rest)]

HoleFits(d, size, level) ==
    d.hole[level] # NullPtr /\ d.free[d.hole[level]].size >= size

(* getFreeRelativePages(): the pages of a segment are all in one area, so that *)
(* the end of an area may be skipped: marked as free by a persistent document, *)
(* lost by a volatile one, which also skips an area it would exactly fill.     *)
PageNumber(units) == (units + PageUnits - 1) \div PageUnits
Provided(number) == IF coalesces /\ number < MinimumNumber THEN MinimumNumber ELSE number
FirstProvided(d, number) ==
    LET last == d.next + number - (IF coalesces THEN 1 ELSE 0)
    IN  IF d.next \div AreaPages = last \div AreaPages THEN d.next
        ELSE (last \div AreaPages) * AreaPages

\* Mutant: the persistent allocator skips the end of the area as the volatile one does.
GetFreeRelativePagesUnmarked(d, number) ==
    LET first == FirstProvided(d, number)
    IN  [d EXCEPT !.next = first + number,
                  !.inPage = [p \in Pages |-> IF p \in d.next .. first + number - 1
                                              THEN 2 * PageUnits ELSE @[p]]]

GetFreeRelativePages(d, number) ==
    LET first == FirstProvided(d, number)
        moved == [d EXCEPT !.next = first + number,
                           !.inPage = [p \in Pages |-> IF p \in d.next .. first + number - 1
                                                       THEN 2 * PageUnits ELSE @[p]]]
    IN  IF first # d.next /\ coalesces
        THEN MarkSegmentAsFree(moved, d.next * PageUnits, (first - d.next) * PageUnits)
        ELSE moved

(* In an empty document the first unit is reserved: a segment at 0 would be    *)
(* NullPtr.                                                                    *)
Reserved(d) == IF d.next = 0 THEN 1 ELSE 0
PagesFor(d, size) == Provided(PageNumber(size + Reserved(d)))
FromNewPages(d, size) ==
    LET number == PagesFor(d, size)
        paged == GetFreeRelativePages(d, number)
        seg == FirstProvided(d, number) * PageUnits + Reserved(d)
        rest == number * PageUnits - size - Reserved(d)
    IN  [ptr |-> seg,
         document |-> IF rest = 0 THEN paged ELSE MarkSegmentAsFree(paged, seg + size, rest)]

(* The holes of the exact level, then those of levelOther, then new pages.     *)
GetFreeSegmentPtr(d, size) ==
    IF HoleFits(d, size, Level(size)) THEN FromHole(d, size, Level(size))
    ELSE IF HoleFits(d, size, levelOther) THEN FromHole(d, size, levelOther)
    ELSE FromNewPages(d, size)

NeedsPages(d, size) ==
    ~HoleFits(d, size, Level(size)) /\ ~HoleFits(d, size, levelOther)

--------------------------------------------------------------------------------
Init ==
    /\ coalesces \in BOOLEAN
    /\ document = [next |-> 0, hole |-> [l \in 0 .. levelOther |-> NullPtr],
                   inPage |-> [p \in Pages |-> 2 * PageUnits], free |-> [s \in {} |-> 0]]
    /\ allocated = [s \in {} |-> 0]
    /\ lost = {}

(* Bound: the pages the allocation would end at.                               *)
Room(size) == LET number == PagesFor(document, size)
              IN  NeedsPages(document, size) =>
                      FirstProvided(document, number) + number <= MaxPages

Allocate(size) ==
    /\ size \in IF document.next = 0 THEN {HeadUnits} ELSE Sizes
    /\ Room(size)
    /\ LET got == GetFreeSegmentPtr(document, size)
           skipped == IF NeedsPages(document, size) /\ ~coalesces
                      THEN document.next * PageUnits ..
                           FirstProvided(document, PagesFor(document, size)) * PageUnits - 1
                      ELSE {}
       IN  /\ document' = got.document
           /\ allocated' = [s \in DOMAIN allocated \cup {got.ptr} |->
                               IF s = got.ptr THEN size ELSE allocated[s]]
           /\ lost' = lost \cup skipped
    /\ UNCHANGED coalesces

Free(seg) ==
    /\ seg \in DOMAIN allocated
    /\ document' = FreeAndCoalesce(document, seg, allocated[seg])
    /\ allocated' = [s \in DOMAIN allocated \ {seg} |-> allocated[s]]
    /\ UNCHANGED <<coalesces, lost>>

Next ==
    \/ \E size \in Sizes \cup {HeadUnits} : Allocate(size)
    \/ \E seg \in Units : Free(seg)

Spec == Init /\ [][Next]_vars

--------------------------------------------------------------------------------
(* The check of the contents of a document, checkContents(): it marks the       *)
(* segments it finds, unit by unit, and follows the lists of free segments.     *)

(* __markSegment(): the units of a segment, and those of all that are found.    *)
Span(seg, size) == seg .. seg + size - 1
ReservedUnits == IF document.next = 0 THEN {} ELSE {NullPtr}
Marked ==
    {Span(s, allocated[s]) : s \in DOMAIN allocated}
    \cup {Span(s, document.free[s].size) : s \in DOMAIN document.free}
IdentifiedOnce ==
    /\ DOMAIN allocated \cap DOMAIN document.free = {}
    /\ \A S, T \in Marked \cup {ReservedUnits, lost} : S = T \/ S \cap T = {}
    /\ UNION (Marked \cup {ReservedUnits, lost}) = 0 .. document.next * PageUnits - 1

(* The chain of the holes of a level; it stops at what is no free segment.      *)
HolesOf(level) ==
    LET from[n \in 0 .. Cardinality(Units), seg \in Units] ==
            IF n = 0 \/ seg = NullPtr THEN <<>>
            ELSE IF seg \notin DOMAIN document.free THEN <<seg>>
            ELSE <<seg>> \o from[n - 1, document.free[seg].next]
    IN  from[Cardinality(Units), document.hole[level]]

(* The chain of a page, from its first free segment: each link leads to a free  *)
(* segment of the page, and further than the link before.                       *)
FirstFreeSegmentChecked(page) ==
    LET checked[offset \in 0 .. 2 * PageUnits] ==
            \/ offset >= PageUnits
            \/ LET seg == page * PageUnits + offset
               IN  /\ seg \in DOMAIN document.free
                   /\ \/ document.free[seg].nextInPage >= PageUnits
                      \/ /\ document.free[seg].nextInPage > offset
                         /\ checked[document.free[seg].nextInPage]
    IN  checked[document.inPage[page]]

--------------------------------------------------------------------------------
(* Properties.                                                                 *)

(* Every unit of the pages of the document is identified once: reserved, lost, *)
(* in one segment in use or in one free segment. A segment handed out twice,   *)
(* a free segment that covers one in use, bytes forgotten by a split or a      *)
(* merge all show here (the marks of __markSegment(), identifiedSize).         *)
Identified == IdentifiedOnce

(* The list of each level holds the free segments of that level, each once, and*)
(* the backward links of a list are those of its segments: unmarking a segment *)
(* in the middle of a list trusts `last`.                                      *)
LevelsExact ==
    \A level \in 0 .. levelOther :
        LET list == HolesOf(level)
        IN  /\ {list[i] : i \in 1 .. Len(list)} =
               {s \in DOMAIN document.free : Level(document.free[s].size) = level}
            /\ \A i \in 1 .. Len(list) :
                   document.free[list[i]].last = IF i = 1 THEN NullPtr ELSE list[i - 1]

(* The list of a page holds the free segments that start in it, by increasing  *)
(* offset: the check follows it, and coalescing finds every neighbour in it.   *)
PageListsExact ==
    \A page \in Pages :
        /\ FirstFreeSegmentChecked(page)
        /\ LET list == InPage(document, page)
           IN  coalesces => {list[i] : i \in 1 .. Len(list)} =
                            {s \in DOMAIN document.free : PageOf(s) = page}

================================================================================
