------------------------------ MODULE Indirection ------------------------------
(* The indirection plan of a persistent document: a tree of absolute pages maps *)
(* the relative pages of a revision to absolute ones.  A new revision inherits  *)
(* the root of the previous one, marked stolen; a page reached through a stolen *)
(* pointer is copied before it is changed (PersistentDocumentAllocator).        *)
EXTENDS Naturals, FiniteSets, FiniteSetsExt

CONSTANTS
    Allocators,         \* document allocators: one document, one thread each
    AbsolutePages,      \* bound: the absolute pages, a set of numbers > 0
    MaxRevision,        \* bound: revisions created in all
    Branches,           \* bound: branches created in all
    MaxRelative,        \* bound: relative pages of a revision
    WrittenPages,       \* bound: the relative pages that Write() writes
    AllocationSizes,    \* numbers of pages that getFreeRelativePages() takes
    AreaPages,          \* relative pages of an area
    PageInfoNumber,     \* PageInfo_pointerNumber
    IndirectionNumber,  \* Indirection_pointerNumber
    PageInfoCaching     \* TRUE: the vector of PageInfoCache, as built

VARIABLES
    page,               \* page[a] : the content of absolute page a
    revision,           \* revision[r] : RevisionPage r, or NoRevision
    lastRevision,       \* lastRevision[b] : BranchPage::lastRevisionPage
    allocator           \* allocator[a] : PersistentDocumentAllocator a, or Closed

vars == <<page, revision, lastRevision, allocator>>

ASSUME IndirectionAssumption ==
    /\ AbsolutePages \subseteq Nat \ {0}
    /\ {MaxRevision, MaxRelative, AreaPages, PageInfoNumber} \subseteq Nat \ {0}
    /\ IndirectionNumber \in Nat \ {0, 1}
    /\ \A n \in AllocationSizes : n \in 1 .. AreaPages
    /\ PageInfoCaching \in BOOLEAN

Revisions == 1 .. MaxRevision
RelativePages == 0 .. MaxRelative - 1

--------------------------------------------------------------------------------
(* Pages and pointers.                                                         *)

Free == [type |-> "Free"]
SegmentPage(value) == [type |-> "Segment", value |-> value]
IndirectionPage(pointers) == [type |-> "Indirection", pointers |-> pointers]
PageInfoPage(info) == [type |-> "PageInfo", info |-> info]

Pointer(to, stolen) == [to |-> to, stolen |-> stolen]
NullPage == Pointer(0, FALSE)
NoPageInfo == [absolute |-> 0, revision |-> 0]

NewIndirectionPage == IndirectionPage([i \in 0 .. IndirectionNumber - 1 |-> NullPage])
NewPageInfoPage == PageInfoPage([i \in 0 .. PageInfoNumber - 1 |-> NoPageInfo])

NoRevision == [branch |-> 0, last |-> 0, base |-> 0, writable |-> FALSE,
               firstPage |-> NullPage, level |-> 0, next |-> 0, ownedPages |-> 0,
               dropped |-> FALSE]
Closed == [revision |-> 0, areas |-> {}, mapped |-> [p \in RelativePages |-> 0],
           writableCache |-> {}, pageInfoCache |-> [p \in RelativePages |-> 0]]

(* The relative pages that a tree of this many levels covers.                  *)
Covered(level) == PageInfoNumber * IndirectionNumber ^ (level - 1)

(* The slot of a page of this level that leads to relative page p.             *)
Slot(level, p) == (p % Covered(level)) \div Covered(level - 1)

Area(p) == p \div AreaPages

--------------------------------------------------------------------------------
(* The work of an allocator on its revision: "s" has the absolute pages, the    *)
(* revision page and the allocator, and each operator gives them as changed.    *)

FreePage(s) == Min({a \in AbsolutePages : s.page[a] = Free})
EnoughPages(n) == Cardinality({a \in AbsolutePages : page[a] = Free}) >= n

(* getFreeIndirectionPagePtr, getFreePageInfoPagePtr, __getFreePagePtr         *)
GetFreePage(s, content) ==
    [s EXCEPT !.page[FreePage(s)] = content, !.revision.ownedPages = @ + 1]

(* What a copy of a stolen page holds: stealIndirectionPage marks stolen what  *)
(* the copy points to, stealPageInfoPage and stealSegmentPage copy.            *)
StealIndirectionPage(p) ==
    IndirectionPage([i \in DOMAIN p.pointers |->
        IF p.pointers[i] = NullPage THEN NullPage ELSE Pointer(p.pointers[i].to, TRUE)])
\* Mutant: the pointers of the copy are not marked, as if the copy owned them.
StealPageUnmarked(p) == p
StealPage(p) == IF p.type = "Indirection" THEN StealIndirectionPage(p) ELSE p

\* Mutant: the old root loses its stolen flag.
IncreaseIndirectionCoveredAreaOwned(s) ==
    [GetFreePage(s, [NewIndirectionPage EXCEPT
            !.pointers[0] = Pointer(s.revision.firstPage.to, FALSE)]) EXCEPT
        !.revision.firstPage = Pointer(FreePage(s), FALSE),
        !.revision.level = @ + 1]

(* A new root, whose first pointer is the old root with its stolen flag.       *)
IncreaseIndirectionCoveredArea(s) ==
    [GetFreePage(s, [NewIndirectionPage EXCEPT !.pointers[0] = s.revision.firstPage]) EXCEPT
        !.revision.firstPage = Pointer(FreePage(s), FALSE),
        !.revision.level = @ + 1]

(* The root, owned by the revision.                                            *)
OwnedRoot(s) ==
    IF s.revision.firstPage.stolen
    THEN [GetFreePage(s, StealPage(s.page[s.revision.firstPage.to])) EXCEPT
             !.revision.firstPage = Pointer(FreePage(s), FALSE)]
    ELSE s

(* One level down for a write, from the indirection page d.at: an empty slot   *)
(* of level 2 gets a page-info page, one above it an indirection page, and a   *)
(* stolen one a copy.                                                          *)
LevelPage(s, pointer, level) ==
    CASE pointer = NullPage /\ level = 2 -> NewPageInfoPage
      [] pointer = NullPage /\ level > 2 -> NewIndirectionPage
      [] OTHER -> StealPage(s.page[pointer.to])
WriteSlot(d, slot, pointer, level) ==
    IF pointer = NullPage \/ pointer.stolen
    THEN [s |-> [GetFreePage(d.s, LevelPage(d.s, pointer, level)) EXCEPT
                     !.page[d.at].pointers[slot] = Pointer(FreePage(d.s), FALSE)],
          at |-> FreePage(d.s)]
    ELSE [d EXCEPT !.at = pointer.to]
WriteLevel(d, level, p) ==
    WriteSlot(d, Slot(level, p), d.s.page[d.at].pointers[Slot(level, p)], level)

(* fetchPageInfoPagePtr(p, write): the page-info page of relative page p.      *)
WriteFromRoot(s, p) ==
    LET fetch[level \in 1 .. s.revision.level] ==
            IF level = s.revision.level
            THEN [s |-> s, at |-> s.revision.firstPage.to]
            ELSE WriteLevel(fetch[level + 1], level + 1, p)
    IN  fetch[1]
FetchForWrite(s, p) ==
    WriteFromRoot(OwnedRoot(IF Covered(s.revision.level) <= p
                            THEN IncreaseIndirectionCoveredArea(s) ELSE s), p)
FetchForRead(s, p) ==
    LET fetch[level \in 1 .. s.revision.level] ==
            IF level = s.revision.level THEN s.revision.firstPage.to
            ELSE s.page[fetch[level + 1]].pointers[Slot(level + 1, p)].to
    IN  fetch[1]

(* doGetPageInfoPage(): a page-info page found in the cache is returned as it  *)
(* is, for a write too; the cache is filled by reads and by writes.            *)
Cached(s, p) == PageInfoCaching /\ s.allocator.pageInfoCache[p] # 0
PageInfoPageForRead(s, p) ==
    IF Cached(s, p) THEN s.allocator.pageInfoCache[p] ELSE FetchForRead(s, p)
PutInCache(d, p) ==
    IF PageInfoCaching THEN [d EXCEPT !.s.allocator.pageInfoCache[p] = d.at] ELSE d
GetPageInfoPageForWrite(s, p) ==
    IF Cached(s, p) THEN [s |-> s, at |-> s.allocator.pageInfoCache[p]]
    ELSE PutInCache(FetchForWrite(s, p), p)

PageInfo(s, at, p) == s.page[at].info[p % PageInfoNumber]

(* mapArea(): every page of the area is mapped where the tree, or the cache,   *)
(* says.                                                                       *)
MapArea(s, area) ==
    LET pages == {p \in RelativePages : Area(p) = area /\ p < s.revision.next}
        at == [p \in pages |-> PageInfoPageForRead(s, p)]
        old == s.allocator
    IN  IF area \in old.areas THEN s
        ELSE [s EXCEPT !.allocator =
                [old EXCEPT
                    !.areas = @ \cup {area},
                    !.mapped = [p \in RelativePages |->
                        IF p \in pages THEN PageInfo(s, at[p], p).absolute ELSE @[p]],
                    !.pageInfoCache = [p \in RelativePages |->
                        IF p \in pages /\ PageInfoCaching THEN at[p] ELSE @[p]]]]

(* authorizePageWrite(): a page of another revision is copied and mapped again. *)
StealSegmentPage(d, p) ==
    [GetFreePage(d.s, d.s.page[d.s.allocator.mapped[p]]) EXCEPT
        !.page[d.at].info[p % PageInfoNumber] =
            [absolute |-> FreePage(d.s), revision |-> d.s.allocator.revision],
        !.allocator.mapped[p] = FreePage(d.s)]
Authorized(d, p) ==
    IF PageInfo(d.s, d.at, p).revision = d.s.allocator.revision THEN d.s
    ELSE StealSegmentPage(d, p)
AuthorizePageWrite(s, p) ==
    IF p \in s.allocator.writableCache THEN s
    ELSE [Authorized(GetPageInfoPageForWrite(s, p), p) EXCEPT
             !.allocator.writableCache = @ \cup {p}]

(* A segment of page p is written: getSegment<T, Write>, then the change.      *)
Written(s, p) == [s EXCEPT !.page[s.allocator.mapped[p]] = SegmentPage(s.allocator.revision)]
WriteSegment(s, p) == Written(AuthorizePageWrite(MapArea(s, Area(p)), p), p)

\* Mutant: the new page is left to the next mapArea(), though its area is mapped.
ProvidePageUnmapped(d, p, new) ==
    [d.s EXCEPT !.page[d.at].info[p % PageInfoNumber] =
        [absolute |-> new, revision |-> d.s.allocator.revision]]

(* One new relative page: an absolute page, its page info, and its mapping if  *)
(* its area is mapped.                                                         *)
ProvidePage(d, p, new) ==
    [d.s EXCEPT
        !.page[d.at].info[p % PageInfoNumber] =
            [absolute |-> new, revision |-> d.s.allocator.revision],
        !.allocator.mapped[p] = IF Area(p) \in d.s.allocator.areas THEN new ELSE @]
NewRelativePage(s, p) ==
    ProvidePage(GetPageInfoPageForWrite(GetFreePage(s, SegmentPage(s.allocator.revision)), p),
                p, FreePage(s))

(* getFreeRelativePages(): the pages are provided in one area; what is left of *)
(* the area before is marked as a free segment, which is a write.              *)
NewRelativePages(s, first, next) ==
    LET alloced[end \in first .. next] ==
            IF end = first THEN [s EXCEPT !.revision.next = next]
            ELSE NewRelativePage(alloced[end - 1], end - 1)
    IN  alloced[next]
GetFreeRelativePages(s, n) ==
    LET first == s.revision.next
        crossing == Area(first) # Area(first + n - 1)
        provided == IF crossing THEN Area(first + n - 1) * AreaPages ELSE first
        alloced == NewRelativePages(s, first, provided + n)
    IN  MapArea(IF crossing THEN WriteSegment(alloced, first) ELSE alloced, Area(provided))
LastProvided(next, n) ==
    IF Area(next) # Area(next + n - 1) THEN Area(next + n - 1) * AreaPages + n - 1
    ELSE next + n - 1

--------------------------------------------------------------------------------
(* The operations.                                                             *)

State(a) == [page |-> page, revision |-> revision[allocator[a].revision],
             allocator |-> allocator[a]]
Becomes(a, s) ==
    /\ page' = s.page
    /\ revision' = [revision EXCEPT ![allocator[a].revision] = s.revision]
    /\ allocator' = [allocator EXCEPT ![a] = s.allocator]
    /\ UNCHANGED lastRevision

\* Mutant: the pages written in the last revision stay writable.
FlushInMemCachesNothing(alloc) == alloc

(* flushInMemCaches(): PageInfoCache::flush() is empty.                        *)
FlushInMemCaches(alloc) == [alloc EXCEPT !.writableCache = {}]

IsWritable(a) == allocator[a].revision # 0 /\ revision[allocator[a].revision].writable

(* Bound: the store has room for n new segment pages and what leads to each.   *)
Room(r, n) == EnoughPages(n * (revision[r].level + 1))

(* The number of a new revision: none is used twice.                           *)
UnusedRevision(r) ==
    /\ revision[r] = NoRevision
    /\ \A q \in 1 .. r - 1 : revision[q] # NoRevision
Live == {r \in Revisions : revision[r].level > 0}
RevisionsOf(b) == {r \in Live : revision[r].branch = b}

(* formatHeadRevisionPage(): one page-info page, no relative page.             *)
FormatHeadRevisionPage(b, a) ==
    [NoRevision EXCEPT !.branch = b, !.writable = TRUE, !.level = 1,
                       !.firstPage = Pointer(a, FALSE), !.ownedPages = 1]

\* Mutant: the new revision is one of the branch of the source.
InheritRevisionPageInBranch(b, source, last) ==
    [revision[source] EXCEPT !.last = last, !.base = source, !.writable = TRUE,
                             !.firstPage.stolen = TRUE, !.ownedPages = 0]

(* inheritRevisionPage(): the tree of the source, its root marked stolen.      *)
InheritRevisionPage(b, source, last) ==
    [revision[source] EXCEPT !.branch = b, !.last = last, !.base = source, !.writable = TRUE,
                             !.firstPage.stolen = TRUE, !.ownedPages = 0]

(* openDocument() of a new branch: createRevision() formats the first one.     *)
CreateBranch(a, b, r) ==
    /\ allocator[a] = Closed
    /\ lastRevision[b] = 0 /\ UnusedRevision(r) /\ Room(r, 1)
    /\ LET root == Min({x \in AbsolutePages : page[x] = Free})
       IN  /\ page' = [page EXCEPT ![root] = NewPageInfoPage]
           /\ revision' = [revision EXCEPT ![r] = FormatHeadRevisionPage(b, root)]
    /\ lastRevision' = [lastRevision EXCEPT ![b] = r]
    /\ allocator' = [allocator EXCEPT ![a].revision = r]

(* openDocument() of a committed revision, to read.                            *)
OpenRead(a, r) ==
    /\ allocator[a] = Closed
    /\ r \in Live /\ ~revision[r].writable
    /\ allocator' = [allocator EXCEPT ![a].revision = r]
    /\ UNCHANGED <<page, revision, lastRevision>>

(* openDocument() to write: a revision after the last one.                     *)
OpenWrite(a, b, r) ==
    /\ allocator[a] = Closed
    /\ lastRevision[b] # 0 /\ ~revision[lastRevision[b]].writable /\ UnusedRevision(r)
    /\ revision' = [revision EXCEPT ![r] = InheritRevisionPage(b, lastRevision[b], lastRevision[b])]
    /\ lastRevision' = [lastRevision EXCEPT ![b] = r]
    /\ allocator' = [allocator EXCEPT ![a].revision = r]
    /\ UNCHANGED page

(* reopen(): a new revision after this one, the mapped areas kept.             *)
Reopen(a, r) ==
    LET current == allocator[a].revision
        b == revision[current].branch
    IN  /\ current # 0 /\ ~revision[current].writable
        /\ lastRevision[b] = current /\ UnusedRevision(r)
        /\ revision' = [revision EXCEPT ![r] = InheritRevisionPage(b, current, current)]
        /\ lastRevision' = [lastRevision EXCEPT ![b] = r]
        /\ allocator' = [allocator EXCEPT ![a] = FlushInMemCaches([@ EXCEPT !.revision = r])]
        /\ UNCHANGED page

(* fork(): the first revision of a new branch, with the tree of this one; the  *)
(* caches are flushed before.                                                  *)
Fork(a, b, r) ==
    LET current == allocator[a].revision
    IN  /\ current # 0 /\ ~revision[current].writable
        /\ lastRevision[b] = 0 /\ UnusedRevision(r)
        /\ revision' = [revision EXCEPT ![r] = InheritRevisionPage(b, current, 0)]
        /\ lastRevision' = [lastRevision EXCEPT ![b] = r]
        /\ allocator' = [allocator EXCEPT ![a] = [FlushInMemCaches(@) EXCEPT !.revision = r]]
        /\ UNCHANGED page

(* A segment is read: its area is mapped when it was not.                      *)
ReadPage(a, p) ==
    /\ allocator[a].revision # 0
    /\ p < revision[allocator[a].revision].next
    /\ Area(p) \notin allocator[a].areas
    /\ Becomes(a, MapArea(State(a), Area(p)))

Write(a, p) ==
    /\ IsWritable(a) /\ Room(allocator[a].revision, 1) /\ p \in WrittenPages
    /\ p < revision[allocator[a].revision].next
    /\ Becomes(a, WriteSegment(State(a), p))

(* New segments on new pages.                                                  *)
Allocate(a, n) ==
    /\ IsWritable(a) /\ Room(allocator[a].revision, 2 * n)
    /\ LastProvided(revision[allocator[a].revision].next, n) < MaxRelative
    /\ Becomes(a, GetFreeRelativePages(State(a), n))

Commit(a) ==
    /\ IsWritable(a)
    /\ revision' = [revision EXCEPT ![allocator[a].revision].writable = FALSE]
    /\ allocator' = [allocator EXCEPT ![a] = FlushInMemCaches(@)]
    /\ UNCHANGED <<page, lastRevision>>

(* housewife(): the caches are flushed and areas above the first are unmapped. *)
Housewife(a) ==
    /\ allocator[a].revision # 0
    /\ allocator[a].areas \ {0} # {}
    /\ LET area == Max(allocator[a].areas)
           mapped == [p \in RelativePages |-> IF Area(p) = area THEN 0 ELSE allocator[a].mapped[p]]
       IN  allocator' = [allocator EXCEPT ![a] =
               [FlushInMemCaches(@) EXCEPT !.areas = @ \ {area}, !.mapped = mapped]]
    /\ UNCHANGED <<page, revision, lastRevision>>

(* The document is deleted; one that was not committed keeps its branch locked *)
(* and is left out (BranchManager).                                            *)
Close(a) ==
    /\ allocator[a].revision # 0 /\ ~IsWritable(a)
    /\ allocator' = [allocator EXCEPT ![a] = Closed]
    /\ UNCHANGED <<page, revision, lastRevision>>

--------------------------------------------------------------------------------
(* Dropping a branch.                                                          *)

(* forAllIndirectionPages() with ownedIndirOnly false and ownedSegmentOnly     *)
(* true: the pages that dropAllPages() collects below pointer "from", seen     *)
(* from revision r.                                                            *)
DroppedPages(r) ==
    LET OwnSegments(p) == {p.info[i].absolute : i \in {j \in DOMAIN p.info :
                               p.info[j].absolute # 0 /\ p.info[j].revision = r}}
        dropped[level \in 1 .. revision[r].level,
                at \in AbsolutePages, stolen \in BOOLEAN] ==
            LET p == page[at]
                below == IF level = 1 THEN (IF stolen THEN {} ELSE OwnSegments(p))
                         ELSE UNION {dropped[level - 1, p.pointers[i].to,
                                             stolen \/ p.pointers[i].stolen] :
                                     i \in {j \in DOMAIN p.pointers : p.pointers[j] # NullPage}}
            IN  below \cup (IF stolen THEN {} ELSE {at})
    IN  dropped[revision[r].level, revision[r].firstPage.to, revision[r].firstPage.stolen]

(* dropRevisions() of every revision of the branch, once no document is on it  *)
(* and no other branch derives from it (checkBranchRemoval).                   *)
DropBranch(b) ==
    LET gone == RevisionsOf(b)
        freed == UNION {DroppedPages(r) : r \in gone}
    IN  /\ gone # {}
        /\ \A a \in Allocators : allocator[a].revision \notin gone
        /\ \A r \in Revisions \ gone : revision[r].base \notin gone
        /\ \A r \in gone : ~revision[r].writable
        /\ page' = [a \in AbsolutePages |-> IF a \in freed THEN Free ELSE page[a]]
        /\ revision' = [r \in Revisions |->
               IF r \in gone THEN [NoRevision EXCEPT !.dropped = TRUE] ELSE revision[r]]
        /\ lastRevision' = [lastRevision EXCEPT ![b] = 0]
        /\ UNCHANGED allocator

--------------------------------------------------------------------------------
Init ==
    /\ page = [a \in AbsolutePages |-> Free]
    /\ revision = [r \in Revisions |-> NoRevision]
    /\ lastRevision = [b \in Branches |-> 0]
    /\ allocator = [a \in Allocators |-> Closed]

Next ==
    \/ \E a \in Allocators :
        \/ \E r \in Revisions :
            \/ \E b \in Branches : CreateBranch(a, b, r) \/ OpenWrite(a, b, r) \/ Fork(a, b, r)
            \/ OpenRead(a, r)
            \/ Reopen(a, r)
        \/ \E p \in RelativePages : ReadPage(a, p) \/ Write(a, p)
        \/ \E n \in AllocationSizes : Allocate(a, n)
        \/ Commit(a)
        \/ Housewife(a)
        \/ Close(a)
    \/ \E b \in Branches : DropBranch(b)

Spec == Init /\ [][Next]_vars

--------------------------------------------------------------------------------
(* Properties.                                                                 *)

TypeOK ==
    /\ \A a \in AbsolutePages : page[a].type \in {"Free", "Segment", "Indirection", "PageInfo"}
    /\ \A r \in Revisions :
        /\ revision[r].firstPage.to \in AbsolutePages \cup {0}
        /\ revision[r].next \in 0 .. MaxRelative
        /\ Covered(revision[r].level + 1) > revision[r].next
    /\ \A b \in Branches : lastRevision[b] \in RevisionsOf(b) \cup {0}
    /\ \A a \in Allocators : allocator[a].revision \in Revisions \cup {0}

(* The absolute page of relative page p of revision r, as its tree says.       *)
Lookup(r, p) ==
    LET s == [page |-> page, revision |-> revision[r]]
    IN  PageInfo(s, FetchForRead(s, p), p).absolute

(* What a document reads and writes is what its revision holds: an area mapped *)
(* in memory agrees with the tree of the revision, though reopen() and fork()  *)
(* change the revision and keep the mapping, and pages are copied meanwhile.   *)
MappingTrue ==
    \A a \in Allocators, p \in RelativePages :
        LET r == allocator[a].revision IN
        r # 0 /\ p < revision[r].next /\ Area(p) \in allocator[a].areas =>
            allocator[a].mapped[p] = Lookup(r, p)

(* The contents of the revisions, as the trees give them, are what CowMap      *)
(* promises: a committed revision never changes, a new one starts equal to the *)
(* one it derives from, and only the writer's page changes in a write.         *)
Status(r) == IF revision[r] = NoRevision THEN "none"
             ELSE IF revision[r].dropped THEN "dropped"
             ELSE IF revision[r].writable THEN "writable" ELSE "committed"
Content(r) == [i \in 1 .. revision[r].next |-> page[Lookup(r, i - 1)].value]

Cow == INSTANCE CowMap WITH
    status <- [r \in Revisions |-> Status(r)],
    content <- [r \in Revisions |-> Content(r)]

CopyOnWrite == Cow!Spec

(* A committed revision that is not dropped keeps its content, whatever the    *)
(* later revisions write: indirection.h says that a new copy is made when the  *)
(* indirections must be altered.                                               *)
CommittedKept ==
    [][\A r \in Revisions :
          Status(r) = "committed" /\ Status(r)' = "committed" => Content(r)' = Content(r)]_vars
=============================================================================
