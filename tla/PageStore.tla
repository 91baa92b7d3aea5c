------------------------------ MODULE PageStore ------------------------------
(***************************************************************************)
(* The page allocator of a persistent store: the SuperBlock counters       *)
(* (noMansLand, nbFreePages), the FreePageHeader with its three kinds of   *)
(* PageList, and the private PageList of every writable revision           *)
(* (persistentstore-pages.cpp, persistentdocumentallocator*.cpp).          *)
(*                                                                         *)
(* A page is named by its index in the file (AbsolutePagePtr / PageSize).  *)
(* A PageList is the set of the pages it lists: which of them is handed    *)
(* out first, and the order of the lists on the chain, is left open.       *)
(*                                                                         *)
(* A "writer" is the thread that works on one branch: the write lock of    *)
(* the branch leaves at most one such thread per branch.  Two mutexes cut  *)
(* the operations into steps: everything a call does under                 *)
(* freePageHeaderMutex is one step, and a nbFreePages update made outside  *)
(* of it (under the SuperBlock lock only) is a step of its own.            *)
(***************************************************************************)
EXTENDS Integers, FiniteSets, FiniteSetsExt

CONSTANTS
  Writers,     \* threads, each working on a branch of its own
  MaxNumber,   \* PageList::maxNumber, the capacity of a PageList
  PageLimit    \* bound on the length of the file, in pages

ASSUME WritersAssumption == IsFiniteSet(Writers)
ASSUME MaxNumberAssumption == MaxNumber \in Nat \ {0}
ASSUME PageLimitAssumption == PageLimit \in Nat

VARIABLES
  noMansLand,    \* SuperBlock: the first page that never has been alloced
  nbFreePages,   \* SuperBlock: number of free pages
  chain,         \* FreePageHeader: the lists linked from firstFreePageList
  current,       \* FreePageHeader: currentFreedPageList, or NullPage
  own,           \* FreePageHeader: ownFreePageList, or NullPage
  pages,         \* contents of every PageList: pages[0 .. number-1]
  freePageList,  \* RevisionPage: the private list of each writer, or NullPage
  owned,         \* pages each writer got for its revisions and did not free
  pc,            \* where each writer stands in an operation of several steps
  batch,         \* the argument of the freePages() call in progress
  rest,          \* pages the enclosing operation frees after that call
  halted         \* the process died on a memory fault

header == <<noMansLand, chain, current, own, pages>>
local == <<freePageList, owned, pc, batch, rest>>
vars == <<header, nbFreePages, local, halted>>

-----------------------------------------------------------------------------

NullPage == 0

\* Pages 0 and 1 hold the SuperBlock and the FreePageHeader.
FirstPage == 2

Page == FirstPage .. PageLimit

\* What getFreePageList() finds in list l: a list made in the no man's land is
\* followed by the pages it lists.
ListContent(l) == IF chain = {} THEN (l + 1) .. (l + MaxNumber) ELSE pages[l]

\* The number of pages getFreePageList() adds to the file.
CreatedPages == IF chain = {} THEN MaxNumber + 1 ELSE 0

TypeOK ==
  /\ noMansLand \in {FirstPage} \cup FirstPage .. (PageLimit + 1)
  /\ nbFreePages \in Int
  /\ chain \subseteq Page
  /\ current \in Page \cup {NullPage}
  /\ own \in Page \cup {NullPage}
  /\ pages \in [Page -> SUBSET Page]
  /\ freePageList \in [Writers -> Page \cup {NullPage}]
  /\ owned \in [Writers -> SUBSET Page]
  /\ pc \in [Writers -> {"idle", "decrement", "count", "push"}]
  /\ batch \in [Writers -> SUBSET Page]
  /\ rest \in [Writers -> SUBSET Page]
  /\ halted \in BOOLEAN

\* PersistentStore::format()
Init ==
  /\ noMansLand = FirstPage
  /\ nbFreePages = 0
  /\ chain = {}
  /\ current = NullPage
  /\ own = NullPage
  /\ pages = [p \in Page |-> {}]
  /\ freePageList = [w \in Writers |-> NullPage]
  /\ owned = [w \in Writers |-> {}]
  /\ pc = [w \in Writers |-> "idle"]
  /\ batch = [w \in Writers |-> {}]
  /\ rest = [w \in Writers |-> {}]
  /\ halted = FALSE

-----------------------------------------------------------------------------
(* Where the pages are.                                                    *)

PagesOfList(l) == {l} \cup pages[l]

\* The lists the FreePageHeader reaches, and the pages getFreePagePtr() and
\* getFreePageList() may hand out.
StoreLists == chain \cup ({current, own} \ {NullPage})
StoreFree == UNION {PagesOfList(l) : l \in StoreLists}

Freeing(w) == pc[w] \in {"count", "push"}

\* flushFreePageList() empties the private list: from then on its pages are in
\* the batch and the rest, although the revision still points to the list.
HasPrivateList(w) == freePageList[w] # NullPage /\ ~Freeing(w)
PrivatePages(w) == IF HasPrivateList(w) THEN PagesOfList(freePageList[w]) ELSE {}

HeldBy(w) == owned[w] \cup PrivatePages(w) \cup batch[w] \cup rest[w]

-----------------------------------------------------------------------------
(* getFreePageList(): the list l is popped off the chain, or the file grows *)
(* by a list and the pages it lists when the chain is empty.               *)

GetFreePageList(l) ==
  /\ IF chain # {}
     THEN l \in chain
     ELSE l = noMansLand /\ noMansLand + MaxNumber <= PageLimit
  /\ chain' = chain \ {l}
  /\ noMansLand' = noMansLand + CreatedPages

-----------------------------------------------------------------------------
(* getFreePagePtr(): a page for the store itself or for the structure of a *)
(* revision (key, branch, revision, indirection and page-info pages).      *)

\* Mutant of PopOwnList: the header keeps the list whose page is handed out.
PopOwnListKept(w, l, content) ==
  \/ \E p \in content :
       /\ own' = l
       /\ pages' = [pages EXCEPT ![l] = content \ {p}]
       /\ owned' = [owned EXCEPT ![w] = @ \cup {p}]
  \/ /\ content = {}
     /\ own' = l
     /\ owned' = [owned EXCEPT ![w] = @ \cup {l}]
     /\ UNCHANGED pages

\* The page that holds the list is handed out last.
PopOwnList(w, l, content) ==
  \/ \E p \in content :
       /\ own' = l
       /\ pages' = [pages EXCEPT ![l] = content \ {p}]
       /\ owned' = [owned EXCEPT ![w] = @ \cup {p}]
  \/ /\ content = {}
     /\ own' = NullPage
     /\ owned' = [owned EXCEPT ![w] = @ \cup {l}]
     /\ UNCHANGED pages

GetFreePagePtr(w) ==
  /\ pc[w] = "idle"
  /\ \/ /\ own # NullPage
        /\ PopOwnList(w, own, pages[own])
        /\ nbFreePages' = nbFreePages - 1
        /\ UNCHANGED <<chain, noMansLand>>
     \/ /\ own = NullPage
        /\ \E l \in Page : GetFreePageList(l) /\ PopOwnList(w, l, ListContent(l))
        /\ nbFreePages' = nbFreePages + CreatedPages - 1
  /\ UNCHANGED <<current, freePageList, pc, batch, rest, halted>>

-----------------------------------------------------------------------------
(* PersistentDocumentAllocator::__getFreePagePtr(): a segment page for a   *)
(* revision, out of a list the revision keeps for itself.                  *)

\* The revision has no list: it takes a whole one from the store ...
TakePrivateList(w) ==
  /\ pc[w] = "idle"
  /\ freePageList[w] = NullPage
  /\ \E l \in Page :
       /\ GetFreePageList(l)
       /\ pages' = [pages EXCEPT ![l] = ListContent(l)]
       /\ freePageList' = [freePageList EXCEPT ![w] = l]
  /\ nbFreePages' = nbFreePages + CreatedPages
  /\ pc' = [pc EXCEPT ![w] = "decrement"]
  /\ UNCHANGED <<current, own, owned, batch, rest, halted>>

\* Mutant of DecrementFreePagesCount: the page of the list is forgotten.
DecrementFreePagesCountShort(w) ==
  /\ pc[w] = "decrement"
  /\ nbFreePages' = nbFreePages - MaxNumber
  /\ pc' = [pc EXCEPT ![w] = "idle"]
  /\ UNCHANGED <<header, freePageList, owned, batch, rest, halted>>

\* ... and, once the header mutex is released, uncounts it.
DecrementFreePagesCount(w) ==
  /\ pc[w] = "decrement"
  /\ nbFreePages' = nbFreePages - (MaxNumber + 1)
  /\ pc' = [pc EXCEPT ![w] = "idle"]
  /\ UNCHANGED <<header, freePageList, owned, batch, rest, halted>>

\* Mutant of GetPrivatePage: the revision keeps the list it hands out.
GetPrivatePageKept(w) ==
  /\ pc[w] = "idle"
  /\ freePageList[w] # NullPage
  /\ LET l == freePageList[w] IN
       \/ \E p \in pages[l] :
            /\ pages' = [pages EXCEPT ![l] = @ \ {p}]
            /\ owned' = [owned EXCEPT ![w] = @ \cup {p}]
       \/ /\ pages[l] = {}
          /\ owned' = [owned EXCEPT ![w] = @ \cup {l}]
          /\ UNCHANGED pages
  /\ UNCHANGED <<noMansLand, nbFreePages, chain, current, own, freePageList>>
  /\ UNCHANGED <<pc, batch, rest, halted>>

\* Only the writer of the branch touches its list, under no store mutex.
GetPrivatePage(w) ==
  /\ pc[w] = "idle"
  /\ freePageList[w] # NullPage
  /\ LET l == freePageList[w] IN
       \/ \E p \in pages[l] :
            /\ pages' = [pages EXCEPT ![l] = @ \ {p}]
            /\ owned' = [owned EXCEPT ![w] = @ \cup {p}]
            /\ UNCHANGED freePageList
       \/ /\ pages[l] = {}
          /\ owned' = [owned EXCEPT ![w] = @ \cup {l}]
          /\ freePageList' = [freePageList EXCEPT ![w] = NullPage]
          /\ UNCHANGED pages
  /\ UNCHANGED <<noMansLand, nbFreePages, chain, current, own, pc, batch, rest, halted>>

-----------------------------------------------------------------------------
(* Freeing pages.                                                          *)

\* commit() calls flushFreePageList(), hence freePageList(): the pages of the
\* private list in one freePages() call, then the page that held the list.  The
\* model forgets what a list held when it stops being one.
CommitFlush(w) ==
  /\ pc[w] = "idle"
  /\ freePageList[w] # NullPage
  /\ batch' = [batch EXCEPT ![w] = pages[freePageList[w]]]
  /\ rest' = [rest EXCEPT ![w] = {freePageList[w]}]
  /\ pages' = [pages EXCEPT ![freePageList[w]] = {}]
  /\ pc' = [pc EXCEPT ![w] = "count"]
  /\ UNCHANGED <<noMansLand, chain, current, own>>
  /\ UNCHANGED <<nbFreePages, freePageList, owned, halted>>

\* dropAllPages(): every page of the revisions of the branch, the private list
\* and its contents included, one freePage() each in the order of the pages.
Drop(w) ==
  LET dropMap == owned[w] \cup PrivatePages(w) IN
  /\ pc[w] = "idle"
  /\ \E p \in dropMap :
       /\ \A q \in dropMap : p <= q
       /\ batch' = [batch EXCEPT ![w] = {p}]
       /\ rest' = [rest EXCEPT ![w] = dropMap \ {p}]
  /\ owned' = [owned EXCEPT ![w] = {}]
  /\ pages' = [l \in Page |-> IF l = freePageList[w] THEN {} ELSE pages[l]]
  /\ freePageList' = [freePageList EXCEPT ![w] = NullPage]
  /\ pc' = [pc EXCEPT ![w] = "count"]
  /\ UNCHANGED <<noMansLand, chain, current, own>>
  /\ UNCHANGED <<nbFreePages, halted>>

\* freePages(), first part: the counter is raised before the header is locked.
FreePagesCount(w) ==
  /\ pc[w] = "count"
  /\ nbFreePages' = nbFreePages + Cardinality(batch[w])
  /\ pc' = [pc EXCEPT ![w] = "push"]
  /\ UNCHANGED <<header, freePageList, owned, batch, rest, halted>>

\* Mutant of StartList: the pages left over are dropped.
StartListNothing(freed, oldPages) == current' = NullPage /\ pages' = oldPages

\* The first page of a set of freed pages becomes the list of the others.
StartList(freed, oldPages) ==
  IF freed = {}
  THEN current' = NullPage /\ pages' = oldPages
  ELSE \E l \in freed :
         /\ current' = l
         /\ pages' = [oldPages EXCEPT ![l] = freed \ {l}]

\* Mutant of AppendToCurrent: a list is pushed one page too early.
AppendToCurrentEarly(freed) ==
  LET room == MaxNumber - 1 - Cardinality(pages[current])
  IN
  \E copied \in SUBSET freed :
    LET filled == [pages EXCEPT ![current] = @ \cup copied] IN
    \/ /\ copied = freed
       /\ Cardinality(freed) < room
       /\ pages' = filled
       /\ UNCHANGED <<current, chain>>
    \/ /\ Cardinality(copied) = room
       /\ chain' = chain \cup {current}
       /\ StartList(freed \ copied, filled)

\* Mutant of AppendToCurrent: the current list is reset before it is pushed.
AppendToCurrentSwapped(freed) ==
  LET room == MaxNumber - Cardinality(pages[current])
  IN
  \E copied \in SUBSET freed :
    LET filled == [pages EXCEPT ![current] = @ \cup copied] IN
    \/ /\ copied = freed
       /\ Cardinality(freed) < room
       /\ pages' = filled
       /\ UNCHANGED <<current, chain>>
    \/ /\ Cardinality(copied) = room
       /\ StartList(freed \ copied, filled)
       /\ chain' = chain \cup {current'}

\* The freed pages that fit go to the current list; a list that gets full is
\* pushed on the chain and the pages left over start a new one.
AppendToCurrent(freed) ==
  LET room == MaxNumber - Cardinality(pages[current])
  IN
  \E copied \in SUBSET freed :
    LET filled == [pages EXCEPT ![current] = @ \cup copied] IN
    \/ /\ copied = freed
       /\ Cardinality(freed) < room
       /\ pages' = filled
       /\ UNCHANGED <<current, chain>>
    \/ /\ Cardinality(copied) = room
       /\ chain' = chain \cup {current}
       /\ StartList(freed \ copied, filled)

\* The call returns: the next page is freed, or the operation is over and the
\* revision forgets its private list.
FreePagesReturn(w) ==
  \/ /\ rest[w] = {}
     /\ batch' = [batch EXCEPT ![w] = {}]
     /\ pc' = [pc EXCEPT ![w] = "idle"]
     /\ freePageList' = [freePageList EXCEPT ![w] = NullPage]
     /\ UNCHANGED rest
  \/ \E p \in rest[w] :
       /\ \A q \in rest[w] : p <= q
       /\ batch' = [batch EXCEPT ![w] = {p}]
       /\ rest' = [rest EXCEPT ![w] = @ \ {p}]
       /\ pc' = [pc EXCEPT ![w] = "count"]
       /\ UNCHANGED freePageList

\* freePages(), second part, under the header mutex.
FreePagesPush(w) ==
  /\ pc[w] = "push"
  /\ batch[w] # {} \/ current # NullPage
  /\ \/ /\ current = NullPage
        /\ StartList(batch[w], pages)
        /\ UNCHANGED chain
     \/ /\ current # NullPage
        /\ AppendToCurrent(batch[w])
  /\ FreePagesReturn(w)
  /\ UNCHANGED <<noMansLand, nbFreePages, own, owned, halted>>

\* With no page to free and no current list, the assertion on the number of
\* pages being compiled out, memcpy() is asked for 2^64 - 8 bytes.
FreeNoPages(w) ==
  /\ pc[w] = "push"
  /\ batch[w] = {}
  /\ current = NullPage
  /\ halted' = TRUE
  /\ UNCHANGED <<header, nbFreePages, local>>

-----------------------------------------------------------------------------

Step(w) ==
  \/ GetFreePagePtr(w)
  \/ TakePrivateList(w)
  \/ DecrementFreePagesCount(w)
  \/ GetPrivatePage(w)
  \/ CommitFlush(w)
  \/ Drop(w)
  \/ FreePagesCount(w)
  \/ FreePagesPush(w)
  \/ FreeNoPages(w)

Next == ~halted /\ \E w \in Writers : Step(w)

Spec == Init /\ [][Next]_vars

-----------------------------------------------------------------------------
(* Properties.                                                             *)

\* The lists of the store are distinct and list a page once.
ListsApart ==
  /\ \A l, m \in StoreLists : l # m => PagesOfList(l) \cap PagesOfList(m) = {}
  /\ \A l \in StoreLists : l \notin pages[l]
  /\ current = own => current = NullPage
  /\ current \notin chain /\ own \notin chain

\* The pages a writer uses, may use and is giving back are distinct.
SetsApart(w) ==
  /\ owned[w] \cap (PrivatePages(w) \cup batch[w] \cup rest[w]) = {}
  /\ batch[w] \cap rest[w] = {}
  /\ HasPrivateList(w) => freePageList[w] \notin pages[freePageList[w]]

\* No writer holds a page the store or another writer has.
HandsApart ==
  \A w \in Writers :
    /\ HeldBy(w) \cap StoreFree = {}
    /\ \A v \in Writers \ {w} : HeldBy(v) \cap HeldBy(w) = {}

\* No page is handed out twice: a page is free in the store, or in the hands
\* of one writer, never both and never in two of its sets; and the store lists
\* it once.  Two threads that build two documents, one that commits and one
\* that drops a branch, never write in the same page (getFreePagePtr(),
\* __getFreePagePtr(), freePages()).
NoSharedPage == ListsApart /\ HandsApart /\ \A w \in Writers : SetsApart(w)

\* No page is lost: every page below noMansLand is free or held by a writer,
\* whatever the order in which lists fill up, are emptied and are given back.
NoPageLost ==
  StoreFree \cup UNION {HeldBy(w) : w \in Writers} = FirstPage .. (noMansLand - 1)

\* A list on the chain, or just taken from it, is full, and the list being
\* filled never is: the "Non full page" of checkFreePageHeader() and
\* __getFreePagePtr(), and "Out of bounds" of freePages(), never happen.
ListsFull ==
  /\ \A l \in chain : Cardinality(pages[l]) = MaxNumber
  /\ \A w \in Writers :
       pc[w] = "decrement" => Cardinality(pages[freePageList[w]]) = MaxNumber
  /\ current # NullPage => Cardinality(pages[current]) < MaxNumber

\* Pages that are counted free but are not in the lists of the store: counted
\* before they are pushed, and uncounted after they are taken.
InTransit(w) ==
  IF pc[w] = "push" THEN Cardinality(batch[w])
  ELSE IF pc[w] = "decrement" THEN MaxNumber + 1
  ELSE 0

\* nbFreePages is the number of free pages, the pages in transit included: it
\* is never below the number of pages of the lists, so that it never wraps,
\* and it is what checkAllContents() counts when no call is in progress.
FreeCountExact ==
  nbFreePages = Cardinality(StoreFree) + MapThenSumSet(InTransit, Writers)

\* freePages() is never called with no page: the assertion "Zero pages
\* provided" of persistentstore-pages.cpp.
PagesProvided == \A w \in Writers : Freeing(w) => batch[w] # {}

\* The owner of every page, and the promise of the allocator.
OwnerOf(p) ==
  IF p >= noMansLand THEN "unborn"
  ELSE IF p \in StoreFree THEN "free"
  ELSE CHOOSE w \in Writers : p \in HeldBy(w)

Ownership == INSTANCE PageOwnership WITH
  owner <- [p \in Page |-> OwnerOf(p)], Free <- "free", Unborn <- "unborn"

\* The lists, the counters and the steps in between implement the promise: a
\* page moves between the store and one writer at a time, by an operation of
\* that writer.
OwnershipKept == Ownership!Spec

=============================================================================
