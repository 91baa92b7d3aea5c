--------------------------- MODULE PageStoreProofs ---------------------------
(***************************************************************************)
(* Theorems about PageStore, for every number of writers, every capacity   *)
(* of a page list and every length of the file: no page is in two hands;   *)
(* none is lost, and the steps implement PageOwnership; the lists are as   *)
(* full as the code takes them to be, and nbFreePages counts them.         *)
(***************************************************************************)
EXTENDS PageStore, SetSums

USE MaxNumberAssumption, PageLimitAssumption

LEMMA PageRange == Page \subseteq Nat /\ NullPage \notin Page /\ FirstPage \in Nat
BY DEF Page, NullPage, FirstPage

\* What a fresh or popped list holds are pages of the file.
LEMMA ContentInPage ==
  ASSUME TypeOK, NEW l \in Page, GetFreePageList(l)
  PROVE  /\ ListContent(l) \in SUBSET Page
         /\ CreatedPages \in Nat
         /\ noMansLand' \in {FirstPage} \cup FirstPage .. (PageLimit + 1)
         /\ chain' \in SUBSET Page
BY DEF TypeOK, GetFreePageList, ListContent, CreatedPages, Page, FirstPage

LEMMA PageSetFinite ==
  ASSUME NEW S \in SUBSET Page
  PROVE  IsFiniteSet(S) /\ Cardinality(S) \in Nat
<1>1. FirstPage \in Int /\ PageLimit \in Int
  BY DEF FirstPage
<1>2. IsFiniteSet(Page)
  BY <1>1, FS_Interval DEF Page
<1>3. QED
  BY <1>2, FS_Subset, FS_CardinalityType

LEMMA StartListType ==
  ASSUME NEW freed \in SUBSET Page, NEW oldPages \in [Page -> SUBSET Page],
         StartList(freed, oldPages)
  PROVE  current' \in Page \cup {NullPage} /\ pages' \in [Page -> SUBSET Page]
BY DEF StartList

LEMMA TypeInit == Init => TypeOK
<1> SUFFICES ASSUME Init PROVE TypeOK
  OBVIOUS
<1>1. noMansLand \in {FirstPage} \cup FirstPage .. (PageLimit + 1) /\ nbFreePages \in Int
  BY DEF Init
<1>2. chain \subseteq Page /\ current \in Page \cup {NullPage} /\ own \in Page \cup {NullPage}
  BY DEF Init
<1>3. pages \in [Page -> SUBSET Page]
  BY DEF Init
<1>4. /\ freePageList \in [Writers -> Page \cup {NullPage}]
      /\ owned \in [Writers -> SUBSET Page]
      /\ pc \in [Writers -> {"idle", "decrement", "count", "push"}]
      /\ batch \in [Writers -> SUBSET Page]
      /\ rest \in [Writers -> SUBSET Page]
  BY DEF Init
<1>5. halted \in BOOLEAN
  BY DEF Init
<1>6. QED
  BY <1>1, <1>2, <1>3, <1>4, <1>5 DEF TypeOK

LEMMA TypeStep == TypeOK /\ [Next]_vars => TypeOK'
<1> SUFFICES ASSUME TypeOK, [Next]_vars
             PROVE  TypeOK'
    OBVIOUS
<1>1. ASSUME NEW w \in Writers, GetFreePagePtr(w)
      PROVE  TypeOK'
  <2>1. CASE own # NullPage
    <3>1. own \in Page /\ pages[own] \in SUBSET Page /\ PopOwnList(w, own, pages[own])
      BY <1>1, <2>1 DEF GetFreePagePtr, TypeOK
    <3>2. /\ own' \in Page \cup {NullPage}
          /\ pages' \in [Page -> SUBSET Page]
          /\ owned' \in [Writers -> SUBSET Page]
      BY <3>1 DEF PopOwnList, TypeOK
    <3>3. nbFreePages' \in Int /\ UNCHANGED <<chain, noMansLand>>
      BY <1>1, <2>1 DEF GetFreePagePtr, TypeOK
    <3>4. QED
      BY <1>1, <3>2, <3>3 DEF GetFreePagePtr, TypeOK
  <2>2. CASE own = NullPage
    <3>1. PICK l \in Page : GetFreePageList(l) /\ PopOwnList(w, l, ListContent(l))
      BY <1>1, <2>2 DEF GetFreePagePtr
    <3>2. nbFreePages' = nbFreePages + CreatedPages - 1
      BY <1>1, <2>2 DEF GetFreePagePtr
    <3>3. QED
      BY <1>1, <3>1, <3>2, ContentInPage, PageRange
      DEF GetFreePagePtr, PopOwnList, TypeOK
  <2>3. QED
    BY <2>1, <2>2
<1>2. ASSUME NEW w \in Writers, TakePrivateList(w)
      PROVE  TypeOK'
  <2>1. PICK l \in Page : /\ GetFreePageList(l)
                          /\ pages' = [pages EXCEPT ![l] = ListContent(l)]
                          /\ freePageList' = [freePageList EXCEPT ![w] = l]
    BY <1>2 DEF TakePrivateList
  <2>2. QED
    BY <1>2, <2>1, ContentInPage DEF TakePrivateList, TypeOK
<1>3. ASSUME NEW w \in Writers, DecrementFreePagesCount(w)
      PROVE  TypeOK'
  BY <1>3 DEF DecrementFreePagesCount, TypeOK, header
<1>4. ASSUME NEW w \in Writers, GetPrivatePage(w)
      PROVE  TypeOK'
  BY <1>4 DEF GetPrivatePage, TypeOK
<1>5. ASSUME NEW w \in Writers, CommitFlush(w)
      PROVE  TypeOK'
  BY <1>5 DEF CommitFlush, TypeOK
<1>6. ASSUME NEW w \in Writers, Drop(w)
      PROVE  TypeOK'
  <2>1. owned[w] \cup PrivatePages(w) \in SUBSET Page
    BY PageRange DEF TypeOK, PrivatePages, HasPrivateList, PagesOfList
  <2>2. QED
    BY <1>6, <2>1 DEF Drop, TypeOK
<1>7. ASSUME NEW w \in Writers, FreePagesCount(w)
      PROVE  TypeOK'
  <2>1. Cardinality(batch[w]) \in Nat
    BY PageSetFinite DEF TypeOK
  <2>2. QED
    BY <1>7, <2>1 DEF FreePagesCount, TypeOK, header
<1>8. ASSUME NEW w \in Writers, FreePagesPush(w)
      PROVE  TypeOK'
  <2>1. current' \in Page \cup {NullPage} /\ pages' \in [Page -> SUBSET Page]
        /\ chain' \in SUBSET Page
    <3>1. CASE current = NullPage
      BY <1>8, <3>1, StartListType DEF FreePagesPush, TypeOK
    <3>2. CASE current # NullPage
      <4>1. PICK copied \in SUBSET batch[w] :
              LET filled == [pages EXCEPT ![current] = @ \cup copied] IN
              \/ pages' = filled /\ current' = current /\ chain' = chain
              \/ /\ chain' = chain \cup {current}
                 /\ StartList(batch[w] \ copied, filled)
        BY <1>8, <3>2 DEF FreePagesPush, AppendToCurrent
      <4> DEFINE filled == [pages EXCEPT ![current] = @ \cup copied]
      <4>2. filled \in [Page -> SUBSET Page] /\ batch[w] \ copied \in SUBSET Page
        BY <3>2 DEF TypeOK
      <4>3. CASE pages' = filled /\ current' = current /\ chain' = chain
        BY <4>2, <4>3 DEF TypeOK
      <4>4. CASE /\ chain' = chain \cup {current}
                 /\ StartList(batch[w] \ copied, filled)
        <5>1. chain' \in SUBSET Page
          BY <3>2, <4>4 DEF TypeOK
        <5> HIDE DEF filled
        <5>2. QED
          BY <4>2, <4>4, <5>1, StartListType
      <4>5. QED
        BY <4>1, <4>3, <4>4
    <3>3. QED
      BY <3>1, <3>2
  <2>2. /\ batch' \in [Writers -> SUBSET Page]
        /\ rest' \in [Writers -> SUBSET Page]
        /\ pc' \in [Writers -> {"idle", "decrement", "count", "push"}]
        /\ freePageList' \in [Writers -> Page \cup {NullPage}]
    BY <1>8 DEF FreePagesPush, FreePagesReturn, TypeOK
  <2>3. QED
    BY <1>8, <2>1, <2>2 DEF FreePagesPush, TypeOK
<1>9. ASSUME NEW w \in Writers, FreeNoPages(w)
      PROVE  TypeOK'
  BY <1>9 DEF FreeNoPages, TypeOK, header, local
<1>10. CASE UNCHANGED vars
  BY <1>10 DEF vars, header, local, TypeOK
<1>11. QED
  BY <1>1, <1>2, <1>3, <1>4, <1>5, <1>6, <1>7, <1>8, <1>9, <1>10 DEF Next, Step

\* Every state of the store has the types of TypeOK (the SuperBlock, the
\* FreePageHeader, the RevisionPages and the calls in progress).
THEOREM TypeCorrect == Spec => []TypeOK
BY TypeInit, TypeStep, PTL DEF Spec

-----------------------------------------------------------------------------
(* No page is handed out twice.  NoSharedPage says nothing of the pages    *)
(* that are still to come, nor of the calls that are not in progress: the  *)
(* inductive invariant adds both.                                          *)

Born == FirstPage .. (noMansLand - 1)

\* The pages in use are below noMansLand: a list made there is new.
PagesBorn == StoreFree \subseteq Born /\ \A w \in Writers : HeldBy(w) \subseteq Born

\* Only a call to freePages() has pages to free.
BatchWhenFreeing == \A w \in Writers : ~Freeing(w) => batch[w] = {} /\ rest[w] = {}

SharingInv == TypeOK /\ NoSharedPage /\ PagesBorn /\ BatchWhenFreeing

\* The pages a step creates.
NewPages == noMansLand .. (noMansLand' - 1)

LEMMA InStoreFree ==
  /\ \A p : p \in StoreFree <=> \E l \in StoreLists : p = l \/ p \in pages[l]
  /\ \A p : p \in StoreFree' <=> \E l \in StoreLists' : p = l \/ p \in pages'[l]
BY DEF StoreFree, PagesOfList

\* A step of w that only moves pages between the store, w and the no man's
\* land leaves the hands apart.
LEMMA HandsStayApart ==
  ASSUME SharingInv, TypeOK', NEW w \in Writers, noMansLand <= noMansLand',
         StoreFree' \subseteq StoreFree \cup HeldBy(w) \cup NewPages,
         HeldBy(w)' \subseteq StoreFree \cup HeldBy(w) \cup NewPages,
         HeldBy(w)' \cap StoreFree' = {},
         \A v \in Writers \ {w} : HeldBy(v)' = HeldBy(v)
  PROVE  HandsApart' /\ PagesBorn'
<1> DEFINE Reach == StoreFree \cup HeldBy(w) \cup NewPages
<1>1. Born' = Born \cup NewPages
  BY DEF SharingInv, TypeOK, Born, NewPages, FirstPage
<1>2. Reach \subseteq Born'
  BY <1>1 DEF SharingInv, PagesBorn
<1>3. PagesBorn'
  <2>1. \A v \in Writers : HeldBy(v)' \subseteq Born'
    BY <1>1, <1>2 DEF SharingInv, PagesBorn
  <2>2. QED
    BY <1>2, <2>1 DEF PagesBorn
<1>4. \A v \in Writers \ {w} : HeldBy(v) \cap Reach = {}
  <2>1. \A v \in Writers \ {w} : HeldBy(v) \cap NewPages = {}
    BY DEF SharingInv, TypeOK, PagesBorn, Born, NewPages, FirstPage
  <2>2. QED
    BY <2>1 DEF SharingInv, NoSharedPage, HandsApart
<1>5. ASSUME NEW v \in Writers
      PROVE  /\ HeldBy(v)' \cap StoreFree' = {}
             /\ \A u \in Writers \ {v} : HeldBy(u)' \cap HeldBy(v)' = {}
  <2>1. CASE v = w
    BY <1>4, <2>1
  <2>2. CASE v # w
    BY <1>4, <2>2 DEF SharingInv, NoSharedPage, HandsApart
  <2>3. QED
    BY <2>1, <2>2
<1>6. QED
  BY <1>3, <1>5 DEF HandsApart

\* The other writers keep their pages when the lists a step of w rewrites are
\* in the store, in the hands of w, or new.
LEMMA OthersKeepPages ==
  ASSUME SharingInv, NEW w \in Writers,
         \A v \in Writers \ {w} :
           /\ owned'[v] = owned[v] /\ freePageList'[v] = freePageList[v]
           /\ pc'[v] = pc[v] /\ batch'[v] = batch[v] /\ rest'[v] = rest[v],
         \A l \in Page : pages'[l] = pages[l] \/ l \in StoreFree \cup HeldBy(w) \cup {noMansLand}
  PROVE  \A v \in Writers \ {w} :
           /\ HeldBy(v)' = HeldBy(v) /\ SetsApart(v)'
           /\ HasPrivateList(v)' <=> HasPrivateList(v)
           /\ HasPrivateList(v) => pages'[freePageList[v]] = pages[freePageList[v]]
<1> SUFFICES ASSUME NEW v \in Writers \ {w}
             PROVE  /\ HeldBy(v)' = HeldBy(v) /\ SetsApart(v)'
                    /\ HasPrivateList(v)' <=> HasPrivateList(v)
                    /\ HasPrivateList(v) => pages'[freePageList[v]] = pages[freePageList[v]]
  OBVIOUS
<1>1. HasPrivateList(v)' <=> HasPrivateList(v)
  BY DEF HasPrivateList, Freeing
<1>2. ASSUME HasPrivateList(v)
      PROVE  pages'[freePageList[v]] = pages[freePageList[v]]
  <2>1. freePageList[v] \in Page /\ freePageList[v] \in HeldBy(v)
    BY <1>2 DEF HasPrivateList, HeldBy, PrivatePages, PagesOfList, SharingInv, TypeOK
  <2>2. freePageList[v] \notin StoreFree \cup HeldBy(w) \cup {noMansLand}
    <3>1. noMansLand \notin HeldBy(v)
      BY DEF SharingInv, TypeOK, PagesBorn, Born, FirstPage
    <3>2. QED
      BY <2>1, <3>1 DEF SharingInv, NoSharedPage, HandsApart
  <2>3. QED
    BY <2>1, <2>2
<1>3. PrivatePages(v)' = PrivatePages(v)
  BY <1>1, <1>2 DEF PrivatePages, PagesOfList
<1>4. HeldBy(v)' = HeldBy(v)
  BY <1>3 DEF HeldBy
<1>5. SetsApart(v)'
  BY <1>1, <1>2, <1>3 DEF SetsApart, SharingInv, NoSharedPage
<1>6. QED
  BY <1>1, <1>2, <1>4, <1>5

\* Lists that are the same or list less are still apart.
LEMMA FewerLists ==
  ASSUME SharingInv, StoreLists' \subseteq StoreLists,
         \A l \in StoreLists' : pages'[l] \subseteq pages[l]
  PROVE  /\ \A l, m \in StoreLists' : l # m => PagesOfList(l)' \cap PagesOfList(m)' = {}
         /\ \A l \in StoreLists' : l \notin pages'[l]
         /\ StoreFree' \subseteq StoreFree
<1>1. StoreFree' \subseteq StoreFree
  BY InStoreFree
<1>2. \A l \in StoreLists' : PagesOfList(l)' \subseteq PagesOfList(l)
  BY DEF PagesOfList
<1>3. QED
  BY <1>1, <1>2 DEF SharingInv, NoSharedPage, ListsApart

\* What a step of w has to establish.
LEMMA SharingKept ==
  ASSUME SharingInv, TypeOK', NEW w \in Writers, noMansLand <= noMansLand',
         \A v \in Writers \ {w} :
           /\ owned'[v] = owned[v] /\ freePageList'[v] = freePageList[v]
           /\ pc'[v] = pc[v] /\ batch'[v] = batch[v] /\ rest'[v] = rest[v],
         \A l \in Page : pages'[l] = pages[l] \/ l \in StoreFree \cup HeldBy(w) \cup {noMansLand},
         StoreFree' \subseteq StoreFree \cup HeldBy(w) \cup NewPages,
         HeldBy(w)' \subseteq StoreFree \cup HeldBy(w) \cup NewPages,
         HeldBy(w)' \cap StoreFree' = {},
         ListsApart', SetsApart(w)',
         ~Freeing(w)' => batch'[w] = {} /\ rest'[w] = {}
  PROVE  SharingInv'
<1>1. \A v \in Writers \ {w} : HeldBy(v)' = HeldBy(v) /\ SetsApart(v)'
  BY OthersKeepPages
<1>2. HandsApart' /\ PagesBorn'
  BY <1>1, HandsStayApart
<1>3. BatchWhenFreeing'
  BY DEF BatchWhenFreeing, SharingInv, Freeing
<1>4. QED
  BY <1>1, <1>2, <1>3 DEF SharingInv, NoSharedPage

LEMMA SharingInit == Init => SharingInv
<1> SUFFICES ASSUME Init PROVE SharingInv
  OBVIOUS
<1>1. StoreLists = {} /\ StoreFree = {}
  BY DEF Init, StoreLists, StoreFree
<1>2. \A w \in Writers : HeldBy(w) = {} /\ ~HasPrivateList(w)
  BY DEF Init, HeldBy, PrivatePages, HasPrivateList
<1>3. TypeOK
  BY TypeInit
<1>4. ListsApart
  BY <1>1 DEF ListsApart, Init
<1>5. HandsApart /\ PagesBorn
  BY <1>1, <1>2 DEF HandsApart, PagesBorn
<1>6. \A w \in Writers : SetsApart(w)
  BY <1>2 DEF SetsApart, Init
<1>7. BatchWhenFreeing
  BY DEF BatchWhenFreeing, Init
<1>8. QED
  BY <1>3, <1>4, <1>5, <1>6, <1>7 DEF SharingInv, NoSharedPage

\* A list that is popped off the chain is a list of the store no more; a fresh
\* one is new: in both cases its pages are apart from what is in use.
LEMMA PoppedList ==
  ASSUME SharingInv, NEW l \in Page, GetFreePageList(l)
  PROVE  /\ l \notin ListContent(l)
         /\ noMansLand <= noMansLand'
         /\ {l} \cup ListContent(l) \subseteq StoreFree \cup NewPages
         /\ l \in StoreFree \cup {noMansLand}
         /\ \A m \in StoreLists \ {l} : PagesOfList(m) \cap ({l} \cup ListContent(l)) = {}
         /\ l # current
         /\ chain' \subseteq chain \ {l}
         /\ \A w \in Writers : HeldBy(w) \cap ({l} \cup ListContent(l)) = {}
<1>1. CASE chain # {}
  <2>1. l \in chain /\ ListContent(l) = pages[l] /\ noMansLand' = noMansLand
    BY <1>1 DEF GetFreePageList, ListContent, CreatedPages, SharingInv, TypeOK, FirstPage
  <2>2. l \in StoreLists /\ {l} \cup ListContent(l) = PagesOfList(l)
    BY <2>1 DEF StoreLists, PagesOfList
  <2>3. {l} \cup ListContent(l) \subseteq StoreFree
    BY <2>2 DEF StoreFree
  <2>4. \A m \in StoreLists \ {l} : PagesOfList(m) \cap ({l} \cup ListContent(l)) = {}
    BY <2>2 DEF SharingInv, NoSharedPage, ListsApart
  <2>5. l \notin ListContent(l) /\ l # current
    BY <2>1, <2>2 DEF SharingInv, NoSharedPage, ListsApart
  <2>6. \A w \in Writers : HeldBy(w) \cap ({l} \cup ListContent(l)) = {}
    BY <2>3 DEF SharingInv, NoSharedPage, HandsApart
  <2>7. noMansLand <= noMansLand' /\ chain' \subseteq chain \ {l}
    BY <2>1 DEF GetFreePageList, SharingInv, TypeOK, FirstPage
  <2>8. {l} \cup ListContent(l) \subseteq StoreFree \cup NewPages /\ l \in StoreFree \cup {noMansLand}
    BY <2>3
  <2>9. QED
    BY <2>4, <2>5, <2>6, <2>7, <2>8
<1>2. CASE chain = {}
  <2>1. /\ l = noMansLand /\ ListContent(l) = (l + 1) .. (l + MaxNumber)
        /\ noMansLand' = noMansLand + MaxNumber + 1
    BY <1>2 DEF GetFreePageList, ListContent, CreatedPages, SharingInv, TypeOK, FirstPage
  <2>2. {l} \cup ListContent(l) = NewPages /\ noMansLand < noMansLand'
    BY <2>1 DEF NewPages, SharingInv, TypeOK, FirstPage
  <2>3. NewPages \cap Born = {}
    BY DEF NewPages, Born, SharingInv, TypeOK, FirstPage
  <2>4. \A m \in StoreLists : PagesOfList(m) \subseteq Born
    BY DEF StoreFree, SharingInv, PagesBorn
  <2>5. l \notin ListContent(l)
    BY <2>1 DEF Page, FirstPage
  <2>6. l # current
    <3>1. current \in Born \/ current = NullPage
      BY <2>4 DEF StoreLists, PagesOfList
    <3>2. QED
      BY <2>2, <2>3, <3>1, PageRange
  <2>7. chain' \subseteq chain \ {l}
    BY <1>2 DEF GetFreePageList
  <2>8. \A w \in Writers : HeldBy(w) \subseteq Born
    BY DEF SharingInv, PagesBorn
  <2>9. noMansLand <= noMansLand'
    BY <2>1 DEF SharingInv, TypeOK, FirstPage
  <2>10. \A m \in StoreLists \ {l} : PagesOfList(m) \cap ({l} \cup ListContent(l)) = {}
    BY <2>2, <2>3, <2>4
  <2>11. \A w \in Writers : HeldBy(w) \cap ({l} \cup ListContent(l)) = {}
    BY <2>2, <2>3, <2>8
  <2>12. QED
    BY <2>1, <2>2, <2>5, <2>6, <2>7, <2>9, <2>10, <2>11
<1>3. QED
  BY <1>1, <1>2

LEMMA SharingGetFreePagePtr ==
  ASSUME SharingInv, TypeOK', NEW w \in Writers, GetFreePagePtr(w)
  PROVE  SharingInv'
<1>1. pc[w] = "idle" /\ UNCHANGED <<current, freePageList, pc, batch, rest>>
  BY DEF GetFreePagePtr
<1>2. PICK l \in Page :
        /\ PopOwnList(w, l, IF own # NullPage THEN pages[l] ELSE ListContent(l))
        /\ \/ own # NullPage /\ l = own /\ UNCHANGED <<chain, noMansLand>>
           \/ own = NullPage /\ GetFreePageList(l)
  BY DEF GetFreePagePtr, SharingInv, TypeOK
<1> DEFINE content == IF own # NullPage THEN pages[l] ELSE ListContent(l)
\* l and what it lists are apart from the rest, whatever l comes from.
<1>3. /\ l \notin content
      /\ noMansLand <= noMansLand'
      /\ {l} \cup content \subseteq StoreFree \cup NewPages
      /\ l \in StoreFree \cup {noMansLand}
      /\ \A m \in StoreLists \ {l} : PagesOfList(m) \cap ({l} \cup content) = {}
      /\ l # current
      /\ chain' \subseteq chain \ {l}
      /\ HeldBy(w) \cap ({l} \cup content) = {}
  <2>1. CASE own # NullPage
    <3>1. l \in StoreLists /\ {l} \cup content = PagesOfList(l)
      BY <1>2, <2>1 DEF StoreLists, PagesOfList
    <3>2. {l} \cup content \subseteq StoreFree
      BY <3>1 DEF StoreFree
    <3>3. noMansLand <= noMansLand'
      BY <1>2, <2>1 DEF SharingInv, TypeOK, FirstPage
    <3>4. l \notin content /\ l # current /\ chain' \subseteq chain \ {l}
      BY <1>2, <2>1, <3>1 DEF SharingInv, NoSharedPage, ListsApart
    <3>5. \A m \in StoreLists \ {l} : PagesOfList(m) \cap ({l} \cup content) = {}
      BY <3>1 DEF SharingInv, NoSharedPage, ListsApart
    <3>6. HeldBy(w) \cap ({l} \cup content) = {}
      BY <3>2 DEF SharingInv, NoSharedPage, HandsApart
    <3>7. QED
      BY <3>2, <3>3, <3>4, <3>5, <3>6
  <2>2. CASE own = NullPage
    BY <1>2, <2>2, PoppedList
  <2>3. QED
    BY <2>1, <2>2
<1>4. StoreLists' \subseteq (StoreLists \ {l}) \cup ({own'} \ {NullPage})
  BY <1>1, <1>3 DEF StoreLists
<1>5. PICK p \in {l} \cup content :
        /\ owned' = [owned EXCEPT ![w] = @ \cup {p}]
        /\ \/ p # l /\ own' = l /\ pages' = [pages EXCEPT ![l] = content \ {p}]
           \/ p = l /\ content = {} /\ own' = NullPage /\ pages' = pages
  BY <1>2, <1>3 DEF PopOwnList
<1>6. \A m \in StoreLists' \ {l} :
        m \in StoreLists /\ pages'[m] = pages[m] /\ PagesOfList(m)' = PagesOfList(m)
  <2>1. \A m \in StoreLists' \ {l} : m \in StoreLists
    BY <1>4, <1>5
  <2>2. StoreLists \subseteq Page
    BY DEF StoreLists, SharingInv, TypeOK
  <2>3. QED
    BY <1>5, <2>1, <2>2 DEF PagesOfList, SharingInv, TypeOK
<1>7. own' # NullPage => PagesOfList(l)' = ({l} \cup content) \ {p}
  BY <1>3, <1>5 DEF PagesOfList, SharingInv, TypeOK
<1>8. own' \in {l, NullPage} /\ (l \in StoreLists' => own' = l)
  BY <1>4, <1>5, PageRange
<1>9. StoreFree' \subseteq (StoreFree \cup NewPages) \ {p}
  <2>1. ASSUME NEW m \in StoreLists'
        PROVE  PagesOfList(m)' \subseteq (StoreFree \cup NewPages) \ {p}
    <3>1. CASE m = l
      BY <1>3, <1>7, <1>8, <3>1, PageRange
    <3>2. CASE m # l
      <4>1. PagesOfList(m) \subseteq StoreFree /\ m \in StoreLists
        BY <1>6, <3>2 DEF StoreFree
      <4>2. QED
        BY <1>3, <1>6, <3>2, <4>1
    <3>3. QED
      BY <3>1, <3>2
  <2>2. QED
    BY <2>1, InStoreFree DEF PagesOfList
<1>10. ListsApart'
  <2>1. \A m, n \in StoreLists' : m # n => PagesOfList(m)' \cap PagesOfList(n)' = {}
    BY <1>3, <1>6, <1>7, <1>8, PageRange DEF SharingInv, NoSharedPage, ListsApart
  <2>2. \A m \in StoreLists' : m \notin pages'[m]
    <3>1. l \in StoreLists' => pages'[l] = content \ {p}
      BY <1>5, <1>8, PageRange DEF SharingInv, TypeOK
    <3>2. QED
      BY <1>3, <1>6, <3>1 DEF SharingInv, NoSharedPage, ListsApart
  <2>3. /\ current' = own' => current' = NullPage
        /\ current' \notin chain' /\ own' \notin chain'
    BY <1>1, <1>3, <1>8, PageRange DEF SharingInv, NoSharedPage, ListsApart, TypeOK
  <2>4. QED
    BY <2>1, <2>2, <2>3 DEF ListsApart
<1>11. PrivatePages(w)' = PrivatePages(w)
  <2>1. HasPrivateList(w) => freePageList[w] # l
    BY <1>3 DEF HeldBy, PrivatePages, PagesOfList
  <2>2. QED
    BY <1>1, <1>5, <2>1 DEF PrivatePages, HasPrivateList, Freeing, PagesOfList, SharingInv, TypeOK
<1>12. HeldBy(w)' = HeldBy(w) \cup {p}
  BY <1>1, <1>5, <1>11 DEF HeldBy, SharingInv, TypeOK
<1>13. SetsApart(w)'
  <2>1. HasPrivateList(w) => freePageList[w] # l
    BY <1>3 DEF HeldBy, PrivatePages, PagesOfList
  <2>2. p \notin HeldBy(w)
    BY <1>3
  <2>3. HasPrivateList(w)' <=> HasPrivateList(w)
    BY <1>1 DEF HasPrivateList, Freeing
  <2>4. owned'[w] = owned[w] \cup {p} /\ UNCHANGED <<batch, rest>>
    BY <1>1, <1>5 DEF SharingInv, TypeOK
  <2>5. owned'[w] \cap (PrivatePages(w)' \cup batch'[w] \cup rest'[w]) = {}
    BY <1>11, <2>2, <2>4 DEF SetsApart, HeldBy, SharingInv, NoSharedPage
  <2>6. HasPrivateList(w) => pages'[freePageList[w]] = pages[freePageList[w]]
    BY <1>5, <2>1 DEF HasPrivateList, SharingInv, TypeOK
  <2>7. QED
    BY <1>1, <2>3, <2>4, <2>5, <2>6 DEF SetsApart, SharingInv, NoSharedPage
<1>14. HeldBy(w)' \cap StoreFree' = {}
  <2>1. HeldBy(w) \cap NewPages = {}
    BY DEF SharingInv, PagesBorn, NewPages, Born, TypeOK, FirstPage
  <2>2. QED
    BY <1>9, <1>12, <2>1 DEF SharingInv, NoSharedPage, HandsApart
<1>15. QED
  BY <1>1, <1>3, <1>5, <1>9, <1>10, <1>12, <1>13, <1>14, SharingKept
  DEF SharingInv, BatchWhenFreeing, Freeing, TypeOK

LEMMA SharingTakePrivateList ==
  ASSUME SharingInv, TypeOK', NEW w \in Writers, TakePrivateList(w)
  PROVE  SharingInv'
<1>1. /\ pc[w] = "idle" /\ freePageList[w] = NullPage
      /\ pc' = [pc EXCEPT ![w] = "decrement"]
      /\ UNCHANGED <<current, own, owned, batch, rest>>
  BY DEF TakePrivateList
<1>2. PICK l \in Page : /\ GetFreePageList(l)
                        /\ pages' = [pages EXCEPT ![l] = ListContent(l)]
                        /\ freePageList' = [freePageList EXCEPT ![w] = l]
  BY DEF TakePrivateList
<1>3. /\ pc'[w] = "decrement" /\ freePageList'[w] = l /\ pages'[l] = ListContent(l)
      /\ freePageList'[w] # NullPage
  BY <1>1, <1>2, PageRange DEF SharingInv, TypeOK
<1>4. own # l
  <2>1. own # NullPage => own \in StoreLists /\ own \in PagesOfList(own)
    BY DEF StoreLists, PagesOfList
  <2>2. CASE chain # {}
    BY <1>2, <2>2 DEF GetFreePageList, SharingInv, NoSharedPage, ListsApart
  <2>3. CASE chain = {}
    <3>1. own # NullPage => own \in Born
      BY <2>1 DEF StoreFree, SharingInv, PagesBorn
    <3>2. l \notin Born /\ l # NullPage
      BY <1>2, <2>3, PageRange DEF GetFreePageList, Born, SharingInv, TypeOK, FirstPage
    <3>3. QED
      BY <3>1, <3>2
  <2>4. QED
    BY <2>2, <2>3
<1>5. StoreLists' \subseteq StoreLists \ {l} /\ StoreLists \subseteq Page
  BY <1>1, <1>2, <1>4, PoppedList DEF StoreLists, SharingInv, TypeOK
<1>6. \A m \in StoreLists' : pages'[m] = pages[m]
  BY <1>2, <1>5 DEF SharingInv, TypeOK
<1>7. /\ StoreFree' \subseteq StoreFree
      /\ \A m, n \in StoreLists' : m # n => PagesOfList(m)' \cap PagesOfList(n)' = {}
      /\ \A m \in StoreLists' : m \notin pages'[m]
  BY <1>5, <1>6, FewerLists
<1>8. ListsApart'
  <2>1. /\ current' = own' => current' = NullPage
        /\ current' \notin chain' /\ own' \notin chain'
    BY <1>1, <1>2, PoppedList DEF SharingInv, NoSharedPage, ListsApart
  <2>2. QED
    BY <1>7, <2>1 DEF ListsApart
<1>9. PrivatePages(w)' = {l} \cup ListContent(l) /\ HasPrivateList(w)' /\ PrivatePages(w) = {}
  BY <1>1, <1>3 DEF PrivatePages, HasPrivateList, Freeing, PagesOfList
<1>10. HeldBy(w)' = HeldBy(w) \cup {l} \cup ListContent(l)
  BY <1>1, <1>9 DEF HeldBy
<1>11. StoreFree' \cap ({l} \cup ListContent(l)) = {}
  <2>1. \A m \in StoreLists' : PagesOfList(m)' = PagesOfList(m) /\ m \in StoreLists \ {l}
    BY <1>5, <1>6 DEF PagesOfList
  <2>2. \A m \in StoreLists' : PagesOfList(m)' \cap ({l} \cup ListContent(l)) = {}
    BY <1>2, <2>1, PoppedList
  <2>3. QED
    BY <2>2, InStoreFree DEF PagesOfList
<1>12. SetsApart(w)'
  <2>1. HeldBy(w) \cap ({l} \cup ListContent(l)) = {} /\ l \notin ListContent(l)
    BY <1>2, PoppedList
  <2>2. QED
    BY <1>1, <1>3, <1>9, <2>1 DEF SetsApart, HeldBy, SharingInv, NoSharedPage
<1>13. HeldBy(w)' \cap StoreFree' = {}
  BY <1>7, <1>10, <1>11 DEF SharingInv, NoSharedPage, HandsApart
<1>14. \A m \in Page : pages'[m] = pages[m] \/ m \in StoreFree \cup HeldBy(w) \cup {noMansLand}
  BY <1>2, PoppedList DEF SharingInv, TypeOK
<1>15. HeldBy(w)' \subseteq StoreFree \cup HeldBy(w) \cup NewPages /\ noMansLand <= noMansLand'
  BY <1>2, <1>10, PoppedList
<1>16. ~Freeing(w)' => batch'[w] = {} /\ rest'[w] = {}
  BY <1>1 DEF SharingInv, BatchWhenFreeing, Freeing
<1>17. \A v \in Writers \ {w} :
         /\ owned'[v] = owned[v] /\ freePageList'[v] = freePageList[v]
         /\ pc'[v] = pc[v] /\ batch'[v] = batch[v] /\ rest'[v] = rest[v]
  BY <1>1, <1>2 DEF SharingInv, TypeOK
<1>18. QED
  BY <1>7, <1>8, <1>12, <1>13, <1>14, <1>15, <1>16, <1>17, SharingKept

\* The steps that touch no list of the store: what the writer holds after is
\* what it held before.
LEMMA SharingOwnPages ==
  ASSUME SharingInv, TypeOK', NEW w \in Writers,
         UNCHANGED <<noMansLand, chain, current, own>>,
         \A v \in Writers \ {w} :
           /\ owned'[v] = owned[v] /\ freePageList'[v] = freePageList[v]
           /\ pc'[v] = pc[v] /\ batch'[v] = batch[v] /\ rest'[v] = rest[v],
         \A l \in Page : pages'[l] = pages[l] \/ l \in HeldBy(w),
         HeldBy(w)' \subseteq HeldBy(w),
         SetsApart(w)',
         ~Freeing(w)' => batch'[w] = {} /\ rest'[w] = {}
  PROVE  SharingInv'
<1>1. StoreLists' = StoreLists /\ StoreLists \subseteq Page /\ StoreLists \subseteq StoreFree
  BY DEF StoreLists, StoreFree, PagesOfList, SharingInv, TypeOK
<1>2. \A m \in StoreLists' : pages'[m] = pages[m]
  BY <1>1 DEF SharingInv, NoSharedPage, HandsApart
<1>3. /\ StoreFree' \subseteq StoreFree
      /\ \A m, n \in StoreLists' : m # n => PagesOfList(m)' \cap PagesOfList(n)' = {}
      /\ \A m \in StoreLists' : m \notin pages'[m]
  BY <1>1, <1>2, FewerLists
<1>4. ListsApart'
  BY <1>3 DEF ListsApart, SharingInv, NoSharedPage
<1>5. HeldBy(w)' \cap StoreFree' = {}
  BY <1>3 DEF SharingInv, NoSharedPage, HandsApart
<1>6. noMansLand <= noMansLand'
  BY DEF SharingInv, TypeOK, FirstPage
<1>7. QED
  BY <1>3, <1>4, <1>5, <1>6, SharingKept

LEMMA SharingGetPrivatePage ==
  ASSUME SharingInv, TypeOK', NEW w \in Writers, GetPrivatePage(w)
  PROVE  SharingInv'
<1> DEFINE l == freePageList[w]
<1>1. /\ pc[w] = "idle" /\ l \in Page /\ HasPrivateList(w)
      /\ UNCHANGED <<noMansLand, chain, current, own, pc, batch, rest>>
  BY DEF GetPrivatePage, HasPrivateList, Freeing, SharingInv, TypeOK
<1>2. PrivatePages(w) = {l} \cup pages[l] /\ l \notin pages[l] /\ PrivatePages(w) \subseteq HeldBy(w)
  BY <1>1 DEF PrivatePages, PagesOfList, HeldBy, SharingInv, NoSharedPage, SetsApart
<1>3. PICK p \in {l} \cup pages[l] :
        /\ owned' = [owned EXCEPT ![w] = @ \cup {p}]
        /\ \/ p # l /\ pages' = [pages EXCEPT ![l] = @ \ {p}] /\ UNCHANGED freePageList
           \/ p = l /\ freePageList' = [freePageList EXCEPT ![w] = NullPage] /\ UNCHANGED pages
  BY <1>1, <1>2 DEF GetPrivatePage
<1>4. PrivatePages(w)' \subseteq PrivatePages(w) \ {p}
  <2>1. CASE p # l
    BY <1>1, <1>2, <1>3, <2>1 DEF PrivatePages, HasPrivateList, PagesOfList, SharingInv, TypeOK
  <2>2. CASE p = l
    BY <1>3, <2>2 DEF PrivatePages, HasPrivateList, SharingInv, TypeOK
  <2>3. QED
    BY <2>1, <2>2
<1>5. owned'[w] = owned[w] \cup {p}
  BY <1>3 DEF SharingInv, TypeOK
<1>6. HeldBy(w)' \subseteq HeldBy(w)
  BY <1>1, <1>2, <1>3, <1>4, <1>5 DEF HeldBy
<1>7. batch[w] = {} /\ rest[w] = {}
  BY <1>1 DEF SharingInv, BatchWhenFreeing, Freeing
<1>8. HasPrivateList(w)' => freePageList'[w] \notin pages'[freePageList'[w]]
  BY <1>1, <1>2, <1>3 DEF HasPrivateList, SharingInv, TypeOK
<1>9. SetsApart(w)'
  BY <1>1, <1>4, <1>5, <1>7, <1>8 DEF SetsApart, SharingInv, NoSharedPage
<1>10. \A m \in Page : pages'[m] = pages[m] \/ m \in HeldBy(w)
  BY <1>2, <1>3 DEF SharingInv, TypeOK
<1>11. \A v \in Writers \ {w} : owned'[v] = owned[v] /\ freePageList'[v] = freePageList[v]
  BY <1>3 DEF SharingInv, TypeOK
<1>12. QED
  BY <1>1, <1>6, <1>7, <1>9, <1>10, <1>11, SharingOwnPages

LEMMA SharingCommitFlush ==
  ASSUME SharingInv, TypeOK', NEW w \in Writers, CommitFlush(w)
  PROVE  SharingInv'
<1> DEFINE l == freePageList[w]
<1>1. /\ pc[w] = "idle" /\ l \in Page /\ HasPrivateList(w)
      /\ UNCHANGED <<noMansLand, chain, current, own, freePageList, owned>>
  BY DEF CommitFlush, HasPrivateList, Freeing, SharingInv, TypeOK
<1>2. PrivatePages(w) = {l} \cup pages[l] /\ l \notin pages[l] /\ PrivatePages(w) \subseteq HeldBy(w)
  BY <1>1 DEF PrivatePages, PagesOfList, HeldBy, SharingInv, NoSharedPage, SetsApart
<1>3. batch'[w] = pages[l] /\ rest'[w] = {l} /\ pc'[w] = "count" /\ PrivatePages(w)' = {}
  BY DEF CommitFlush, PrivatePages, HasPrivateList, Freeing, SharingInv, TypeOK
<1>4. HeldBy(w)' \subseteq HeldBy(w)
  BY <1>1, <1>2, <1>3 DEF HeldBy
<1>5. SetsApart(w)'
  BY <1>1, <1>2, <1>3 DEF SetsApart, SharingInv, NoSharedPage, HasPrivateList, Freeing
<1>6. \A m \in Page : pages'[m] = pages[m] \/ m \in HeldBy(w)
  BY <1>2 DEF CommitFlush, SharingInv, TypeOK
<1>7. \A v \in Writers \ {w} : pc'[v] = pc[v] /\ batch'[v] = batch[v] /\ rest'[v] = rest[v]
  BY DEF CommitFlush, SharingInv, TypeOK
<1>8. QED
  BY <1>1, <1>3, <1>4, <1>5, <1>6, <1>7, SharingOwnPages DEF Freeing

LEMMA SharingDrop ==
  ASSUME SharingInv, TypeOK', NEW w \in Writers, Drop(w)
  PROVE  SharingInv'
<1> DEFINE dropMap == owned[w] \cup PrivatePages(w)
<1>1. PICK p \in dropMap :
        /\ batch' = [batch EXCEPT ![w] = {p}]
        /\ rest' = [rest EXCEPT ![w] = dropMap \ {p}]
  BY DEF Drop
<1>2. /\ pc[w] = "idle" /\ pc' = [pc EXCEPT ![w] = "count"]
      /\ owned' = [owned EXCEPT ![w] = {}]
      /\ pages' = [l \in Page |-> IF l = freePageList[w] THEN {} ELSE pages[l]]
      /\ freePageList' = [freePageList EXCEPT ![w] = NullPage]
      /\ UNCHANGED <<noMansLand, chain, current, own>>
  BY DEF Drop
<1>3. /\ batch'[w] = {p} /\ rest'[w] = dropMap \ {p}
      /\ owned'[w] = {} /\ PrivatePages(w)' = {} /\ pc'[w] = "count"
      /\ ~HasPrivateList(w)'
  BY <1>1, <1>2 DEF PrivatePages, HasPrivateList, SharingInv, TypeOK
<1>4. HeldBy(w)' \subseteq HeldBy(w)
  BY <1>3 DEF HeldBy
<1>5. SetsApart(w)'
  BY <1>3 DEF SetsApart
<1>6. \A m \in Page : pages'[m] = pages[m] \/ m \in HeldBy(w)
  <2>1. freePageList[w] \in Page => freePageList[w] \in HeldBy(w)
    BY <1>2, PageRange DEF HeldBy, PrivatePages, HasPrivateList, Freeing, PagesOfList
  <2>2. QED
    BY <1>2, <2>1
<1>7. \A v \in Writers \ {w} :
        /\ owned'[v] = owned[v] /\ freePageList'[v] = freePageList[v]
        /\ pc'[v] = pc[v] /\ batch'[v] = batch[v] /\ rest'[v] = rest[v]
  BY <1>1, <1>2 DEF SharingInv, TypeOK
<1>8. QED
  BY <1>2, <1>3, <1>4, <1>5, <1>6, <1>7, SharingOwnPages DEF Freeing

\* The steps that only count pages.
LEMMA SharingCount ==
  ASSUME SharingInv, TypeOK', NEW w \in Writers,
         DecrementFreePagesCount(w) \/ FreePagesCount(w)
  PROVE  SharingInv'
<1>1. UNCHANGED <<noMansLand, chain, current, own, pages, freePageList, owned, batch, rest>>
  BY DEF DecrementFreePagesCount, FreePagesCount, header
<1>2. Freeing(w)' <=> Freeing(w)
  BY DEF DecrementFreePagesCount, FreePagesCount, Freeing, SharingInv, TypeOK
<1>3. \A v \in Writers \ {w} : pc'[v] = pc[v]
  BY DEF DecrementFreePagesCount, FreePagesCount, SharingInv, TypeOK
<1>4. HasPrivateList(w)' <=> HasPrivateList(w)
  BY <1>1, <1>2 DEF HasPrivateList
<1>5. HeldBy(w)' = HeldBy(w) /\ PrivatePages(w)' = PrivatePages(w)
  BY <1>1, <1>4 DEF HeldBy, PrivatePages, PagesOfList
<1>6. SetsApart(w)'
  BY <1>1, <1>4, <1>5 DEF SetsApart, SharingInv, NoSharedPage
<1>7. ~Freeing(w)' => batch'[w] = {} /\ rest'[w] = {}
  BY <1>1, <1>2 DEF SharingInv, BatchWhenFreeing
<1>8. QED
  BY <1>1, <1>3, <1>5, <1>6, <1>7, SharingOwnPages

\* What freePages() does to the lists: copied goes to the current list, and the
\* list l, if any, is made of the other pages of the batch.
LEMMA PushedPages ==
  ASSUME SharingInv, NEW w \in Writers, FreePagesPush(w)
  PROVE  \E copied \in SUBSET batch[w], l \in batch[w] \cup {NullPage} :
           /\ StoreLists' = StoreLists \cup ({l} \ {NullPage})
           /\ l # NullPage => l \notin copied /\ pages'[l] = (batch[w] \ copied) \ {l}
           /\ l = NullPage => copied = batch[w]
           /\ copied # {} => current # NullPage
           /\ \A m \in Page \ {l} : pages'[m] = IF m = current THEN pages[m] \cup copied ELSE pages[m]
           /\ current' \in {current, l, NullPage}
           /\ current' = current => chain' = chain
           /\ chain' \subseteq chain \cup ({current} \ {NullPage})
<1> DEFINE Pushed(copied, l) ==
      /\ StoreLists' = StoreLists \cup ({l} \ {NullPage})
      /\ l # NullPage => l \notin copied /\ pages'[l] = (batch[w] \ copied) \ {l}
      /\ l = NullPage => copied = batch[w]
      /\ copied # {} => current # NullPage
      /\ \A m \in Page \ {l} : pages'[m] = IF m = current THEN pages[m] \cup copied ELSE pages[m]
      /\ current' \in {current, l, NullPage}
      /\ current' = current => chain' = chain
      /\ chain' \subseteq chain \cup ({current} \ {NullPage})
<1>0. UNCHANGED own /\ batch[w] \subseteq Page /\ batch[w] \cap StoreFree = {}
  BY DEF FreePagesPush, SharingInv, TypeOK, NoSharedPage, HandsApart, HeldBy
<1>1. CASE current = NullPage
  <2>1. batch[w] # {} /\ StartList(batch[w], pages) /\ chain' = chain
    BY <1>1 DEF FreePagesPush
  <2>2. PICK l \in batch[w] : current' = l /\ pages' = [pages EXCEPT ![l] = batch[w] \ {l}]
    BY <2>1 DEF StartList
  <2>3. StoreLists' = StoreLists \cup ({l} \ {NullPage})
    BY <1>0, <1>1, <2>1, <2>2 DEF StoreLists
  <2>4. pages'[l] = (batch[w] \ {}) \ {l}
    BY <1>0, <2>2 DEF SharingInv, TypeOK
  <2>5. \A m \in Page \ {l} : pages'[m] = IF m = current THEN pages[m] \cup {} ELSE pages[m]
    BY <2>2 DEF SharingInv, TypeOK
  <2>6. Pushed({}, l)
    BY <1>0, <1>1, <2>1, <2>2, <2>3, <2>4, <2>5, PageRange
  <2>7. QED
    BY <2>6
<1>2. CASE current # NullPage
  <2> DEFINE filled(c) == [pages EXCEPT ![current] = @ \cup c]
  <2>1. PICK copied \in SUBSET batch[w] :
          \/ copied = batch[w] /\ pages' = filled(copied) /\ UNCHANGED <<current, chain>>
          \/ chain' = chain \cup {current} /\ StartList(batch[w] \ copied, filled(copied))
    BY <1>2 DEF FreePagesPush, AppendToCurrent
  <2>2. \A m \in Page : filled(copied)[m] = IF m = current THEN pages[m] \cup copied ELSE pages[m]
    BY DEF SharingInv, TypeOK
  <2>3. filled(copied) \in [Page -> SUBSET Page]
    BY <1>0 DEF SharingInv, TypeOK
  <2>4. CASE copied = batch[w] /\ pages' = filled(copied) /\ UNCHANGED <<current, chain>>
    <3>1. StoreLists' = StoreLists
      BY <1>0, <2>4 DEF StoreLists
    <3>2. Pushed(copied, NullPage)
      BY <1>2, <2>2, <2>4, <3>1
    <3>3. QED
      BY <3>2
  <2>5. CASE chain' = chain \cup {current} /\ StartList(batch[w] \ copied, filled(copied))
    <3>1. CASE batch[w] \ copied = {}
      <4>1. current' = NullPage /\ pages' = filled(copied)
        BY <2>5, <3>1 DEF StartList
      <4>2. StoreLists' = StoreLists
        BY <1>0, <1>2, <2>5, <4>1 DEF StoreLists
      <4>3. Pushed(copied, NullPage)
        BY <1>2, <2>2, <2>5, <3>1, <4>1, <4>2
      <4>4. QED
        BY <4>3
    <3>2. CASE batch[w] \ copied # {}
      <4>1. PICK l \in batch[w] \ copied :
              /\ current' = l
              /\ pages' = [filled(copied) EXCEPT ![l] = (batch[w] \ copied) \ {l}]
        BY <2>5, <3>2 DEF StartList
      <4> HIDE DEF filled
      <4>2. StoreLists' = StoreLists \cup ({l} \ {NullPage})
        BY <1>0, <1>2, <2>5, <4>1, PageRange DEF StoreLists
      <4>3. pages'[l] = (batch[w] \ copied) \ {l}
        BY <1>0, <2>3, <4>1
      <4>4. \A m \in Page \ {l} : pages'[m] = IF m = current THEN pages[m] \cup copied ELSE pages[m]
        BY <2>2, <2>3, <4>1
      <4>5. current' # current
        BY <1>0, <1>2, <4>1 DEF StoreFree, StoreLists, PagesOfList
      <4>6. Pushed(copied, l)
        BY <1>0, <1>2, <2>5, <4>1, <4>2, <4>3, <4>4, <4>5, PageRange
      <4>7. QED
        BY <4>1, <4>6
    <3>3. QED
      BY <3>1, <3>2
  <2>6. QED
    BY <2>1, <2>4, <2>5
<1>3. QED
  BY <1>1, <1>2

LEMMA SharingFreePagesPush ==
  ASSUME SharingInv, TypeOK', NEW w \in Writers, FreePagesPush(w)
  PROVE  SharingInv'
<1>1. pc[w] = "push" /\ UNCHANGED <<noMansLand, own, owned>> /\ FreePagesReturn(w)
  BY DEF FreePagesPush
<1>2. PICK copied \in SUBSET batch[w], l \in batch[w] \cup {NullPage} :
        /\ StoreLists' = StoreLists \cup ({l} \ {NullPage})
        /\ l # NullPage => l \notin copied /\ pages'[l] = (batch[w] \ copied) \ {l}
        /\ l = NullPage => copied = batch[w]
        /\ copied # {} => current # NullPage
        /\ \A m \in Page \ {l} : pages'[m] = IF m = current THEN pages[m] \cup copied ELSE pages[m]
        /\ current' \in {current, l, NullPage}
        /\ current' = current => chain' = chain
        /\ chain' \subseteq chain \cup ({current} \ {NullPage})
  BY PushedPages
<1>3. /\ batch[w] \subseteq HeldBy(w) /\ batch[w] \cap StoreFree = {} /\ batch[w] \subseteq Page
      /\ StoreLists \subseteq StoreFree /\ StoreLists \subseteq Page
      /\ NullPage \notin StoreLists /\ l \notin StoreLists
  <2>1. batch[w] \subseteq HeldBy(w) /\ batch[w] \cap StoreFree = {} /\ batch[w] \subseteq Page
    BY DEF HeldBy, SharingInv, TypeOK, NoSharedPage, HandsApart
  <2>2. StoreLists \subseteq StoreFree
    BY DEF StoreFree, PagesOfList
  <2>3. StoreLists \subseteq Page
    BY DEF StoreLists, SharingInv, TypeOK
  <2>4. QED
    BY <2>1, <2>2, <2>3, PageRange
\* The pages of each list of the store, after the step.
<1>4. \A m \in StoreLists :
        PagesOfList(m)' = PagesOfList(m) \cup (IF m = current THEN copied ELSE {})
  BY <1>2, <1>3 DEF PagesOfList
<1>5. l # NullPage => PagesOfList(l)' = batch[w] \ copied
  BY <1>2 DEF PagesOfList
<1>6. \A m \in StoreLists : PagesOfList(m) \cap batch[w] = {}
  BY <1>3 DEF StoreFree
<1>7. StoreFree' \subseteq StoreFree \cup batch[w]
  <2>1. \A m \in StoreLists' : PagesOfList(m)' \subseteq StoreFree \cup batch[w]
    BY <1>2, <1>4, <1>5 DEF StoreFree
  <2>2. QED
    BY <2>1, InStoreFree DEF PagesOfList
<1>8. ListsApart'
  <2>1. \A m, n \in StoreLists : m # n => PagesOfList(m) \cap PagesOfList(n) = {}
    BY DEF SharingInv, NoSharedPage, ListsApart
  <2>2. \A m, n \in StoreLists : m # n => PagesOfList(m)' \cap PagesOfList(n)' = {}
    BY <1>4, <1>6, <2>1
  <2>3. l # NullPage => \A m \in StoreLists : PagesOfList(m)' \cap PagesOfList(l)' = {}
    BY <1>4, <1>5, <1>6
  <2>4. \A m, n \in StoreLists' : m # n => PagesOfList(m)' \cap PagesOfList(n)' = {}
    BY <1>2, <2>2, <2>3
  <2>5. \A m \in StoreLists' : m \notin pages'[m]
    BY <1>2, <1>3 DEF SharingInv, NoSharedPage, ListsApart
  <2>6. /\ current' = own' => current' = NullPage
        /\ current' \notin chain' /\ own' \notin chain'
    <3>1. chain \subseteq StoreLists /\ own \in StoreLists \cup {NullPage}
          /\ current \in StoreLists \cup {NullPage}
      BY DEF StoreLists
    <3>2. /\ current = own => current = NullPage
          /\ current \notin chain /\ own \notin chain
      BY DEF SharingInv, NoSharedPage, ListsApart
    <3>3. own \notin chain'
      BY <1>2, <3>2
    <3>4. current' \notin chain'
      BY <1>2, <1>3, <3>1, <3>2
    <3>5. current' = own => current' = NullPage
      BY <1>2, <1>3, <3>1, <3>2
    <3>6. QED
      BY <1>1, <3>3, <3>4, <3>5
  <2>7. QED
    BY <2>4, <2>5, <2>6 DEF ListsApart
<1>9. /\ batch'[w] \subseteq rest[w] /\ rest'[w] \subseteq rest[w] /\ batch'[w] \cap rest'[w] = {}
      /\ ~HasPrivateList(w)' /\ PrivatePages(w)' = {}
      /\ ~Freeing(w)' => batch'[w] = {} /\ rest'[w] = {}
  BY <1>1 DEF FreePagesReturn, HasPrivateList, PrivatePages, Freeing, SharingInv, TypeOK
<1>10. HeldBy(w)' \subseteq owned[w] \cup rest[w] /\ owned[w] \cup rest[w] \subseteq HeldBy(w)
  BY <1>1, <1>9 DEF HeldBy
<1>11. HeldBy(w)' \cap StoreFree' = {}
  <2>1. (owned[w] \cup rest[w]) \cap batch[w] = {}
    BY DEF SharingInv, NoSharedPage, SetsApart
  <2>2. HeldBy(w) \cap StoreFree = {}
    BY DEF SharingInv, NoSharedPage, HandsApart
  <2>3. QED
    BY <1>7, <1>10, <2>1, <2>2
<1>12. SetsApart(w)'
  <2>1. owned[w] \cap rest[w] = {}
    BY DEF SharingInv, NoSharedPage, SetsApart
  <2>2. QED
    BY <1>1, <1>9, <2>1 DEF SetsApart
<1>13. \A m \in Page : pages'[m] = pages[m] \/ m \in StoreFree \cup HeldBy(w) \cup {noMansLand}
  <2>1. current # NullPage => current \in StoreFree
    BY <1>3 DEF StoreLists
  <2>2. QED
    BY <1>2, <1>3, <2>1, PageRange
<1>14. \A v \in Writers \ {w} :
         /\ owned'[v] = owned[v] /\ freePageList'[v] = freePageList[v]
         /\ pc'[v] = pc[v] /\ batch'[v] = batch[v] /\ rest'[v] = rest[v]
  BY <1>1 DEF FreePagesReturn, SharingInv, TypeOK
<1>15. noMansLand <= noMansLand'
  BY <1>1 DEF SharingInv, TypeOK, FirstPage
<1>16. /\ StoreFree' \subseteq StoreFree \cup HeldBy(w) \cup NewPages
       /\ HeldBy(w)' \subseteq StoreFree \cup HeldBy(w) \cup NewPages
  BY <1>3, <1>7, <1>10
<1>17. QED
  BY <1>8, <1>9, <1>11, <1>12, <1>13, <1>14, <1>15, <1>16, SharingKept

LEMMA SharingStep == SharingInv /\ [Next]_vars => SharingInv'
<1> SUFFICES ASSUME SharingInv, [Next]_vars
             PROVE  SharingInv'
  OBVIOUS
<1>1. TypeOK'
  BY TypeStep DEF SharingInv
<1>2. ASSUME NEW w \in Writers, Step(w)
      PROVE  SharingInv'
  <2>1. CASE FreeNoPages(w)
    BY <2>1 DEF FreeNoPages, header, local, SharingInv, TypeOK, NoSharedPage, PagesBorn, Born,
                BatchWhenFreeing, ListsApart, HandsApart, SetsApart, HeldBy, PrivatePages,
                HasPrivateList, Freeing, StoreFree, StoreLists, PagesOfList
  <2>2. CASE ~FreeNoPages(w)
    BY <1>1, <1>2, <2>2, SharingGetFreePagePtr, SharingTakePrivateList, SharingGetPrivatePage,
       SharingCommitFlush, SharingDrop, SharingCount, SharingFreePagesPush
    DEF Step
  <2>3. QED
    BY <2>1, <2>2
<1>3. CASE UNCHANGED vars
  BY <1>3 DEF vars, header, local, SharingInv, TypeOK, NoSharedPage, PagesBorn, Born,
              BatchWhenFreeing, ListsApart, HandsApart, SetsApart, HeldBy, PrivatePages,
              HasPrivateList, Freeing, StoreFree, StoreLists, PagesOfList
<1>4. QED
  BY <1>2, <1>3 DEF Next

\* No page is handed out twice: getFreePagePtr(), __getFreePagePtr() and
\* freePages() keep the free pages, the pages of every writer and the pages in
\* between apart, for every number of writers and every capacity of a list.
THEOREM NoPageShared == Spec => []NoSharedPage
<1>1. SharingInv => NoSharedPage
  BY DEF SharingInv
<1>2. QED
  BY <1>1, SharingInit, SharingStep, PTL DEF Spec

-----------------------------------------------------------------------------
(* No page is lost, and each page changes hands as PageOwnership promises. *)

\* A step of w loses no page: what the store or w has, and what is created, is
\* in the store or with w after; the other writers keep what they hold.
LosesNothing(w) ==
  /\ noMansLand <= noMansLand'
  /\ StoreFree \cup HeldBy(w) \cup NewPages \subseteq StoreFree' \cup HeldBy(w)'
  /\ \A v \in Writers \ {w} : HeldBy(v)' = HeldBy(v)

\* The two ways a page changes hands.
Takes(w) == LosesNothing(w) /\ HeldBy(w) \subseteq HeldBy(w)'
GivesBack(w) == LosesNothing(w) /\ noMansLand' = noMansLand /\ StoreFree \subseteq StoreFree'

LEMMA NoNewPages == TypeOK /\ noMansLand' = noMansLand => NewPages = {}
BY DEF NewPages, TypeOK, FirstPage

\* The pages of a popped list are the pages the chain had there, or the pages
\* the file grows by.
LEMMA PoppedWhole ==
  ASSUME SharingInv, NEW l \in Page, GetFreePageList(l)
  PROVE  /\ chain' = chain \ {l}
         /\ NewPages \subseteq {l} \cup ListContent(l)
         /\ l \in StoreLists => PagesOfList(l) = {l} \cup ListContent(l)
<1>1. CASE chain # {}
  <2>1. chain' = chain \ {l} /\ noMansLand' = noMansLand /\ ListContent(l) = pages[l]
    BY <1>1 DEF GetFreePageList, CreatedPages, ListContent, SharingInv, TypeOK, FirstPage
  <2>2. QED
    BY <2>1, NoNewPages DEF SharingInv, PagesOfList
<1>2. CASE chain = {}
  <2>0. chain' = chain \ {l}
    BY DEF GetFreePageList
  <2>1. /\ l = noMansLand /\ ListContent(l) = (l + 1) .. (l + MaxNumber)
        /\ noMansLand' = noMansLand + MaxNumber + 1
    BY <1>2 DEF GetFreePageList, ListContent, CreatedPages, SharingInv, TypeOK, FirstPage
  <2>2. NewPages \subseteq {l} \cup ListContent(l)
    BY <2>1 DEF NewPages, SharingInv, TypeOK, FirstPage
  <2>3. l \notin StoreFree
    BY <2>1 DEF SharingInv, TypeOK, PagesBorn, Born, FirstPage
  <2>4. l \notin StoreLists
    BY <2>3 DEF StoreFree, PagesOfList
  <2>5. QED
    BY <2>0, <2>2, <2>4
<1>3. QED
  BY <1>1, <1>2

\* A list of the store that is left alone keeps its pages in the store.
LEMMA ListsLeftAlone ==
  ASSUME NEW l, \A m \in StoreLists \ {l} : m \in StoreLists' /\ pages'[m] = pages[m],
         NEW here, l \in StoreLists => PagesOfList(l) \subseteq here
  PROVE  StoreFree \subseteq StoreFree' \cup here
<1> SUFFICES ASSUME NEW q \in StoreFree
             PROVE  q \in StoreFree' \cup here
  OBVIOUS
<1>1. PICK m \in StoreLists : q \in PagesOfList(m)
  BY DEF StoreFree
<1>2. CASE m = l
  BY <1>1, <1>2
<1>3. CASE m # l
  <2>1. m \in StoreLists' /\ q \in PagesOfList(m)'
    BY <1>1, <1>3 DEF PagesOfList
  <2>2. QED
    BY <2>1, InStoreFree DEF PagesOfList
<1>4. QED
  BY <1>2, <1>3

\* What getFreePagePtr() does: the list l, which lists content, is popped or was
\* the own list already, and one of its pages is handed out, l itself the last.
LEMMA HandedPage ==
  ASSUME SharingInv, NEW w \in Writers, GetFreePagePtr(w)
  PROVE  \E l \in Page, content \in SUBSET Page : \E p \in {l} \cup content :
           /\ l \notin content
           /\ noMansLand <= noMansLand'
           /\ {l} \cup content \subseteq StoreFree \cup NewPages
           /\ NewPages \subseteq {l} \cup content
           /\ l \in StoreLists => PagesOfList(l) = {l} \cup content
           /\ l \in StoreFree \cup {noMansLand}
           /\ l # current /\ chain' = chain \ {l}
           /\ own # NullPage => l = own
           /\ HeldBy(w) \cap ({l} \cup content) = {}
           /\ owned' = [owned EXCEPT ![w] = @ \cup {p}]
           /\ \/ p # l /\ own' = l /\ pages' = [pages EXCEPT ![l] = content \ {p}]
              \/ p = l /\ content = {} /\ own' = NullPage /\ pages' = pages
<1>1. PICK l \in Page :
        /\ PopOwnList(w, l, IF own # NullPage THEN pages[l] ELSE ListContent(l))
        /\ \/ own # NullPage /\ l = own /\ UNCHANGED <<chain, noMansLand>>
           \/ own = NullPage /\ GetFreePageList(l)
  BY DEF GetFreePagePtr, SharingInv, TypeOK
<1> DEFINE content == IF own # NullPage THEN pages[l] ELSE ListContent(l)
<1>2. content \in SUBSET Page
  BY <1>1, ContentInPage DEF SharingInv, TypeOK
<1>3. /\ l \notin content
      /\ noMansLand <= noMansLand'
      /\ {l} \cup content \subseteq StoreFree \cup NewPages
      /\ NewPages \subseteq {l} \cup content
      /\ l \in StoreLists => PagesOfList(l) = {l} \cup content
      /\ l \in StoreFree \cup {noMansLand}
      /\ l # current /\ chain' = chain \ {l}
      /\ own # NullPage => l = own
      /\ HeldBy(w) \cap ({l} \cup content) = {}
  <2>1. CASE own # NullPage
    <3>1. l \in StoreLists /\ {l} \cup content = PagesOfList(l)
      BY <1>1, <2>1 DEF StoreLists, PagesOfList
    <3>2. {l} \cup content \subseteq StoreFree
      BY <3>1 DEF StoreFree
    <3>3. l \notin content /\ l # current /\ chain' = chain \ {l}
      BY <1>1, <2>1, <3>1 DEF SharingInv, NoSharedPage, ListsApart
    <3>4. noMansLand <= noMansLand' /\ NewPages = {}
      BY <1>1, <2>1, NoNewPages DEF SharingInv, TypeOK, FirstPage
    <3>5. QED
      BY <1>1, <2>1, <3>1, <3>2, <3>3, <3>4 DEF SharingInv, NoSharedPage, HandsApart
  <2>2. CASE own = NullPage
    BY <1>1, <2>2, PoppedList, PoppedWhole
  <2>3. QED
    BY <2>1, <2>2
<1>4. PICK p \in {l} \cup content :
        /\ owned' = [owned EXCEPT ![w] = @ \cup {p}]
        /\ \/ p # l /\ own' = l /\ pages' = [pages EXCEPT ![l] = content \ {p}]
           \/ p = l /\ content = {} /\ own' = NullPage /\ pages' = pages
  BY <1>1, <1>3 DEF PopOwnList
<1> HIDE DEF content
<1>5. QED
  BY <1>2, <1>3, <1>4

LEMMA TakesGetFreePagePtr ==
  ASSUME SharingInv, NEW w \in Writers, GetFreePagePtr(w)
  PROVE  Takes(w) /\ \E p \in StoreFree \cup NewPages : HeldBy(w)' = HeldBy(w) \cup {p}
<1>1. pc[w] = "idle" /\ UNCHANGED <<current, freePageList, pc, batch, rest>>
  BY DEF GetFreePagePtr
<1>2. PICK l \in Page, content \in SUBSET Page : \E q \in {l} \cup content :
        /\ l \notin content
        /\ noMansLand <= noMansLand'
        /\ {l} \cup content \subseteq StoreFree \cup NewPages
        /\ NewPages \subseteq {l} \cup content
        /\ l \in StoreLists => PagesOfList(l) = {l} \cup content
        /\ l \in StoreFree \cup {noMansLand}
        /\ l # current /\ chain' = chain \ {l}
        /\ own # NullPage => l = own
        /\ HeldBy(w) \cap ({l} \cup content) = {}
        /\ owned' = [owned EXCEPT ![w] = @ \cup {q}]
        /\ \/ q # l /\ own' = l /\ pages' = [pages EXCEPT ![l] = content \ {q}]
           \/ q = l /\ content = {} /\ own' = NullPage /\ pages' = pages
  BY HandedPage
<1>3. /\ l \notin content
      /\ noMansLand <= noMansLand'
      /\ {l} \cup content \subseteq StoreFree \cup NewPages
      /\ NewPages \subseteq {l} \cup content
      /\ l \in StoreLists => PagesOfList(l) = {l} \cup content
      /\ l \in StoreFree \cup {noMansLand}
      /\ chain' = chain \ {l}
      /\ own # NullPage => l = own
      /\ HeldBy(w) \cap ({l} \cup content) = {}
  BY <1>2
<1>4. PICK p \in {l} \cup content :
        /\ owned' = [owned EXCEPT ![w] = @ \cup {p}]
        /\ \/ p # l /\ own' = l /\ pages' = [pages EXCEPT ![l] = content \ {p}]
           \/ p = l /\ content = {} /\ own' = NullPage /\ pages' = pages
  BY <1>2
\* What is left of the list stays in the store.
<1>5. ({l} \cup content) \ {p} \subseteq StoreFree'
  <2>1. CASE p # l
    <3>1. l \in StoreLists' /\ pages'[l] = content \ {p}
      BY <1>4, <2>1, PageRange DEF StoreLists, SharingInv, TypeOK
    <3>2. QED
      BY <3>1, InStoreFree
  <2>2. CASE p = l
    BY <1>4, <2>2
  <2>3. QED
    BY <2>1, <2>2
<1>6. \A m \in StoreLists \ {l} : m \in StoreLists' /\ pages'[m] = pages[m]
  <2>1. StoreLists \subseteq Page
    BY DEF StoreLists, SharingInv, TypeOK
  <2>2. \A m \in StoreLists \ {l} : pages'[m] = pages[m]
    BY <1>4, <2>1 DEF SharingInv, TypeOK
  <2>3. StoreLists \ {l} \subseteq StoreLists'
    BY <1>1, <1>3 DEF StoreLists
  <2>4. QED
    BY <2>2, <2>3
<1>7. StoreFree \subseteq StoreFree' \cup ({l} \cup content)
  BY <1>3, <1>6, ListsLeftAlone
<1>8. PrivatePages(w)' = PrivatePages(w)
  <2>1. HasPrivateList(w) => freePageList[w] # l
    BY <1>3 DEF HeldBy, PrivatePages, PagesOfList
  <2>2. QED
    BY <1>1, <1>4, <2>1 DEF PrivatePages, HasPrivateList, Freeing, PagesOfList, SharingInv, TypeOK
<1>9. HeldBy(w)' = HeldBy(w) \cup {p}
  BY <1>1, <1>4, <1>8 DEF HeldBy, SharingInv, TypeOK
<1>10. \A v \in Writers \ {w} : HeldBy(v)' = HeldBy(v)
  <2>1. \A v \in Writers \ {w} : owned'[v] = owned[v]
    BY <1>4 DEF SharingInv, TypeOK
  <2>2. \A m \in Page : pages'[m] = pages[m] \/ m \in StoreFree \cup HeldBy(w) \cup {noMansLand}
    BY <1>3, <1>4 DEF SharingInv, TypeOK
  <2>3. QED
    BY <1>1, <2>1, <2>2, OthersKeepPages
<1>11. Takes(w)
  BY <1>3, <1>5, <1>7, <1>9, <1>10 DEF Takes, LosesNothing
<1>12. QED
  BY <1>3, <1>9, <1>11

LEMMA TakesPrivateList ==
  ASSUME SharingInv, NEW w \in Writers, TakePrivateList(w)
  PROVE  /\ Takes(w)
         /\ \E l \in Page : /\ GetFreePageList(l) /\ freePageList'[w] = l
                           /\ pages' = [pages EXCEPT ![l] = ListContent(l)]
                           /\ HeldBy(w)' = HeldBy(w) \cup ({l} \cup ListContent(l))
<1>1. /\ pc[w] = "idle" /\ freePageList[w] = NullPage
      /\ pc' = [pc EXCEPT ![w] = "decrement"]
      /\ UNCHANGED <<current, own, owned, batch, rest>>
  BY DEF TakePrivateList
<1>2. PICK l \in Page : /\ GetFreePageList(l)
                        /\ pages' = [pages EXCEPT ![l] = ListContent(l)]
                        /\ freePageList' = [freePageList EXCEPT ![w] = l]
  BY DEF TakePrivateList
<1>3. /\ pc'[w] = "decrement" /\ freePageList'[w] = l /\ pages'[l] = ListContent(l)
      /\ freePageList'[w] # NullPage
  BY <1>1, <1>2, PageRange, ContentInPage DEF SharingInv, TypeOK
<1>4. HeldBy(w)' = HeldBy(w) \cup ({l} \cup ListContent(l))
  BY <1>1, <1>3 DEF HeldBy, PrivatePages, HasPrivateList, Freeing, PagesOfList
<1>5. \A m \in StoreLists \ {l} : m \in StoreLists' /\ pages'[m] = pages[m]
  <2>1. StoreLists \subseteq Page
    BY DEF StoreLists, SharingInv, TypeOK
  <2>2. QED
    BY <1>1, <1>2, <2>1, PoppedWhole DEF StoreLists, SharingInv, TypeOK
<1>6. StoreFree \subseteq StoreFree' \cup ({l} \cup ListContent(l))
  BY <1>2, <1>5, PoppedWhole, ListsLeftAlone
<1>7. \A v \in Writers \ {w} : HeldBy(v)' = HeldBy(v)
  <2>1. \A v \in Writers \ {w} : pc'[v] = pc[v] /\ freePageList'[v] = freePageList[v]
    BY <1>1, <1>2 DEF SharingInv, TypeOK
  <2>2. \A m \in Page : pages'[m] = pages[m] \/ m \in StoreFree \cup HeldBy(w) \cup {noMansLand}
    BY <1>2, PoppedList DEF SharingInv, TypeOK
  <2>3. QED
    BY <1>1, <2>1, <2>2, OthersKeepPages
<1>8. Takes(w)
  BY <1>2, <1>4, <1>6, <1>7, PoppedList, PoppedWhole DEF Takes, LosesNothing
<1>9. QED
  BY <1>2, <1>3, <1>4, <1>8

\* The steps that touch no list of the store.
LEMMA StoreLeftAlone ==
  ASSUME SharingInv, NEW w \in Writers,
         UNCHANGED <<noMansLand, chain, current, own>>,
         \A v \in Writers \ {w} :
           /\ owned'[v] = owned[v] /\ freePageList'[v] = freePageList[v]
           /\ pc'[v] = pc[v] /\ batch'[v] = batch[v] /\ rest'[v] = rest[v],
         \A l \in Page : pages'[l] = pages[l] \/ l \in HeldBy(w),
         HeldBy(w)' = HeldBy(w)
  PROVE  GivesBack(w) /\ HeldBy(w)' = HeldBy(w)
<1>1. StoreLists' = StoreLists /\ StoreLists \subseteq Page /\ StoreLists \subseteq StoreFree
  BY DEF StoreLists, StoreFree, PagesOfList, SharingInv, TypeOK
<1>2. \A m \in StoreLists : pages'[m] = pages[m]
  BY <1>1 DEF SharingInv, NoSharedPage, HandsApart
<1>3. StoreFree \subseteq StoreFree'
  BY <1>1, <1>2, InStoreFree
<1>4. \A v \in Writers \ {w} : HeldBy(v)' = HeldBy(v)
  BY OthersKeepPages
<1>5. NewPages = {} /\ noMansLand <= noMansLand'
  BY NoNewPages DEF SharingInv, TypeOK, FirstPage
<1>6. QED
  BY <1>3, <1>4, <1>5 DEF GivesBack, LosesNothing

LEMMA KeepsGetPrivatePage ==
  ASSUME SharingInv, NEW w \in Writers, GetPrivatePage(w)
  PROVE  GivesBack(w) /\ HeldBy(w)' = HeldBy(w)
<1> DEFINE l == freePageList[w]
<1>1. /\ pc[w] = "idle" /\ l \in Page /\ HasPrivateList(w)
      /\ UNCHANGED <<noMansLand, chain, current, own, pc, batch, rest>>
  BY DEF GetPrivatePage, HasPrivateList, Freeing, SharingInv, TypeOK
<1>2. PrivatePages(w) = {l} \cup pages[l] /\ l \notin pages[l] /\ PrivatePages(w) \subseteq HeldBy(w)
  BY <1>1 DEF PrivatePages, PagesOfList, HeldBy, SharingInv, NoSharedPage, SetsApart
<1>3. PICK p \in {l} \cup pages[l] :
        /\ owned' = [owned EXCEPT ![w] = @ \cup {p}]
        /\ \/ p # l /\ pages' = [pages EXCEPT ![l] = @ \ {p}] /\ UNCHANGED freePageList
           \/ /\ p = l /\ pages[l] = {}
              /\ freePageList' = [freePageList EXCEPT ![w] = NullPage] /\ UNCHANGED pages
  BY <1>1, <1>2 DEF GetPrivatePage
<1>4. PrivatePages(w)' = PrivatePages(w) \ {p}
  <2>1. CASE p # l
    <3>1. pages'[l] = pages[l] \ {p} /\ PrivatePages(w)' = {l} \cup pages'[l]
      BY <1>1, <1>3, <2>1 DEF PrivatePages, HasPrivateList, Freeing, PagesOfList, SharingInv, TypeOK
    <3>2. QED
      BY <1>2, <2>1, <3>1
  <2>2. CASE p = l
    BY <1>2, <1>3, <2>2 DEF PrivatePages, HasPrivateList, SharingInv, TypeOK
  <2>3. QED
    BY <2>1, <2>2
<1>5. owned'[w] = owned[w] \cup {p}
  BY <1>3 DEF SharingInv, TypeOK
<1>6. HeldBy(w)' = HeldBy(w)
  BY <1>1, <1>2, <1>3, <1>4, <1>5 DEF HeldBy
<1>7. \A m \in Page : pages'[m] = pages[m] \/ m \in HeldBy(w)
  BY <1>2, <1>3 DEF SharingInv, TypeOK
<1>8. \A v \in Writers \ {w} : owned'[v] = owned[v] /\ freePageList'[v] = freePageList[v]
  BY <1>3 DEF SharingInv, TypeOK
<1>9. QED
  BY <1>1, <1>6, <1>7, <1>8, StoreLeftAlone

LEMMA KeepsCommitFlush ==
  ASSUME SharingInv, NEW w \in Writers, CommitFlush(w)
  PROVE  GivesBack(w) /\ HeldBy(w)' = HeldBy(w)
<1> DEFINE l == freePageList[w]
<1>1. /\ pc[w] = "idle" /\ l \in Page /\ HasPrivateList(w)
      /\ UNCHANGED <<noMansLand, chain, current, own, freePageList, owned>>
  BY DEF CommitFlush, HasPrivateList, Freeing, SharingInv, TypeOK
<1>2. PrivatePages(w) = {l} \cup pages[l] /\ batch[w] = {} /\ rest[w] = {}
  BY <1>1 DEF PrivatePages, PagesOfList, SharingInv, BatchWhenFreeing, Freeing
<1>3. batch'[w] = pages[l] /\ rest'[w] = {l} /\ pc'[w] = "count" /\ PrivatePages(w)' = {}
  BY DEF CommitFlush, PrivatePages, HasPrivateList, Freeing, SharingInv, TypeOK
<1>4. HeldBy(w)' = HeldBy(w)
  BY <1>1, <1>2, <1>3 DEF HeldBy
<1>5. \A m \in Page : pages'[m] = pages[m] \/ m \in HeldBy(w)
  BY <1>2 DEF CommitFlush, HeldBy, SharingInv, TypeOK
<1>6. \A v \in Writers \ {w} : pc'[v] = pc[v] /\ batch'[v] = batch[v] /\ rest'[v] = rest[v]
  BY DEF CommitFlush, SharingInv, TypeOK
<1>7. QED
  BY <1>1, <1>4, <1>5, <1>6, StoreLeftAlone

LEMMA KeepsDrop ==
  ASSUME SharingInv, NEW w \in Writers, Drop(w)
  PROVE  GivesBack(w) /\ HeldBy(w)' = HeldBy(w)
<1> DEFINE dropMap == owned[w] \cup PrivatePages(w)
<1>1. PICK p \in dropMap :
        /\ batch' = [batch EXCEPT ![w] = {p}]
        /\ rest' = [rest EXCEPT ![w] = dropMap \ {p}]
  BY DEF Drop
<1>2. /\ pc[w] = "idle" /\ pc' = [pc EXCEPT ![w] = "count"]
      /\ owned' = [owned EXCEPT ![w] = {}]
      /\ pages' = [l \in Page |-> IF l = freePageList[w] THEN {} ELSE pages[l]]
      /\ freePageList' = [freePageList EXCEPT ![w] = NullPage]
      /\ UNCHANGED <<noMansLand, chain, current, own>>
  BY DEF Drop
<1>3. /\ batch'[w] = {p} /\ rest'[w] = dropMap \ {p}
      /\ owned'[w] = {} /\ PrivatePages(w)' = {} /\ batch[w] = {} /\ rest[w] = {}
  BY <1>1, <1>2
  DEF PrivatePages, HasPrivateList, SharingInv, TypeOK, BatchWhenFreeing, Freeing
<1>4. HeldBy(w)' = HeldBy(w)
  BY <1>3 DEF HeldBy
<1>5. \A m \in Page : pages'[m] = pages[m] \/ m \in HeldBy(w)
  <2>1. freePageList[w] \in Page => freePageList[w] \in HeldBy(w)
    BY <1>2, PageRange DEF HeldBy, PrivatePages, HasPrivateList, Freeing, PagesOfList
  <2>2. QED
    BY <1>2, <2>1
<1>6. \A v \in Writers \ {w} :
        /\ owned'[v] = owned[v] /\ freePageList'[v] = freePageList[v]
        /\ pc'[v] = pc[v] /\ batch'[v] = batch[v] /\ rest'[v] = rest[v]
  BY <1>1, <1>2 DEF SharingInv, TypeOK
<1>7. QED
  BY <1>2, <1>4, <1>5, <1>6, StoreLeftAlone

LEMMA KeepsCount ==
  ASSUME SharingInv, NEW w \in Writers, DecrementFreePagesCount(w) \/ FreePagesCount(w)
  PROVE  GivesBack(w) /\ HeldBy(w)' = HeldBy(w)
<1>1. UNCHANGED <<noMansLand, chain, current, own, pages, freePageList, owned, batch, rest>>
  BY DEF DecrementFreePagesCount, FreePagesCount, header
<1>2. Freeing(w)' <=> Freeing(w)
  BY DEF DecrementFreePagesCount, FreePagesCount, Freeing, SharingInv, TypeOK
<1>3. \A v \in Writers \ {w} : pc'[v] = pc[v]
  BY DEF DecrementFreePagesCount, FreePagesCount, SharingInv, TypeOK
<1>4. HeldBy(w)' = HeldBy(w)
  BY <1>1, <1>2 DEF HeldBy, PrivatePages, HasPrivateList, PagesOfList
<1>5. QED
  BY <1>1, <1>3, <1>4, StoreLeftAlone

LEMMA GivesBackPushed ==
  ASSUME SharingInv, NEW w \in Writers, FreePagesPush(w)
  PROVE  /\ GivesBack(w)
         /\ HeldBy(w)' \cup batch[w] = HeldBy(w) /\ HeldBy(w)' \cap batch[w] = {}
<1>1. pc[w] = "push" /\ UNCHANGED <<noMansLand, own, owned>> /\ FreePagesReturn(w)
  BY DEF FreePagesPush
<1>2. PICK copied \in SUBSET batch[w], l \in batch[w] \cup {NullPage} :
        /\ StoreLists' = StoreLists \cup ({l} \ {NullPage})
        /\ l # NullPage => l \notin copied /\ pages'[l] = (batch[w] \ copied) \ {l}
        /\ l = NullPage => copied = batch[w]
        /\ copied # {} => current # NullPage
        /\ \A m \in Page \ {l} : pages'[m] = IF m = current THEN pages[m] \cup copied ELSE pages[m]
        /\ current' \in {current, l, NullPage}
        /\ current' = current => chain' = chain
        /\ chain' \subseteq chain \cup ({current} \ {NullPage})
  BY PushedPages
<1>3. /\ batch[w] \cap StoreFree = {} /\ batch[w] \subseteq Page
      /\ StoreLists \subseteq StoreFree /\ StoreLists \subseteq Page
      /\ current # NullPage => current \in StoreLists
  <2>1. batch[w] \cap StoreFree = {} /\ batch[w] \subseteq Page
    BY DEF HeldBy, SharingInv, TypeOK, NoSharedPage, HandsApart
  <2>2. QED
    BY <2>1 DEF StoreFree, PagesOfList, StoreLists, SharingInv, TypeOK
<1>4. \A m \in StoreLists :
        m \in StoreLists' /\ pages'[m] = IF m = current THEN pages[m] \cup copied ELSE pages[m]
  <2>1. l \notin StoreLists
    BY <1>3, PageRange
  <2>2. QED
    BY <1>2, <1>3, <2>1
<1>5. StoreFree \subseteq StoreFree'
  BY <1>4, InStoreFree
<1>6. batch[w] \subseteq StoreFree'
  <2>1. copied \subseteq StoreFree'
    BY <1>2, <1>3, <1>4, InStoreFree
  <2>2. l # NullPage => batch[w] \ copied \subseteq StoreFree'
    BY <1>2, InStoreFree
  <2>3. QED
    BY <1>2, <2>1, <2>2
<1>7. batch'[w] \cup rest'[w] = rest[w] /\ PrivatePages(w)' = {} /\ PrivatePages(w) = {}
  BY <1>1 DEF FreePagesReturn, HasPrivateList, PrivatePages, Freeing, SharingInv, TypeOK
<1>8. HeldBy(w)' = owned[w] \cup rest[w] /\ HeldBy(w) = owned[w] \cup rest[w] \cup batch[w]
  BY <1>1, <1>7 DEF HeldBy
<1>9. \A v \in Writers \ {w} :
        /\ owned'[v] = owned[v] /\ freePageList'[v] = freePageList[v]
        /\ pc'[v] = pc[v] /\ batch'[v] = batch[v] /\ rest'[v] = rest[v]
  BY <1>1 DEF FreePagesReturn, SharingInv, TypeOK
<1>10. \A m \in Page : pages'[m] = pages[m] \/ m \in StoreFree \cup HeldBy(w) \cup {noMansLand}
  BY <1>2, <1>3, PageRange DEF HeldBy
<1>11. \A v \in Writers \ {w} : HeldBy(v)' = HeldBy(v)
  BY <1>9, <1>10, OthersKeepPages
<1>12. NewPages = {} /\ noMansLand <= noMansLand'
  BY <1>1, NoNewPages DEF SharingInv, TypeOK, FirstPage
<1>13. GivesBack(w)
  BY <1>1, <1>5, <1>6, <1>8, <1>11, <1>12 DEF GivesBack, LosesNothing
<1>14. (owned[w] \cup rest[w]) \cap batch[w] = {}
  BY DEF SharingInv, NoSharedPage, SetsApart
<1>15. QED
  BY <1>8, <1>13, <1>14

\* Every step takes pages for its writer or gives some back.
LEMMA StepMoves ==
  ASSUME SharingInv, NEW w \in Writers, Step(w)
  PROVE  Takes(w) \/ GivesBack(w)
<1>1. CASE FreeNoPages(w)
  <2>1. UNCHANGED <<header, local>>
    BY <1>1 DEF FreeNoPages
  <2>2. StoreFree' = StoreFree /\ \A v \in Writers : HeldBy(v)' = HeldBy(v)
    BY <2>1 DEF header, local, StoreFree, StoreLists, PagesOfList, HeldBy, PrivatePages,
                HasPrivateList, Freeing
  <2>3. noMansLand' = noMansLand /\ noMansLand <= noMansLand' /\ NewPages = {}
    BY <2>1, NoNewPages DEF header, SharingInv, TypeOK, FirstPage
  <2>4. QED
    BY <2>2, <2>3 DEF GivesBack, LosesNothing
<1>2. CASE ~FreeNoPages(w)
  BY <1>2, TakesGetFreePagePtr, TakesPrivateList, KeepsGetPrivatePage, KeepsCommitFlush,
     KeepsDrop, KeepsCount, GivesBackPushed
  DEF Step
<1>3. QED
  BY <1>1, <1>2

-----------------------------------------------------------------------------
(* No page is lost.                                                        *)

LEMMA UnchangedPlaces ==
  ASSUME UNCHANGED vars
  PROVE  /\ StoreFree' = StoreFree /\ noMansLand' = noMansLand
         /\ \A w \in Writers : HeldBy(w)' = HeldBy(w)
BY DEF vars, header, local, StoreFree, StoreLists, PagesOfList, HeldBy, PrivatePages,
       HasPrivateList, Freeing

PlacesInv == SharingInv /\ NoPageLost

LEMMA PlacesInit == Init => PlacesInv
<1> SUFFICES ASSUME Init PROVE PlacesInv
  OBVIOUS
<1>1. StoreFree = {} /\ \A w \in Writers : HeldBy(w) = {}
  BY DEF Init, StoreFree, StoreLists, HeldBy, PrivatePages, HasPrivateList
<1>2. FirstPage .. (noMansLand - 1) = {}
  BY DEF Init, FirstPage
<1>3. QED
  BY <1>1, <1>2, SharingInit DEF PlacesInv, NoPageLost

LEMMA PlacesStep == PlacesInv /\ [Next]_vars => PlacesInv'
<1> SUFFICES ASSUME PlacesInv, [Next]_vars
             PROVE  PlacesInv'
  OBVIOUS
<1>1. SharingInv'
  BY SharingStep DEF PlacesInv
<1>2. ASSUME NEW w \in Writers, Step(w)
      PROVE  NoPageLost'
  <2>1. LosesNothing(w)
    BY <1>2, StepMoves DEF PlacesInv, Takes, GivesBack
  <2> DEFINE Places == StoreFree \cup UNION {HeldBy(v) : v \in Writers}
  <2>2. Born' = Born \cup NewPages
    BY <1>1, <2>1 DEF LosesNothing, PlacesInv, SharingInv, TypeOK, Born, NewPages, FirstPage
  <2>3. Places \cup NewPages \subseteq Places'
    BY <2>1 DEF LosesNothing
  <2>4. Places' \subseteq Born'
    BY <1>1 DEF SharingInv, PagesBorn
  <2>5. QED
    BY <2>2, <2>3, <2>4 DEF PlacesInv, NoPageLost, Born
<1>3. ASSUME UNCHANGED vars
      PROVE  NoPageLost'
  <2>1. /\ StoreFree' = StoreFree /\ noMansLand' = noMansLand
        /\ \A w \in Writers : HeldBy(w)' = HeldBy(w)
    BY <1>3, UnchangedPlaces
  <2>2. QED
    BY <2>1 DEF PlacesInv, NoPageLost
<1>4. QED
  BY <1>1, <1>2, <1>3 DEF PlacesInv, Next

\* Every page of the file that was born is free or held by a writer: what
\* getFreePageList(), freePages() and dropAllPages() take off a list or out of
\* a revision ends up in another, for every number of writers and every
\* capacity of a list.
THEOREM NoPageForgotten == Spec => []NoPageLost
<1>1. PlacesInv => NoPageLost
  BY DEF PlacesInv
<1>2. QED
  BY <1>1, PlacesInit, PlacesStep, PTL DEF Spec

-----------------------------------------------------------------------------
(* The allocator implements PageOwnership.                                 *)

\* The owner of a page, read off the place it is in.
LEMMA OwnerFound ==
  ASSUME PlacesInv, NEW p \in Page
  PROVE  /\ p >= noMansLand => OwnerOf(p) = "unborn"
         /\ p \in StoreFree => OwnerOf(p) = "free" /\ p < noMansLand
         /\ \A w \in Writers : p \in HeldBy(w) => OwnerOf(p) = w /\ p < noMansLand
         /\ p < noMansLand => p \in StoreFree \/ \E w \in Writers : p \in HeldBy(w)
<1>1. p \in StoreFree => p < noMansLand
  BY DEF PlacesInv, SharingInv, TypeOK, PagesBorn, Born, FirstPage
<1>2. ASSUME NEW w \in Writers, p \in HeldBy(w)
      PROVE  OwnerOf(p) = w /\ p < noMansLand
  <2>1. p < noMansLand
    BY <1>2 DEF PlacesInv, SharingInv, TypeOK, PagesBorn, Born, FirstPage
  <2>2. p \notin StoreFree /\ \A v \in Writers : p \in HeldBy(v) => v = w
    BY <1>2 DEF PlacesInv, SharingInv, NoSharedPage, HandsApart
  <2>3. (CHOOSE v \in Writers : p \in HeldBy(v)) = w
    BY <1>2, <2>2
  <2>4. p \in Int /\ noMansLand \in Int /\ ~(p >= noMansLand)
    BY <2>1, PageRange DEF PlacesInv, SharingInv, TypeOK, FirstPage
  <2>5. QED
    BY <2>1, <2>2, <2>3, <2>4 DEF OwnerOf
<1>3. p < noMansLand => p \in StoreFree \/ \E w \in Writers : p \in HeldBy(w)
  BY DEF PlacesInv, NoPageLost, SharingInv, TypeOK, Page, FirstPage
<1>4. p \in Int /\ noMansLand \in Int
  BY PageRange DEF PlacesInv, SharingInv, TypeOK, FirstPage
<1>5. QED
  BY <1>1, <1>2, <1>3, <1>4 DEF OwnerOf

\* The same, of all pages: it holds after a step too.
OwnersFound ==
  \A p \in Page :
    /\ p >= noMansLand => OwnerOf(p) = "unborn"
    /\ p \in StoreFree => OwnerOf(p) = "free"
    /\ \A w \in Writers : p \in HeldBy(w) => OwnerOf(p) = w
    /\ p < noMansLand => p \in StoreFree \/ \E w \in Writers : p \in HeldBy(w)

LEMMA OwnersAfter == PlacesInv' => OwnersFound'
<1>1. PlacesInv => OwnersFound
  BY OwnerFound DEF OwnersFound
<1>2. QED
  BY <1>1, PTL

LEMMA BetweenBounds ==
  \A p, first, end \in Int : p >= first /\ ~(p >= end) => p \in first .. (end - 1)
OBVIOUS

LEMMA OwnershipInit == Init => Ownership!Init
<1> SUFFICES ASSUME Init, NEW p \in Page
             PROVE  OwnerOf(p) = "unborn"
  BY DEF Ownership!Init
<1>1. p >= noMansLand
  BY DEF Init, Page
<1>2. QED
  BY <1>1 DEF OwnerOf

LEMMA OwnershipStep == PlacesInv /\ [Next]_vars => [Ownership!Next]_[p \in Page |-> OwnerOf(p)]
<1> SUFFICES ASSUME PlacesInv, [Next]_vars
             PROVE  [Ownership!Next]_[p \in Page |-> OwnerOf(p)]
  OBVIOUS
<1>0. PlacesInv'
  BY PlacesStep
<1>1. \A p \in Page :
        /\ p >= noMansLand' => OwnerOf(p)' = "unborn"
        /\ p \in StoreFree' => OwnerOf(p)' = "free"
        /\ \A w \in Writers : p \in HeldBy(w)' => OwnerOf(p)' = w
        /\ p < noMansLand' => p \in StoreFree' \/ \E w \in Writers : p \in HeldBy(w)'
  BY <1>0, OwnersAfter DEF OwnersFound
<1>2. \A p \in Page : OwnerOf(p)' \in Writers \cup {"free", "unborn"}
  <2>1. ASSUME NEW p \in Page
        PROVE  OwnerOf(p)' \in Writers \cup {"free", "unborn"}
    BY <1>0, <1>1, PageRange DEF PlacesInv, SharingInv, TypeOK, FirstPage
  <2>2. QED
    BY <2>1
<1>3. ASSUME NEW w \in Writers, Takes(w), NEW p \in Page, OwnerOf(p)' # OwnerOf(p)
      PROVE  \/ OwnerOf(p) \in {"free", "unborn"} /\ OwnerOf(p)' = w
             \/ OwnerOf(p) = "unborn" /\ OwnerOf(p)' = "free"
  <2>1. LosesNothing(w) /\ HeldBy(w) \subseteq HeldBy(w)'
    BY <1>3 DEF Takes
  <2>2. CASE p \in StoreFree
    <3>1. p \in StoreFree' \cup HeldBy(w)' /\ OwnerOf(p) = "free"
      BY <2>1, <2>2, OwnerFound DEF LosesNothing
    <3>2. QED
      BY <1>1, <1>3, <3>1
  <2>3. ASSUME NEW v \in Writers, p \in HeldBy(v)
        PROVE  FALSE
    <3>1. p \in HeldBy(v)' /\ OwnerOf(p) = v
      BY <2>1, <2>3, OwnerFound DEF LosesNothing
    <3>2. QED
      BY <1>1, <1>3, <3>1
  <2>4. CASE p >= noMansLand
    <3>1. OwnerOf(p) = "unborn"
      BY <2>4, OwnerFound
    <3>2. p \in NewPages
      <4>1. ~(p >= noMansLand')
        BY <1>1, <1>3, <3>1
      <4>2. p \in Int /\ noMansLand \in Int /\ noMansLand' \in Int
        BY <1>0, PageRange DEF PlacesInv, SharingInv, TypeOK, FirstPage
      <4>3. QED
        BY <2>4, <4>1, <4>2, BetweenBounds DEF NewPages
    <3>3. p \in StoreFree' \cup HeldBy(w)'
      BY <2>1, <3>2 DEF LosesNothing
    <3>4. QED
      BY <1>1, <3>1, <3>3
  <2>5. p >= noMansLand \/ p < noMansLand
    BY PageRange DEF PlacesInv, SharingInv, TypeOK, FirstPage
  <2>6. QED
    BY <2>2, <2>3, <2>4, <2>5, OwnerFound
<1>4. ASSUME NEW w \in Writers, GivesBack(w), NEW p \in Page, OwnerOf(p)' # OwnerOf(p)
      PROVE  OwnerOf(p) = w /\ OwnerOf(p)' = "free"
  <2>1. LosesNothing(w) /\ noMansLand' = noMansLand /\ StoreFree \subseteq StoreFree'
    BY <1>4 DEF GivesBack
  <2>2. p \notin StoreFree
    BY <1>1, <1>4, <2>1, OwnerFound
  <2>3. ~(p >= noMansLand)
    BY <1>1, <1>4, <2>1, OwnerFound
  <2>4. PICK v \in Writers : p \in HeldBy(v)
    BY <2>2, <2>3, OwnerFound, PageRange DEF PlacesInv, SharingInv, TypeOK, FirstPage
  <2>5. v = w
    BY <1>1, <1>4, <2>1, <2>4, OwnerFound DEF LosesNothing
  <2>6. p \in StoreFree' \cup HeldBy(w)' /\ OwnerOf(p) = w
    BY <2>1, <2>4, <2>5, OwnerFound DEF LosesNothing
  <2>7. QED
    BY <1>1, <1>4, <2>6
<1> DEFINE owner == [p \in Page |-> OwnerOf(p)]
<1>5. ASSUME NEW w \in Writers, Step(w)
      PROVE  Ownership!Acquire(w) \/ Ownership!Release(w)
  <2>1. Takes(w) \/ GivesBack(w)
    BY <1>5, StepMoves DEF PlacesInv
  <2>2. owner' \in [Page -> Ownership!Owner]
    BY <1>2 DEF Ownership!Owner
  <2>3. \A p \in Ownership!Changed : p \in Page /\ OwnerOf(p)' # OwnerOf(p)
    BY DEF Ownership!Changed
  <2>4. CASE Takes(w)
    <3>1. Ownership!Acquire(w)
      BY <1>3, <2>2, <2>3, <2>4 DEF Ownership!Acquire
    <3>2. QED
      BY <3>1
  <2>5. CASE GivesBack(w)
    <3>1. Ownership!Release(w)
      BY <1>4, <2>2, <2>3, <2>5 DEF Ownership!Release
    <3>2. QED
      BY <3>1
  <2>6. QED
    BY <2>1, <2>4, <2>5
<1>6. ASSUME UNCHANGED vars
      PROVE  owner' = owner
  <2>1. /\ StoreFree' = StoreFree /\ noMansLand' = noMansLand
        /\ \A w \in Writers : HeldBy(w)' = HeldBy(w)
    BY <1>6, UnchangedPlaces
  <2>2. \A p \in Page : OwnerOf(p)' = OwnerOf(p)
    BY <1>0, <1>1, <2>1, OwnerFound, PageRange DEF PlacesInv, SharingInv, TypeOK, FirstPage
  <2>3. QED
    BY <2>2
<1>7. QED
  BY <1>5, <1>6 DEF Next, Ownership!Next

\* The lists, the counters and the steps in between implement the promise of
\* the allocator (PageOwnership): getFreePagePtr() and __getFreePagePtr() give
\* a page nobody holds, and a page leaves a writer by its own freePages() only,
\* for every number of writers, every capacity and every length of the file.
THEOREM AllocatorKeepsPromise == Spec => OwnershipKept
<1>1. Init => Ownership!Init
  BY OwnershipInit
<1>2. QED
  BY <1>1, PlacesInit, PlacesStep, OwnershipStep, PTL DEF Spec, OwnershipKept, Ownership!Spec

-----------------------------------------------------------------------------
(* The lists and the number of free pages.                                 *)

USE WritersAssumption

-----------------------------------------------------------------------------
(* What a step of w leaves alone.                                          *)

Frame(w) ==
  /\ \A v \in Writers \ {w} :
       /\ owned'[v] = owned[v] /\ freePageList'[v] = freePageList[v]
       /\ pc'[v] = pc[v] /\ batch'[v] = batch[v] /\ rest'[v] = rest[v]
  /\ \A m \in Page : pages'[m] = pages[m] \/ m \in StoreFree \cup HeldBy(w) \cup {noMansLand}

LEMMA PrivateListHeld ==
  ASSUME SharingInv, NEW w \in Writers, freePageList[w] \in Page, ~Freeing(w)
  PROVE  HasPrivateList(w) /\ freePageList[w] \in HeldBy(w)
BY PageRange DEF HasPrivateList, HeldBy, PrivatePages, PagesOfList

LEMMA StepFrame ==
  ASSUME SharingInv, NEW w \in Writers, Step(w)
  PROVE  Frame(w)
<1>1. CASE GetFreePagePtr(w)
  <2>1. PICK l \in Page, content \in SUBSET Page : \E p \in {l} \cup content :
          /\ l \in StoreFree \cup {noMansLand}
          /\ owned' = [owned EXCEPT ![w] = @ \cup {p}]
          /\ \/ p # l /\ own' = l /\ pages' = [pages EXCEPT ![l] = content \ {p}]
             \/ p = l /\ content = {} /\ own' = NullPage /\ pages' = pages
    BY <1>1, HandedPage
  <2>2. \A v \in Writers \ {w} : owned'[v] = owned[v]
    BY <2>1 DEF SharingInv, TypeOK
  <2>3. \A m \in Page : pages'[m] = pages[m] \/ m \in StoreFree \cup {noMansLand}
    BY <2>1 DEF SharingInv, TypeOK
  <2>4. UNCHANGED <<freePageList, pc, batch, rest>>
    BY <1>1 DEF GetFreePagePtr
  <2>5. QED
    BY <2>2, <2>3, <2>4 DEF Frame
<1>2. CASE TakePrivateList(w)
  <2>1. PICK l \in Page : /\ GetFreePageList(l)
                          /\ pages' = [pages EXCEPT ![l] = ListContent(l)]
                          /\ freePageList' = [freePageList EXCEPT ![w] = l]
    BY <1>2 DEF TakePrivateList
  <2>2. \A m \in Page : pages'[m] = pages[m] \/ m \in StoreFree \cup {noMansLand}
    BY <2>1, PoppedList DEF SharingInv, TypeOK
  <2>3. QED
    BY <1>2, <2>1, <2>2 DEF TakePrivateList, Frame, SharingInv, TypeOK
<1>3. CASE DecrementFreePagesCount(w) \/ FreePagesCount(w)
  BY <1>3 DEF DecrementFreePagesCount, FreePagesCount, header, Frame, SharingInv, TypeOK
<1>4. CASE GetPrivatePage(w)
  <2>1. freePageList[w] \in Page /\ ~Freeing(w)
    BY <1>4 DEF GetPrivatePage, Freeing, SharingInv, TypeOK
  <2>2. \A m \in Page : pages'[m] = pages[m] \/ m \in HeldBy(w)
    BY <1>4, <2>1, PrivateListHeld DEF GetPrivatePage, SharingInv, TypeOK
  <2>3. QED
    BY <1>4, <2>2 DEF GetPrivatePage, Frame, SharingInv, TypeOK
<1>5. CASE CommitFlush(w)
  <2>1. freePageList[w] \in Page /\ ~Freeing(w)
    BY <1>5 DEF CommitFlush, Freeing, SharingInv, TypeOK
  <2>2. \A m \in Page : pages'[m] = pages[m] \/ m \in HeldBy(w)
    BY <1>5, <2>1, PrivateListHeld DEF CommitFlush, SharingInv, TypeOK
  <2>3. QED
    BY <1>5, <2>2 DEF CommitFlush, Frame, SharingInv, TypeOK
<1>6. CASE Drop(w)
  <2>1. \A m \in Page : pages'[m] = pages[m] \/ m = freePageList[w]
    BY <1>6 DEF Drop
  <2>2. freePageList[w] \in Page => freePageList[w] \in HeldBy(w)
    BY <1>6, PrivateListHeld DEF Drop, Freeing
  <2>3. QED
    BY <1>6, <2>1, <2>2 DEF Drop, Frame, SharingInv, TypeOK
<1>7. CASE FreePagesPush(w)
  <2>1. PICK copied \in SUBSET batch[w], l \in batch[w] \cup {NullPage} :
          /\ StoreLists' = StoreLists \cup ({l} \ {NullPage})
          /\ l # NullPage => l \notin copied /\ pages'[l] = (batch[w] \ copied) \ {l}
          /\ l = NullPage => copied = batch[w]
          /\ copied # {} => current # NullPage
          /\ \A m \in Page \ {l} : pages'[m] = IF m = current THEN pages[m] \cup copied ELSE pages[m]
          /\ current' \in {current, l, NullPage}
          /\ current' = current => chain' = chain
          /\ chain' \subseteq chain \cup ({current} \ {NullPage})
    BY <1>7, PushedPages
  <2>2. current # NullPage => current \in StoreFree
    BY DEF StoreFree, StoreLists, PagesOfList
  <2>3. \A m \in Page : pages'[m] = pages[m] \/ m \in StoreFree \cup HeldBy(w)
    BY <2>1, <2>2, PageRange DEF HeldBy
  <2>4. QED
    BY <1>7, <2>3 DEF FreePagesPush, FreePagesReturn, Frame, SharingInv, TypeOK
<1>8. CASE FreeNoPages(w)
  BY <1>8 DEF FreeNoPages, header, local, Frame
<1>9. QED
  BY <1>1, <1>2, <1>3, <1>4, <1>5, <1>6, <1>7, <1>8 DEF Step

-----------------------------------------------------------------------------
(* Lists are full.  ListsFull says nothing of the lists of revisions and of *)
(* the pages being freed: they fit in a list.                              *)

BatchesFit ==
  \A w \in Writers :
    /\ Cardinality(batch[w]) <= MaxNumber
    /\ HasPrivateList(w) => Cardinality(pages[freePageList[w]]) <= MaxNumber
    /\ pc[w] = "decrement" => freePageList[w] # NullPage

FullInv == SharingInv /\ ListsFull /\ BatchesFit

\* What a step of w has to establish.
LEMMA FullKept ==
  ASSUME FullInv, SharingInv', NEW w \in Writers, Frame(w),
         \A m \in chain' : Cardinality(pages'[m]) = MaxNumber,
         current' # NullPage => Cardinality(pages'[current']) < MaxNumber,
         Cardinality(batch'[w]) <= MaxNumber,
         HasPrivateList(w)' => Cardinality(pages'[freePageList'[w]]) <= MaxNumber,
         pc'[w] = "decrement" =>
           freePageList'[w] # NullPage /\ Cardinality(pages'[freePageList'[w]]) = MaxNumber
  PROVE  FullInv'
<1>1. ASSUME NEW v \in Writers \ {w}
      PROVE  /\ Cardinality(batch'[v]) <= MaxNumber
             /\ HasPrivateList(v)' => Cardinality(pages'[freePageList'[v]]) <= MaxNumber
             /\ pc'[v] = "decrement" =>
                  freePageList'[v] # NullPage /\ Cardinality(pages'[freePageList'[v]]) = MaxNumber
  <2>1. /\ freePageList'[v] = freePageList[v] /\ pc'[v] = pc[v] /\ batch'[v] = batch[v]
        /\ HasPrivateList(v)' <=> HasPrivateList(v)
        /\ HasPrivateList(v) => pages'[freePageList[v]] = pages[freePageList[v]]
    BY OthersKeepPages DEF Frame, FullInv
  <2>2. pc[v] = "decrement" => HasPrivateList(v)
    BY DEF FullInv, BatchesFit, HasPrivateList, Freeing
  <2>3. QED
    BY <2>1, <2>2 DEF FullInv, BatchesFit, ListsFull
<1>2. ListsFull' /\ BatchesFit'
  BY <1>1 DEF ListsFull, BatchesFit
<1>3. QED
  BY <1>2 DEF FullInv

LEMMA FreshOrPoppedFull ==
  ASSUME FullInv, NEW l \in Page, GetFreePageList(l)
  PROVE  Cardinality(ListContent(l)) = MaxNumber
<1>1. CASE chain # {}
  BY <1>1 DEF GetFreePageList, ListContent, FullInv, ListsFull
<1>2. CASE chain = {}
  <2>1. l \in Int /\ ListContent(l) = (l + 1) .. (l + MaxNumber)
    BY <1>2, PageRange DEF ListContent
  <2>2. QED
    BY <2>1, FS_Interval
<1>3. QED
  BY <1>1, <1>2

LEMMA FullGetFreePagePtr ==
  ASSUME FullInv, SharingInv', NEW w \in Writers, Frame(w), GetFreePagePtr(w)
  PROVE  FullInv'
<1>1. PICK l \in Page, content \in SUBSET Page : \E p \in {l} \cup content :
        /\ l # current /\ chain' = chain \ {l}
        /\ HeldBy(w) \cap ({l} \cup content) = {}
        /\ \/ p # l /\ own' = l /\ pages' = [pages EXCEPT ![l] = content \ {p}]
           \/ p = l /\ content = {} /\ own' = NullPage /\ pages' = pages
  BY HandedPage, ZenonT(60) DEF FullInv
<1>2. \A m \in Page \ {l} : pages'[m] = pages[m]
  BY <1>1 DEF FullInv, SharingInv, TypeOK
<1>3. pc[w] = "idle" /\ UNCHANGED <<current, freePageList, pc, batch, rest>>
  BY DEF GetFreePagePtr
<1>4. \A m \in chain' : Cardinality(pages'[m]) = MaxNumber
  BY <1>1, <1>2 DEF FullInv, ListsFull, SharingInv, TypeOK
<1>5. current' # NullPage => Cardinality(pages'[current']) < MaxNumber
  BY <1>1, <1>2, <1>3 DEF FullInv, ListsFull, SharingInv, TypeOK
<1>6. HasPrivateList(w)' => Cardinality(pages'[freePageList'[w]]) <= MaxNumber
  <2>1. HasPrivateList(w)' <=> HasPrivateList(w)
    BY <1>3 DEF HasPrivateList, Freeing
  <2>2. HasPrivateList(w) => freePageList[w] \in Page /\ freePageList[w] # l
    BY <1>1 DEF HasPrivateList, HeldBy, PrivatePages, PagesOfList, FullInv, SharingInv, TypeOK
  <2>3. QED
    BY <1>2, <1>3, <2>1, <2>2 DEF FullInv, BatchesFit
<1>7. QED
  BY <1>3, <1>4, <1>5, <1>6, FullKept DEF FullInv, BatchesFit

LEMMA FullTakePrivateList ==
  ASSUME FullInv, SharingInv', NEW w \in Writers, Frame(w), TakePrivateList(w)
  PROVE  FullInv'
<1>1. PICK l \in Page : /\ GetFreePageList(l)
                        /\ pages' = [pages EXCEPT ![l] = ListContent(l)]
                        /\ freePageList' = [freePageList EXCEPT ![w] = l]
  BY DEF TakePrivateList
<1>2. /\ chain' = chain \ {l} /\ l # current /\ UNCHANGED <<current, batch>>
      /\ freePageList'[w] = l /\ l # NullPage
  BY <1>1, PoppedList, PageRange DEF TakePrivateList, GetFreePageList, FullInv, SharingInv, TypeOK
<1>3. \A m \in Page \ {l} : pages'[m] = pages[m]
  BY <1>1 DEF FullInv, SharingInv, TypeOK
<1>4. pages'[l] = ListContent(l) /\ Cardinality(pages'[l]) = MaxNumber
  BY <1>1, FreshOrPoppedFull DEF FullInv, SharingInv, TypeOK
<1>5. \A m \in chain' : Cardinality(pages'[m]) = MaxNumber
  BY <1>2, <1>3 DEF FullInv, ListsFull, SharingInv, TypeOK
<1>6. current' # NullPage => Cardinality(pages'[current']) < MaxNumber
  BY <1>2, <1>3 DEF FullInv, ListsFull, SharingInv, TypeOK
<1>7. QED
  BY <1>2, <1>4, <1>5, <1>6, FullKept DEF FullInv, BatchesFit

\* The steps that touch no list of the store.
LEMMA FullOwnPages ==
  ASSUME FullInv, SharingInv', NEW w \in Writers, Frame(w),
         UNCHANGED <<chain, current, own>>,
         \A m \in Page : pages'[m] = pages[m] \/ m \in HeldBy(w),
         Cardinality(batch'[w]) <= MaxNumber,
         HasPrivateList(w)' => Cardinality(pages'[freePageList'[w]]) <= MaxNumber,
         pc'[w] # "decrement"
  PROVE  FullInv'
<1>1. StoreLists \subseteq StoreFree /\ StoreLists \subseteq Page
  BY DEF StoreLists, StoreFree, PagesOfList, FullInv, SharingInv, TypeOK
<1>2. \A m \in StoreLists : pages'[m] = pages[m]
  BY <1>1 DEF FullInv, SharingInv, NoSharedPage, HandsApart
<1>3. /\ \A m \in chain' : Cardinality(pages'[m]) = MaxNumber
      /\ current' # NullPage => Cardinality(pages'[current']) < MaxNumber
  BY <1>2 DEF StoreLists, FullInv, ListsFull
<1>4. QED
  BY <1>3, FullKept

LEMMA FullGetPrivatePage ==
  ASSUME FullInv, SharingInv', NEW w \in Writers, Frame(w), GetPrivatePage(w)
  PROVE  FullInv'
<1> DEFINE l == freePageList[w]
<1>1. /\ pc[w] = "idle" /\ l \in Page /\ ~Freeing(w)
      /\ UNCHANGED <<chain, current, own, pc, batch, rest>>
  BY DEF GetPrivatePage, Freeing, FullInv, SharingInv, TypeOK
<1>2. \A m \in Page : pages'[m] = pages[m] \/ m \in HeldBy(w)
  BY <1>1, PrivateListHeld DEF GetPrivatePage, FullInv, SharingInv, TypeOK
<1>3. Cardinality(pages[l]) <= MaxNumber /\ IsFiniteSet(pages[l]) /\ Cardinality(pages[l]) \in Nat
  BY <1>1, PrivateListHeld, PageSetFinite DEF FullInv, SharingInv, TypeOK, BatchesFit
<1>4. HasPrivateList(w)' => Cardinality(pages'[freePageList'[w]]) <= MaxNumber
  <2>1. ASSUME NEW p \in pages[l], pages' = [pages EXCEPT ![l] = @ \ {p}], UNCHANGED freePageList
        PROVE  Cardinality(pages'[freePageList'[w]]) <= MaxNumber
    <3>1. pages'[freePageList'[w]] = pages[l] \ {p}
      BY <1>1, <2>1 DEF FullInv, SharingInv, TypeOK
    <3>2. Cardinality(pages[l] \ {p}) = Cardinality(pages[l]) - 1
      BY <1>3, <2>1, FS_RemoveElement
    <3>3. QED
      BY <1>3, <3>1, <3>2
  <2>2. ASSUME freePageList' = [freePageList EXCEPT ![w] = NullPage]
        PROVE  ~HasPrivateList(w)'
    BY <2>2 DEF HasPrivateList, FullInv, SharingInv, TypeOK
  <2>3. QED
    BY <2>1, <2>2 DEF GetPrivatePage
<1>5. QED
  BY <1>1, <1>2, <1>4, FullOwnPages DEF FullInv, BatchesFit

LEMMA FullCommitFlush ==
  ASSUME FullInv, SharingInv', NEW w \in Writers, Frame(w), CommitFlush(w)
  PROVE  FullInv'
<1>1. /\ freePageList[w] \in Page /\ ~Freeing(w) /\ pc'[w] = "count"
      /\ UNCHANGED <<chain, current, own>> /\ batch'[w] = pages[freePageList[w]]
  BY DEF CommitFlush, Freeing, FullInv, SharingInv, TypeOK
<1>2. \A m \in Page : pages'[m] = pages[m] \/ m \in HeldBy(w)
  BY <1>1, PrivateListHeld DEF CommitFlush, FullInv, SharingInv, TypeOK
<1>3. Cardinality(batch'[w]) <= MaxNumber
  BY <1>1, PrivateListHeld DEF FullInv, BatchesFit
<1>4. ~HasPrivateList(w)'
  BY <1>1 DEF HasPrivateList, Freeing
<1>5. QED
  BY <1>1, <1>2, <1>3, <1>4, FullOwnPages

LEMMA FullDrop ==
  ASSUME FullInv, SharingInv', NEW w \in Writers, Frame(w), Drop(w)
  PROVE  FullInv'
<1>1. /\ pc'[w] = "count" /\ UNCHANGED <<chain, current, own>>
      /\ \E p : batch'[w] = {p}
  BY ZenonT(60) DEF Drop, FullInv, SharingInv, TypeOK
<1>2. \A m \in Page : pages'[m] = pages[m] \/ m \in HeldBy(w)
  <2>1. freePageList[w] \in Page => freePageList[w] \in HeldBy(w)
    BY PrivateListHeld DEF Drop, Freeing, FullInv
  <2>2. QED
    BY <2>1 DEF Drop
<1>3. Cardinality(batch'[w]) <= MaxNumber
  <2>1. Cardinality(batch'[w]) = 1
    BY <1>1, FS_Singleton
  <2>2. QED
    BY <2>1
<1>4. ~HasPrivateList(w)'
  BY <1>1 DEF HasPrivateList, Freeing
<1>5. QED
  BY <1>1, <1>2, <1>3, <1>4, FullOwnPages

LEMMA FullCount ==
  ASSUME FullInv, SharingInv', NEW w \in Writers, Frame(w),
         DecrementFreePagesCount(w) \/ FreePagesCount(w)
  PROVE  FullInv'
<1>1. UNCHANGED <<chain, current, own, pages, freePageList, batch>> /\ pc'[w] # "decrement"
  BY DEF DecrementFreePagesCount, FreePagesCount, header, FullInv, SharingInv, TypeOK
<1>2. HasPrivateList(w)' => HasPrivateList(w)
  BY <1>1 DEF DecrementFreePagesCount, FreePagesCount, HasPrivateList, Freeing, FullInv,
              SharingInv, TypeOK
<1>3. QED
  BY <1>1, <1>2, FullOwnPages DEF FullInv, BatchesFit

\* The freed pages fit in the list they start.
LEMMA StartedList ==
  ASSUME NEW freed \in SUBSET Page, Cardinality(freed) <= MaxNumber,
         NEW oldPages \in [Page -> SUBSET Page], StartList(freed, oldPages)
  PROVE  /\ current' # NullPage => Cardinality(pages'[current']) < MaxNumber
         /\ \A m \in Page \ freed : pages'[m] = oldPages[m]
<1>1. IsFiniteSet(freed) /\ Cardinality(freed) \in Nat
  BY PageSetFinite
<1>2. CASE freed = {}
  BY <1>2 DEF StartList
<1>3. CASE freed # {}
  <2>1. PICK l \in freed : current' = l /\ pages' = [oldPages EXCEPT ![l] = freed \ {l}]
    BY <1>3 DEF StartList
  <2>2. pages'[current'] = freed \ {l} /\ Cardinality(freed \ {l}) = Cardinality(freed) - 1
    BY <1>1, <2>1, FS_RemoveElement
  <2>3. QED
    BY <1>1, <2>1, <2>2
<1>4. QED
  BY <1>2, <1>3

\* The lists of the store once the pages of a batch are pushed.
LEMMA PushedFull ==
  ASSUME FullInv, NEW w \in Writers, FreePagesPush(w)
  PROVE  /\ \A m \in chain' : Cardinality(pages'[m]) = MaxNumber
         /\ current' # NullPage => Cardinality(pages'[current']) < MaxNumber
<1>1. /\ batch[w] \in SUBSET Page /\ batch[w] \cap StoreFree = {}
      /\ Cardinality(batch[w]) <= MaxNumber
      /\ IsFiniteSet(batch[w]) /\ Cardinality(batch[w]) \in Nat
  <2>1. batch[w] \in SUBSET Page /\ batch[w] \cap StoreFree = {}
    BY DEF FullInv, SharingInv, TypeOK, NoSharedPage, HandsApart, HeldBy
  <2>2. QED
    BY <2>1, PageSetFinite DEF FullInv, BatchesFit
<1>2. StoreLists \subseteq StoreFree /\ chain \subseteq StoreLists /\ chain \subseteq Page
  BY DEF StoreLists, StoreFree, PagesOfList, FullInv, SharingInv, TypeOK
<1>3. pages \in [Page -> SUBSET Page] /\ \A m \in chain : Cardinality(pages[m]) = MaxNumber
  BY DEF FullInv, SharingInv, TypeOK, ListsFull
<1>4. CASE current = NullPage
  <2>1. StartList(batch[w], pages) /\ chain' = chain
    BY <1>4 DEF FreePagesPush
  <2>2. /\ current' # NullPage => Cardinality(pages'[current']) < MaxNumber
        /\ \A m \in Page \ batch[w] : pages'[m] = pages[m]
    BY <1>1, <1>3, <2>1, StartedList
  <2>3. QED
    BY <1>1, <1>2, <1>3, <2>1, <2>2
<1>5. CASE current # NullPage
  <2> DEFINE room == MaxNumber - Cardinality(pages[current])
             filled(c) == [pages EXCEPT ![current] = @ \cup c]
  <2>1. PICK copied \in SUBSET batch[w] :
          \/ /\ copied = batch[w] /\ Cardinality(batch[w]) < room
             /\ pages' = filled(copied) /\ UNCHANGED <<current, chain>>
          \/ /\ Cardinality(copied) = room /\ chain' = chain \cup {current}
             /\ StartList(batch[w] \ copied, filled(copied))
    BY <1>5 DEF FreePagesPush, AppendToCurrent
  <2>2. current \in Page /\ current \in StoreLists /\ pages[current] \in SUBSET Page
        /\ current \notin chain
    BY <1>5 DEF StoreLists, FullInv, SharingInv, TypeOK, NoSharedPage, ListsApart
  <2>3. /\ IsFiniteSet(pages[current]) /\ Cardinality(pages[current]) \in Nat
        /\ Cardinality(pages[current]) < MaxNumber
        /\ IsFiniteSet(copied) /\ Cardinality(copied) \in Nat
    BY <1>1, <1>5, <2>2, PageSetFinite DEF FullInv, ListsFull
  <2>4. /\ filled(copied) \in [Page -> SUBSET Page]
        /\ filled(copied)[current] = pages[current] \cup copied
        /\ \A m \in Page \ {current} : filled(copied)[m] = pages[m]
    BY <1>1, <1>3, <2>2
  <2>5. Cardinality(pages[current] \cup copied) = Cardinality(pages[current]) + Cardinality(copied)
    <3>1. pages[current] \subseteq StoreFree
      BY <2>2 DEF StoreFree, PagesOfList
    <3>2. pages[current] \cap copied = {}
      BY <1>1, <3>1
    <3>3. QED
      BY <2>3, <3>2, FS_Union, FS_EmptySet, SMTT(30)
  <2> HIDE DEF filled
  <2>6. CASE /\ copied = batch[w] /\ Cardinality(batch[w]) < room
             /\ pages' = filled(copied) /\ UNCHANGED <<current, chain>>
    <3>1. /\ pages'[current'] = pages[current] \cup copied
          /\ Cardinality(copied) < MaxNumber - Cardinality(pages[current])
      BY <2>4, <2>6
    <3>2. \A m \in chain' : Cardinality(pages'[m]) = MaxNumber
      BY <1>2, <1>3, <2>2, <2>4, <2>6
    <3>3. Cardinality(pages'[current']) < MaxNumber
      BY <2>3, <2>5, <3>1
    <3>4. QED
      BY <3>2, <3>3
  <2>7. CASE /\ Cardinality(copied) = room /\ chain' = chain \cup {current}
             /\ StartList(batch[w] \ copied, filled(copied))
    <3>1. batch[w] \ copied \in SUBSET Page /\ Cardinality(batch[w] \ copied) <= MaxNumber
      <4>1. /\ Cardinality(batch[w] \ copied) <= Cardinality(batch[w])
            /\ Cardinality(batch[w] \ copied) \in Nat
        BY <1>1, FS_Subset, FS_CardinalityType
      <4>2. QED
        BY <1>1, <4>1
    <3>2. /\ current' # NullPage => Cardinality(pages'[current']) < MaxNumber
          /\ \A m \in Page \ (batch[w] \ copied) : pages'[m] = filled(copied)[m]
      BY <2>4, <2>7, <3>1, StartedList
    <3>3. Cardinality(filled(copied)[current]) = MaxNumber
      BY <2>3, <2>4, <2>5, <2>7
    <3>4. \A m \in chain' : m \in Page \ (batch[w] \ copied)
      BY <1>1, <1>2, <2>2, <2>7
    <3>5. \A m \in chain' : Cardinality(pages'[m]) = MaxNumber
      BY <1>2, <1>3, <2>2, <2>4, <2>7, <3>2, <3>3, <3>4
    <3>6. QED
      BY <3>2, <3>5
  <2>8. QED
    BY <2>1, <2>6, <2>7
<1>6. QED
  BY <1>4, <1>5

LEMMA FullFreePagesPush ==
  ASSUME FullInv, SharingInv', NEW w \in Writers, Frame(w), FreePagesPush(w)
  PROVE  FullInv'
<1>1. ~HasPrivateList(w)' /\ pc'[w] # "decrement"
  BY DEF FreePagesPush, FreePagesReturn, HasPrivateList, Freeing, FullInv, SharingInv, TypeOK
<1>2. batch'[w] = {} \/ \E p : batch'[w] = {p}
  BY ZenonT(60) DEF FreePagesPush, FreePagesReturn, FullInv, SharingInv, TypeOK
<1>3. Cardinality(batch'[w]) <= MaxNumber
  <2>1. Cardinality(batch'[w]) = 0 \/ Cardinality(batch'[w]) = 1
    <3>1. CASE batch'[w] = {}
      BY <3>1, FS_EmptySet
    <3>2. ASSUME NEW p, batch'[w] = {p}
          PROVE  Cardinality(batch'[w]) = 1
      BY <3>2, FS_Singleton, Zenon
    <3>3. QED
      BY <1>2, <3>1, <3>2
  <2>2. QED
    BY <2>1
<1>4. QED
  BY <1>1, <1>3, PushedFull, FullKept

LEMMA FullInit == Init => FullInv
<1> SUFFICES ASSUME Init PROVE FullInv
  OBVIOUS
<1>1. ListsFull
  BY DEF Init, ListsFull
<1>2. BatchesFit
  BY FS_EmptySet DEF Init, BatchesFit, HasPrivateList
<1>3. QED
  BY <1>1, <1>2, SharingInit DEF FullInv

LEMMA FullStep == FullInv /\ [Next]_vars => FullInv'
<1> SUFFICES ASSUME FullInv, [Next]_vars
             PROVE  FullInv'
  OBVIOUS
<1>1. SharingInv'
  BY SharingStep DEF FullInv
<1>2. ASSUME NEW w \in Writers, Step(w)
      PROVE  FullInv'
  <2>1. Frame(w)
    BY <1>2, StepFrame DEF FullInv
  <2>2. CASE FreeNoPages(w)
    BY <1>1, <2>2 DEF FreeNoPages, header, local, FullInv, ListsFull, BatchesFit,
                      HasPrivateList, Freeing
  <2>3. CASE ~FreeNoPages(w)
    BY <1>1, <1>2, <2>1, <2>3, FullGetFreePagePtr, FullTakePrivateList, FullGetPrivatePage,
       FullCommitFlush, FullDrop, FullCount, FullFreePagesPush
    DEF Step
  <2>4. QED
    BY <2>2, <2>3
<1>3. CASE UNCHANGED vars
  BY <1>1, <1>3 DEF vars, header, local, FullInv, ListsFull, BatchesFit, HasPrivateList, Freeing
<1>4. QED
  BY <1>2, <1>3 DEF Next

\* A list that is popped is full and the list being filled is not: the two
\* checks of the code on the number of pages of a list (checkFreePageHeader(),
\* __getFreePagePtr(), freePages()) never fail, whatever the capacity.
THEOREM ListsAsFullAsTaken == Spec => []ListsFull
<1>1. FullInv => ListsFull
  BY DEF FullInv
<1>2. QED
  BY <1>1, FullInit, FullStep, PTL DEF Spec

-----------------------------------------------------------------------------
(* The pages in transit.                                                   *)

InTransitOf == [w \in Writers |-> InTransit(w)]

Transits == SumOver(Writers, InTransitOf)

LEMMA TransitInRange == FullInv => InTransitOf \in Terms(Writers, MaxNumber + 1)
<1> SUFFICES ASSUME FullInv, NEW w \in Writers
             PROVE  InTransit(w) \in 0 .. (MaxNumber + 1)
  BY DEF InTransitOf, Terms
<1>1. Cardinality(batch[w]) \in Nat /\ Cardinality(batch[w]) <= MaxNumber
  BY PageSetFinite DEF FullInv, BatchesFit, SharingInv, TypeOK
<1>2. QED
  BY <1>1 DEF InTransit

LEMMA TransitSum == MapThenSumSet(InTransit, Writers) = Transits
<1> DEFINE Unfolded(g) == [S \in SUBSET Writers |->
             IF S = {} THEN 0 ELSE InTransit(Any(S)) + g[S \ {Any(S)}]]
<1>1. \A g : IsSum(Writers, InTransitOf, g) <=> g = Unfolded(g)
  <2>1. \A S \in SUBSET Writers : S # {} => InTransitOf[Any(S)] = InTransit(Any(S))
    BY DEF Any, InTransitOf
  <2>2. QED
    BY <2>1 DEF IsSum
<1>2. (CHOOSE g : IsSum(Writers, InTransitOf, g)) = CHOOSE g : g = Unfolded(g)
  BY <1>1
<1>3. QED
  BY <1>2 DEF MapThenSumSet, MapThenFoldSet, Any, Transits, SumOver

TransitCounted ==
  /\ InTransitOf \in Terms(Writers, MaxNumber + 1)
  /\ FreeCountExact <=> nbFreePages = Cardinality(StoreFree) + Transits

LEMMA TransitIsUnits == FullInv => TransitCounted
BY TransitInRange, TransitSum DEF TransitCounted, FreeCountExact

LEMMA TransitAfter == FullInv' => TransitCounted'
BY TransitIsUnits, PTL

\* Only w's pages in transit change in a step of w.
LEMMA TransitChange ==
  ASSUME FullInv, FullInv', NEW w \in Writers,
         \A v \in Writers \ {w} : InTransit(v)' = InTransit(v)
  PROVE  /\ Transits \in Nat /\ InTransit(w) \in Nat /\ InTransit(w)' \in Nat
         /\ Transits' = Transits - InTransit(w) + InTransit(w)'
<1>1. /\ InTransitOf \in Terms(Writers, MaxNumber + 1)
      /\ InTransitOf' \in Terms(Writers, MaxNumber + 1)
  BY TransitIsUnits, TransitAfter DEF TransitCounted
<1>2. \A v \in Writers \ {w} : InTransitOf'[v] = InTransitOf[v]
  BY DEF InTransitOf
<1>3. InTransitOf[w] = InTransit(w) /\ InTransitOf'[w] = InTransit(w)'
  BY DEF InTransitOf
<1>4. InTransit(w) \in Nat /\ InTransit(w)' \in Nat
  BY <1>1, <1>3 DEF Terms
<1>5. Transits \in Nat
  BY <1>1, SumIsUnits DEF Transits
<1>6. Transits' = Transits - InTransitOf[w] + InTransitOf'[w]
  BY <1>1, <1>2, SumChange DEF Transits
<1>7. QED
  BY <1>3, <1>4, <1>5, <1>6

-----------------------------------------------------------------------------
(* The pages of the store.                                                 *)

LEMMA IntervalSplit ==
  \A a, b, c \in Int : a .. (c - 1) \subseteq (a .. (b - 1)) \cup (b .. (c - 1))
OBVIOUS

LEMMA IntervalWithin ==
  \A a, b, limit \in Int :
    a >= 2 /\ (b = 2 \/ b <= limit + 1) => a .. (b - 1) \subseteq 2 .. limit
OBVIOUS

LEMMA IntervalLength ==
  \A a, b \in Int : a <= b => Cardinality(a .. (b - 1)) = b - a /\ b - a \in Nat
<1> SUFFICES ASSUME NEW a \in Int, NEW b \in Int, a <= b
             PROVE  Cardinality(a .. (b - 1)) = b - a /\ b - a \in Nat
  OBVIOUS
<1> DEFINE c == b - 1
<1>1. c \in Int
  OBVIOUS
<1> HIDE DEF c
<1>2. Cardinality(a .. c) = IF a > c THEN 0 ELSE c - a + 1
  BY <1>1, FS_Interval
<1> USE DEF c
<1>3. QED
  BY <1>2

\* What the store has after a step of w.
LEMMA FreeAfter ==
  ASSUME PlacesInv, PlacesInv', NEW w \in Writers, LosesNothing(w)
  PROVE  /\ StoreFree' = (StoreFree \cup NewPages \cup HeldBy(w)) \ HeldBy(w)'
         /\ (StoreFree \cup HeldBy(w)) \cap NewPages = {}
         /\ StoreFree \cap HeldBy(w) = {}
<1>1. StoreFree' \cap HeldBy(w)' = {} /\ StoreFree \cap HeldBy(w) = {}
  BY DEF PlacesInv, SharingInv, NoSharedPage, HandsApart
<1>2. (StoreFree \cup HeldBy(w)) \cap NewPages = {}
  BY DEF PlacesInv, SharingInv, PagesBorn, Born, NewPages, TypeOK, FirstPage
<1>3. ASSUME NEW q \in StoreFree'
      PROVE  q \in StoreFree \cup NewPages \cup HeldBy(w)
  <2>1. q \in FirstPage .. (noMansLand' - 1)
    BY <1>3 DEF PlacesInv, SharingInv, PagesBorn, Born, FirstPage
  <2>2. FirstPage \in Int /\ noMansLand \in Int /\ noMansLand' \in Int
    BY DEF PlacesInv, SharingInv, TypeOK, FirstPage
  <2>3. q \in Born \cup NewPages
    BY <2>1, <2>2, IntervalSplit DEF Born, NewPages
  <2>4. \A v \in Writers \ {w} : q \notin HeldBy(v)
    BY <1>3 DEF LosesNothing, PlacesInv, SharingInv, NoSharedPage, HandsApart
  <2>5. QED
    BY <2>3, <2>4 DEF PlacesInv, NoPageLost, Born
<1>4. QED
  BY <1>1, <1>2, <1>3 DEF LosesNothing

LEMMA NewPagesCounted ==
  ASSUME TypeOK, TypeOK', noMansLand <= noMansLand'
  PROVE  /\ NewPages \in SUBSET Page
         /\ Cardinality(NewPages) = noMansLand' - noMansLand
         /\ noMansLand' - noMansLand \in Nat
<1>1. noMansLand \in Int /\ noMansLand' \in Int
  BY DEF TypeOK, FirstPage
<1>2. NewPages \in SUBSET Page
  <2>1. /\ noMansLand >= 2 /\ (noMansLand' = 2 \/ noMansLand' <= PageLimit + 1)
        /\ PageLimit \in Int
    BY DEF TypeOK, FirstPage
  <2>2. noMansLand .. (noMansLand' - 1) \subseteq 2 .. PageLimit
    BY <1>1, <2>1, IntervalWithin
  <2>3. QED
    BY <2>2 DEF NewPages, Page, FirstPage
<1>3. QED
  BY <1>1, <1>2, IntervalLength DEF NewPages

LEMMA FreeAfterTaking ==
  ASSUME PlacesInv, PlacesInv', NEW w \in Writers, LosesNothing(w),
         NEW taken \in SUBSET (StoreFree \cup NewPages), HeldBy(w)' = HeldBy(w) \cup taken
  PROVE  /\ Cardinality(StoreFree)' =
              Cardinality(StoreFree) + (noMansLand' - noMansLand) - Cardinality(taken)
         /\ Cardinality(StoreFree) \in Nat /\ Cardinality(taken) \in Nat
         /\ noMansLand' - noMansLand \in Nat
<1> DEFINE all == StoreFree \cup NewPages
<1>1. /\ NewPages \in SUBSET Page /\ Cardinality(NewPages) = noMansLand' - noMansLand
      /\ noMansLand' - noMansLand \in Nat
  BY NewPagesCounted DEF LosesNothing, PlacesInv, SharingInv
<1>2. StoreFree \in SUBSET Page
  BY DEF PlacesInv, SharingInv, PagesBorn, Born, TypeOK, Page, FirstPage
<1>3. /\ IsFiniteSet(StoreFree) /\ Cardinality(StoreFree) \in Nat
      /\ IsFiniteSet(NewPages) /\ IsFiniteSet(all) /\ Cardinality(all) \in Nat
      /\ IsFiniteSet(taken) /\ Cardinality(taken) \in Nat
  BY <1>1, <1>2, PageSetFinite
<1>4. StoreFree' = all \ taken /\ StoreFree \cap NewPages = {}
  BY FreeAfter
<1>5. Cardinality(all) = Cardinality(StoreFree) + Cardinality(NewPages)
  <2>1. Cardinality(all) = Cardinality(StoreFree) + Cardinality(NewPages)
                             - Cardinality(StoreFree \cap NewPages)
    BY <1>3, FS_Union
  <2>2. Cardinality(StoreFree \cap NewPages) = 0
    BY <1>4, FS_EmptySet
  <2>3. QED
    BY <1>1, <1>3, <2>1, <2>2
<1>6. Cardinality(all \ taken) = Cardinality(all) - Cardinality(taken)
  <2>1. all \cap taken = taken
    OBVIOUS
  <2>2. QED
    BY <1>3, <2>1, FS_Difference
<1> HIDE DEF all
<1>7. Cardinality(StoreFree)' = Cardinality(all \ taken)
  BY <1>4
<1>8. QED
  BY <1>1, <1>3, <1>5, <1>6, <1>7

LEMMA FreeAfterGiving ==
  ASSUME PlacesInv, PlacesInv', NEW w \in Writers, GivesBack(w),
         NEW given \in SUBSET Page,
         HeldBy(w)' \cup given = HeldBy(w), HeldBy(w)' \cap given = {}
  PROVE  /\ Cardinality(StoreFree)' = Cardinality(StoreFree) + Cardinality(given)
         /\ Cardinality(StoreFree) \in Nat /\ Cardinality(given) \in Nat
<1>1. StoreFree' = StoreFree \cup given /\ StoreFree \cap given = {}
  <2>1. NewPages = {}
    BY NoNewPages DEF GivesBack, PlacesInv, SharingInv
  <2>2. QED
    BY <2>1, FreeAfter DEF GivesBack
<1>2. StoreFree \in SUBSET Page
  BY DEF PlacesInv, SharingInv, PagesBorn, Born, TypeOK, Page, FirstPage
<1>3. /\ IsFiniteSet(StoreFree) /\ Cardinality(StoreFree) \in Nat
      /\ IsFiniteSet(given) /\ Cardinality(given) \in Nat
  BY <1>2, PageSetFinite
<1>4. Cardinality(StoreFree \cup given) =
        Cardinality(StoreFree) + Cardinality(given) - Cardinality(StoreFree \cap given)
  BY <1>3, FS_Union
<1>5. Cardinality(StoreFree \cap given) = 0
  BY <1>1, FS_EmptySet
<1>6. QED
  BY <1>1, <1>3, <1>4, <1>5

-----------------------------------------------------------------------------
(* nbFreePages counts the free pages.                                      *)

CountInv == PlacesInv /\ FullInv /\ FreeCountExact

LEMMA SumMoves ==
  \A n, m, free, freeAfter, sum, term, termAfter \in Int :
    n = free + sum /\ m - n = (freeAfter - free) + (termAfter - term)
      => m = freeAfter + (sum - term + termAfter)
OBVIOUS

\* What a step of w has to establish.
LEMMA CountKept ==
  ASSUME CountInv, PlacesInv', FullInv', NEW w \in Writers, Frame(w),
         Cardinality(StoreFree) \in Nat, Cardinality(StoreFree)' \in Nat,
         nbFreePages' - nbFreePages = (Cardinality(StoreFree)' - Cardinality(StoreFree))
                                       + (InTransit(w)' - InTransit(w))
  PROVE  CountInv'
<1>1. \A v \in Writers \ {w} : InTransit(v)' = InTransit(v)
  BY DEF Frame, InTransit
<1>2. /\ Transits \in Nat /\ InTransit(w) \in Nat /\ InTransit(w)' \in Nat
      /\ Transits' = Transits - InTransit(w) + InTransit(w)'
  BY <1>1, TransitChange DEF CountInv
<1>3. nbFreePages \in Int /\ nbFreePages' \in Int
  BY DEF PlacesInv, SharingInv, TypeOK, CountInv
<1>4. TransitCounted /\ TransitCounted'
  BY TransitIsUnits, TransitAfter DEF CountInv
<1>5. nbFreePages' = Cardinality(StoreFree)' + Transits'
  <2>1. nbFreePages = Cardinality(StoreFree) + Transits
    BY <1>4 DEF CountInv, TransitCounted
  <2>2. QED
    BY <1>2, <1>3, <2>1, SumMoves
<1>6. FreeCountExact'
  BY <1>4, <1>5 DEF TransitCounted
<1>7. QED
  BY <1>6 DEF CountInv

LEMMA TakenMoves ==
  \A n, m, free, freeAfter, made, term \in Int :
    freeAfter = free + made - 1 /\ m - n = made - 1
      => m - n = (freeAfter - free) + (term - term)
OBVIOUS

\* The number of the free pages is a number, after a step too.
FreeIsNumber == Cardinality(StoreFree) \in Nat

LEMMA FreeNumber == PlacesInv' => Cardinality(StoreFree)' \in Nat
<1>1. PlacesInv => FreeIsNumber
  <2>1. PlacesInv => StoreFree \in SUBSET Page
    BY DEF PlacesInv, SharingInv, PagesBorn, Born, TypeOK, Page, FirstPage
  <2>2. QED
    BY <2>1, PageSetFinite DEF FreeIsNumber
<1>2. PlacesInv' => FreeIsNumber'
  BY <1>1, PTL
<1>3. QED
  BY <1>2 DEF FreeIsNumber

LEMMA UnchangedCount ==
  ASSUME CountInv, PlacesInv', FullInv', UNCHANGED <<header, nbFreePages, local>>
  PROVE  CountInv'
<1>1. UNCHANGED <<nbFreePages, chain, current, own, pages, pc, batch>>
  BY DEF header, local
<1>2. StoreFree' = StoreFree
  BY <1>1 DEF StoreFree, StoreLists, PagesOfList
<1>3. InTransitOf' = InTransitOf
  BY <1>1 DEF InTransitOf, InTransit
<1>4. Transits' = Transits
  BY <1>3 DEF Transits
<1>5. TransitCounted /\ TransitCounted'
  BY TransitIsUnits, TransitAfter DEF CountInv
<1>6. QED
  BY <1>1, <1>2, <1>4, <1>5 DEF TransitCounted, CountInv

LEMMA CountGetFreePagePtr ==
  ASSUME CountInv, PlacesInv', FullInv', NEW w \in Writers, Frame(w), GetFreePagePtr(w)
  PROVE  CountInv'
<1>1. PICK p \in StoreFree \cup NewPages : HeldBy(w)' = HeldBy(w) \cup {p}
  BY TakesGetFreePagePtr DEF CountInv, PlacesInv
<1>2. LosesNothing(w)
  BY TakesGetFreePagePtr DEF Takes, CountInv, PlacesInv
<1>3. Cardinality({p}) = 1
  BY FS_Singleton
<1>4. /\ Cardinality(StoreFree)' = Cardinality(StoreFree) + (noMansLand' - noMansLand) - 1
      /\ Cardinality(StoreFree) \in Nat
  <2>1. {p} \in SUBSET (StoreFree \cup NewPages)
    OBVIOUS
  <2>2. QED
    BY <1>1, <1>2, <1>3, <2>1, FreeAfterTaking DEF CountInv
<1>5. InTransit(w)' = InTransit(w) /\ InTransit(w) \in Int
  BY DEF GetFreePagePtr, InTransit
<1>6. nbFreePages \in Int /\ noMansLand \in Int /\ noMansLand' \in Int
  BY DEF CountInv, PlacesInv, SharingInv, TypeOK, FirstPage
<1>7. nbFreePages' - nbFreePages = (noMansLand' - noMansLand) - 1
  <2>1. \/ noMansLand' = noMansLand /\ nbFreePages' = nbFreePages - 1
        \/ noMansLand' = noMansLand + CreatedPages /\ nbFreePages' = nbFreePages + CreatedPages - 1
    BY DEF GetFreePagePtr, GetFreePageList
  <2>2. CreatedPages \in Int
    BY DEF CreatedPages
  <2>3. QED
    BY <1>6, <2>1, <2>2
<1>8. Cardinality(StoreFree)' \in Nat
  BY FreeNumber DEF CountInv
<1>9. nbFreePages' - nbFreePages = (Cardinality(StoreFree)' - Cardinality(StoreFree))
                                    + (InTransit(w)' - InTransit(w))
  BY <1>4, <1>5, <1>6, <1>7, <1>8, TakenMoves
<1>10. QED
  BY <1>4, <1>8, <1>9, CountKept

LEMMA CountTakePrivateList ==
  ASSUME CountInv, PlacesInv', FullInv', NEW w \in Writers, Frame(w), TakePrivateList(w)
  PROVE  CountInv'
<1>1. PICK l \in Page : GetFreePageList(l) /\ HeldBy(w)' = HeldBy(w) \cup ({l} \cup ListContent(l))
  BY TakesPrivateList DEF CountInv, PlacesInv
<1> DEFINE taken == {l} \cup ListContent(l)
<1>2. LosesNothing(w)
  BY TakesPrivateList DEF Takes, CountInv, PlacesInv
<1>3. Cardinality(taken) = MaxNumber + 1 /\ taken \in SUBSET (StoreFree \cup NewPages)
  <2>1. l \notin ListContent(l) /\ taken \in SUBSET (StoreFree \cup NewPages)
    BY <1>1, PoppedList DEF CountInv, PlacesInv
  <2>2. IsFiniteSet(ListContent(l)) /\ Cardinality(ListContent(l)) = MaxNumber
    BY <1>1, ContentInPage, PageSetFinite, FreshOrPoppedFull
    DEF CountInv, PlacesInv, SharingInv
  <2>3. Cardinality(ListContent(l) \cup {l}) = Cardinality(ListContent(l)) + 1
    BY <2>1, <2>2, FS_AddElement
  <2>4. taken = ListContent(l) \cup {l}
    OBVIOUS
  <2>5. QED
    BY <2>1, <2>2, <2>3, <2>4
<1> HIDE DEF taken
<1>4. /\ Cardinality(StoreFree)' =
           Cardinality(StoreFree) + (noMansLand' - noMansLand) - (MaxNumber + 1)
      /\ Cardinality(StoreFree) \in Nat
  <2>1. HeldBy(w)' = HeldBy(w) \cup taken
    BY <1>1 DEF taken
  <2>2. QED
    BY <1>2, <1>3, <2>1, FreeAfterTaking DEF CountInv
<1>5. InTransit(w) = 0 /\ InTransit(w)' = MaxNumber + 1
  BY DEF TakePrivateList, InTransit, CountInv, PlacesInv, SharingInv, TypeOK
<1>6. nbFreePages \in Int /\ noMansLand \in Int /\ noMansLand' \in Int
  BY DEF CountInv, PlacesInv, SharingInv, TypeOK, FirstPage
<1>7. nbFreePages' - nbFreePages = noMansLand' - noMansLand
  <2>1. noMansLand' = noMansLand + CreatedPages /\ nbFreePages' = nbFreePages + CreatedPages
    BY <1>1 DEF TakePrivateList, GetFreePageList
  <2>2. CreatedPages \in Int
    BY DEF CreatedPages
  <2>3. QED
    BY <1>6, <2>1, <2>2
<1>8. Cardinality(StoreFree)' \in Nat
  BY FreeNumber DEF CountInv
<1>9. nbFreePages' - nbFreePages = (Cardinality(StoreFree)' - Cardinality(StoreFree))
                                    + (InTransit(w)' - InTransit(w))
  BY <1>4, <1>5, <1>6, <1>7, <1>8
<1>10. QED
  BY <1>4, <1>8, <1>9, CountKept

\* The steps that leave the pages of the store alone.
LEMMA CountHeld ==
  ASSUME CountInv, PlacesInv', FullInv', NEW w \in Writers, Frame(w),
         GivesBack(w), HeldBy(w)' = HeldBy(w),
         nbFreePages' - nbFreePages = InTransit(w)' - InTransit(w),
         InTransit(w) \in Int, InTransit(w)' \in Int
  PROVE  CountInv'
<1>1. Cardinality(StoreFree)' = Cardinality(StoreFree) + 0 /\ Cardinality(StoreFree) \in Nat
  <2>1. {} \in SUBSET Page /\ HeldBy(w)' \cup {} = HeldBy(w) /\ HeldBy(w)' \cap {} = {}
    OBVIOUS
  <2>2. QED
    BY <2>1, FreeAfterGiving, FS_EmptySet DEF CountInv
<1>2. Cardinality(StoreFree)' \in Nat
  BY <1>1
<1>3. nbFreePages' - nbFreePages = (Cardinality(StoreFree)' - Cardinality(StoreFree))
                                    + (InTransit(w)' - InTransit(w))
  BY <1>1
<1>4. QED
  BY <1>1, <1>2, <1>3, CountKept

LEMMA CountFreePagesPush ==
  ASSUME CountInv, PlacesInv', FullInv', NEW w \in Writers, Frame(w), FreePagesPush(w)
  PROVE  CountInv'
<1>1. GivesBack(w) /\ HeldBy(w)' \cup batch[w] = HeldBy(w) /\ HeldBy(w)' \cap batch[w] = {}
  BY GivesBackPushed DEF CountInv, PlacesInv
<1>2. batch[w] \in SUBSET Page
  BY DEF CountInv, PlacesInv, SharingInv, TypeOK
<1>3. /\ Cardinality(StoreFree)' = Cardinality(StoreFree) + Cardinality(batch[w])
      /\ Cardinality(StoreFree) \in Nat /\ Cardinality(batch[w]) \in Nat
  BY <1>1, <1>2, FreeAfterGiving DEF CountInv
<1>4. pc[w] = "push" /\ pc'[w] \in {"idle", "count"} /\ nbFreePages' = nbFreePages
  BY DEF FreePagesPush, FreePagesReturn, CountInv, PlacesInv, SharingInv, TypeOK
<1>5. InTransit(w) = Cardinality(batch[w]) /\ InTransit(w)' = 0
  BY <1>4 DEF InTransit
<1>6. nbFreePages \in Int
  BY DEF CountInv, PlacesInv, SharingInv, TypeOK
<1>7. nbFreePages' - nbFreePages = (Cardinality(StoreFree)' - Cardinality(StoreFree))
                                    + (InTransit(w)' - InTransit(w))
  BY <1>3, <1>4, <1>5, <1>6
<1>8. Cardinality(StoreFree)' \in Nat
  BY <1>3
<1>9. QED
  BY <1>3, <1>7, <1>8, CountKept

LEMMA CountInit == Init => CountInv
<1> SUFFICES ASSUME Init PROVE CountInv
  OBVIOUS
<1>1. PlacesInv /\ FullInv
  BY PlacesInit, FullInit
<1>2. \A w \in Writers : InTransit(w) = 0
  BY DEF Init, InTransit
<1>3. Transits = 0
  <2>1. InTransitOf = [w \in Writers |-> 0]
    BY <1>2 DEF InTransitOf
  <2>2. QED
    BY <2>1, SumOfZeros DEF Transits
<1>4. StoreFree = {}
  BY DEF Init, StoreFree, StoreLists
<1>5. nbFreePages = Cardinality(StoreFree) + Transits
  BY <1>3, <1>4, FS_EmptySet DEF Init
<1>6. QED
  BY <1>1, <1>5, TransitIsUnits DEF CountInv, TransitCounted

LEMMA CountStep == CountInv /\ [Next]_vars => CountInv'
<1> SUFFICES ASSUME CountInv, [Next]_vars
             PROVE  CountInv'
  OBVIOUS
<1>1. PlacesInv' /\ FullInv'
  BY PlacesStep, FullStep DEF CountInv
<1>2. ASSUME NEW w \in Writers, Step(w)
      PROVE  CountInv'
  <2>1. Frame(w)
    BY <1>2, StepFrame DEF CountInv, PlacesInv
  <2>2. CASE GetFreePagePtr(w)
    BY <1>1, <2>1, <2>2, CountGetFreePagePtr
  <2>3. CASE TakePrivateList(w)
    BY <1>1, <2>1, <2>3, CountTakePrivateList
  <2>4. CASE GetPrivatePage(w) \/ CommitFlush(w) \/ Drop(w)
    <3>1. GivesBack(w) /\ HeldBy(w)' = HeldBy(w)
      BY <2>4, KeepsGetPrivatePage, KeepsCommitFlush, KeepsDrop DEF CountInv, PlacesInv
    <3>2. InTransit(w)' = 0 /\ InTransit(w) = 0 /\ nbFreePages' = nbFreePages
      BY <2>4 DEF GetPrivatePage, CommitFlush, Drop, InTransit, CountInv, PlacesInv,
                  SharingInv, TypeOK
    <3>3. nbFreePages' - nbFreePages = InTransit(w)' - InTransit(w)
      BY <3>2 DEF CountInv, PlacesInv, SharingInv, TypeOK
    <3>4. QED
      BY <1>1, <2>1, <3>1, <3>2, <3>3, CountHeld
  <2>5. CASE DecrementFreePagesCount(w)
    <3>1. GivesBack(w) /\ HeldBy(w)' = HeldBy(w)
      BY <2>5, KeepsCount DEF CountInv, PlacesInv
    <3>2. InTransit(w)' = 0 /\ InTransit(w) = MaxNumber + 1
          /\ nbFreePages' = nbFreePages - (MaxNumber + 1)
      BY <2>5 DEF DecrementFreePagesCount, InTransit, CountInv, PlacesInv, SharingInv, TypeOK
    <3>3. nbFreePages' - nbFreePages = InTransit(w)' - InTransit(w)
      BY <3>2 DEF CountInv, PlacesInv, SharingInv, TypeOK
    <3>4. QED
      BY <1>1, <2>1, <3>1, <3>2, <3>3, CountHeld
  <2>6. CASE FreePagesCount(w)
    <3>1. GivesBack(w) /\ HeldBy(w)' = HeldBy(w)
      BY <2>6, KeepsCount DEF CountInv, PlacesInv
    <3>2. Cardinality(batch[w]) \in Nat
      BY PageSetFinite DEF CountInv, PlacesInv, SharingInv, TypeOK
    <3>3. InTransit(w)' = Cardinality(batch[w]) /\ InTransit(w) = 0
          /\ nbFreePages' = nbFreePages + Cardinality(batch[w])
      BY <2>6 DEF FreePagesCount, InTransit, CountInv, PlacesInv, SharingInv, TypeOK
    <3>4. nbFreePages' - nbFreePages = InTransit(w)' - InTransit(w)
      BY <3>2, <3>3 DEF CountInv, PlacesInv, SharingInv, TypeOK
    <3>5. QED
      BY <1>1, <2>1, <3>1, <3>2, <3>3, <3>4, CountHeld
  <2>7. CASE FreePagesPush(w)
    BY <1>1, <2>1, <2>7, CountFreePagesPush
  <2>8. CASE FreeNoPages(w)
    BY <1>1, <2>8, UnchangedCount DEF FreeNoPages
  <2>9. QED
    BY <1>2, <2>2, <2>3, <2>4, <2>5, <2>6, <2>7, <2>8 DEF Step
<1>3. CASE UNCHANGED vars
  BY <1>1, <1>3, UnchangedCount DEF vars
<1>4. QED
  BY <1>2, <1>3 DEF Next

\* nbFreePages is the number of pages of the lists of the store, plus those a
\* call has counted and not pushed yet or taken and not uncounted yet: the
\* updates made outside the mutex of the header never make it drift, whatever
\* the number of threads, and checkAllContents() finds it exact at rest.
THEOREM FreePagesCounted == Spec => []FreeCountExact
<1>1. CountInv => FreeCountExact
  BY DEF CountInv
<1>2. QED
  BY <1>1, CountInit, CountStep, PTL DEF Spec
=============================================================================
