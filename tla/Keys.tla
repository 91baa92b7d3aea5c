----------------------------------- MODULE Keys -----------------------------------
(******************************************************************************)
(* The names of keys and the URLs of namespaces, which a store numbers once   *)
(* and for all: a cache in memory over lists of pages in the file             *)
(* (kern/keycache.cpp, persistence/persistentstore-keys.cpp).                 *)
(*                                                                            *)
(* A call is interrupted between any two writes to the file, which keeps what *)
(* was written: by a crash, or by the calls of other threads, since no caller *)
(* locks KeyCache::writeMutex.                                                *)
(******************************************************************************)
EXTENDS Naturals, FiniteSets

CONSTANTS
    Threads,   \* the threads that look names up
    Names,     \* names of keys, or URLs of namespaces
    NoName,    \* an empty string
    Slots,     \* KeyPage_keyNumber, or NamespacePage_namespaceNumber
    MaxPages   \* bound: the pages allocated

VARIABLES
    kind,      \* "keys" or "namespaces": pages are gone through in two ways
    head,      \* keyPage or namespacePage of the superblock; 0 is NullPage
    pages,     \* the slots of each page allocated, and the next page
    bucket,    \* keysBucket or namespaceBucket: the id of each name; 0 if unknown
    names,     \* localKeyMap or namespaceMap: the name of each id
    calls,     \* the call of each thread
    given      \* history: the names and ids given to callers, who write the ids

file == <<head, pages>>
cache == <<bucket, names>>
vars == <<kind, file, cache, calls, given>>

Pages == DOMAIN pages
Ids == 1 .. (Slots * MaxPages)

Idle == [step |-> "idle"]

Call == [step : {"first", "set", "scan", "link", "id", "name", "fill"}, name : Names,
         page : 0 .. MaxPages, new : 0 .. MaxPages, id : 0 .. Slots * MaxPages, slot : 0 .. Slots]

TypeOK ==
    /\ kind \in {"keys", "namespaces"}
    /\ head \in 0 .. MaxPages
    /\ \A p \in Pages : pages[p] \in
          [slots : [1 .. Slots -> [id : 0 .. Slots * MaxPages, name : Names \cup {NoName}]],
           nextPage : 0 .. MaxPages]
    /\ bucket \in [Names -> 0 .. Slots * MaxPages]
    /\ names \in [Ids -> Names \cup {NoName}]
    /\ calls \in [Threads -> Call \cup {Idle}]
    /\ given \subseteq Names \X Ids

Init ==
    /\ kind \in {"keys", "namespaces"}
    /\ head = 0 /\ pages = <<>>
    /\ bucket = [n \in Names |-> 0] /\ names = [i \in Ids |-> NoName]
    /\ calls = [t \in Threads |-> Idle]
    /\ given = {}

--------------------------------------------------------------------------------
(* A name the cache has.                                                       *)
getFromCache(t, n) ==
    /\ calls[t] = Idle /\ bucket[n] # 0
    /\ given' = given \cup {<<n, bucket[n]>>}
    /\ UNCHANGED <<kind, file, cache, calls>>

(* A name it has not goes to the store.                                        *)
addInStore(t, n) ==
    /\ calls[t] = Idle /\ bucket[n] = 0
    /\ calls' = [calls EXCEPT ![t] =
                    [step |-> "first", name |-> n, page |-> 0, new |-> 0, id |-> 0, slot |-> 0]]
    /\ UNCHANGED <<kind, file, cache, given>>

At(t, step) == calls[t].step = step

(* getFreePagePtr(), and memset().                                             *)
NewPage == Cardinality(Pages) + 1
AddPage == pages' = [p \in Pages \cup {NewPage} |->
                        IF p \in Pages THEN pages[p]
                        ELSE [slots |-> [s \in 1 .. Slots |-> [id |-> 0, name |-> NoName]],
                              nextPage |-> 0]]

FirstPage(t) ==
    /\ At(t, "first")
    /\ \/ /\ head # 0
          /\ calls' = [calls EXCEPT ![t].page = head, ![t].step = "scan"]
          /\ UNCHANGED pages
       \/ /\ head = 0 /\ NewPage <= MaxPages
          /\ AddPage
          /\ calls' = [calls EXCEPT ![t].page = NewPage, ![t].step = "set"]
    /\ UNCHANGED <<kind, head, cache, given>>

SetHead(t) ==
    /\ At(t, "set")
    /\ head' = calls[t].page
    /\ calls' = [calls EXCEPT ![t].step = "scan"]
    /\ UNCHANGED <<kind, pages, cache, given>>

(* The id that follows those of the slots before this one.                     *)
\* Mutant: ids start again at each page.
IdAfterRestarting(c, slot) == IF slot = 1 THEN 1 ELSE pages[c.page].slots[slot - 1].id + 1

IdAfter(c, slot) == (IF slot = 1 THEN c.id ELSE pages[c.page].slots[slot - 1].id) + 1

Free(p) == {s \in 1 .. Slots : pages[p].slots[s].id = 0}

First(set) == CHOOSE s \in set : \A other \in set : s <= other

(* One page of the list.  Keys look for a free slot in every page, namespaces  *)
(* in the last one only.                                                       *)
ScanPage(t) ==
    LET c == calls[t]
        page == pages[c.page]
        goesOn == page.nextPage # 0 /\ (kind = "namespaces" \/ Free(c.page) = {})
        last == page.slots[Slots].id
    IN /\ At(t, "scan")
       /\ \/ /\ goesOn
             /\ calls' = [calls EXCEPT ![t].page = page.nextPage, ![t].id = last]
             /\ UNCHANGED pages
          \/ /\ ~goesOn /\ Free(c.page) # {}
             /\ LET slot == First(Free(c.page))
                IN calls' = [calls EXCEPT ![t].slot = slot, ![t].id = IdAfter(c, slot),
                                          ![t].step = "id"]
             /\ UNCHANGED pages
          \/ /\ ~goesOn /\ Free(c.page) = {} /\ NewPage <= MaxPages
             /\ AddPage
             /\ calls' = [calls EXCEPT ![t].new = NewPage, ![t].id = last, ![t].step = "link"]
       /\ UNCHANGED <<kind, head, cache, given>>

(* The page added continues the list.                                          *)
LinkPage(t) ==
    /\ At(t, "link")
    /\ pages' = [pages EXCEPT ![calls[t].page].nextPage = calls[t].new]
    /\ calls' = [calls EXCEPT ![t].page = calls[t].new, ![t].step = "scan"]
    /\ UNCHANGED <<kind, head, cache, given>>

(* The slot gets its id, then its name.                                        *)
WriteId(t) ==
    LET c == calls[t]
    IN /\ At(t, "id")
       /\ pages' = [pages EXCEPT ![c.page].slots[c.slot].id = c.id]
       /\ calls' = [calls EXCEPT ![t].step = "name"]
       /\ UNCHANGED <<kind, head, cache, given>>

WriteName(t) ==
    LET c == calls[t]
    IN /\ At(t, "name")
       /\ pages' = [pages EXCEPT ![c.page].slots[c.slot].name = c.name]
       /\ calls' = [calls EXCEPT ![t].step = "fill"]
       /\ UNCHANGED <<kind, head, cache, given>>

(* The cache gets the id, and the caller.                                      *)
FillCache(t) ==
    LET c == calls[t]
    IN /\ At(t, "fill")
       /\ names' = [names EXCEPT ![c.id] = c.name]
       /\ bucket' = [bucket EXCEPT ![c.name] = c.id]
       /\ given' = given \cup {<<c.name, c.id>>}
       /\ calls' = [calls EXCEPT ![t] = Idle]
       /\ UNCHANGED <<kind, file>>

--------------------------------------------------------------------------------
(* loadKeysFromStore(): the pages of the list in their order, each until its   *)
(* first free slot.                                                            *)
NthPage ==
    LET page[n \in 1 .. MaxPages] ==
          IF n = 1 THEN head
          ELSE IF page[n - 1] = 0 THEN 0 ELSE pages[page[n - 1]].nextPage
    IN page

Loaded ==
    {at \in (1 .. MaxPages) \X (1 .. Slots) :
        /\ NthPage[at[1]] # 0
        /\ \A before \in 1 .. at[2] : pages[NthPage[at[1]]].slots[before].id # 0}

SlotAt(at) == pages[NthPage[at[1]]].slots[at[2]]

(* What is put last is what is found.                                          *)
LastOf(set) ==
    CHOOSE at \in set : \A other \in set :
        other[1] < at[1] \/ (other[1] = at[1] /\ other[2] <= at[2])

LoadedBucket ==
    [n \in Names |-> LET own == {at \in Loaded : SlotAt(at).name = n}
                     IN IF own = {} THEN 0 ELSE SlotAt(LastOf(own)).id]

LoadedNames ==
    [i \in Ids |-> LET own == {at \in Loaded : SlotAt(at).id = i}
                   IN IF own = {} THEN NoName ELSE SlotAt(LastOf(own)).name]

(* The process crashes or ends, and the file is opened again.                  *)
loadKeysFromStore ==
    /\ bucket' = LoadedBucket
    /\ names' = LoadedNames
    /\ calls' = [t \in Threads |-> Idle]
    /\ UNCHANGED <<kind, file, given>>

ThreadStep(t) ==
    \/ \E n \in Names : getFromCache(t, n) \/ addInStore(t, n)
    \/ FirstPage(t) \/ SetHead(t) \/ ScanPage(t) \/ LinkPage(t)
    \/ WriteId(t) \/ WriteName(t) \/ FillCache(t)

Next == (\E t \in Threads : ThreadStep(t)) \/ loadKeysFromStore

Spec == Init /\ [][Next]_vars

--------------------------------------------------------------------------------
(* Properties.                                                                 *)

(* Documents hold ids: whatever the moment of a crash, a name and the id given *)
(* for it are one another's in the file, and in the cache ("a strong           *)
(* crash-proof mechanism (loosing all keys could be really damagefull)",       *)
(* format/keys.h:35; "unique integer representation", keycache.h:46).          *)
KeysKept ==
    \A g \in given : /\ LoadedBucket[g[1]] = g[2] /\ LoadedNames[g[2]] = g[1]
                     /\ bucket[g[1]] = g[2] /\ names[g[2]] = g[1]
================================================================================
