----------------------------------- MODULE Env -----------------------------------
(******************************************************************************)
(* The stack of an Env, on which the processors of XSLT and of Xem keep the   *)
(* variables, the documents and the allocators of documents of each level of  *)
(* evaluation (xprocessor/env.cpp, env.hpp, env-document.cpp).                *)
(*                                                                            *)
(* Levels that keep nothing have no entry.  An operation may work on the      *)
(* current level or on the one behind it, whose entry is made when needed,    *)
(* between those of other levels.  Entries form a list by lastEntry, which    *)
(* goes down the levels: here a function from the levels that have one.       *)
(******************************************************************************)
EXTENDS Naturals, Sequences, FiniteSets

CONSTANTS
    Keys,        \* the KeyIds of variables
    Urls,        \* the documents that document() may fetch
    NoUrl,       \* an empty URI
    Null,        \* the NULL pointer
    MaxAge,      \* envSettings.documentAllocatorMaximumAge
    MaxLevel,    \* bound: currentEnvId
    MaxItems,    \* bound: variables bound at a time
    MaxDocuments \* bound: documents bound at a time

VARIABLES
    currentEnvId,
    entries,     \* by level: items (newest first), documents and allocators
    items,       \* the EnvItems in memory: key, level and previous item
    itemMap,     \* the current item of each key
    allocators,  \* the volatile allocators in memory
    documents,   \* the documents in memory: allocator and URI
    documentMap, \* the document of each url
    currentDocumentAllocator,
    currentDocumentAllocatorEnvId

stackVars == <<currentEnvId, entries>>
itemVars == <<items, itemMap>>
documentVars == <<documents, documentMap>>
allocatorVars == <<allocators, currentDocumentAllocator, currentDocumentAllocatorEnvId>>
vars == <<stackVars, itemVars, documentVars, allocatorVars>>

Levels == 0 .. MaxLevel
Pointers == 1 .. (MaxItems + MaxDocuments + MaxLevel)
EnvEntry == [items : Seq(Pointers), bindedDocuments : Seq(Pointers),
             documentAllocator : Pointers \cup {Null},
             previousDocumentAllocator : Pointers \cup {Null}]

TypeOK ==
    /\ currentEnvId \in Levels
    /\ DOMAIN entries \subseteq Levels
    /\ \A level \in DOMAIN entries : entries[level] \in EnvEntry
    /\ DOMAIN items \subseteq Pointers
    /\ \A i \in DOMAIN items :
          items[i] \in [keyId : Keys, envId : Levels, previousItem : Pointers \cup {Null}]
    /\ itemMap \in [Keys -> Pointers \cup {Null}]
    /\ allocators \subseteq Pointers
    /\ DOMAIN documents \subseteq Pointers
    /\ \A d \in DOMAIN documents :
          documents[d] \in [allocator : Pointers, uri : Urls \cup {NoUrl}]
    /\ documentMap \in [Urls -> Pointers \cup {Null}]
    /\ currentDocumentAllocator \in Pointers \cup {Null}
    /\ currentDocumentAllocatorEnvId \in Levels

(* The constructor pushes twice.                                               *)
Init ==
    /\ currentEnvId = 2
    /\ entries = <<>> /\ items = <<>> /\ documents = <<>>
    /\ itemMap = [k \in Keys |-> Null]
    /\ documentMap = [u \in Urls |-> Null]
    /\ allocators = {}
    /\ currentDocumentAllocator = Null /\ currentDocumentAllocatorEnvId = 0

(* Memory is given again as soon as it is free.                                *)
NewPointer(used) == CHOOSE p \in Pointers \ used : \A q \in Pointers \ used : p <= q

With(f, x, value) == [y \in DOMAIN f \cup {x} |-> IF y = x THEN value ELSE f[y]]

Without(f, set) == [y \in DOMAIN f \ set |-> f[y]]

--------------------------------------------------------------------------------
(* Entries.                                                                    *)

Newest(levels) == CHOOSE l \in levels : \A m \in levels : m <= l

HasEntry == DOMAIN entries # {}
HeadLevel == Newest(DOMAIN entries)
headEntry == entries[HeadLevel]

NewEntry(previous) ==
    [items |-> <<>>, bindedDocuments |-> <<>>,
     documentAllocator |-> Null, previousDocumentAllocator |-> previous]

(* The entry of the current level.                                             *)
HeadEntries ==
    IF currentEnvId \in DOMAIN entries THEN entries
    ELSE With(entries, currentEnvId, NewEntry(currentDocumentAllocator))

(* The entry of the level behind: a new one below the head takes over what the *)
(* head restores.                                                              *)
BehindEntries ==
    IF currentEnvId - 1 \in DOMAIN entries THEN entries
    ELSE With(entries, currentEnvId - 1,
              NewEntry(IF HasEntry THEN headEntry.previousDocumentAllocator
                       ELSE currentDocumentAllocator))

LevelOf(behind) == IF behind THEN currentEnvId - 1 ELSE currentEnvId
EntriesFor(behind) == IF behind THEN BehindEntries ELSE HeadEntries

pushEnv ==
    /\ currentEnvId \in 2 .. (MaxLevel - 1)
    /\ currentEnvId' = currentEnvId + 1
    /\ UNCHANGED <<entries, itemVars, documentVars, allocatorVars>>

--------------------------------------------------------------------------------
(* Variables.                                                                  *)

OfKey(entry, k) == SelectSeq(entry.items, LAMBDA i : items[i].keyId = k)

(* The callers that bind behind, xsl:variable and the parameters of a query,   *)
(* bind the variable nowhere else on their own level: xsl:variable processes   *)
(* its content one level higher.                                               *)
Shadowed(k, behind) ==
    /\ behind /\ currentEnvId \in DOMAIN entries
    /\ OfKey(entries[currentEnvId], k) # <<>>

(* An item is added to its entry, and becomes the current one of its key.      *)
\* Mutant: the item does not hold the one it replaces.
AssignForgetting(k, level, known) ==
    LET item == NewPointer(DOMAIN items)
    IN /\ items' = With(items, item, [keyId |-> k, envId |-> level, previousItem |-> Null])
       /\ itemMap' = [itemMap EXCEPT ![k] = item]
       /\ entries' = [known EXCEPT ![level].items = <<item>> \o @]

assignEnvItem(k, level, known) ==
    LET item == NewPointer(DOMAIN items)
    IN /\ items' = With(items, item,
                        [keyId |-> k, envId |-> level, previousItem |-> itemMap[k]])
       /\ itemMap' = [itemMap EXCEPT ![k] = item]
       /\ entries' = [known EXCEPT ![level].items = <<item>> \o @]

setVariable(k, behind) ==
    /\ currentEnvId >= 2
    /\ Cardinality(DOMAIN items) < MaxItems
    /\ ~Shadowed(k, behind)
    /\ assignEnvItem(k, LevelOf(behind), EntriesFor(behind))
    /\ UNCHANGED <<currentEnvId, documentVars, allocatorVars>>

--------------------------------------------------------------------------------
(* Documents and their allocators.                                             *)

TooOld == currentDocumentAllocatorEnvId + MaxAge < currentEnvId

(* The current allocator serves the level behind too, when it was there before *)
(* its entry.                                                                  *)
ServesBehind(entry) ==
    /\ currentDocumentAllocator # Null
    /\ entry.previousDocumentAllocator = currentDocumentAllocator
    /\ ~TooOld

(* getCurrentDocumentAllocator(): the entries, the allocators, the current one *)
(* with its level, and the allocator returned.                                 *)
Allocation(known, made, current, level, returned) ==
    [entries |-> known, allocators |-> made, current |-> current, level |-> level,
     returned |-> returned]

\* Mutant: the current allocator serves the level behind, whoever owns it.
AllocatorBehindShared ==
    LET level == currentEnvId - 1
        known == BehindEntries
        new == NewPointer(allocators)
    IN IF currentDocumentAllocator # Null
         THEN Allocation(known, allocators, currentDocumentAllocator,
                         currentDocumentAllocatorEnvId, currentDocumentAllocator)
         ELSE Allocation([known EXCEPT ![level].documentAllocator = new],
                         allocators \cup {new}, new, level, new)

AllocatorBehind ==
    LET level == currentEnvId - 1
        known == BehindEntries
        entry == known[level]
        new == NewPointer(allocators)
        own == [known EXCEPT ![level].documentAllocator = new]
    IN IF entry.documentAllocator # Null
         THEN Allocation(known, allocators, currentDocumentAllocator,
                         currentDocumentAllocatorEnvId, entry.documentAllocator)
       ELSE IF ServesBehind(entry)
         THEN Allocation(known, allocators, currentDocumentAllocator,
                         currentDocumentAllocatorEnvId, currentDocumentAllocator)
       ELSE IF Newest(DOMAIN known) = level
         THEN Allocation(own, allocators \cup {new}, new, level, new)
       ELSE Allocation([own EXCEPT ![currentEnvId].previousDocumentAllocator = new],
                       allocators \cup {new}, currentDocumentAllocator,
                       currentDocumentAllocatorEnvId, new)

(* createEnvEntry() records the current allocator after one too old was set    *)
(* aside.                                                                      *)
AllocatorAhead ==
    LET new == NewPointer(allocators)
        known == IF currentEnvId \in DOMAIN entries THEN entries
                 ELSE With(entries, currentEnvId, NewEntry(Null))
    IN IF currentDocumentAllocator # Null /\ ~TooOld
         THEN Allocation(entries, allocators, currentDocumentAllocator,
                         currentDocumentAllocatorEnvId, currentDocumentAllocator)
       ELSE Allocation([known EXCEPT ![currentEnvId].documentAllocator = new],
                       allocators \cup {new}, new, currentEnvId, new)

(* The document is bound to its entry, which a caller that needs no new        *)
(* allocator may have to make.                                                 *)
CreateDocument(behind, uri, mapped) ==
    LET allocation == IF behind THEN AllocatorBehind ELSE AllocatorAhead
        level == LevelOf(behind)
        known == IF level \in DOMAIN allocation.entries THEN allocation.entries
                 ELSE With(allocation.entries, level, NewEntry(allocation.current))
        document == NewPointer(DOMAIN documents)
    IN /\ currentEnvId >= 2
       /\ Cardinality(DOMAIN documents) < MaxDocuments
       /\ Cardinality(allocation.allocators) < Cardinality(Pointers)
       /\ documents' = With(documents, document,
                            [allocator |-> allocation.returned, uri |-> uri])
       /\ documentMap' = [u \in Urls |-> IF u \in mapped THEN document ELSE documentMap[u]]
       /\ entries' = [known EXCEPT ![level].bindedDocuments = Append(@, document)]
       /\ allocators' = allocation.allocators
       /\ currentDocumentAllocator' = allocation.current
       /\ currentDocumentAllocatorEnvId' = allocation.level
       /\ UNCHANGED <<currentEnvId, itemVars>>

createVolatileDocument(behind) == CreateDocument(behind, NoUrl, {})

(* A document already in the map is returned; another is parsed into a new one *)
(* bound behind.                                                               *)
getDocumentRoot(url) ==
    /\ documentMap[url] = Null
    /\ CreateDocument(TRUE, url, {url})

--------------------------------------------------------------------------------
(* popEnv().                                                                   *)

(* The items of the entry are released newest first: the oldest of each key    *)
(* gives back the one it replaced.                                             *)
\* Mutant: the newest gives back the one it replaced.
RestoredByNewest(entry) ==
    [k \in Keys |-> LET own == OfKey(entry, k)
                    IN IF own = <<>> THEN itemMap[k] ELSE items[own[1]].previousItem]

Restored(entry) ==
    [k \in Keys |-> LET own == OfKey(entry, k)
                    IN IF own = <<>> THEN itemMap[k] ELSE items[own[Len(own)]].previousItem]

SetOf(seq) == {seq[i] : i \in DOMAIN seq}

(* Documents leave the map and are released, then the allocator.               *)
freeEnvEntry ==
    LET released == SetOf(headEntry.bindedDocuments)
    IN /\ itemMap' = Restored(headEntry)
       /\ items' = Without(items, SetOf(headEntry.items))
       /\ documentMap' = [u \in Urls |-> IF \E d \in released : documents[d].uri = u
                                          THEN Null ELSE documentMap[u]]
       /\ documents' = Without(documents, released)
       /\ currentDocumentAllocator' = headEntry.previousDocumentAllocator
       /\ allocators' = allocators \ {headEntry.documentAllocator}
       /\ entries' = Without(entries, {HeadLevel})
       /\ UNCHANGED currentDocumentAllocatorEnvId

popEnv ==
    /\ currentEnvId > 0
    /\ currentEnvId' = currentEnvId - 1
    /\ \/ /\ HasEntry /\ HeadLevel = currentEnvId
          /\ freeEnvEntry
       \/ /\ currentEnvId \notin DOMAIN entries
          /\ UNCHANGED <<entries, itemVars, documentVars, allocatorVars>>

Next ==
    \/ pushEnv
    \/ popEnv
    \/ \E k \in Keys, behind \in BOOLEAN : setVariable(k, behind)
    \/ \E behind \in BOOLEAN : createVolatileDocument(behind)
    \/ \E url \in Urls : getDocumentRoot(url)

Spec == Init /\ [][Next]_vars

--------------------------------------------------------------------------------
(* Properties.                                                                 *)

(* What a key is bound to from a level down.                                   *)
Bindings(k, level) ==
    {l \in DOMAIN entries : l <= level /\ OfKey(entries[l], k) # <<>>}

(* The newest binding of the highest of those levels.                          *)
Binding(k, level) ==
    IF Bindings(k, level) = {} THEN Null
    ELSE OfKey(entries[Newest(Bindings(k, level))], k)[1]

(* A variable is what the newest binding of the highest level says, and each   *)
(* binding leads to the one it hides, in memory: "the original variable        *)
(* content will be restored at the end of the stack level where the new        *)
(* variable binding was defined" (env.h:42), in whatever order the levels are  *)
(* given bindings.                                                             *)
VariablesRestored ==
    \A k \in Keys :
       /\ itemMap[k] = Binding(k, currentEnvId)
       /\ \A l \in Bindings(k, currentEnvId) :
             LET own == OfKey(entries[l], k)
             IN \A i \in DOMAIN own :
                   items[own[i]].previousItem =
                      IF i < Len(own) THEN own[i + 1] ELSE Binding(k, l - 1)

(* A document is in memory as long as its level, in an allocator that is not   *)
(* deleted before it, and the map of the documents fetched has no other        *)
(* (freeEnvEntry, getCurrentDocumentAllocator).                                *)
DocumentsLive ==
    /\ currentDocumentAllocator \in allocators \cup {Null}
    /\ \A d \in DOMAIN documents : documents[d].allocator \in allocators
    /\ \A l \in DOMAIN entries :
          entries[l].previousDocumentAllocator \in allocators \cup {Null}
    /\ \A u \in Urls : documentMap[u] # Null =>
          /\ documentMap[u] \in DOMAIN documents
          /\ documents[documentMap[u]].uri = u
================================================================================
