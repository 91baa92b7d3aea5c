-------------------------------- MODULE SKMap ----------------------------------
(******************************************************************************)
(* The associative containers of a document: SKMapRef, a skip list of hashes  *)
(* (dom/skmapref-iterator.cpp), and SKMultiMapRef, where the value of an item *)
(* is a chain of lists of at most maxNumber values (dom/skmultimapref.cpp).   *)
(*                                                                            *)
(* A map is one attribute of an element; segments are taken from and given    *)
(* back to the document allocator, here the smallest pointers not in use. The *)
(* first item of a map, its head, always has the highest level: an item that  *)
(* comes before it, or that leaves from there, is exchanged with its contents.*)
(******************************************************************************)
EXTENDS Naturals, FiniteSets, Sequences

CONSTANTS
    MaxLevel,   \* SKMapConfig::maxLevel
    maxNumber,  \* SKMapList::maxNumber
    Hashes,     \* the hashes, ordered
    Values,     \* what the maps associate to them
    MaxValues   \* bound: the values of a multimap

NullPtr == 0
Pointers == 1 .. Cardinality(Hashes) + MaxValues
Levels == 0 .. MaxLevel - 1

VARIABLES
    single,  \* TRUE for ElementMapRef and IntegerMapRef, FALSE for ElementMultiMapRef
    map,     \* [head, item, list]: the header and the segments of the map
    content  \* what the callers put: for each hash, the values in order

vars == <<single, map, content>>

Item == [level : Levels, hash : Hashes, value : Pointers \cup Values,
         next : [Levels -> Pointers \cup {NullPtr}]]

TypeOK ==
    /\ single \in BOOLEAN
    /\ map.head \in Pointers \cup {NullPtr}
    /\ DOMAIN map.item \cup DOMAIN map.list \subseteq Pointers
    /\ DOMAIN map.item \cap DOMAIN map.list = {}
    /\ \A p \in DOMAIN map.item : map.item[p] \in Item
    /\ \A p \in DOMAIN map.list : Len(map.list[p].values) \in 1 .. maxNumber

--------------------------------------------------------------------------------
(* Segments.                                                                   *)

NewPtr(m) == CHOOSE p \in Pointers \ (DOMAIN m.item \cup DOMAIN m.list) :
                 \A q \in Pointers \ (DOMAIN m.item \cup DOMAIN m.list) : p <= q
NoNext == [l \in Levels |-> NullPtr]
Extended(f, p, x) == [q \in DOMAIN f \cup {p} |-> IF q = p THEN x ELSE f[q]]
Without(f, p) == [q \in DOMAIN f \ {p} |-> f[q]]
NewItem(m, level, hash, value) ==
    [m EXCEPT !.item = Extended(@, NewPtr(m), [level |-> level, hash |-> hash,
                                               value |-> value, next |-> NoNext])]

(* findClosest(): the item with the greatest hash at most the one searched, and*)
(* at each level the item before it. The trace is empty when the head is the   *)
(* item searched or comes after it.                                            *)
NoTrace == [l \in Levels |-> NullPtr]
FindClosest(m, hash) ==
    LET down[p \in DOMAIN m.item, level \in Levels] ==
            LET next == m.item[p].next[level]
                traced(found) == [found EXCEPT !.trace[level] = p]
            IN  IF next # NullPtr /\ m.item[next].hash < hash THEN down[next, level]
                ELSE IF level > 0 THEN traced(down[p, level - 1])
                ELSE IF next # NullPtr /\ m.item[next].hash = hash
                THEN traced([current |-> next, trace |-> NoTrace])
                ELSE traced([current |-> p, trace |-> NoTrace])
    IN  IF m.head = NullPtr \/ m.item[m.head].hash > hash
        THEN [current |-> NullPtr, trace |-> NoTrace]
        ELSE IF m.item[m.head].hash = hash THEN [current |-> m.head, trace |-> NoTrace]
        ELSE down[m.head, MaxLevel - 1]

Found(m, at, hash) == at.current # NullPtr /\ m.item[at.current].hash = hash

SetValue(m, at, value) == [m EXCEPT !.item[at.current].value = value]

(* iterator::insert(): in an empty map, before the head, whose item takes the  *)
(* new contents, or after the items of the trace. The level is random.         *)
InsertBeforeHead(m, hash, value, level) ==
    LET head == m.item[m.head]
        new == NewPtr(m)
        moved == NewItem(m, level, head.hash, head.value)
    IN  [moved EXCEPT
            !.item[new].next = [l \in Levels |-> IF l <= level THEN head.next[l] ELSE NullPtr],
            !.item[m.head] = [head EXCEPT !.hash = hash, !.value = value,
                !.next = [l \in Levels |-> IF l <= level THEN new ELSE @[l]]]]

Insert(m, at, hash, value, level) ==
    LET new == NewPtr(m)
        added == NewItem(m, level, hash, value)
        before == {at.trace[l] : l \in 0 .. level}
    IN  IF at.current = NullPtr /\ m.head = NullPtr
        THEN [NewItem(m, MaxLevel - 1, hash, value) EXCEPT !.head = new]
        ELSE IF at.current = NullPtr THEN InsertBeforeHead(m, hash, value, level)
        ELSE [added EXCEPT !.item = [p \in DOMAIN @ |->
                 IF p = new
                 THEN [@[p] EXCEPT !.next = [l \in Levels |->
                          IF l <= level THEN m.item[at.trace[l]].next[l] ELSE NullPtr]]
                 ELSE IF p \in before
                 THEN [@[p] EXCEPT !.next = [l \in Levels |->
                          IF l <= level /\ at.trace[l] = p THEN new ELSE @[l]]]
                 ELSE @[p]]]

(* iterator::erase(): the head takes the contents and the links of the item    *)
(* that follows it, which is freed; another item is unlinked from its trace.   *)
Erase(m, at) ==
    LET head == m.item[m.head]
        following == head.next[0]
        Unlinked(item, l, p) == IF item.next[l] = p THEN m.item[p].next[l] ELSE item.next[l]
        Relinked(p) == [q \in DOMAIN m.item \ {p} |->
            IF \E l \in 0 .. m.item[p].level : at.trace[l] = q
            THEN [m.item[q] EXCEPT !.next = [l \in Levels |->
                     IF l <= m.item[p].level /\ at.trace[l] = q
                     THEN Unlinked(m.item[q], l, p) ELSE @[l]]]
            ELSE m.item[q]]
    IN  IF at.current # m.head THEN [m EXCEPT !.item = Relinked(at.current)]
        ELSE IF following = NullPtr
        THEN [m EXCEPT !.head = NullPtr, !.item = Without(@, m.head)]
        ELSE LET item == m.item[following]
             IN  [m EXCEPT !.item = Without([@ EXCEPT ![m.head] =
                     [@ EXCEPT !.hash = item.hash, !.value = item.value,
                               !.next = [l \in Levels |-> IF l <= item.level THEN item.next[l]
                                                          ELSE @[l]]]], following)]

--------------------------------------------------------------------------------
(* The lists of values of a multimap.                                          *)

NewList(m, value) ==
    [m EXCEPT !.list = Extended(@, NewPtr(m), [next |-> NullPtr, values |-> <<value>>])]

Chain(m, list) ==
    LET from[p \in Pointers \cup {NullPtr}] ==
            IF p = NullPtr THEN <<>> ELSE <<p>> \o from[m.list[p].next]
    IN  from[list]
LastOf(s) == s[Len(s)]

(* multi_iterator::insert(): the value is appended to the last list of the     *)
(* chain, or to a new one when it is full.                                     *)
InsertValue(m, at, hash, value, level) ==
    LET new == NewPtr(m)
        with == NewList(m, value)
        last == LastOf(Chain(m, m.item[at.current].value))
    IN  IF ~Found(m, at, hash) THEN Insert(with, at, hash, new, level)
        ELSE IF Len(m.list[last].values) = maxNumber
        THEN [with EXCEPT !.list[last].next = new]
        ELSE [m EXCEPT !.list[last].values = Append(@, value)]

(* multi_iterator::erase(value): the first place that holds the value. A list  *)
(* left empty leaves the chain, and the item the map when it was the only one. *)
Removed(s, i) == SubSeq(s, 1, i - 1) \o SubSeq(s, i + 1, Len(s))
Places(s, value) == {i \in 1 .. Len(s) : s[i] = value}
Least(S) == CHOOSE i \in S : \A j \in S : i <= j

\* Mutant: the list that becomes empty is freed, and the first of the chain is
\* always the one the item points to.
EraseValueOfFirst(m, at, value) ==
    LET chain == Chain(m, m.item[at.current].value)
        i == Least({k \in 1 .. Len(chain) : Places(m.list[chain[k]].values, value) # {}})
        p == chain[i]
        freed == [m EXCEPT !.list = Without(@, p)]
    IN  IF Len(m.list[p].values) > 1
        THEN [m EXCEPT !.list[p].values = Removed(@, Least(Places(@, value)))]
        ELSE IF m.list[p].next # NullPtr THEN SetValue(freed, at, m.list[p].next)
        ELSE Erase(freed, at)

EraseValue(m, at, value) ==
    LET chain == Chain(m, m.item[at.current].value)
        i == Least({k \in 1 .. Len(chain) : Places(m.list[chain[k]].values, value) # {}})
        p == chain[i]
        freed == [m EXCEPT !.list = Without(@, p)]
    IN  IF Len(m.list[p].values) > 1
        THEN [m EXCEPT !.list[p].values = Removed(@, Least(Places(@, value)))]
        ELSE IF i > 1 THEN [freed EXCEPT !.list[chain[i - 1]].next = m.list[p].next]
        ELSE IF m.list[p].next # NullPtr THEN SetValue(freed, at, m.list[p].next)
        ELSE Erase(freed, at)

DeleteSKMapList(m, list) ==
    LET chain == Chain(m, list)
    IN  [m EXCEPT !.list = [p \in DOMAIN @ \ {chain[i] : i \in 1 .. Len(chain)} |-> @[p]]]

--------------------------------------------------------------------------------
(* The operations of the containers (elementmapref.h, integermapref.h). Each   *)
(* uses an iterator of its own.                                                *)

Init ==
    /\ single \in BOOLEAN
    /\ map = [head |-> NullPtr, item |-> [p \in {} |-> 0], list |-> [p \in {} |-> 0]]
    /\ content = [h \in Hashes |-> <<>>]

ContentSize == LET count[S \in SUBSET Hashes] ==
                       IF S = {} THEN 0
                       ELSE LET h == CHOOSE h \in S : TRUE IN Len(content[h]) + count[S \ {h}]
               IN  count[Hashes]

(* ElementMapRef::put(), IntegerMapRef::put().                                 *)
Put(hash, value, level) ==
    /\ single
    /\ LET at == FindClosest(map, hash)
       IN  map' = IF Found(map, at, hash) THEN SetValue(map, at, value)
                  ELSE Insert(map, at, hash, value, level)
    /\ content' = [content EXCEPT ![hash] = <<value>>]
    /\ UNCHANGED single

(* ElementMultiMapRef::put().                                                  *)
PutElement(hash, value, level) ==
    /\ ~single /\ ContentSize < MaxValues
    /\ map' = InsertValue(map, FindClosest(map, hash), hash, value, level)
    /\ content' = [content EXCEPT ![hash] = Append(@, value)]
    /\ UNCHANGED single

(* ElementMultiMapRef::remove(hash, element), for an element the map associates*)
(* to the hash: the callers remove what they put.                              *)
RemoveElement(hash, value) ==
    /\ ~single /\ Places(content[hash], value) # {}
    /\ map' = EraseValue(map, FindClosest(map, hash), value)
    /\ content' = [content EXCEPT ![hash] = Removed(@, Least(Places(@, value)))]
    /\ UNCHANGED single

(* ElementMultiMapRef::remove(hash).                                           *)
RemoveHash(hash) ==
    /\ ~single /\ content[hash] # <<>>
    /\ LET at == FindClosest(map, hash)
       IN  map' = Erase(DeleteSKMapList(map, map.item[at.current].value), at)
    /\ content' = [content EXCEPT ![hash] = <<>>]
    /\ UNCHANGED single

Next == \E hash \in Hashes :
    \/ \E value \in Values, level \in Levels :
           Put(hash, value, level) \/ PutElement(hash, value, level)
    \/ \E value \in Values : RemoveElement(hash, value)
    \/ RemoveHash(hash)

Spec == Init /\ [][Next]_vars

--------------------------------------------------------------------------------
(* Properties.                                                                 *)

AtLevel(level) ==
    LET from[n \in 0 .. Cardinality(Hashes), p \in Pointers \cup {NullPtr}] ==
            IF n = 0 \/ p \notin DOMAIN map.item THEN <<>>
            ELSE <<p>> \o from[n - 1, map.item[p].next[level]]
    IN  from[Cardinality(Hashes), map.head]

(* At each level, the links visit the items of at least this level, each once, *)
(* by increasing hashes, to the end: no link is left to an item that was       *)
(* exchanged with the head or freed (the asserts of findClosest and of the     *)
(* paranoid erase, `Corrupted SKMap`).                                         *)
SkipListOrdered ==
    \A level \in Levels :
        LET path == AtLevel(level)
        IN  /\ {path[i] : i \in 1 .. Len(path)} =
               {p \in DOMAIN map.item : map.item[p].level >= level}
            /\ \A i \in 1 .. Len(path) - 1 : map.item[path[i]].hash < map.item[path[i + 1]].hash
            /\ path # <<>> => map.item[LastOf(path)].next[level] = NullPtr

ValuesAt(hash) ==
    LET at == FindClosest(map, hash)
        chain == Chain(map, map.item[at.current].value)
        joined[i \in 0 .. Len(chain)] ==
            IF i = 0 THEN <<>> ELSE joined[i - 1] \o map.list[chain[i]].values
    IN  IF ~Found(map, at, hash) THEN <<>>
        ELSE IF single THEN <<map.item[at.current].value>>
        ELSE joined[Len(chain)]

(* checkContents() of a map: the segments it marks, which are the items in the  *)
(* order of the lowest level and the lists of each, as often as it meets them.  *)
SegmentsMarked ==
    LET items == AtLevel(0)
        lists[i \in 0 .. Len(items)] ==
            IF i = 0 THEN <<>> ELSE lists[i - 1] \o Chain(map, map.item[items[i]].value)
    IN  IF single THEN items ELSE items \o lists[Len(items)]
MarkedOnce ==
    /\ Len(SegmentsMarked) = Cardinality(DOMAIN map.item \cup DOMAIN map.list)
    /\ {SegmentsMarked[i] : i \in 1 .. Len(SegmentsMarked)} = DOMAIN map.item \cup DOMAIN map.list

(* A lookup gives what was put and not removed, in the order it was put        *)
(* ("Erasing a value keeps the order of existing values intact", skmapref.h),  *)
(* and every segment the map holds is found once from its head.                *)
ContentKept ==
    /\ \A hash \in Hashes : ValuesAt(hash) = content[hash]
    /\ Cardinality(DOMAIN map.item) = Cardinality({h \in Hashes : content[h] # <<>>})
    /\ MarkedOnce
================================================================================
