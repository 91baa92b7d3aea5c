-------------------------------- MODULE NamesProofs --------------------------------
(******************************************************************************)
(* The names of a store: what prefixes stand for, and how names are numbered. *)
(*                                                                            *)
(* 1. NamespaceAlias.  The end of an element restores what its start found    *)
(* (OuterScopesKept), for every set of prefixes and of namespaces and every   *)
(* depth, when no prefix of an outer level is mapped without a declaration.   *)
(* The property speaks of the current level only and is not inductive: a pop  *)
(* makes an outer level the current one.  The invariant says of every level   *)
(* what the property says of the current one, and that the declarations of    *)
(* the levels follow each other, so that a pop takes away those of one level. *)
(*                                                                            *)
(* 2. Keys.  A crash at any moment leaves each name that was given with its   *)
(* id (KeysKept), for every size of a page and every number of names, when    *)
(* one thread at a time numbers names.  The property speaks of what a reading *)
(* of the file would find and is not inductive: the invariant says what the   *)
(* file is made of, its list of pages, the order of its slots and the ids     *)
(* that follow from it, that the cache has a name if and only if a slot has   *)
(* it, and how far the call has come, which says what a crash leaves of it.   *)
(* NthPage is a recursive function: that the list of pages is its value is    *)
(* shown without induction, by the first page on which two lists differ.      *)
(******************************************************************************)
EXTENDS NamespaceAlias, SetSums

(* What a level found.                                                         *)
Mappings == [namespaces : PrefixMaps, prefixes : NamespaceMaps]

(* The declarations of a level for a prefix, and for a namespace.              *)
OfPrefix(l, p) ==
    {i \in DOMAIN declarations : declarations[i].level = l /\ declarations[i].localKeyId = p}
OfNamespace(l, n) ==
    {i \in DOMAIN declarations : declarations[i].level = l /\ declarations[i].namespaceId = n}

(* The mappings at the end of a level: those the next one found, or the        *)
(* current ones.                                                               *)
EndNamespaces(l) ==
    IF l = currentStackLevel THEN localKeyIdToNamespaceIdMap ELSE outer[l + 1].namespaces
EndPrefixes(l) ==
    IF l = currentStackLevel THEN namespaceIdToLocalKeyIdMap ELSE outer[l + 1].prefixes

IsOldest(i, set) == \A j \in set : i <= j

(* Undoing level l gives each prefix the namespace it had before the level.    *)
NamespacesUndone ==
    \A l \in 1 .. currentStackLevel, p \in Prefixes :
       /\ OfPrefix(l, p) = {} => EndNamespaces(l)[p] = outer[l].namespaces[p]
       /\ \A i \in OfPrefix(l, p) : IsOldest(i, OfPrefix(l, p)) =>
             declarations[i].previousNamespaceId = outer[l].namespaces[p]

(* And each namespace its prefix.                                              *)
PrefixesUndone ==
    \A l \in 1 .. currentStackLevel, n \in Scopes :
       /\ OfNamespace(l, n) = {} => EndPrefixes(l)[n] = outer[l].prefixes[n]
       /\ \A i \in OfNamespace(l, n) : IsOldest(i, OfNamespace(l, n)) =>
             declarations[i].previousLocalKeyId = outer[l].prefixes[n]

(* The levels follow each other.                                               *)
LevelsOrdered ==
    /\ \A i \in DOMAIN declarations : declarations[i].level <= currentStackLevel
    /\ \A i, j \in DOMAIN declarations : i <= j => declarations[i].level <= declarations[j].level

AliasInvariant ==
    /\ TypeOK
    /\ Len(outer) = currentStackLevel
    /\ LevelsOrdered
    /\ NamespacesUndone
    /\ PrefixesUndone

--------------------------------------------------------------------------------
(* A set of positions of a sequence that is not empty has a greatest element.  *)
LEMMA GreatestExists ==
    ASSUME NEW N \in Nat, NEW S \in SUBSET (1 .. N), S # {}
    PROVE  \E m \in S : \A k \in S : k <= m
<1> DEFINE T == {N - i : i \in S}
<1>1. T \in SUBSET Nat /\ T # {}
  <2>1. \A i \in S : N - i \in Nat
      OBVIOUS
  <2>2. T # {}
      BY Zenon
  <2> QED BY <2>1, <2>2
<1>2. PICK m \in T : \A k \in T : m <= k
    BY <1>1, LeastNumber
<1>3. PICK i \in S : m = N - i
    BY <1>2
<1>4. \A k \in S : k <= i
  <2> SUFFICES ASSUME NEW k \in S PROVE k <= i
      OBVIOUS
  <2>1. m <= N - k
      BY <1>2
  <2> QED BY <2>1, <1>3
<1> QED BY <1>4

(* The oldest of a set of positions is in it, before the others.               *)
LEMMA OldestIsOldest ==
    ASSUME NEW S \in SUBSET Nat, S # {}
    PROVE  Oldest(S) \in S /\ IsOldest(Oldest(S), S)
<1>1. \E m \in S : \A k \in S : m <= k
    BY LeastNumber
<1> QED BY <1>1 DEF Oldest, IsOldest

(* Declarations have levels.                                                   *)
LEMMA LevelsAreNaturals ==
    ASSUME TypeOK
    PROVE  /\ Len(declarations) \in Nat
           /\ DOMAIN declarations = 1 .. Len(declarations)
           /\ \A i \in DOMAIN declarations : declarations[i].level \in Nat
<1>1. declarations \in Seq(Declaration)
    BY DEF TypeOK
<1>2. \A i \in DOMAIN declarations : declarations[i] \in Declaration
    BY <1>1
<1>3. \A d \in Declaration : d.level \in Nat
    BY DEF Declaration
<1> QED BY <1>1, <1>2, <1>3

(* The mappings that undoing the current level gives are those it found.       *)
LEMMA UndoneIsOuter ==
    ASSUME AliasInvariant, currentStackLevel > 0
    PROVE  Undone = outer[currentStackLevel]
<1> DEFINE lvl == currentStackLevel
           found == outer[lvl]
<1>1. /\ lvl \in 1 .. lvl /\ lvl \in DOMAIN outer
      /\ DOMAIN declarations \subseteq Nat
      /\ found \in Mappings
  <2>1. lvl \in Nat /\ Len(outer) = lvl
      BY DEF AliasInvariant, TypeOK
  <2>2. outer \in Seq(Mappings)
      BY DEF AliasInvariant, TypeOK, Mappings
  <2>3. declarations \in Seq(Declaration)
      BY DEF AliasInvariant, TypeOK
  <2>4. lvl \in 1 .. lvl /\ lvl \in DOMAIN outer
      BY <2>1, <2>2
  <2> HIDE DEF lvl
  <2>5. found \in Mappings
      BY <2>2, <2>4
  <2> QED BY <2>3, <2>4, <2>5
<1>2. \A p \in Prefixes : Undone.namespaces[p] = found.namespaces[p]
  <2> SUFFICES ASSUME NEW p \in Prefixes
               PROVE  Undone.namespaces[p] = found.namespaces[p]
      OBVIOUS
  <2> DEFINE own == OfPrefix(lvl, p)
  <2>1. {i \in AtLevel : declarations[i].localKeyId = p} = own
      BY DEF AtLevel, OfPrefix
  <2>2. Undone.namespaces[p] = IF own = {} THEN localKeyIdToNamespaceIdMap[p]
                               ELSE declarations[Oldest(own)].previousNamespaceId
      BY <2>1 DEF Undone
  <2>3. CASE own = {}
      BY <2>2, <2>3, <1>1 DEF AliasInvariant, NamespacesUndone, EndNamespaces
  <2>4. CASE own # {}
    <3>1. Oldest(own) \in own /\ IsOldest(Oldest(own), own)
        BY <2>4, <1>1, OldestIsOldest DEF OfPrefix
    <3> QED BY <3>1, <2>2, <2>4, <1>1 DEF AliasInvariant, NamespacesUndone
  <2> QED BY <2>3, <2>4
<1>3. \A n \in Scopes : Undone.prefixes[n] = found.prefixes[n]
  <2> SUFFICES ASSUME NEW n \in Scopes
               PROVE  Undone.prefixes[n] = found.prefixes[n]
      OBVIOUS
  <2> DEFINE own == OfNamespace(lvl, n)
  <2>1. {i \in AtLevel : declarations[i].namespaceId = n} = own
      BY DEF AtLevel, OfNamespace
  <2>2. Undone.prefixes[n] = IF own = {} THEN namespaceIdToLocalKeyIdMap[n]
                             ELSE declarations[Oldest(own)].previousLocalKeyId
      BY <2>1 DEF Undone
  <2>3. CASE own = {}
      BY <2>2, <2>3, <1>1 DEF AliasInvariant, PrefixesUndone, EndPrefixes
  <2>4. CASE own # {}
    <3>1. Oldest(own) \in own /\ IsOldest(Oldest(own), own)
        BY <2>4, <1>1, OldestIsOldest DEF OfNamespace
    <3> QED BY <3>1, <2>2, <2>4, <1>1 DEF AliasInvariant, PrefixesUndone
  <2> QED BY <2>3, <2>4
<1>4. Undone.namespaces = found.namespaces
    BY <1>1, <1>2 DEF Mappings, PrefixMaps, Undone
<1>5. Undone.prefixes = found.prefixes
    BY <1>1, <1>3 DEF Mappings, NamespaceMaps, Undone
<1>6. Undone = [namespaces |-> Undone.namespaces, prefixes |-> Undone.prefixes]
    BY DEF Undone
<1> QED BY <1>1, <1>4, <1>5, <1>6 DEF Mappings

--------------------------------------------------------------------------------
(* The constructor establishes the invariant.                                  *)
LEMMA InitEstablishes ==
    ASSUME Init
    PROVE  AliasInvariant
<1> USE ConstantsAssumption
<1>1. PICK set \in {<<>>, Builtins} :
          /\ declarations =
               [i \in DOMAIN set |->
                  [level |-> 1, localKeyId |-> set[i][1], namespaceId |-> set[i][2],
                   previousLocalKeyId |-> None, previousNamespaceId |-> None]]
          /\ localKeyIdToNamespaceIdMap =
               [p \in Prefixes |-> IF \E i \in DOMAIN set : set[i][1] = p
                                     THEN set[CHOOSE i \in DOMAIN set : set[i][1] = p][2]
                                     ELSE None]
          /\ namespaceIdToLocalKeyIdMap =
               [n \in Scopes |-> IF \E i \in DOMAIN set : set[i][2] = n
                                   THEN set[CHOOSE i \in DOMAIN set : set[i][2] = n][1]
                                   ELSE None]
    BY DEF Init
<1>2. set \in Seq(Prefixes \X Namespaces)
  <2>1. CASE set = <<>>
      BY <2>1
  <2>2. CASE set = Builtins
      BY <2>2 DEF ConstantsAssumption
  <2> QED BY <2>1, <2>2
<1>3. \A i \in DOMAIN set : set[i] \in Prefixes \X Namespaces
    BY <1>2
<1>4. /\ currentStackLevel = 1
      /\ outer = <<[namespaces |-> [p \in Prefixes |-> None],
                    prefixes |-> [n \in Scopes |-> None]]>>
    BY DEF Init
<1>5. localKeyIdToNamespaceIdMap \in PrefixMaps
  <2> SUFFICES ASSUME NEW p \in Prefixes, \E i \in DOMAIN set : set[i][1] = p
               PROVE  set[CHOOSE i \in DOMAIN set : set[i][1] = p][2] \in Scopes
      BY <1>1 DEF PrefixMaps, Scopes
  <2> QED BY <1>3 DEF Scopes
<1>6. namespaceIdToLocalKeyIdMap \in NamespaceMaps
  <2> SUFFICES ASSUME NEW n \in Scopes, \E i \in DOMAIN set : set[i][2] = n
               PROVE  set[CHOOSE i \in DOMAIN set : set[i][2] = n][1] \in Prefixes \cup {None}
      BY <1>1 DEF NamespaceMaps
  <2> QED BY <1>3
<1>7. declarations \in Seq(Declaration)
  <2>1. \A i \in DOMAIN set : declarations[i] \in Declaration
      BY <1>1, <1>3 DEF Declaration, Scopes
  <2>2. DOMAIN declarations = 1 .. Len(set) /\ Len(set) \in Nat
      BY <1>1, <1>2
  <2> QED BY <2>1, <2>2, <1>1, <1>2
<1>8. outer \in Seq(Mappings)
  <2>1. [namespaces |-> [p \in Prefixes |-> None], prefixes |-> [n \in Scopes |-> None]]
           \in Mappings
      BY DEF Mappings, PrefixMaps, NamespaceMaps, Scopes
  <2> QED BY <1>4, <2>1
<1>9. TypeOK
    BY <1>4, <1>5, <1>6, <1>7, <1>8 DEF TypeOK, Mappings
<1>10. LevelsOrdered
    BY <1>1, <1>4 DEF LevelsOrdered
<1>11. NamespacesUndone
  <2> SUFFICES ASSUME NEW p \in Prefixes
               PROVE  /\ OfPrefix(1, p) = {} => EndNamespaces(1)[p] = outer[1].namespaces[p]
                      /\ \A i \in OfPrefix(1, p) :
                            declarations[i].previousNamespaceId = outer[1].namespaces[p]
    <3>1. \A l \in 1 .. currentStackLevel : l = 1
        BY <1>4
    <3> QED BY <3>1, ZenonT(60) DEF NamespacesUndone
  <2>1. outer[1].namespaces[p] = None /\ EndNamespaces(1) = localKeyIdToNamespaceIdMap
      BY <1>4 DEF EndNamespaces
  <2>2. OfPrefix(1, p) = {i \in DOMAIN set : set[i][1] = p}
      BY <1>1 DEF OfPrefix
  <2> QED BY <1>1, <2>1, <2>2
<1>12. PrefixesUndone
  <2> SUFFICES ASSUME NEW n \in Scopes
               PROVE  /\ OfNamespace(1, n) = {} => EndPrefixes(1)[n] = outer[1].prefixes[n]
                      /\ \A i \in OfNamespace(1, n) :
                            declarations[i].previousLocalKeyId = outer[1].prefixes[n]
    <3>1. \A l \in 1 .. currentStackLevel : l = 1
        BY <1>4
    <3> QED BY <3>1 DEF PrefixesUndone
  <2>1. outer[1].prefixes[n] = None /\ EndPrefixes(1) = namespaceIdToLocalKeyIdMap
      BY <1>4 DEF EndPrefixes
  <2>2. OfNamespace(1, n) = {i \in DOMAIN set : set[i][2] = n}
      BY <1>1 DEF OfNamespace
  <2> QED BY <1>1, <2>1, <2>2
<1> QED BY <1>4, <1>9, <1>10, <1>11, <1>12 DEF AliasInvariant

(* A new level finds the mappings the one before it has at its end.            *)
LEMMA PushKeeps ==
    ASSUME AliasInvariant, push
    PROVE  AliasInvariant'
<1> DEFINE lvl == currentStackLevel
           found == [namespaces |-> localKeyIdToNamespaceIdMap,
                     prefixes |-> namespaceIdToLocalKeyIdMap]
<1>1. /\ lvl \in Nat /\ Len(outer) = lvl
      /\ outer \in Seq(Mappings)
      /\ found \in Mappings
      /\ \A i \in DOMAIN declarations : declarations[i].level \in Nat
    BY LevelsAreNaturals DEF AliasInvariant, TypeOK, Mappings
<1>2. /\ currentStackLevel' = lvl + 1
      /\ outer' = Append(outer, found)
      /\ UNCHANGED <<localKeyIdToNamespaceIdMap, namespaceIdToLocalKeyIdMap, declarations>>
    BY DEF push
<1> HIDE DEF found
<1>3. /\ Len(outer') = lvl + 1
      /\ outer' \in Seq(Mappings)
      /\ outer'[lvl + 1] = found
      /\ \A l \in 1 .. lvl : outer'[l] = outer[l]
    BY <1>1, <1>2
<1>4. TypeOK'
    BY <1>1, <1>2, <1>3 DEF AliasInvariant, TypeOK, Mappings
<1>5. LevelsOrdered'
    BY <1>1, <1>2 DEF AliasInvariant, LevelsOrdered
<1>6. /\ \A l \in 1 .. lvl : /\ EndNamespaces(l)' = EndNamespaces(l)
                            /\ EndPrefixes(l)' = EndPrefixes(l)
      /\ \A l : l = lvl + 1 => /\ EndNamespaces(l)' = found.namespaces
                               /\ EndPrefixes(l)' = found.prefixes
  <2>1. /\ found.namespaces = localKeyIdToNamespaceIdMap'
        /\ found.prefixes = namespaceIdToLocalKeyIdMap'
      BY <1>2 DEF found
  <2>2. ASSUME NEW l \in 1 .. lvl
        PROVE  /\ EndNamespaces(l)' = outer'[l + 1].namespaces
               /\ EndPrefixes(l)' = outer'[l + 1].prefixes
      BY <1>1, <1>2 DEF EndNamespaces, EndPrefixes
  <2>3. ASSUME NEW l \in 1 .. lvl, l # lvl
        PROVE  outer'[l + 1] = outer[l + 1]
      BY <1>1, <1>3, <2>3
  <2>4. ASSUME NEW l \in 1 .. lvl
        PROVE  EndNamespaces(l)' = EndNamespaces(l) /\ EndPrefixes(l)' = EndPrefixes(l)
      BY <1>1, <1>2, <1>3, <2>1, <2>2, <2>3 DEF EndNamespaces, EndPrefixes
  <2>5. \A l : l = lvl + 1 => /\ EndNamespaces(l)' = localKeyIdToNamespaceIdMap'
                              /\ EndPrefixes(l)' = namespaceIdToLocalKeyIdMap'
      BY <1>2 DEF EndNamespaces, EndPrefixes
  <2> QED BY <2>1, <2>4, <2>5
<1>7. NamespacesUndone'
  <2>1. \A l \in 1 .. lvl + 1, p \in Prefixes : OfPrefix(l, p)' = OfPrefix(l, p)
      BY <1>2 DEF OfPrefix
  <2> SUFFICES ASSUME NEW l \in 1 .. lvl + 1, NEW p \in Prefixes
               PROVE  /\ OfPrefix(l, p) = {} => EndNamespaces(l)'[p] = outer'[l].namespaces[p]
                      /\ \A i \in OfPrefix(l, p) : IsOldest(i, OfPrefix(l, p)) =>
                            declarations[i].previousNamespaceId = outer'[l].namespaces[p]
      BY <1>2, <2>1, ZenonT(60) DEF NamespacesUndone
  <2>2. CASE l \in 1 .. lvl
      BY <2>2, <1>3, <1>6 DEF AliasInvariant, NamespacesUndone
  <2>3. CASE l = lvl + 1
    <3>1. OfPrefix(l, p) = {}
        BY <2>3, <1>1 DEF AliasInvariant, LevelsOrdered, OfPrefix
    <3> QED BY <3>1, <2>3, <1>3, <1>6
  <2> QED BY <2>2, <2>3, <1>1
<1>8. PrefixesUndone'
  <2>1. \A l \in 1 .. lvl + 1, n \in Scopes : OfNamespace(l, n)' = OfNamespace(l, n)
      BY <1>2 DEF OfNamespace
  <2> SUFFICES ASSUME NEW l \in 1 .. lvl + 1, NEW n \in Scopes
               PROVE  /\ OfNamespace(l, n) = {} => EndPrefixes(l)'[n] = outer'[l].prefixes[n]
                      /\ \A i \in OfNamespace(l, n) : IsOldest(i, OfNamespace(l, n)) =>
                            declarations[i].previousLocalKeyId = outer'[l].prefixes[n]
      BY <1>2, <2>1, ZenonT(60) DEF PrefixesUndone
  <2>2. CASE l \in 1 .. lvl
      BY <2>2, <1>3, <1>6 DEF AliasInvariant, PrefixesUndone
  <2>3. CASE l = lvl + 1
    <3>1. OfNamespace(l, n) = {}
        BY <2>3, <1>1 DEF AliasInvariant, LevelsOrdered, OfNamespace
    <3> QED BY <3>1, <2>3, <1>3, <1>6
  <2> QED BY <2>2, <2>3, <1>1
<1> QED BY <1>2, <1>3, <1>4, <1>5, <1>7, <1>8 DEF AliasInvariant

(* A pop takes away the declarations of the current level and no other, and    *)
(* gives the level before it the end it had when the current one was pushed.   *)
LEMMA PopKeeps ==
    ASSUME AliasInvariant, pop
    PROVE  AliasInvariant'
<1> DEFINE lvl == currentStackLevel
           cut == IF AtLevel = {} THEN Len(declarations) ELSE Oldest(AtLevel) - 1
<1>1. /\ lvl \in Nat /\ lvl > 0 /\ Len(outer) = lvl
      /\ outer \in Seq(Mappings)
      /\ declarations \in Seq(Declaration)
    BY DEF AliasInvariant, TypeOK, Mappings, pop
<1>2. /\ Len(declarations) \in Nat
      /\ DOMAIN declarations = 1 .. Len(declarations)
      /\ \A i \in DOMAIN declarations : declarations[i].level \in Nat
    BY LevelsAreNaturals DEF AliasInvariant
<1>3. /\ currentStackLevel' = lvl - 1
      /\ localKeyIdToNamespaceIdMap' = outer[lvl].namespaces
      /\ namespaceIdToLocalKeyIdMap' = outer[lvl].prefixes
      /\ outer' = SubSeq(outer, 1, lvl - 1)
    BY <1>1, UndoneIsOuter DEF pop
<1>4. cut \in 0 .. Len(declarations)
      /\ \A i \in DOMAIN declarations : i \in 1 .. cut <=> declarations[i].level < lvl
  <2>1. CASE AtLevel = {}
      BY <2>1, <1>1, <1>2 DEF AtLevel, AliasInvariant, LevelsOrdered
  <2>2. CASE AtLevel # {}
    <3> DEFINE oldest == Oldest(AtLevel)
    <3>1. oldest \in AtLevel /\ IsOldest(oldest, AtLevel)
      <4>1. AtLevel \in SUBSET Nat
          BY <1>2 DEF AtLevel
      <4> QED BY <4>1, <2>2, OldestIsOldest
    <3> HIDE DEF oldest
    <3>2. oldest \in 1 .. Len(declarations) /\ declarations[oldest].level = lvl
        BY <3>1, <1>2 DEF AtLevel
    <3>3. ASSUME NEW i \in DOMAIN declarations, i < oldest
          PROVE  declarations[i].level < lvl
      <4>1. declarations[i].level <= lvl
          BY DEF AliasInvariant, LevelsOrdered
      <4>2. i \notin AtLevel
          BY <3>1, <3>2, <3>3, <1>2 DEF IsOldest
      <4> QED BY <4>1, <4>2, <1>1, <1>2 DEF AtLevel
    <3>4. ASSUME NEW i \in DOMAIN declarations, oldest <= i
          PROVE  ~(declarations[i].level < lvl)
      <4>1. declarations[oldest].level <= declarations[i].level
          BY <3>2, <3>4, <1>2 DEF AliasInvariant, LevelsOrdered
      <4> QED BY <4>1, <3>2, <1>1, <1>2
    <3>5. cut = oldest - 1
        BY <2>2 DEF oldest
    <3> QED BY <3>2, <3>3, <3>4, <3>5, <1>2
  <2> QED BY <2>1, <2>2
<1>5. declarations' = SubSeq(declarations, 1, cut)
  <2>1. declarations = SubSeq(declarations, 1, Len(declarations))
      BY <1>1
  <2> QED BY <2>1 DEF pop
<1> HIDE DEF cut
<1>6. /\ declarations' \in Seq(Declaration)
      /\ DOMAIN declarations' = 1 .. cut
      /\ \A i \in 1 .. cut : declarations'[i] = declarations[i]
    BY <1>1, <1>2, <1>4, <1>5
<1>7. /\ Len(outer') = lvl - 1
      /\ outer' \in Seq(Mappings)
      /\ \A l \in 1 .. lvl - 1 : outer'[l] = outer[l]
    BY <1>1, <1>3
<1>8. TypeOK'
  <2>1. outer[lvl] \in Mappings
      BY <1>1
  <2> QED BY <2>1, <1>1, <1>3, <1>6, <1>7 DEF TypeOK, Mappings
<1>9. LevelsOrdered'
  <2>1. \A i \in 1 .. cut : declarations[i].level <= lvl - 1
      BY <1>1, <1>2, <1>4
  <2>2. \A i, j \in 1 .. cut : i <= j => declarations[i].level <= declarations[j].level
      BY <1>2, <1>4 DEF AliasInvariant, LevelsOrdered
  <2> QED BY <2>1, <2>2, <1>3, <1>6 DEF LevelsOrdered
<1>10. \A l \in 1 .. lvl - 1 : /\ EndNamespaces(l)' = EndNamespaces(l)
                             /\ EndPrefixes(l)' = EndPrefixes(l)
  <2> SUFFICES ASSUME NEW l \in 1 .. lvl - 1
               PROVE  EndNamespaces(l)' = EndNamespaces(l) /\ EndPrefixes(l)' = EndPrefixes(l)
      OBVIOUS
  <2>1. /\ EndNamespaces(l) = outer[l + 1].namespaces
        /\ EndPrefixes(l) = outer[l + 1].prefixes
      BY <1>1 DEF EndNamespaces, EndPrefixes
  <2>2. CASE l = lvl - 1
      BY <2>1, <2>2, <1>1, <1>3 DEF EndNamespaces, EndPrefixes
  <2>3. CASE l # lvl - 1
    <3>1. outer'[l + 1] = outer[l + 1]
        BY <2>3, <1>1, <1>7
    <3> QED BY <2>1, <2>3, <3>1, <1>1, <1>3 DEF EndNamespaces, EndPrefixes
  <2> QED BY <2>2, <2>3
<1>11. NamespacesUndone'
  <2>1. \A l \in 1 .. lvl - 1, p \in Prefixes : OfPrefix(l, p)' = OfPrefix(l, p)
    <3> SUFFICES ASSUME NEW l \in 1 .. lvl - 1, NEW p \in Prefixes
                 PROVE  OfPrefix(l, p)' = OfPrefix(l, p)
        OBVIOUS
    <3>1. \A i \in OfPrefix(l, p) : i \in 1 .. cut
        BY <1>1, <1>4 DEF OfPrefix
    <3> QED BY <3>1, <1>2, <1>4, <1>6 DEF OfPrefix
  <2> SUFFICES ASSUME NEW l \in 1 .. lvl - 1, NEW p \in Prefixes
               PROVE  /\ OfPrefix(l, p) = {} => EndNamespaces(l)'[p] = outer'[l].namespaces[p]
                      /\ \A i \in OfPrefix(l, p) : IsOldest(i, OfPrefix(l, p)) =>
                            declarations'[i].previousNamespaceId = outer'[l].namespaces[p]
      BY <1>3, <2>1 DEF NamespacesUndone
  <2>2. l \in 1 .. lvl
      BY <1>1
  <2>3. \A i \in OfPrefix(l, p) : declarations'[i] = declarations[i]
      BY <1>1, <1>4, <1>6 DEF OfPrefix
  <2> QED BY <2>2, <2>3, <1>7, <1>10 DEF AliasInvariant, NamespacesUndone
<1>12. PrefixesUndone'
  <2>1. \A l \in 1 .. lvl - 1, n \in Scopes : OfNamespace(l, n)' = OfNamespace(l, n)
    <3> SUFFICES ASSUME NEW l \in 1 .. lvl - 1, NEW n \in Scopes
                 PROVE  OfNamespace(l, n)' = OfNamespace(l, n)
        OBVIOUS
    <3>1. \A i \in OfNamespace(l, n) : i \in 1 .. cut
        BY <1>1, <1>4 DEF OfNamespace
    <3> QED BY <3>1, <1>2, <1>4, <1>6 DEF OfNamespace
  <2> SUFFICES ASSUME NEW l \in 1 .. lvl - 1, NEW n \in Scopes
               PROVE  /\ OfNamespace(l, n) = {} => EndPrefixes(l)'[n] = outer'[l].prefixes[n]
                      /\ \A i \in OfNamespace(l, n) : IsOldest(i, OfNamespace(l, n)) =>
                            declarations'[i].previousLocalKeyId = outer'[l].prefixes[n]
      BY <1>3, <2>1 DEF PrefixesUndone
  <2>2. l \in 1 .. lvl
      BY <1>1
  <2>3. \A i \in OfNamespace(l, n) : declarations'[i] = declarations[i]
      BY <1>1, <1>4, <1>6 DEF OfNamespace
  <2> QED BY <2>2, <2>3, <1>7, <1>10 DEF AliasInvariant, PrefixesUndone
<1> QED BY <1>3, <1>7, <1>8, <1>9, <1>11, <1>12 DEF AliasInvariant

(* Mapping p and n changes no other prefix or namespace, and no end but that   *)
(* of the current level.                                                       *)
LEMMA MapEnds ==
    ASSUME AliasInvariant, NEW p \in Prefixes, NEW n \in Scopes, Map(p, n),
           UNCHANGED <<currentStackLevel, outer>>
    PROVE  /\ localKeyIdToNamespaceIdMap' \in PrefixMaps
           /\ namespaceIdToLocalKeyIdMap' \in NamespaceMaps
           /\ \A l \in 1 .. currentStackLevel, q \in Prefixes :
                 ~(l = currentStackLevel /\ q = p) => EndNamespaces(l)'[q] = EndNamespaces(l)[q]
           /\ \A l \in 1 .. currentStackLevel, m \in Scopes :
                 ~(l = currentStackLevel /\ m = n) => EndPrefixes(l)'[m] = EndPrefixes(l)[m]
<1>1. /\ localKeyIdToNamespaceIdMap \in PrefixMaps
      /\ namespaceIdToLocalKeyIdMap \in NamespaceMaps
    BY DEF AliasInvariant, TypeOK
<1>2. /\ localKeyIdToNamespaceIdMap' = [localKeyIdToNamespaceIdMap EXCEPT ![p] = n]
      /\ namespaceIdToLocalKeyIdMap' = [namespaceIdToLocalKeyIdMap EXCEPT ![n] = p]
    BY DEF Map
<1>3. localKeyIdToNamespaceIdMap' \in PrefixMaps
    BY <1>1, <1>2 DEF PrefixMaps
<1>4. namespaceIdToLocalKeyIdMap' \in NamespaceMaps
    BY <1>1, <1>2 DEF NamespaceMaps
<1>5. \A q \in Prefixes : q # p => localKeyIdToNamespaceIdMap'[q] = localKeyIdToNamespaceIdMap[q]
    BY <1>1, <1>2 DEF PrefixMaps
<1>6. \A m \in Scopes : m # n => namespaceIdToLocalKeyIdMap'[m] = namespaceIdToLocalKeyIdMap[m]
    BY <1>1, <1>2 DEF NamespaceMaps
<1> QED BY <1>3, <1>4, <1>5, <1>6 DEF EndNamespaces, EndPrefixes

(* A declaration, the newest of its level, records what the level found if it  *)
(* is the first of its prefix, or of its namespace.                            *)
LEMMA SetNewKeeps ==
    ASSUME AliasInvariant, NEW p \in Prefixes, NEW n \in Scopes, NEW overwrite,
           SetNew(p, n, overwrite)
    PROVE  AliasInvariant'
<1> DEFINE lvl == currentStackLevel
           last == Len(declarations)
           new == [level |-> lvl, localKeyId |-> p, namespaceId |-> n,
                   previousLocalKeyId |-> namespaceIdToLocalKeyIdMap[n],
                   previousNamespaceId |-> localKeyIdToNamespaceIdMap[p]]
<1>1. /\ lvl \in Nat /\ Len(outer) = lvl
      /\ declarations \in Seq(Declaration)
      /\ localKeyIdToNamespaceIdMap \in PrefixMaps
      /\ namespaceIdToLocalKeyIdMap \in NamespaceMaps
    BY DEF AliasInvariant, TypeOK
<1>2. /\ last \in Nat /\ DOMAIN declarations = 1 .. last
      /\ \A i \in DOMAIN declarations : declarations[i].level \in Nat
    BY LevelsAreNaturals DEF AliasInvariant
<1>3. /\ declarations' = Append(declarations, new)
      /\ Map(p, n)
      /\ UNCHANGED <<currentStackLevel, outer>>
    BY DEF SetNew, Declare
<1>4. new \in Declaration
    BY <1>1 DEF Declaration, PrefixMaps, NamespaceMaps
<1>5. /\ new.level = lvl /\ new.localKeyId = p /\ new.namespaceId = n
      /\ new.previousLocalKeyId = namespaceIdToLocalKeyIdMap[n]
      /\ new.previousNamespaceId = localKeyIdToNamespaceIdMap[p]
    OBVIOUS
<1> HIDE DEF new
<1>6. /\ declarations' \in Seq(Declaration)
      /\ DOMAIN declarations' = 1 .. last + 1
      /\ declarations'[last + 1] = new
      /\ \A i \in 1 .. last : declarations'[i] = declarations[i]
    BY <1>1, <1>2, <1>3, <1>4
<1> HIDE DEF last
<1>7. TypeOK'
    BY <1>1, <1>3, <1>6, MapEnds DEF AliasInvariant, TypeOK
<1>8. LevelsOrdered'
  <2>1. \A i \in 1 .. last : declarations[i].level <= lvl
      BY <1>2 DEF AliasInvariant, LevelsOrdered
  <2>2. \A i, j \in 1 .. last : i <= j => declarations[i].level <= declarations[j].level
      BY <1>2 DEF AliasInvariant, LevelsOrdered
  <2>3. \A i \in 1 .. last + 1 : declarations'[i].level <= lvl
      BY <2>1, <1>1, <1>2, <1>5, <1>6
  <2>4. ASSUME NEW i \in 1 .. last + 1, NEW j \in 1 .. last + 1, i <= j
        PROVE  declarations'[i].level <= declarations'[j].level
    <3>1. CASE j = last + 1
        BY <3>1, <2>3, <1>5, <1>6
    <3>2. CASE j # last + 1
        BY <3>2, <2>2, <2>4, <1>2, <1>6
    <3> QED BY <3>1, <3>2
  <2> QED BY <2>3, <2>4, <1>3, <1>6 DEF LevelsOrdered
<1>9. NamespacesUndone'
  <2>1. \A l \in 1 .. lvl, q \in Prefixes :
           OfPrefix(l, q)' = OfPrefix(l, q) \cup {i \in {last + 1} : l = lvl /\ q = p}
      BY <1>2, <1>5, <1>6 DEF OfPrefix
  <2> SUFFICES ASSUME NEW l \in 1 .. lvl, NEW q \in Prefixes
               PROVE  /\ OfPrefix(l, q)' = {} => EndNamespaces(l)'[q] = outer[l].namespaces[q]
                      /\ \A i \in OfPrefix(l, q)' : IsOldest(i, OfPrefix(l, q)') =>
                            declarations'[i].previousNamespaceId = outer[l].namespaces[q]
      BY <1>3 DEF NamespacesUndone, IsOldest
  <2>2. \A i \in OfPrefix(l, q) : i \in 1 .. last /\ declarations'[i] = declarations[i]
      BY <1>2, <1>6 DEF OfPrefix
  <2>3. CASE ~(l = lvl /\ q = p)
    <3>1. OfPrefix(l, q)' = OfPrefix(l, q)
        BY <2>1, <2>3
    <3>2. EndNamespaces(l)'[q] = EndNamespaces(l)[q]
        BY <2>3, <1>3, MapEnds
    <3> QED BY <3>1, <3>2, <2>2 DEF AliasInvariant, NamespacesUndone
  <2>4. CASE l = lvl /\ q = p
    <3>1. OfPrefix(l, q)' = OfPrefix(l, q) \cup {last + 1}
        BY <2>1, <2>4
    <3>2. CASE OfPrefix(l, q) = {}
      <4>1. localKeyIdToNamespaceIdMap[q] = outer[l].namespaces[q]
          BY <2>4, <3>2 DEF AliasInvariant, NamespacesUndone, EndNamespaces
      <4> QED BY <4>1, <3>1, <3>2, <2>4, <1>5, <1>6
    <3>3. CASE OfPrefix(l, q) # {}
      <4>1. ASSUME NEW i \in OfPrefix(l, q)', IsOldest(i, OfPrefix(l, q)')
            PROVE  i \in OfPrefix(l, q) /\ IsOldest(i, OfPrefix(l, q))
          BY <4>1, <3>1, <3>3, <2>2, <1>2 DEF IsOldest
      <4> QED BY <4>1, <3>1, <2>2, ZenonT(60) DEF AliasInvariant, NamespacesUndone
    <3> QED BY <3>2, <3>3
  <2> QED BY <2>3, <2>4
<1>10. PrefixesUndone'
  <2>1. \A l \in 1 .. lvl, m \in Scopes :
           OfNamespace(l, m)' = OfNamespace(l, m) \cup {i \in {last + 1} : l = lvl /\ m = n}
      BY <1>2, <1>5, <1>6 DEF OfNamespace
  <2> SUFFICES ASSUME NEW l \in 1 .. lvl, NEW m \in Scopes
               PROVE  /\ OfNamespace(l, m)' = {} => EndPrefixes(l)'[m] = outer[l].prefixes[m]
                      /\ \A i \in OfNamespace(l, m)' : IsOldest(i, OfNamespace(l, m)') =>
                            declarations'[i].previousLocalKeyId = outer[l].prefixes[m]
      BY <1>3 DEF PrefixesUndone, IsOldest
  <2>2. \A i \in OfNamespace(l, m) : i \in 1 .. last /\ declarations'[i] = declarations[i]
      BY <1>2, <1>6 DEF OfNamespace
  <2>3. CASE ~(l = lvl /\ m = n)
    <3>1. OfNamespace(l, m)' = OfNamespace(l, m)
        BY <2>1, <2>3
    <3>2. EndPrefixes(l)'[m] = EndPrefixes(l)[m]
        BY <2>3, <1>3, MapEnds
    <3> QED BY <3>1, <3>2, <2>2 DEF AliasInvariant, PrefixesUndone
  <2>4. CASE l = lvl /\ m = n
    <3>1. OfNamespace(l, m)' = OfNamespace(l, m) \cup {last + 1}
        BY <2>1, <2>4
    <3>2. CASE OfNamespace(l, m) = {}
      <4>1. namespaceIdToLocalKeyIdMap[m] = outer[l].prefixes[m]
          BY <2>4, <3>2 DEF AliasInvariant, PrefixesUndone, EndPrefixes
      <4> QED BY <4>1, <3>1, <3>2, <2>4, <1>5, <1>6
    <3>3. CASE OfNamespace(l, m) # {}
      <4>1. ASSUME NEW i \in OfNamespace(l, m)', IsOldest(i, OfNamespace(l, m)')
            PROVE  i \in OfNamespace(l, m) /\ IsOldest(i, OfNamespace(l, m))
          BY <4>1, <3>1, <3>3, <2>2, <1>2 DEF IsOldest
      <4> QED BY <4>1, <3>1, <2>2, ZenonT(60) DEF AliasInvariant, PrefixesUndone
    <3> QED BY <3>2, <3>3
  <2> QED BY <2>3, <2>4
<1> QED BY <1>1, <1>3, <1>7, <1>8, <1>9, <1>10 DEF AliasInvariant

(* A pair that is mapped without a declaration has both its parts declared at  *)
(* the current level already: the namespace by the declaration met, the prefix *)
(* because no prefix of an outer level is mapped so.                           *)
LEMMA SetAlsoKeeps ==
    ASSUME Redeclares = FALSE,
           AliasInvariant, NEW p \in Prefixes, NEW n \in Scopes, NEW overwrite,
           SetAlso(p, n, overwrite)
    PROVE  AliasInvariant'
<1> DEFINE lvl == currentStackLevel
           concerned == Concerned(p, n, overwrite)
<1>1. /\ Map(p, n)
      /\ UNCHANGED <<declarations, currentStackLevel, outer>>
    BY DEF SetAlso
<1>2. OfPrefix(lvl, p) # {}
    BY DEF SetAlso, Loses, AtLevel, OfPrefix
<1>3. OfNamespace(lvl, n) # {}
  <2>1. concerned # {} /\ concerned \subseteq AtLevel
      BY DEF SetAlso, Concerned
  <2>2. concerned \in SUBSET (1 .. Len(declarations)) /\ Len(declarations) \in Nat
      BY <2>1, LevelsAreNaturals DEF AtLevel, AliasInvariant
  <2>3. \E i \in concerned : \A j \in concerned : j <= i
      BY <2>1, <2>2, GreatestExists
  <2> DEFINE met == CHOOSE i \in concerned : \A j \in concerned : j <= i
  <2>4. met \in concerned
      BY <2>3
  <2>5. declarations[met].localKeyId # p
      BY DEF SetAlso, Met
  <2> HIDE DEF met
  <2>6. declarations[met].namespaceId = n
      BY <2>4, <2>5 DEF Concerned
  <2> QED BY <2>1, <2>4, <2>6 DEF AtLevel, OfNamespace
<1>4. TypeOK'
    BY <1>1, MapEnds DEF AliasInvariant, TypeOK
<1>5. LevelsOrdered'
    BY <1>1 DEF AliasInvariant, LevelsOrdered
<1>6. NamespacesUndone'
  <2>1. \A l \in 1 .. lvl, q \in Prefixes : OfPrefix(l, q)' = OfPrefix(l, q)
      BY <1>1 DEF OfPrefix
  <2> SUFFICES ASSUME NEW l \in 1 .. lvl, NEW q \in Prefixes
               PROVE  /\ OfPrefix(l, q) = {} => EndNamespaces(l)'[q] = outer[l].namespaces[q]
                      /\ \A i \in OfPrefix(l, q) : IsOldest(i, OfPrefix(l, q)) =>
                            declarations[i].previousNamespaceId = outer[l].namespaces[q]
      BY <1>1, <2>1 DEF NamespacesUndone
  <2>2. OfPrefix(l, q) = {} => EndNamespaces(l)'[q] = EndNamespaces(l)[q]
      BY <1>1, <1>2, MapEnds
  <2> QED BY <2>2 DEF AliasInvariant, NamespacesUndone
<1>7. PrefixesUndone'
  <2>1. \A l \in 1 .. lvl, m \in Scopes : OfNamespace(l, m)' = OfNamespace(l, m)
      BY <1>1 DEF OfNamespace
  <2> SUFFICES ASSUME NEW l \in 1 .. lvl, NEW m \in Scopes
               PROVE  /\ OfNamespace(l, m) = {} => EndPrefixes(l)'[m] = outer[l].prefixes[m]
                      /\ \A i \in OfNamespace(l, m) : IsOldest(i, OfNamespace(l, m)) =>
                            declarations[i].previousLocalKeyId = outer[l].prefixes[m]
      BY <1>1, <2>1 DEF PrefixesUndone
  <2>2. OfNamespace(l, m) = {} => EndPrefixes(l)'[m] = EndPrefixes(l)[m]
      BY <1>1, <1>3, MapEnds
  <2> QED BY <2>2 DEF AliasInvariant, PrefixesUndone
<1> QED BY <1>1, <1>4, <1>5, <1>6, <1>7 DEF AliasInvariant

(* A step that changes nothing.                                                *)
LEMMA StutterKeeps ==
    ASSUME AliasInvariant, UNCHANGED vars
    PROVE  AliasInvariant'
<1>1. UNCHANGED <<currentStackLevel, localKeyIdToNamespaceIdMap, namespaceIdToLocalKeyIdMap,
                  declarations, outer>>
    BY DEF vars
<1>2. TypeOK' /\ LevelsOrdered'
    BY <1>1 DEF AliasInvariant, TypeOK, LevelsOrdered
<1>3. NamespacesUndone'
    BY <1>1 DEF AliasInvariant, NamespacesUndone, OfPrefix, EndNamespaces
<1>4. PrefixesUndone'
    BY <1>1 DEF AliasInvariant, PrefixesUndone, OfNamespace, EndPrefixes
<1> QED BY <1>1, <1>2, <1>3, <1>4 DEF AliasInvariant

--------------------------------------------------------------------------------
(* The end of an element gives every prefix and every namespace the meaning it *)
(* had before the element (NamespaceAlias::pop, "Original values are restored  *)
(* as well", namespacealias.h:175), however deep the elements and whatever     *)
(* they declare, as long as setNamespacePrefix() maps no prefix of an outer    *)
(* level without a declaration (namespacealias.cpp:93).                        *)
THEOREM OuterScopesAlwaysKept ==
    ASSUME Redeclares = FALSE
    PROVE  Spec => []OuterScopesKept
<1>1. Init => AliasInvariant
    BY InitEstablishes
<1>2. AliasInvariant /\ [Next]_vars => AliasInvariant'
  <2> SUFFICES ASSUME AliasInvariant, [Next]_vars
               PROVE  AliasInvariant'
      OBVIOUS
  <2>1. CASE push
      BY <2>1, PushKeeps
  <2>2. CASE pop
      BY <2>2, PopKeeps
  <2>3. ASSUME NEW p \in Prefixes, NEW n \in Scopes, NEW overwrite \in BOOLEAN,
               setNamespacePrefix(p, n, overwrite)
        PROVE  AliasInvariant'
      BY <2>3, SetNewKeeps, SetAlsoKeeps DEF setNamespacePrefix
  <2>4. CASE UNCHANGED vars
      BY <2>4, StutterKeeps
  <2> QED BY <2>1, <2>2, <2>3, <2>4 DEF Next
<1>3. AliasInvariant => OuterScopesKept
    BY UndoneIsOuter DEF OuterScopesKept
<1> QED BY <1>1, <1>2, <1>3, PTL DEF Spec

-----------------------------------------------------------------------------
\* 2. The numbering of names.

CONSTANTS Threads, Names, NoName, Slots, MaxPages
VARIABLES kind, head, pages, bucket, names, calls, given

Store == INSTANCE Keys

(* One thread numbers names, as the comments of the code want it.              *)
OneCaller ==
  /\ Slots \in Nat /\ Slots # 0 /\ MaxPages \in Nat
  /\ NoName \notin Names
  /\ \A t, u \in Threads : t = u

\* The list of the pages from its head, 0 after its last page.
Follows(list, first, file) ==
  list = [n \in 1 .. MaxPages |->
            IF n = 1 THEN first
            ELSE IF list[n - 1] = 0 THEN 0 ELSE file[list[n - 1]].nextPage]
ListOf(first, file) == CHOOSE list : Follows(list, first, file)
List == ListOf(head, pages)
Listed == {n \in 1 .. MaxPages : List[n] # 0}

Slot(n, s) == pages[List[n]].slots[s]
SlotNumbers == 1 .. Slots
\* The ids continue from page to page.
IdOf(n, s) == (n - 1) * Slots + s

SlotRecord == [id : 0 .. Slots * MaxPages, name : Names \cup {NoName}]
PageRecord == [slots : [SlotNumbers -> SlotRecord], nextPage : 0 .. MaxPages]

\* Pages are linked to pages made later.
PagesLinked ==
  /\ \E k \in 0 .. MaxPages : Store!Pages = 1 .. k
  /\ head \in Store!Pages \cup {0}
  /\ \A p \in Store!Pages :
       /\ pages[p] \in PageRecord
       /\ pages[p].nextPage # 0 => pages[p].nextPage \in Store!Pages /\ p < pages[p].nextPage

MemoryType ==
  /\ kind \in {"keys", "namespaces"}
  /\ bucket \in [Names -> 0 .. Slots * MaxPages]
  /\ names \in [Store!Ids -> Names \cup {NoName}]
  /\ calls \in [Threads -> Store!Call \cup {Store!Idle}]

\* The slots in use come first, in every page and in the list.
Filled(n) ==
  /\ \A s \in SlotNumbers :
       /\ Slot(n, s).id \in {0, IdOf(n, s)}
       /\ Slot(n, s).id = 0 => Slot(n, s).name = NoName
       /\ \A r \in 1 .. s : Slot(n, s).id # 0 => Slot(n, r).id # 0
  /\ pages[List[n]].nextPage # 0 => \A s \in SlotNumbers : Slot(n, s).id # 0

Distinct ==
  \A n, m \in Listed, s, r \in SlotNumbers :
    Slot(n, s).name \in Names /\ Slot(n, s).name = Slot(m, r).name => n = m /\ s = r

\* A name of the file is in the cache, or about to be.
Cached ==
  \A n \in Listed, s \in SlotNumbers : Slot(n, s).name \in Names =>
    \/ bucket[Slot(n, s).name] # 0
    \/ \E t \in Threads : calls[t].step = "fill" /\ calls[t].name = Slot(n, s).name

\* A name of the cache is in the file.
Stored ==
  \A x \in Names : bucket[x] # 0 =>
    /\ names[bucket[x]] = x
    /\ \E n \in Listed, s \in SlotNumbers : Slot(n, s) = [id |-> bucket[x], name |-> x]

Blank(p) ==
  /\ p \in Store!Pages /\ pages[p].nextPage = 0
  /\ \A s \in SlotNumbers : pages[p].slots[s] = [id |-> 0, name |-> NoName]

\* The page n of the list is the one a call has come to.
Reached(c, n) ==
  /\ List[n] = c.page
  /\ c.step = "scan" => c.id = IdOf(n, 0)
  /\ c.step = "link" =>
       /\ c.id = IdOf(n, Slots)
       /\ pages[c.page].nextPage = 0
       /\ \A s \in SlotNumbers : Slot(n, s).id # 0
       /\ Blank(c.new) /\ c.page < c.new
  /\ c.step = "id" =>
       /\ c.slot \in SlotNumbers /\ c.id = IdOf(n, c.slot)
       /\ \A s \in SlotNumbers : Slot(n, s).id # 0 <=> s < c.slot
  /\ c.step = "name" =>
       /\ c.slot \in SlotNumbers /\ c.id # 0
       /\ Slot(n, c.slot) = [id |-> c.id, name |-> NoName]
  /\ c.step = "fill" =>
       /\ c.slot \in SlotNumbers /\ c.id # 0
       /\ Slot(n, c.slot) = [id |-> c.id, name |-> c.name]

CallMeant(c) ==
  c # Store!Idle =>
    /\ bucket[c.name] = 0
    /\ c.step \in {"first", "set"} => c.id = 0
    /\ c.step = "set" => head = 0 /\ Blank(c.page)
    /\ c.step \notin {"first", "set"} => \E n \in Listed : Reached(c, n)

GivenMeant ==
  \A g \in given : g[1] \in Names /\ g[2] # 0 /\ bucket[g[1]] = g[2]

KeysInv ==
  /\ PagesLinked /\ MemoryType
  /\ Follows(List, head, pages)
  /\ \A n \in Listed : Filled(n)
  /\ Distinct /\ Cached /\ Stored /\ GivenMeant
  /\ \A t \in Threads : CallMeant(calls[t])

-----------------------------------------------------------------------------
\* The list of pages.

\* The list of pages has one solution.
LEMMA ListFound ==
  ASSUME OneCaller, NEW first, NEW file, NEW list, Follows(list, first, file)
  PROVE  ListOf(first, file) = list
<1> DEFINE other == ListOf(first, file)
<1>1. Follows(other, first, file)
  BY Zenon DEF ListOf
<1> HIDE DEF other
<1>2. ASSUME NEW a, NEW b, Follows(a, first, file), Follows(b, first, file),
             NEW n \in 1 .. MaxPages, a[n] # b[n]
      PROVE  n # 1 /\ n - 1 \in 1 .. MaxPages /\ a[n - 1] # b[n - 1]
  <2>1. n \in Nat /\ 1 <= n
    BY <1>2
  <2>2. a[n] = IF n = 1 THEN first
               ELSE IF a[n - 1] = 0 THEN 0 ELSE file[a[n - 1]].nextPage
    BY <1>2, Zenon DEF Follows
  <2>3. b[n] = IF n = 1 THEN first
               ELSE IF b[n - 1] = 0 THEN 0 ELSE file[b[n - 1]].nextPage
    BY <1>2, Zenon DEF Follows
  <2>4. n # 1
    BY <1>2, <2>2, <2>3
  <2>5. n - 1 \in 1 .. MaxPages
    BY <1>2, <2>1, <2>4 DEF OneCaller
  <2>6. a[n - 1] # b[n - 1]
    BY <1>2, <2>2, <2>3
  <2>7. QED
    BY <2>4, <2>5, <2>6
<1> DEFINE D == {n \in 1 .. MaxPages : other[n] # list[n]}
<1>3. D = {}
  <2>1. SUFFICES ASSUME D # {} PROVE FALSE
    OBVIOUS
  <2>2. D \in SUBSET Nat
    OBVIOUS
  <2>3. PICK m \in D : \A k \in D : m <= k
    BY <2>1, <2>2, LeastNumber, Zenon
  <2>4. m - 1 \in D
    <3>1. m \in 1 .. MaxPages /\ other[m] # list[m]
      OBVIOUS
    <3>2. m - 1 \in 1 .. MaxPages /\ other[m - 1] # list[m - 1]
      BY <1>1, <1>2, <3>1, Zenon
    <3>3. QED
      BY <3>2
  <2>5. m \in Nat
    BY <2>2
  <2>6. QED
    BY <2>3, <2>4, <2>5
<1>4. \A n \in 1 .. MaxPages : other[n] = list[n]
  BY <1>3
<1>5. other = [n \in 1 .. MaxPages |-> other[n]] /\ list = [n \in 1 .. MaxPages |-> list[n]]
  BY <1>1, Zenon DEF Follows
<1>6. [n \in 1 .. MaxPages |-> other[n]] = [n \in 1 .. MaxPages |-> list[n]]
  BY <1>4, Zenon
<1>7. QED
  BY <1>5, <1>6, Zenon DEF other

\* What the source's loop goes through.
LEMMA NthPageListed == Store!NthPage = List
<1>1. \A list : Follows(list, head, pages) <=>
        list = [n \in 1 .. MaxPages |->
                  IF n = 1 THEN head
                  ELSE IF list[n - 1] = 0 THEN 0 ELSE pages[list[n - 1]].nextPage]
  BY DEF Follows
<1>2. (CHOOSE list : Follows(list, head, pages))
        = CHOOSE list : list = [n \in 1 .. MaxPages |->
                  IF n = 1 THEN head
                  ELSE IF list[n - 1] = 0 THEN 0 ELSE pages[list[n - 1]].nextPage]
  BY <1>1
<1>3. QED
  BY <1>2 DEF Store!NthPage, List, ListOf

LEMMA ListStep ==
  ASSUME Follows(List, head, pages), NEW n \in 1 .. MaxPages
  PROVE  List[n] = IF n = 1 THEN head
                   ELSE IF List[n - 1] = 0 THEN 0 ELSE pages[List[n - 1]].nextPage
<1>1. List = [m \in 1 .. MaxPages |->
                IF m = 1 THEN head
                ELSE IF List[m - 1] = 0 THEN 0 ELSE pages[List[m - 1]].nextPage]
  BY DEF Follows
<1> DEFINE R(m) == IF m = 1 THEN head
                ELSE IF List[m - 1] = 0 THEN 0 ELSE pages[List[m - 1]].nextPage
<1>2. List = [m \in 1 .. MaxPages |-> R(m)]
  BY <1>1
<1>3. List[n] = R(n)
  <2> HIDE DEF R
  <2>1. QED
    BY <1>2
<1>4. QED
  BY <1>3

\* A property of the first page and of the page after each page.
LEMMA ListedPages ==
  ASSUME OneCaller, PagesLinked, Follows(List, head, pages), NEW n \in Listed
  PROVE  /\ n \in 1 .. MaxPages /\ n \in Nat
         /\ List[n] \in Store!Pages /\ List[n] \in Nat
         /\ n <= List[n]
<1> DEFINE D == {m \in 1 .. MaxPages : List[m] # 0 /\ ~(List[m] \in Store!Pages /\ m <= List[m])}
<1>0. PICK k \in 0 .. MaxPages : Store!Pages = 1 .. k
  BY DEF PagesLinked
<1>1. MaxPages \in Nat /\ k \in Nat
  BY <1>0 DEF OneCaller
<1>2. D = {}
  <2>1. SUFFICES ASSUME D # {} PROVE FALSE
    OBVIOUS
  <2>2. D \in SUBSET Nat
    OBVIOUS
  <2>3. PICK m \in D : \A i \in D : m <= i
    BY <2>1, <2>2, LeastNumber, Zenon
  <2>4. m \in Nat /\ m \in 1 .. MaxPages /\ List[m] # 0 /\ ~(List[m] \in Store!Pages /\ m <= List[m])
    BY <2>2
  <2>5. List[m] = IF m = 1 THEN head
                  ELSE IF List[m - 1] = 0 THEN 0 ELSE pages[List[m - 1]].nextPage
    BY <2>4, ListStep, Zenon
  <2>6. m # 1
    <3>1. head \in Store!Pages \cup {0}
      BY DEF PagesLinked
    <3>2. head = 0 \/ (head \in Nat /\ 1 <= head /\ head \in Store!Pages)
      BY <1>0, <1>1, <3>1
    <3>3. QED
      BY <2>4, <2>5, <3>2
  <2>7. m - 1 \in 1 .. MaxPages /\ m - 1 \in Nat
    BY <1>1, <2>4, <2>6
  <2>8. List[m - 1] # 0 /\ List[m] = pages[List[m - 1]].nextPage
    BY <2>4, <2>5, <2>6
  <2>9. m - 1 \notin D
    BY <2>3, <2>4, <2>7
  <2>10. List[m - 1] \in Store!Pages /\ m - 1 <= List[m - 1]
    BY <2>7, <2>8, <2>9
  <2>11. List[m] \in Store!Pages /\ List[m - 1] < List[m]
    BY <2>4, <2>8, <2>10 DEF PagesLinked
  <2>12. List[m - 1] \in Nat /\ List[m] \in Nat
    BY <1>0, <1>1, <2>10, <2>11
  <2>13. m <= List[m]
    BY <2>4, <2>7, <2>10, <2>11, <2>12
  <2>14. QED
    BY <2>4, <2>11, <2>13
<1>3. n \in 1 .. MaxPages /\ List[n] # 0
  BY DEF Listed
<1>4. List[n] \in Store!Pages /\ n <= List[n]
  BY <1>2, <1>3
<1>5. n \in Nat /\ List[n] \in Nat
  BY <1>0, <1>1, <1>3, <1>4
<1>6. QED
  BY <1>3, <1>4, <1>5

\* The pages of the list are in the order they were made in.
LEMMA ListIncreasing ==
  ASSUME OneCaller, PagesLinked, Follows(List, head, pages),
         NEW n \in 1 .. MaxPages, NEW m \in Listed, n < m
  PROVE  n \in Listed /\ List[n] < List[m]
<1> DEFINE D == {i \in Listed : n < i /\ ~(n \in Listed /\ List[n] < List[i])}
<1>1. D = {}
  <2>1. SUFFICES ASSUME D # {} PROVE FALSE
    OBVIOUS
  <2>2. D \in SUBSET Nat
    BY ListedPages
  <2>3. PICK i \in D : \A j \in D : i <= j
    BY <2>1, <2>2, LeastNumber, Zenon
  <2>4. i \in Listed /\ n < i /\ ~(n \in Listed /\ List[n] < List[i])
    OBVIOUS
  <2>5. i \in Nat /\ i \in 1 .. MaxPages /\ List[i] # 0 /\ n \in Nat /\ 1 <= n /\ MaxPages \in Nat
    BY <2>4, ListedPages DEF Listed, OneCaller
  <2>6. List[i] = IF i = 1 THEN head
                  ELSE IF List[i - 1] = 0 THEN 0 ELSE pages[List[i - 1]].nextPage
    BY <2>5, ListStep, Zenon
  <2>7. i - 1 \in 1 .. MaxPages /\ i # 1 /\ i - 1 \in Nat
    BY <2>4, <2>5
  <2>8. List[i - 1] # 0 /\ List[i] = pages[List[i - 1]].nextPage
    BY <2>5, <2>6, <2>7
  <2>9. i - 1 \in Listed
    BY <2>7, <2>8 DEF Listed
  <2>10. List[i - 1] \in Store!Pages /\ List[i - 1] \in Nat
    BY <2>9, ListedPages, Zenon
  <2>11. List[i - 1] < List[i]
    BY <2>5, <2>8, <2>10 DEF PagesLinked
  <2>12. List[i] \in Nat
    BY <2>4, ListedPages, Zenon
  <2>13. CASE n = i - 1
    BY <2>4, <2>9, <2>11, <2>13
  <2>14. CASE n # i - 1
    <3>1. n < i - 1
      BY <2>4, <2>5, <2>14
    <3>2. i - 1 \notin D
      BY <2>3, <2>5, <2>7
    <3>3. n \in Listed /\ List[n] < List[i - 1]
      BY <2>9, <3>1, <3>2
    <3>4. List[n] \in Nat
      BY <3>3, ListedPages, Zenon
    <3>5. QED
      BY <2>4, <2>10, <2>11, <2>12, <3>3, <3>4
  <2>15. QED
    BY <2>13, <2>14
<1>2. QED
  BY <1>1

LEMMA ListInjective ==
  ASSUME OneCaller, PagesLinked, Follows(List, head, pages),
         NEW n \in Listed, NEW m \in Listed, List[n] = List[m]
  PROVE  n = m
<1>1. n \in Nat /\ m \in Nat /\ List[n] \in Nat /\ n \in 1 .. MaxPages /\ m \in 1 .. MaxPages
  BY ListedPages, Zenon
<1>2. ~(n < m)
  <2>1. SUFFICES ASSUME n < m PROVE FALSE
    OBVIOUS
  <2>2. List[n] < List[m]
    BY <1>1, <2>1, ListIncreasing, Zenon
  <2>3. QED
    BY <1>1, <2>2
<1>3. ~(m < n)
  <2>1. SUFFICES ASSUME m < n PROVE FALSE
    OBVIOUS
  <2>2. List[m] < List[n]
    BY <1>1, <2>1, ListIncreasing, Zenon
  <2>3. QED
    BY <1>1, <2>2
<1>4. QED
  BY <1>1, <1>2, <1>3

\* A write that keeps the links of the listed pages keeps the list.
LEMMA ListKept ==
  ASSUME OneCaller, Follows(List, head, pages), head' = head,
         \A n \in Listed : pages'[List[n]].nextPage = pages[List[n]].nextPage
  PROVE  List' = List /\ Follows(List, head', pages') /\ Listed' = Listed
<1> DEFINE R(m) == IF m = 1 THEN head
                   ELSE IF List[m - 1] = 0 THEN 0 ELSE pages[List[m - 1]].nextPage
           Q(m) == IF m = 1 THEN head'
                   ELSE IF List[m - 1] = 0 THEN 0 ELSE pages'[List[m - 1]].nextPage
<1>1. ASSUME NEW m \in 1 .. MaxPages PROVE R(m) = Q(m)
  <2>1. CASE m = 1
    BY <2>1
  <2>2. CASE m # 1
    <3>1. m - 1 \in 1 .. MaxPages
      BY <1>1, <2>2 DEF OneCaller
    <3>2. List[m - 1] # 0 => m - 1 \in Listed
      BY <3>1 DEF Listed
    <3>3. QED
      BY <2>2, <3>2
  <2>3. QED
    BY <2>1, <2>2
<1>2. List = [m \in 1 .. MaxPages |-> R(m)]
  BY DEF Follows
<1>3. List = [m \in 1 .. MaxPages |-> Q(m)]
  <2> HIDE DEF R, Q
  <2>1. [m \in 1 .. MaxPages |-> R(m)] = [m \in 1 .. MaxPages |-> Q(m)]
    BY <1>1, Zenon
  <2>2. QED
    BY <1>2, <2>1, Zenon
<1>4. Follows(List, head', pages')
  BY <1>3 DEF Follows
<1>5. ListOf(head', pages') = List
  BY <1>4, ListFound, Zenon
<1>6. List' = List
  BY <1>5 DEF List
<1>7. QED
  BY <1>4, <1>6 DEF Listed

LEMMA NextListed ==
  ASSUME OneCaller, PagesLinked, Follows(List, head, pages), NEW n \in Listed,
         pages[List[n]].nextPage # 0
  PROVE  n + 1 \in Listed /\ List[n + 1] = pages[List[n]].nextPage
<1>1. n \in Nat /\ 1 <= n /\ n <= List[n] /\ List[n] \in Store!Pages /\ List[n] \in Nat /\ List[n] # 0
  <2>1. n \in 1 .. MaxPages /\ n \in Nat /\ n <= List[n] /\ List[n] \in Store!Pages /\ List[n] \in Nat
    BY ListedPages, Zenon
  <2>2. QED
    BY <2>1 DEF Listed
<1>2. PICK k \in 0 .. MaxPages : Store!Pages = 1 .. k
  BY DEF PagesLinked
<1>3. pages[List[n]].nextPage \in 1 .. k /\ List[n] < pages[List[n]].nextPage
  BY <1>1, <1>2 DEF PagesLinked
<1>4. n + 1 \in 1 .. MaxPages
  BY <1>1, <1>2, <1>3 DEF OneCaller
<1>5. PICK m \in 1 .. MaxPages : m = n + 1
  BY <1>4
<1>6. List[m] = IF m = 1 THEN head
                ELSE IF List[m - 1] = 0 THEN 0 ELSE pages[List[m - 1]].nextPage
  BY ListStep, Zenon
<1>7. m # 1 /\ m - 1 = n
  BY <1>1, <1>5
<1>8. List[m] = pages[List[n]].nextPage
  BY <1>1, <1>6, <1>7
<1>9. QED
  BY <1>4, <1>5, <1>8 DEF Listed

-----------------------------------------------------------------------------
\* The numbers of the slots.

LEMMA ProductOrder ==
  ASSUME NEW i \in Nat, NEW j \in Nat, NEW k \in Nat, i <= j
  PROVE  i * k \in Nat /\ j * k \in Nat /\ i * k <= j * k
<1>1. PICK e \in Nat : j = i + e
  <2>1. j - i \in Nat /\ j = i + (j - i)
    OBVIOUS
  <2>2. QED
    BY <2>1
<1>2. i * k \in Nat /\ e * k \in Nat
  OBVIOUS
<1>3. (i + e) * k = i * k + e * k
  OBVIOUS
<1>4. QED
  BY <1>1, <1>2, <1>3

LEMMA IdOfBounds ==
  ASSUME OneCaller, NEW n \in 1 .. MaxPages, NEW s \in 0 .. Slots
  PROVE  IdOf(n, s) \in 0 .. Slots * MaxPages /\ IdOf(n, s) \in Nat /\ (s # 0 => IdOf(n, s) # 0)
<1>1. n \in Nat /\ n - 1 \in Nat /\ s \in Nat /\ Slots \in Nat /\ MaxPages \in Nat /\ n <= MaxPages
      /\ s <= Slots
  BY DEF OneCaller
<1>2. (n - 1) * Slots \in Nat /\ n * Slots \in Nat /\ MaxPages * Slots \in Nat
      /\ n * Slots <= MaxPages * Slots
  BY <1>1, ProductOrder
<1>3. (n - 1) * Slots + Slots = n * Slots /\ MaxPages * Slots = Slots * MaxPages
  BY <1>1
<1>4. IdOf(n, s) <= Slots * MaxPages /\ IdOf(n, s) \in Nat
  BY <1>1, <1>2, <1>3 DEF IdOf
<1>5. s # 0 => IdOf(n, s) # 0
  BY <1>1, <1>2 DEF IdOf
<1>6. QED
  BY <1>2, <1>3, <1>4, <1>5

LEMMA IdOfBelow ==
  ASSUME OneCaller, NEW n \in 1 .. MaxPages, NEW m \in 1 .. MaxPages,
         NEW s \in SlotNumbers, NEW r \in SlotNumbers, n < m
  PROVE  IdOf(n, s) < IdOf(m, r)
<1>1. n \in Nat /\ n - 1 \in Nat /\ m - 1 \in Nat /\ Slots \in Nat /\ n <= m - 1
      /\ s \in Nat /\ r \in Nat /\ s <= Slots /\ 1 <= r
  BY DEF OneCaller, SlotNumbers
<1>2. n * Slots <= (m - 1) * Slots /\ n * Slots \in Nat /\ (m - 1) * Slots \in Nat
      /\ (n - 1) * Slots \in Nat
  BY <1>1, ProductOrder
<1>3. (n - 1) * Slots + Slots = n * Slots
  BY <1>1
<1>4. QED
  BY <1>1, <1>2, <1>3 DEF IdOf

LEMMA IdOfApart ==
  ASSUME OneCaller, NEW n \in 1 .. MaxPages, NEW m \in 1 .. MaxPages,
         NEW s \in SlotNumbers, NEW r \in SlotNumbers, IdOf(n, s) = IdOf(m, r)
  PROVE  n = m /\ s = r
<1>0. IdOf(n, s) \in Nat /\ IdOf(m, r) \in Nat
  BY IdOfBounds DEF SlotNumbers, OneCaller
<1>1. ~(n < m)
  BY <1>0, IdOfBelow
<1>2. ~(m < n)
  BY <1>0, IdOfBelow
<1>3. n = m
  BY <1>1, <1>2
<1>4. s \in Nat /\ r \in Nat /\ (n - 1) * Slots \in Int /\ n - 1 \in Int
  BY DEF OneCaller, SlotNumbers
<1>5. (n - 1) * Slots + s = (n - 1) * Slots + r
  BY <1>3 DEF IdOf
<1>6. QED
  BY <1>3, <1>4, <1>5

LEMMA IdOfNext ==
  ASSUME OneCaller, NEW n \in 1 .. MaxPages, NEW s \in 0 .. Slots
  PROVE  IdOf(n, s) + 1 = IdOf(n, s + 1) /\ IdOf(n, Slots) = IdOf(n + 1, 0) /\ IdOf(1, 0) = 0
<1>1. n \in Nat /\ n - 1 \in Nat /\ s \in Nat /\ Slots \in Nat
  BY DEF OneCaller
<1>2. (n - 1) * Slots \in Nat /\ n * Slots \in Nat
  BY <1>1
<1>3. (n - 1) * Slots + Slots = n * Slots /\ n + 1 - 1 = n /\ (1 - 1) * Slots = 0
  BY <1>1
<1>4. IdOf(n, s) + 1 = IdOf(n, s + 1)
  BY <1>1, <1>2 DEF IdOf
<1>5. IdOf(n, Slots) = IdOf(n + 1, 0)
  BY <1>1, <1>2, <1>3 DEF IdOf
<1>6. IdOf(1, 0) = 0
  BY <1>3 DEF IdOf
<1>7. QED
  BY <1>4, <1>5, <1>6

-----------------------------------------------------------------------------
\* The writes of pages.

LEMMA SameCardinality == Store!Cardinality(Store!Pages) = Cardinality(Store!Pages)
  BY Zenon DEF Store!Cardinality, Cardinality, Store!IsFiniteSet, IsFiniteSet

LEMMA PageAdded ==
  ASSUME OneCaller, PagesLinked, Follows(List, head, pages), head' = head,
         NEW new, new = Store!NewPage, new <= MaxPages, Store!AddPage
  PROVE  /\ PagesLinked'
         /\ List' = List /\ Listed' = Listed /\ Follows(List, head', pages')
         /\ \A p \in Store!Pages : pages'[p] = pages[p] /\ p < new
         /\ Blank(new)' /\ new \in 1 .. MaxPages
<1>1. PICK k \in 0 .. MaxPages : Store!Pages = 1 .. k
  BY DEF PagesLinked
<1>2. k \in Nat /\ MaxPages \in Nat
  BY <1>1 DEF OneCaller
<1>3. Cardinality(Store!Pages) = k
  BY <1>1, <1>2, InitialSegment
<1>4. new = k + 1
  BY <1>3, SameCardinality DEF Store!NewPage
<1>5. new \in 1 .. MaxPages /\ new \notin Store!Pages /\ Store!Pages \cup {new} = 1 .. (k + 1)
      /\ new \in Nat
  BY <1>1, <1>2, <1>4
<1>6. pages' = [p \in Store!Pages \cup {new} |->
                  IF p \in Store!Pages THEN pages[p]
                  ELSE [slots |-> [s \in 1 .. Slots |-> [id |-> 0, name |-> NoName]],
                        nextPage |-> 0]]
  BY DEF Store!AddPage
<1>7. Store!Pages' = Store!Pages \cup {new}
  <2>1. DOMAIN pages' = Store!Pages \cup {new}
    BY <1>6
  <2>2. QED
    BY <2>1 DEF Store!Pages
<1>8. \A p \in Store!Pages : pages'[p] = pages[p]
  BY <1>6
<1>9. pages'[new] = [slots |-> [s \in SlotNumbers |-> [id |-> 0, name |-> NoName]], nextPage |-> 0]
  BY <1>5, <1>6 DEF SlotNumbers
<1>10. /\ pages'[new].nextPage = 0
       /\ \A s \in SlotNumbers : pages'[new].slots[s] = [id |-> 0, name |-> NoName]
       /\ pages'[new].slots = [s \in SlotNumbers |-> [id |-> 0, name |-> NoName]]
  BY <1>9
<1>11. \A p \in Store!Pages : p < new
  BY <1>1, <1>2, <1>4
<1>12. pages'[new] \in PageRecord
  <2>1. Slots * MaxPages \in Nat /\ 0 \in 0 .. MaxPages
    BY <1>2 DEF OneCaller
  <2>2. [id |-> 0, name |-> NoName] \in SlotRecord
    BY <2>1 DEF SlotRecord
  <2>3. [s \in SlotNumbers |-> [id |-> 0, name |-> NoName]] \in [SlotNumbers -> SlotRecord]
    BY <2>2, Zenon
  <2> DEFINE empty == [s \in SlotNumbers |-> [id |-> 0, name |-> NoName]]
  <2>4. empty \in [SlotNumbers -> SlotRecord]
    BY <2>3
  <2> HIDE DEF empty
  <2>5. [slots |-> empty, nextPage |-> 0] \in PageRecord
    BY <2>1, <2>4 DEF PageRecord
  <2>6. QED
    BY <1>9, <2>5 DEF empty
<1>13. PagesLinked'
  <2>1. \E i \in 0 .. MaxPages : Store!Pages' = 1 .. i
    BY <1>2, <1>4, <1>5, <1>7
  <2>2. head' \in Store!Pages' \cup {0}
    BY <1>7 DEF PagesLinked
  <2>3. ASSUME NEW p \in Store!Pages'
        PROVE  /\ pages'[p] \in PageRecord
               /\ pages'[p].nextPage # 0 =>
                    pages'[p].nextPage \in Store!Pages' /\ p < pages'[p].nextPage
    <3>1. CASE p \in Store!Pages
      <4>1. pages'[p] = pages[p]
        BY <1>8, <3>1
      <4>2. /\ pages[p] \in PageRecord
            /\ pages[p].nextPage # 0 => pages[p].nextPage \in Store!Pages /\ p < pages[p].nextPage
        BY <3>1 DEF PagesLinked
      <4>3. QED
        BY <1>7, <4>1, <4>2
    <3>2. CASE p = new
      BY <1>10, <1>12, <3>2
    <3>3. QED
      BY <1>7, <2>3, <3>1, <3>2
  <2>4. QED
    BY <2>1, <2>2, <2>3 DEF PagesLinked
<1>14. List' = List /\ Listed' = Listed /\ Follows(List, head', pages')
  <2>1. \A n \in Listed : pages'[List[n]].nextPage = pages[List[n]].nextPage
    BY <1>8, ListedPages
  <2>2. QED
    BY <2>1, ListKept, Zenon
<1>15. Blank(new)'
  <2>1. new \in Store!Pages'
    BY <1>7
  <2>2. QED
    BY <1>10, <2>1 DEF Blank
<1>16. QED
  BY <1>5, <1>8, <1>11, <1>13, <1>14, <1>15

-----------------------------------------------------------------------------
\* The steps of a call.

\* The call of the one thread, and what it moves to.
LEMMA CallOf ==
  ASSUME KeysInv, NEW t \in Threads, calls[t].step # "idle"
  PROVE  /\ calls[t] \in Store!Call /\ calls[t] # Store!Idle
         /\ calls[t].name \in Names /\ bucket[calls[t].name] = 0
         /\ calls[t].step \in {"first", "set"} => calls[t].id = 0
         /\ calls[t].step = "set" => head = 0 /\ Blank(calls[t].page)
         /\ calls[t].step \notin {"first", "set"} => \E n \in Listed : Reached(calls[t], n)
<1>1. calls[t] \in Store!Call \cup {Store!Idle}
  BY DEF KeysInv, MemoryType
<1>2. calls[t] # Store!Idle
  BY DEF Store!Idle
<1>3. calls[t].name \in Names
  BY <1>1, <1>2 DEF Store!Call
<1>4. CallMeant(calls[t])
  BY DEF KeysInv
<1>5. QED
  BY <1>1, <1>2, <1>3, <1>4 DEF CallMeant

\* The pages of the list that were not written mean what they meant.
LEMMA SlotsKept ==
  ASSUME KeysInv, List' = List, Listed' = Listed,
         \A n \in Listed : pages'[List[n]] = pages[List[n]]
  PROVE  /\ \A n \in Listed' : Filled(n)'
         /\ Distinct'
         /\ \A n \in Listed, s \in SlotNumbers : Slot(n, s)' = Slot(n, s)
<1>1. \A n \in Listed : \A s : Slot(n, s)' = Slot(n, s)
  BY DEF Slot
<1>2. ASSUME NEW n \in Listed' PROVE Filled(n)'
  <2>1. n \in Listed /\ Filled(n)
    BY DEF KeysInv
  <2>2. pages'[List'[n]] = pages[List[n]]
    BY <2>1
  <2>3. \A s : Slot(n, s)' = Slot(n, s)
    BY <1>1, <2>1
  <2>4. QED
    BY <2>1, <2>2, <2>3 DEF Filled, IdOf, SlotNumbers
<1>3. Distinct'
  <2>1. Distinct
    BY DEF KeysInv
  <2>2. QED
    BY <1>1, <2>1 DEF Distinct, SlotNumbers
<1>4. QED
  BY <1>1, <1>2, <1>3

\* A step changes no slot that has a name, and names none but for the cache to know of it.
NamesStay(d) ==
  /\ \A n \in Listed, s \in SlotNumbers :
       n \in Listed' /\ (Slot(n, s)' = Slot(n, s) \/ Slot(n, s).name = NoName)
  /\ \A n \in Listed', s \in SlotNumbers :
       \/ n \in Listed /\ Slot(n, s)' = Slot(n, s)
       \/ Slot(n, s)'.name = NoName
       \/ d.step = "fill" /\ Slot(n, s)'.name = d.name

\* What one thread's step before the filling of the cache keeps.
LEMMA CacheKept ==
  ASSUME OneCaller, KeysInv, UNCHANGED <<kind, bucket, names, given>>,
         NEW t \in Threads, NEW d \in Store!Call \cup {Store!Idle},
         calls' = [calls EXCEPT ![t] = d],
         calls[t].step # "fill", NamesStay(d)
  PROVE  /\ MemoryType' /\ Cached' /\ Stored' /\ GivenMeant'
         /\ calls'[t] = d /\ \A u \in Threads : u = t
<1>1. MemoryType /\ Cached /\ Stored /\ GivenMeant
  BY DEF KeysInv
<1>0. /\ \A n \in Listed, s \in SlotNumbers :
           n \in Listed' /\ (Slot(n, s)' = Slot(n, s) \/ Slot(n, s).name = NoName)
      /\ \A n \in Listed', s \in SlotNumbers :
           \/ n \in Listed /\ Slot(n, s)' = Slot(n, s)
           \/ Slot(n, s)'.name = NoName
           \/ d.step = "fill" /\ Slot(n, s)'.name = d.name
  BY DEF NamesStay
<1>2. calls \in [Threads -> Store!Call \cup {Store!Idle}]
  BY <1>1 DEF MemoryType
<1>3. /\ calls' \in [Threads -> Store!Call \cup {Store!Idle}]
      /\ calls'[t] = d /\ \A u \in Threads : u = t
  <2>1. calls' \in [Threads -> Store!Call \cup {Store!Idle}] /\ calls'[t] = d
    BY <1>2
  <2>2. \A u \in Threads : u = t
    BY DEF OneCaller
  <2>3. QED
    BY <2>1, <2>2
<1>4. MemoryType'
  BY <1>1, <1>3 DEF MemoryType, Store!Ids
<1>5. Cached'
  <2>1. SUFFICES ASSUME NEW n \in Listed', NEW s \in SlotNumbers, Slot(n, s)'.name \in Names
                 PROVE  \/ bucket'[Slot(n, s)'.name] # 0
                        \/ \E u \in Threads : calls'[u].step = "fill" /\ calls'[u].name = Slot(n, s)'.name
    BY DEF Cached, SlotNumbers
  <2>2. CASE d.step = "fill" /\ Slot(n, s)'.name = d.name
    BY <1>3, <2>2
  <2>3. CASE n \in Listed /\ Slot(n, s)' = Slot(n, s)
    <3>1. CASE bucket[Slot(n, s).name] # 0
      BY <2>3, <3>1
    <3>2. CASE \E u \in Threads : calls[u].step = "fill" /\ calls[u].name = Slot(n, s).name
      BY <1>3, <2>3, <3>2
    <3>3. QED
      BY <1>1, <2>1, <2>3, <3>1, <3>2 DEF Cached
  <2>4. Slot(n, s)'.name # NoName
    BY <2>1 DEF OneCaller
  <2>5. QED
    BY <1>0, <2>2, <2>3, <2>4
<1>6. Stored'
  <2>1. SUFFICES ASSUME NEW x \in Names, bucket[x] # 0
                 PROVE  /\ names[bucket[x]] = x
                        /\ \E n \in Listed', s \in SlotNumbers :
                             Slot(n, s)' = [id |-> bucket[x], name |-> x]
    BY DEF Stored, SlotNumbers
  <2>2. /\ names[bucket[x]] = x
        /\ \E n \in Listed, s \in SlotNumbers : Slot(n, s) = [id |-> bucket[x], name |-> x]
    BY <1>1, <2>1 DEF Stored
  <2>3. PICK n \in Listed, s \in SlotNumbers : Slot(n, s) = [id |-> bucket[x], name |-> x]
    BY <2>2
  <2>4. n \in Listed' /\ Slot(n, s)' = [id |-> bucket[x], name |-> x]
    <3>1. Slot(n, s).name # NoName
      BY <2>3 DEF OneCaller
    <3>2. n \in Listed' /\ Slot(n, s)' = Slot(n, s)
      BY <1>0, <3>1
    <3>3. QED
      BY <2>3, <3>2
  <2>5. QED
    BY <2>2, <2>4
<1>7. GivenMeant'
  BY <1>1 DEF GivenMeant
<1>8. QED
  BY <1>3, <1>4, <1>5, <1>6, <1>7

\* The invariant after a step, from its parts.
LEMMA Concluded ==
  ASSUME OneCaller, PagesLinked', Follows(List', head', pages'),
         \A n \in Listed' : Filled(n)', Distinct',
         MemoryType', Cached', Stored', GivenMeant',
         NEW t \in Threads, NEW d, calls'[t] = d, CallMeant(d)'
  PROVE  KeysInv'
<1>1. \A u \in Threads : u = t
  BY DEF OneCaller
<1>2. CallMeant(calls[t])'
  BY DEF CallMeant, Reached, Blank
<1>3. \A u \in Threads : CallMeant(calls[u])'
  BY <1>1, <1>2
<1>4. Follows(List, head, pages)'
  BY DEF Follows
<1>5. QED
  BY <1>3, <1>4 DEF KeysInv

LEMMA StepInMemory ==
  ASSUME OneCaller, KeysInv, UNCHANGED <<kind, head, pages, bucket, names, given>>,
         NEW t \in Threads, NEW d \in Store!Call \cup {Store!Idle},
         calls' = [calls EXCEPT ![t] = d],
         calls[t].step # "fill", CallMeant(d)'
  PROVE  KeysInv'
<1>1. PagesLinked /\ Follows(List, head, pages)
  BY DEF KeysInv
<1>2. List' = List /\ Listed' = Listed
  BY DEF List, Listed, Follows
<1>3. PagesLinked'
  BY <1>1 DEF PagesLinked, Store!Pages
<1>4. Follows(List', head', pages')
  BY <1>1, <1>2, Zenon
<1>5. /\ \A n \in Listed' : Filled(n)'
      /\ Distinct'
      /\ \A n \in Listed, s \in SlotNumbers : Slot(n, s)' = Slot(n, s)
  BY <1>2, SlotsKept
<1>6. MemoryType' /\ Cached' /\ Stored' /\ GivenMeant' /\ calls'[t] = d
  <2>1. NamesStay(d)
    BY <1>2, <1>5 DEF NamesStay
  <2>2. calls[t].step # "fill"
    BY <1>1
  <2>3. QED
    BY <1>2, <1>5, <2>1, <2>2, CacheKept
<1>7. QED
  BY <1>3, <1>4, <1>5, <1>6, Concluded

LEMMA addInStoreKeeps ==
  ASSUME OneCaller, KeysInv, NEW t \in Threads, NEW n \in Names, Store!addInStore(t, n)
  PROVE  KeysInv'
<1>1. /\ calls[t] = Store!Idle /\ bucket[n] = 0
      /\ calls' = [calls EXCEPT ![t] = [step |-> "first", name |-> n, page |-> 0, new |-> 0,
                                        id |-> 0, slot |-> 0]]
      /\ UNCHANGED <<kind, head, pages, bucket, names, given>>
  BY DEF Store!addInStore, Store!file, Store!cache
<1>2. PICK d : d = [step |-> "first", name |-> n, page |-> 0, new |-> 0, id |-> 0, slot |-> 0]
  OBVIOUS
<1>3. d \in Store!Call
  <2>1. 0 \in 0 .. Slots * MaxPages /\ 0 \in 0 .. MaxPages /\ 0 \in 0 .. Slots
    BY DEF OneCaller
  <2>2. QED
    BY <1>2, <2>1 DEF Store!Call
<1>4. d.step = "first" /\ d.name = n /\ d.id = 0
  BY <1>2
<1>5. CallMeant(d)'
  BY <1>1, <1>4 DEF CallMeant
<1>6. calls[t].step # "fill"
  BY <1>1 DEF Store!Idle
<1>7. calls' = [calls EXCEPT ![t] = d]
  BY <1>1, <1>2
<1>8. QED
  BY <1>1, <1>3, <1>5, <1>6, <1>7, StepInMemory

LEMMA NothingMoved ==
  ASSUME KeysInv, UNCHANGED <<kind, head, pages, bucket, names, calls>>, GivenMeant'
  PROVE  KeysInv'
<1>1. /\ kind' = kind /\ head' = head /\ pages' = pages /\ bucket' = bucket
      /\ names' = names /\ calls' = calls
  OBVIOUS
<1>2. List' = List /\ Listed' = Listed /\ Store!Pages' = Store!Pages /\ \A m, s : Slot(m, s)' = Slot(m, s)
  BY <1>1 DEF List, Listed, Slot, Store!Pages
<1>3. PagesLinked'
  <2>1. PagesLinked
    BY DEF KeysInv
  <2>2. QED
    BY <1>1, <1>2, <2>1 DEF PagesLinked
<1>4. MemoryType'
  <2>1. MemoryType
    BY DEF KeysInv
  <2>2. QED
    BY <1>1, <2>1 DEF MemoryType, Store!Ids
<1>5. Follows(List, head, pages)'
  <2>1. Follows(List, head, pages)
    BY DEF KeysInv
  <2>2. QED
    BY <1>1, <1>2, <2>1 DEF Follows
<1>6. (\A m \in Listed : Filled(m))'
  <2>1. \A m \in Listed : Filled(m)
    BY DEF KeysInv
  <2>2. QED
    BY <1>1, <1>2, <2>1 DEF Filled, IdOf, SlotNumbers
<1>7. Distinct' /\ Cached' /\ Stored'
  <2>1. Distinct /\ Cached /\ Stored
    BY DEF KeysInv
  <2>2. Distinct'
    BY <1>2, <2>1 DEF Distinct, SlotNumbers
  <2>3. Cached'
    BY <1>1, <1>2, <2>1 DEF Cached, SlotNumbers
  <2>4. Stored'
    BY <1>1, <1>2, <2>1 DEF Stored, SlotNumbers
  <2>5. QED
    BY <2>2, <2>3, <2>4
<1>8. \A u \in Threads : CallMeant(calls[u])'
  <2>1. \A u \in Threads : CallMeant(calls[u])
    BY DEF KeysInv
  <2>2. QED
    BY <1>1, <1>2, <2>1 DEF CallMeant, Reached, Blank, IdOf, SlotNumbers
<1>9. QED
  BY <1>3, <1>4, <1>5, <1>6, <1>7, <1>8 DEF KeysInv

LEMMA getFromCacheKeeps ==
  ASSUME OneCaller, KeysInv, NEW t \in Threads, NEW n \in Names, Store!getFromCache(t, n)
  PROVE  KeysInv'
<1>1. /\ calls[t] = Store!Idle /\ bucket[n] # 0
      /\ given' = given \cup {<<n, bucket[n]>>}
      /\ UNCHANGED <<kind, head, pages, bucket, names, calls>>
  BY DEF Store!getFromCache, Store!file, Store!cache
<1>2. GivenMeant'
  <2>1. GivenMeant
    BY DEF KeysInv
  <2>2. SUFFICES ASSUME NEW g \in given' PROVE g[1] \in Names /\ g[2] # 0 /\ bucket[g[1]] = g[2]
    BY <1>1 DEF GivenMeant
  <2>3. CASE g \in given
    BY <2>1, <2>3 DEF GivenMeant
  <2>4. CASE g = <<n, bucket[n]>>
    BY <1>1, <2>4
  <2>5. QED
    BY <1>1, <2>3, <2>4
<1>3. QED
  BY <1>1, <1>2, NothingMoved

\* The first page of a call is the head of the list, or a new page.
LEMMA FirstPageKeeps ==
  ASSUME OneCaller, KeysInv, NEW t \in Threads, Store!FirstPage(t)
  PROVE  KeysInv'
<1> DEFINE c == calls[t]
<1>1. /\ c.step = "first"
      /\ UNCHANGED <<kind, head, bucket, names, given>>
  BY DEF Store!FirstPage, Store!At, Store!cache
<1>2. /\ c \in Store!Call /\ c # Store!Idle
      /\ c.name \in Names /\ bucket[c.name] = 0 /\ c.id = 0
  BY <1>1, CallOf
<1>4. PagesLinked /\ Follows(List, head, pages)
  BY DEF KeysInv
<1>5. CASE head # 0 /\ calls' = [calls EXCEPT ![t].page = head, ![t].step = "scan"] /\ pages' = pages
  <2>1. PICK d : d = [calls[t] EXCEPT !.page = head, !.step = "scan"]
    OBVIOUS
  <2>2. calls' = [calls EXCEPT ![t] = d]
    <3>1. calls' = [calls EXCEPT ![t] = [calls[t] EXCEPT !.page = head, !.step = "scan"]]
      BY <1>5
    <3>2. QED
      BY <2>1, <3>1
  <2>3. head \in 1 .. MaxPages /\ head \in 0 .. MaxPages /\ 1 \in 1 .. MaxPages
    BY <1>4, <1>5 DEF PagesLinked, OneCaller
  <2>4. /\ d \in Store!Call
        /\ d.step = "scan" /\ d.name = c.name /\ d.page = head /\ d.id = 0
    <3>2. /\ d \in Store!Call
          /\ d.step = "scan" /\ d.name = c.name /\ d.page = head /\ d.id = c.id
      BY <1>2, <2>1, <2>3 DEF Store!Call
    <3>3. QED
      BY <1>2, <3>2
  <2>5. List[1] = head /\ 1 \in Listed
    <3>1. List[1] = IF 1 = 1 THEN head
                    ELSE IF List[1 - 1] = 0 THEN 0 ELSE pages[List[1 - 1]].nextPage
      BY <1>4, <2>3, ListStep, Zenon
    <3>2. QED
      BY <1>5, <2>3, <3>1 DEF Listed
  <2>6. Reached(d, 1)
    <3>1. IdOf(1, 0) = 0
      BY DEF IdOf, OneCaller
    <3>2. QED
      BY <2>4, <2>5, <3>1 DEF Reached
  <2>7. List' = List /\ Listed' = Listed
    BY <1>1, <1>5 DEF List, Listed
  <2>8. CallMeant(d)'
    <3>1. Reached(d, 1)' /\ 1 \in Listed'
      BY <2>4, <2>5, <2>6, <2>7 DEF Reached, IdOf
    <3>2. QED
      BY <1>1, <1>2, <2>4, <3>1 DEF CallMeant
  <2>9. QED
    BY <1>1, <1>5, <2>2, <2>4, <2>8, StepInMemory
<1>6. CASE /\ head = 0 /\ Store!NewPage <= MaxPages /\ Store!AddPage
           /\ calls' = [calls EXCEPT ![t].page = Store!NewPage, ![t].step = "set"]
  <2>0. PICK new : new = Store!NewPage
    OBVIOUS
  <2>1. PICK d : d = [calls[t] EXCEPT !.page = new, !.step = "set"]
    OBVIOUS
  <2>2. calls' = [calls EXCEPT ![t] = d]
    <3>1. calls' = [calls EXCEPT ![t] = [calls[t] EXCEPT !.page = new, !.step = "set"]]
      BY <1>6, <2>0
    <3>2. QED
      BY <2>1, <3>1
  <2>3. /\ PagesLinked'
        /\ List' = List /\ Listed' = Listed /\ Follows(List, head', pages')
        /\ \A p \in Store!Pages : pages'[p] = pages[p] /\ p < new
        /\ Blank(new)' /\ new \in 1 .. MaxPages
    BY <1>1, <1>4, <1>6, <2>0, PageAdded
  <2>4. /\ d \in Store!Call
        /\ d.step = "set" /\ d.name = c.name /\ d.page = new /\ d.id = 0
    <3>1. new \in 0 .. MaxPages
      BY <2>3 DEF OneCaller
    <3>2. /\ d \in Store!Call
          /\ d.step = "set" /\ d.name = c.name /\ d.page = new /\ d.id = c.id
      BY <1>2, <2>1, <3>1 DEF Store!Call
    <3>3. QED
      BY <1>2, <3>2
  <2>5. CallMeant(d)'
    BY <1>1, <1>2, <1>6, <2>3, <2>4 DEF CallMeant, Blank
  <2>6. \A n \in Listed : pages'[List[n]] = pages[List[n]]
    BY <1>4, <2>3, ListedPages
  <2>7. /\ \A n \in Listed' : Filled(n)'
        /\ Distinct'
        /\ \A n \in Listed, s \in SlotNumbers : Slot(n, s)' = Slot(n, s)
    BY <2>3, <2>6, SlotsKept
  <2>8. MemoryType' /\ Cached' /\ Stored' /\ GivenMeant' /\ calls'[t] = d
    <3>1. NamesStay(d)
      BY <1>1, <2>2, <2>3, <2>4, <2>7 DEF NamesStay
    <3>2. calls[t].step # "fill"
      BY <1>1
    <3>3. QED
      BY <1>1, <2>2, <2>3, <2>4, <2>7, <3>1, <3>2, CacheKept
  <2>9. Follows(List', head', pages')
    BY <2>3, Zenon
  <2>10. QED
    BY <2>3, <2>5, <2>7, <2>8, <2>9, Concluded
<1>7. QED
  BY <1>5, <1>6 DEF Store!FirstPage

LEMMA NoPageListed ==
  ASSUME OneCaller, PagesLinked, Follows(List, head, pages), head = 0
  PROVE  Listed = {}
<1>1. SUFFICES ASSUME NEW n \in Listed PROVE FALSE
  OBVIOUS
<1>2. n \in 1 .. MaxPages /\ n \in Nat /\ 1 \in 1 .. MaxPages
  BY ListedPages DEF OneCaller
<1>3. List[1] = IF 1 = 1 THEN head
                ELSE IF List[1 - 1] = 0 THEN 0 ELSE pages[List[1 - 1]].nextPage
  BY <1>2, ListStep, Zenon
<1>4. 1 \notin Listed
  BY <1>3 DEF Listed
<1>5. 1 < n
  BY <1>2, <1>4
<1>6. QED
  BY <1>2, <1>4, <1>5, ListIncreasing

\* The first page of the list is blank.
LEMMA SetHeadKeeps ==
  ASSUME OneCaller, KeysInv, NEW t \in Threads, Store!SetHead(t)
  PROVE  KeysInv'
<1> DEFINE c == calls[t]
<1>1. /\ c.step = "set" /\ head' = c.page
      /\ calls' = [calls EXCEPT ![t].step = "scan"]
      /\ UNCHANGED <<kind, pages, bucket, names, given>>
  BY DEF Store!SetHead, Store!At, Store!cache
<1>2. /\ c \in Store!Call /\ c # Store!Idle /\ head = 0 /\ Blank(c.page)
      /\ c.name \in Names /\ bucket[c.name] = 0 /\ c.id = 0
  BY <1>1, CallOf
<1>3. PagesLinked /\ Follows(List, head, pages) /\ Listed = {}
  <2>1. PagesLinked /\ Follows(List, head, pages)
    BY DEF KeysInv
  <2>2. QED
    BY <1>2, <2>1, NoPageListed
<1>4. /\ c.page \in Store!Pages /\ c.page \in 1 .. MaxPages /\ c.page # 0 /\ 1 \in 1 .. MaxPages
      /\ pages[c.page].nextPage = 0
      /\ \A s \in SlotNumbers : pages[c.page].slots[s] = [id |-> 0, name |-> NoName]
  <2>1. /\ c.page \in Store!Pages /\ pages[c.page].nextPage = 0
        /\ \A s \in SlotNumbers : pages[c.page].slots[s] = [id |-> 0, name |-> NoName]
    BY <1>2 DEF Blank
  <2>2. c.page \in 1 .. MaxPages /\ c.page # 0 /\ 1 \in 1 .. MaxPages
    BY <1>3, <2>1 DEF PagesLinked, OneCaller
  <2>3. QED
    BY <2>1, <2>2
<1>5. PICK list : list = [n \in 1 .. MaxPages |-> IF n = 1 THEN c.page ELSE 0]
  OBVIOUS
<1>6. Follows(list, head', pages')
  <2> DEFINE R(n) == IF n = 1 THEN head'
                     ELSE IF list[n - 1] = 0 THEN 0 ELSE pages'[list[n - 1]].nextPage
             Q(n) == IF n = 1 THEN c.page ELSE 0
  <2>1. ASSUME NEW n \in 1 .. MaxPages PROVE Q(n) = R(n)
    <3>1. CASE n = 1
      BY <1>1, <3>1
    <3>2. CASE n # 1
      <4>1. n - 1 \in 1 .. MaxPages
        BY <3>2 DEF OneCaller
      <4>2. list[n - 1] \in {0, c.page}
        BY <1>5, <4>1
      <4>3. QED
        BY <1>1, <1>4, <3>2, <4>2
    <3>3. QED
      BY <3>1, <3>2
  <2>2. list = [n \in 1 .. MaxPages |-> Q(n)]
    BY <1>5
  <2>3. list = [n \in 1 .. MaxPages |-> R(n)]
    <3> HIDE DEF Q, R
    <3>1. [n \in 1 .. MaxPages |-> Q(n)] = [n \in 1 .. MaxPages |-> R(n)]
      BY <2>1, Zenon
    <3>2. QED
      BY <2>2, <3>1, Zenon
  <2>4. QED
    BY <2>3 DEF Follows
<1>7. List' = list
  <2>1. ListOf(head', pages') = list
    BY <1>6, ListFound, Zenon
  <2>2. QED
    BY <2>1 DEF List
<1>8. Listed' = {1} /\ List'[1] = c.page
  BY <1>4, <1>5, <1>7 DEF Listed
<1>9. \A s \in SlotNumbers : Slot(1, s)' = [id |-> 0, name |-> NoName]
  BY <1>1, <1>4, <1>8 DEF Slot
<1>10. Follows(List', head', pages')
  BY <1>6, <1>7, Zenon
<1>11. PagesLinked'
  BY <1>1, <1>3, <1>4 DEF PagesLinked, Store!Pages
<1>12. ASSUME NEW n \in Listed' PROVE Filled(n)'
  <2>1. n = 1
    BY <1>8
  <2>2. pages'[List'[1]].nextPage = 0
    BY <1>1, <1>4, <1>8
  <2>3. \A s \in SlotNumbers : Slot(1, s)'.id = 0 /\ Slot(1, s)'.name = NoName
    BY <1>9
  <2>4. Filled(1)'
    BY <2>2, <2>3 DEF Filled, SlotNumbers
  <2>5. QED
    BY <2>1, <2>4
<1>13. Distinct'
  <2>1. \A n \in Listed', s \in SlotNumbers : Slot(n, s)'.name = NoName
    BY <1>8, <1>9
  <2>2. QED
    BY <2>1 DEF Distinct, OneCaller, SlotNumbers
<1>14. PICK d : d = [calls[t] EXCEPT !.step = "scan"]
  OBVIOUS
<1>15. calls' = [calls EXCEPT ![t] = d]
  <2>1. calls' = [calls EXCEPT ![t] = [calls[t] EXCEPT !.step = "scan"]]
    BY <1>1
  <2>2. QED
    BY <1>14, <2>1
<1>16. /\ d \in Store!Call
       /\ d.step = "scan" /\ d.name = c.name /\ d.page = c.page /\ d.id = 0
  BY <1>2, <1>14 DEF Store!Call
<1>17. CallMeant(d)'
  <2>1. IdOf(1, 0) = 0
    BY DEF IdOf, OneCaller
  <2>2. Reached(d, 1)' /\ 1 \in Listed'
    BY <1>8, <1>16, <2>1 DEF Reached, IdOf
  <2>3. QED
    BY <1>1, <1>2, <1>16, <2>2 DEF CallMeant
<1>18. /\ \A n \in Listed, s \in SlotNumbers : n \in Listed' /\ Slot(n, s)' = Slot(n, s)
       /\ \A n \in Listed', s \in SlotNumbers : Slot(n, s)'.name = NoName
  BY <1>3, <1>8, <1>9
<1>19. MemoryType' /\ Cached' /\ Stored' /\ GivenMeant' /\ calls'[t] = d
  <2>1. NamesStay(d)
    BY <1>1, <1>15, <1>16, <1>18 DEF NamesStay
  <2>2. calls[t].step # "fill"
    BY <1>1
  <2>3. QED
    BY <1>1, <1>15, <1>16, <1>18, <2>1, <2>2, CacheKept
<1>20. QED
  BY <1>10, <1>11, <1>12, <1>13, <1>17, <1>19, Concluded

-----------------------------------------------------------------------------
\* The search of a free slot.

LEMMA ScanPageKeeps ==
  ASSUME OneCaller, KeysInv, NEW t \in Threads, Store!ScanPage(t)
  PROVE  KeysInv'
<1> DEFINE c == calls[t]
           goesOn == pages[c.page].nextPage # 0 /\ (kind = "namespaces" \/ Store!Free(c.page) = {})
           last == pages[c.page].slots[Slots].id
<1>1. c.step = "scan" /\ UNCHANGED <<kind, head, bucket, names, given>>
  BY DEF Store!ScanPage, Store!At, Store!cache
<1>2. /\ c \in Store!Call /\ c # Store!Idle /\ c.name \in Names /\ bucket[c.name] = 0
      /\ \E n \in Listed : Reached(c, n)
  BY <1>1, CallOf
<1>3. PICK n \in Listed : Reached(c, n)
  BY <1>2
<1>4. List[n] = c.page /\ c.id = IdOf(n, 0)
  BY <1>1, <1>3 DEF Reached
<1>5. PagesLinked /\ Follows(List, head, pages) /\ Filled(n)
  BY DEF KeysInv
<1>6. /\ n \in 1 .. MaxPages /\ n \in Nat
      /\ c.page \in Store!Pages /\ c.page \in Nat /\ n <= c.page
  BY <1>4, <1>5, ListedPages
<1>7. Slots \in SlotNumbers /\ Slots \in 0 .. Slots /\ \A s \in SlotNumbers : s \in Nat /\ s \in 0 .. Slots
  BY DEF OneCaller, SlotNumbers
<1>8. (\A s \in SlotNumbers : Slot(n, s).id # 0) => last = IdOf(n, Slots)
  <2>1. Slot(n, Slots).id \in {0, IdOf(n, Slots)}
    BY <1>5, <1>7 DEF Filled
  <2>2. last = Slot(n, Slots).id
    BY <1>4 DEF Slot
  <2>3. QED
    BY <1>7, <2>1, <2>2
<1>9. Store!Free(c.page) = {s \in SlotNumbers : Slot(n, s).id = 0}
  BY <1>4 DEF Store!Free, Slot, SlotNumbers
<1>10. CASE /\ goesOn /\ pages' = pages
            /\ calls' = [calls EXCEPT ![t].page = pages[c.page].nextPage, ![t].id = last]
  <2>1. \A s \in SlotNumbers : Slot(n, s).id # 0
    BY <1>4, <1>5, <1>10 DEF Filled
  <2>2. n + 1 \in Listed /\ List[n + 1] = pages[c.page].nextPage
    BY <1>4, <1>5, <1>10, NextListed
  <2>3. last = IdOf(n + 1, 0) /\ last \in 0 .. Slots * MaxPages
    <3>1. last = IdOf(n, Slots)
      BY <1>8, <2>1
    <3>2. IdOf(n, Slots) = IdOf(n + 1, 0)
      BY <1>6, <1>7, IdOfNext
    <3>3. IdOf(n, Slots) \in 0 .. Slots * MaxPages
      BY <1>6, <1>7, IdOfBounds
    <3>4. QED
      BY <3>1, <3>2, <3>3
  <2>4. PICK next, id : next = pages[c.page].nextPage /\ id = last
    OBVIOUS
  <2>5. next \in 0 .. MaxPages
    <3>1. pages[c.page] \in PageRecord
      BY <1>5, <1>6 DEF PagesLinked
    <3>2. QED
      BY <2>4, <3>1 DEF PageRecord
  <2>6. PICK d : d = [calls[t] EXCEPT !.page = next, !.id = id]
    OBVIOUS
  <2>7. calls' = [calls EXCEPT ![t] = d]
    <3>1. calls' = [calls EXCEPT ![t] = [calls[t] EXCEPT !.page = next, !.id = id]]
      BY <1>10, <2>4
    <3>2. QED
      BY <2>6, <3>1
  <2>8. d \in Store!Call /\ d.step = "scan" /\ d.name = c.name /\ d.page = next /\ d.id = id
    BY <1>1, <1>2, <2>3, <2>4, <2>5, <2>6 DEF Store!Call
  <2>9. List' = List /\ Listed' = Listed
    BY <1>1, <1>10 DEF List, Listed
  <2>10. PICK m : m = n + 1
    OBVIOUS
  <2>11. Reached(d, m)' /\ m \in Listed'
    BY <2>2, <2>3, <2>4, <2>8, <2>9, <2>10 DEF Reached, IdOf
  <2>12. CallMeant(d)'
    BY <1>1, <1>2, <2>8, <2>11 DEF CallMeant
  <2>13. QED
    BY <1>1, <1>10, <2>7, <2>8, <2>12, StepInMemory
<1>11. CASE /\ ~goesOn /\ Store!Free(c.page) # {} /\ pages' = pages
            /\ LET slot == Store!First(Store!Free(c.page))
               IN calls' = [calls EXCEPT ![t].slot = slot, ![t].id = Store!IdAfter(c, slot),
                                         ![t].step = "id"]
  <2>1. PICK slot, id : slot = Store!First(Store!Free(c.page)) /\ id = Store!IdAfter(c, slot)
    OBVIOUS
  <2>2. /\ slot \in SlotNumbers /\ Slot(n, slot).id = 0
        /\ \A s \in SlotNumbers : Slot(n, s).id = 0 => slot <= s
    <3> DEFINE F == {s \in SlotNumbers : Slot(n, s).id = 0}
    <3>1. F \in SUBSET Nat
      BY <1>7
    <3>2. F # {} /\ slot = CHOOSE s \in F : \A other \in F : s <= other
      <4>1. Store!Free(c.page) = F
        BY <1>9
      <4>2. F # {}
        BY <1>11, <4>1
      <4> HIDE DEF F
      <4>3. slot = Store!First(F)
        BY <2>1, <4>1
      <4>4. slot = CHOOSE s \in F : \A other \in F : s <= other
        BY <4>3, Zenon DEF Store!First
      <4>5. QED
        BY <4>2, <4>4
    <3>3. \E m \in F : \A k \in F : m <= k
      <4> HIDE DEF F
      <4>1. QED
        BY <3>1, <3>2, LeastNumber, Zenon
    <3>4. slot \in F /\ \A k \in F : slot <= k
      <4> HIDE DEF F
      <4>1. QED
        BY <3>2, <3>3
    <3>5. QED
      BY <3>4
  <2>3. \A s \in SlotNumbers : Slot(n, s).id # 0 <=> s < slot
    <3>1. ASSUME NEW s \in SlotNumbers, Slot(n, s).id # 0 PROVE s < slot
      <4>1. s \in Nat /\ slot \in Nat /\ 1 <= slot
        BY <2>2 DEF SlotNumbers, OneCaller
      <4>2. ASSUME slot <= s PROVE FALSE
        <5>1. slot \in 1 .. s
          BY <4>1, <4>2
        <5>2. Slot(n, slot).id # 0
          BY <1>5, <3>1, <5>1 DEF Filled
        <5>3. QED
          BY <2>2, <5>2
      <4>3. QED
        BY <4>1, <4>2
    <3>2. ASSUME NEW s \in SlotNumbers, s < slot PROVE Slot(n, s).id # 0
      <4>1. s \in Nat /\ slot \in Nat
        BY <1>7, <2>2
      <4>2. QED
        BY <2>2, <3>2, <4>1
    <3>3. QED
      BY <3>1, <3>2
  <2>4. id = IdOf(n, slot)
    <3>1. id = (IF slot = 1 THEN c.id ELSE pages[c.page].slots[slot - 1].id) + 1
      BY <2>1 DEF Store!IdAfter
    <3>2. CASE slot = 1
      <4>1. IdOf(n, 0) + 1 = IdOf(n, 0 + 1)
        BY <1>6, IdOfNext DEF OneCaller
      <4>2. QED
        BY <1>4, <3>1, <3>2, <4>1
    <3>3. CASE slot # 1
      <4>1. PICK s \in SlotNumbers : s = slot - 1 /\ s < slot /\ s + 1 = slot
        BY <2>2, <3>3 DEF SlotNumbers, OneCaller
      <4>2. Slot(n, s).id = IdOf(n, s)
        BY <1>5, <2>3, <4>1 DEF Filled
      <4>3. pages[c.page].slots[s].id = IdOf(n, s)
        BY <1>4, <4>2 DEF Slot
      <4>4. IdOf(n, s) + 1 = IdOf(n, s + 1)
        BY <1>6, <1>7, IdOfNext
      <4>5. QED
        BY <3>1, <3>3, <4>1, <4>3, <4>4
    <3>4. QED
      BY <3>2, <3>3
  <2>5. id \in 0 .. Slots * MaxPages /\ slot \in 0 .. Slots
    BY <1>6, <1>7, <2>2, <2>4, IdOfBounds
  <2>6. PICK d : d = [calls[t] EXCEPT !.slot = slot, !.id = id, !.step = "id"]
    OBVIOUS
  <2>7. calls' = [calls EXCEPT ![t] = d]
    <3>1. calls' = [calls EXCEPT ![t] = [calls[t] EXCEPT !.slot = slot, !.id = id, !.step = "id"]]
      BY <1>11, <2>1
    <3>2. QED
      BY <2>6, <3>1
  <2>8. /\ d \in Store!Call /\ d.step = "id" /\ d.name = c.name /\ d.page = c.page /\ d.id = id
        /\ d.slot = slot
    BY <1>1, <1>2, <2>5, <2>6 DEF Store!Call
  <2>9. List' = List /\ Listed' = Listed /\ \A s : Slot(n, s)' = Slot(n, s)
    BY <1>1, <1>11 DEF List, Listed, Slot
  <2>10. Reached(d, n)' /\ n \in Listed'
    BY <1>4, <2>2, <2>3, <2>4, <2>8, <2>9 DEF Reached, IdOf, SlotNumbers
  <2>11. CallMeant(d)'
    BY <1>1, <1>2, <2>8, <2>10 DEF CallMeant
  <2>12. QED
    BY <1>1, <1>11, <2>7, <2>8, <2>11, StepInMemory
<1>12. CASE /\ ~goesOn /\ Store!Free(c.page) = {} /\ Store!NewPage <= MaxPages /\ Store!AddPage
            /\ calls' = [calls EXCEPT ![t].new = Store!NewPage, ![t].id = last, ![t].step = "link"]
  <2>1. \A s \in SlotNumbers : Slot(n, s).id # 0
    BY <1>9, <1>12
  <2>2. last = IdOf(n, Slots) /\ last \in 0 .. Slots * MaxPages
    <3>1. last = IdOf(n, Slots)
      BY <1>8, <2>1
    <3>2. IdOf(n, Slots) \in 0 .. Slots * MaxPages
      BY <1>6, <1>7, IdOfBounds
    <3>3. QED
      BY <3>1, <3>2
  <2>3. PICK new, id : new = Store!NewPage /\ id = last
    OBVIOUS
  <2>4. /\ PagesLinked'
        /\ List' = List /\ Listed' = Listed /\ Follows(List, head', pages')
        /\ \A p \in Store!Pages : pages'[p] = pages[p] /\ p < new
        /\ Blank(new)' /\ new \in 1 .. MaxPages
    BY <1>1, <1>5, <1>12, <2>3, PageAdded
  <2>5. PICK d : d = [calls[t] EXCEPT !.new = new, !.id = id, !.step = "link"]
    OBVIOUS
  <2>6. calls' = [calls EXCEPT ![t] = d]
    <3>1. calls' = [calls EXCEPT ![t] = [calls[t] EXCEPT !.new = new, !.id = id, !.step = "link"]]
      BY <1>12, <2>3
    <3>2. QED
      BY <2>5, <3>1
  <2>7. /\ d \in Store!Call /\ d.step = "link" /\ d.name = c.name /\ d.page = c.page /\ d.id = id
        /\ d.new = new
    <3>1. new \in 0 .. MaxPages
      BY <2>4 DEF OneCaller
    <3>2. QED
      BY <1>1, <1>2, <2>2, <2>3, <2>5, <3>1 DEF Store!Call
  <2>8. \A m \in Listed : pages'[List[m]] = pages[List[m]]
    BY <1>5, <2>4, ListedPages
  <2>9. /\ \A m \in Listed' : Filled(m)'
        /\ Distinct'
        /\ \A m \in Listed, s \in SlotNumbers : Slot(m, s)' = Slot(m, s)
    BY <2>4, <2>8, SlotsKept
  <2>10. Reached(d, n)' /\ n \in Listed'
    <3>1. pages'[c.page].nextPage = 0 /\ c.page < new
      BY <1>6, <1>12, <2>4
    <3>2. \A s \in SlotNumbers : Slot(n, s)'.id # 0
      BY <2>1, <2>9
    <3>3. List'[n] = c.page /\ n \in Listed'
      BY <1>4, <2>4
    <3>4. d.id = IdOf(n, Slots)
      BY <2>2, <2>3, <2>7
    <3>5. Blank(d.new)'
      BY <2>4, <2>7 DEF Blank
    <3>6. QED
      BY <2>7, <3>1, <3>2, <3>3, <3>4, <3>5 DEF Reached, IdOf, SlotNumbers
  <2>11. CallMeant(d)'
    BY <1>1, <1>2, <2>7, <2>10 DEF CallMeant
  <2>12. MemoryType' /\ Cached' /\ Stored' /\ GivenMeant' /\ calls'[t] = d
    <3>1. NamesStay(d)
      BY <1>1, <2>4, <2>6, <2>7, <2>9 DEF NamesStay
    <3>2. calls[t].step # "fill"
      BY <1>1
    <3>3. QED
      BY <1>1, <2>4, <2>6, <2>7, <2>9, <3>1, <3>2, CacheKept
  <2>13. Follows(List', head', pages')
    BY <2>4, Zenon
  <2>14. QED
    BY <2>4, <2>9, <2>11, <2>12, <2>13, Concluded
<1>13. QED
  BY <1>10, <1>11, <1>12 DEF Store!ScanPage

\* The page that continues the list is blank.
LEMMA LinkPageKeeps ==
  ASSUME OneCaller, KeysInv, NEW t \in Threads, Store!LinkPage(t)
  PROVE  KeysInv'
<1> DEFINE c == calls[t]
<1>1. /\ c.step = "link"
      /\ pages' = [pages EXCEPT ![c.page].nextPage = c.new]
      /\ calls' = [calls EXCEPT ![t].page = c.new, ![t].step = "scan"]
      /\ UNCHANGED <<kind, head, bucket, names, given>>
  BY DEF Store!LinkPage, Store!At, Store!cache
<1>2. /\ c \in Store!Call /\ c # Store!Idle /\ c.name \in Names /\ bucket[c.name] = 0
      /\ \E n \in Listed : Reached(c, n)
  BY <1>1, CallOf
<1>3. PICK n \in Listed : Reached(c, n)
  BY <1>2
<1>4. /\ List[n] = c.page /\ c.id = IdOf(n, Slots)
      /\ pages[c.page].nextPage = 0
      /\ \A s \in SlotNumbers : Slot(n, s).id # 0
      /\ Blank(c.new) /\ c.page < c.new
  BY <1>1, <1>3 DEF Reached
<1>5. PagesLinked /\ Follows(List, head, pages) /\ Distinct /\ \A m \in Listed : Filled(m)
  BY DEF KeysInv
<1>6. /\ n \in 1 .. MaxPages /\ n \in Nat /\ 1 <= n
      /\ c.page \in Store!Pages /\ c.page \in Nat /\ n <= c.page
  BY <1>4, <1>5, ListedPages
<1>7. /\ c.new \in Store!Pages /\ c.new # c.page /\ c.new \in Nat /\ c.new # 0
      /\ c.new \in 0 .. MaxPages
      /\ pages[c.new].nextPage = 0
      /\ \A s \in SlotNumbers : pages[c.new].slots[s] = [id |-> 0, name |-> NoName]
  <2>1. /\ c.new \in Store!Pages /\ pages[c.new].nextPage = 0
        /\ \A s \in SlotNumbers : pages[c.new].slots[s] = [id |-> 0, name |-> NoName]
    BY <1>4 DEF Blank
  <2>2. c.new \in 1 .. MaxPages /\ c.new \in Nat
    BY <1>5, <2>1 DEF PagesLinked, OneCaller
  <2>3. QED
    BY <1>4, <1>6, <2>1, <2>2
<1>8. PICK m \in 1 .. MaxPages : m = n + 1 /\ m - 1 = n /\ m # 1 /\ n < m
  BY <1>4, <1>6, <1>7 DEF OneCaller
<1>9. List[m] = 0
  <2>1. List[m] = IF m = 1 THEN head
                  ELSE IF List[m - 1] = 0 THEN 0 ELSE pages[List[m - 1]].nextPage
    BY <1>5, ListStep, Zenon
  <2>2. QED
    BY <1>4, <1>6, <1>8, <2>1
<1>10. \A i \in 1 .. MaxPages : m <= i => List[i] = 0
  <2>1. SUFFICES ASSUME NEW i \in 1 .. MaxPages, m < i, List[i] # 0 PROVE FALSE
    BY <1>9 DEF OneCaller
  <2>2. i \in Listed
    BY <2>1 DEF Listed
  <2>3. m \in Listed
    BY <1>5, <2>1, <2>2, ListIncreasing
  <2>4. QED
    BY <1>9, <2>3 DEF Listed
<1>11. PICK list : list = [i \in 1 .. MaxPages |-> IF i = m THEN c.new ELSE List[i]]
  OBVIOUS
\* The pages but for their links.
<1>12. /\ Store!Pages' = Store!Pages
       /\ \A p \in Store!Pages : pages'[p].slots = pages[p].slots
       /\ \A p \in Store!Pages : pages'[p].nextPage = IF p = c.page THEN c.new ELSE pages[p].nextPage
       /\ \A p \in Store!Pages : pages'[p] \in PageRecord
  <2>1. DOMAIN pages' = DOMAIN pages
    BY <1>1
  <2>2. \A p \in Store!Pages : pages[p] \in PageRecord
    BY <1>5 DEF PagesLinked
  <2>3. ASSUME NEW p \in Store!Pages
        PROVE  /\ pages'[p].slots = pages[p].slots
               /\ pages'[p].nextPage = IF p = c.page THEN c.new ELSE pages[p].nextPage
               /\ pages'[p] \in PageRecord
    <3>1. CASE p = c.page
      <4>1. pages'[p] = [pages[p] EXCEPT !.nextPage = c.new]
        BY <1>1, <2>3, <3>1 DEF Store!Pages
      <4>2. QED
        BY <1>7, <2>2, <3>1, <4>1 DEF PageRecord
    <3>2. CASE p # c.page
      <4>1. pages'[p] = pages[p]
        BY <1>1, <2>3, <3>2 DEF Store!Pages
      <4>2. QED
        BY <2>2, <3>2, <4>1
    <3>3. QED
      BY <3>1, <3>2
  <2>4. QED
    BY <2>1, <2>3 DEF Store!Pages
<1>13. Follows(list, head', pages')
  <2> DEFINE R(i) == IF i = 1 THEN head'
                     ELSE IF list[i - 1] = 0 THEN 0 ELSE pages'[list[i - 1]].nextPage
             Q(i) == IF i = m THEN c.new ELSE List[i]
  <2>1. ASSUME NEW i \in 1 .. MaxPages PROVE Q(i) = R(i)
    <3>0. List[i] = IF i = 1 THEN head
                    ELSE IF List[i - 1] = 0 THEN 0 ELSE pages[List[i - 1]].nextPage
      BY <1>5, ListStep, Zenon
    <3>1. CASE i = 1
      BY <1>1, <1>8, <3>0, <3>1
    <3>2. CASE i # 1
      <4>1. PICK h \in 1 .. MaxPages : h = i - 1 /\ h < i /\ i = h + 1
        BY <3>2 DEF OneCaller
      <4>2. list[h] = IF h = m THEN c.new ELSE List[h]
        BY <1>11
      <4>3. R(i) = IF list[h] = 0 THEN 0 ELSE pages'[list[h]].nextPage
        BY <3>2, <4>1
      <4>4. Q(i) = IF i = m THEN c.new ELSE IF List[h] = 0 THEN 0 ELSE pages[List[h]].nextPage
        BY <3>0, <3>2, <4>1
      <4>5. CASE h = m
        <5>1. list[h] = c.new /\ pages'[c.new].nextPage = 0
          BY <1>7, <1>12, <4>2, <4>5
        <5>2. i # m /\ List[i] = 0
          BY <1>10, <4>1, <4>5
        <5>3. QED
          BY <1>7, <4>3, <5>1, <5>2
      <4>6. CASE h = n
        <5>1. i = m
          BY <1>8, <4>1, <4>6
        <5>2. list[h] = c.page /\ c.page # 0
          BY <1>4, <1>6, <1>8, <4>2, <4>6
        <5>3. pages'[c.page].nextPage = c.new
          BY <1>6, <1>12
        <5>4. QED
          BY <4>3, <5>1, <5>2, <5>3
      <4>7. CASE h # m /\ h # n
        <5>1. i # m
          BY <1>6, <1>8, <4>1, <4>7
        <5>2. list[h] = List[h]
          BY <4>2, <4>7
        <5>3. CASE List[h] = 0
          BY <4>3, <4>4, <5>1, <5>2, <5>3
        <5>4. CASE List[h] # 0
          <6>1. h \in Listed
            BY <5>4 DEF Listed
          <6>2. List[h] \in Store!Pages /\ List[h] # c.page
            BY <1>4, <1>5, <4>7, <6>1, ListInjective, ListedPages
          <6>3. pages'[List[h]].nextPage = pages[List[h]].nextPage
            BY <1>12, <6>2
          <6>4. QED
            BY <4>3, <4>4, <5>1, <5>2, <5>4, <6>3
        <5>5. QED
          BY <5>3, <5>4
      <4>8. QED
        BY <4>5, <4>6, <4>7
    <3>3. QED
      BY <3>1, <3>2
  <2>2. list = [i \in 1 .. MaxPages |-> Q(i)]
    BY <1>11
  <2>3. list = [i \in 1 .. MaxPages |-> R(i)]
    <3> HIDE DEF Q, R
    <3>1. [i \in 1 .. MaxPages |-> Q(i)] = [i \in 1 .. MaxPages |-> R(i)]
      BY <2>1, Zenon
    <3>2. QED
      BY <2>2, <3>1, Zenon
  <2>4. QED
    BY <2>3 DEF Follows
<1>14. List' = list
  <2>1. ListOf(head', pages') = list
    BY <1>13, ListFound, Zenon
  <2>2. QED
    BY <2>1 DEF List
<1>15. /\ Listed' = Listed \cup {m} /\ m \notin Listed
       /\ List'[m] = c.new /\ \A i \in Listed : List'[i] = List[i]
  BY <1>7, <1>9, <1>11, <1>14 DEF Listed
<1>16. \A s \in SlotNumbers : Slot(m, s)' = [id |-> 0, name |-> NoName]
  BY <1>7, <1>12, <1>15 DEF Slot
<1>17. \A i \in Listed : List[i] \in Store!Pages
  BY <1>5, ListedPages
<1>18. \A i \in Listed : \A s : Slot(i, s)' = Slot(i, s)
  BY <1>12, <1>15, <1>17 DEF Slot
<1>19. Follows(List', head', pages')
  BY <1>13, <1>14, Zenon
<1>20. PagesLinked'
  <2>1. ASSUME NEW p \in Store!Pages', pages'[p].nextPage # 0
        PROVE  pages'[p].nextPage \in Store!Pages' /\ p < pages'[p].nextPage
    <3>1. CASE p = c.page
      BY <1>4, <1>6, <1>7, <1>12, <3>1
    <3>2. CASE p # c.page
      BY <1>5, <1>12, <2>1, <3>2 DEF PagesLinked
    <3>3. QED
      BY <3>1, <3>2
  <2>2. (\E k \in 0 .. MaxPages : Store!Pages' = 1 .. k) /\ head' \in Store!Pages' \cup {0}
    BY <1>1, <1>5, <1>12 DEF PagesLinked
  <2>3. QED
    BY <1>12, <2>1, <2>2 DEF PagesLinked
<1>21. ASSUME NEW i \in Listed' PROVE Filled(i)'
  <2>1. CASE i = m
    <3>1. pages'[List'[m]].nextPage = 0
      BY <1>7, <1>12, <1>15
    <3>2. \A s \in SlotNumbers : Slot(m, s)'.id = 0 /\ Slot(m, s)'.name = NoName
      BY <1>16
    <3>3. Filled(m)'
      BY <3>1, <3>2 DEF Filled, SlotNumbers
    <3>4. QED
      BY <2>1, <3>3
  <2>2. CASE i \in Listed
    <3>1. Filled(i) /\ \A s : Slot(i, s)' = Slot(i, s)
      BY <1>5, <1>18, <2>2
    <3>2. pages'[List'[i]].nextPage # 0 => \A s \in SlotNumbers : Slot(i, s).id # 0
      <4>1. CASE i = n
        BY <1>4, <4>1
      <4>2. CASE i # n
        <5>1. List[i] # c.page
          BY <1>4, <1>5, <2>2, <4>2, ListInjective
        <5>2. pages'[List'[i]].nextPage = pages[List[i]].nextPage
          BY <1>12, <1>15, <1>17, <2>2, <5>1
        <5>3. QED
          BY <3>1, <5>2 DEF Filled
      <4>3. QED
        BY <4>1, <4>2
    <3>3. QED
      BY <3>1, <3>2 DEF Filled, IdOf, SlotNumbers
  <2>3. QED
    BY <1>15, <2>1, <2>2
<1>22. Distinct'
  <2>1. SUFFICES ASSUME NEW i \in Listed', NEW j \in Listed', NEW s \in SlotNumbers,
                        NEW r \in SlotNumbers, Slot(i, s)'.name \in Names,
                        Slot(i, s)'.name = Slot(j, r)'.name
                 PROVE  i = j /\ s = r
    BY DEF Distinct, SlotNumbers
  <2>2. i \in Listed /\ j \in Listed
    <3>1. Slot(m, s)'.name = NoName /\ Slot(m, r)'.name = NoName
      BY <1>16
    <3>2. i # m /\ j # m
      BY <2>1, <3>1 DEF OneCaller
    <3>3. QED
      BY <1>15, <3>2
  <2>3. Slot(i, s)' = Slot(i, s) /\ Slot(j, r)' = Slot(j, r)
    BY <1>18, <2>2
  <2>4. QED
    BY <1>5, <2>1, <2>2, <2>3 DEF Distinct
<1>23. PICK new : new = c.new
  OBVIOUS
<1>24. PICK d : d = [calls[t] EXCEPT !.page = new, !.step = "scan"]
  OBVIOUS
<1>25. calls' = [calls EXCEPT ![t] = d]
  <2>1. calls' = [calls EXCEPT ![t] = [calls[t] EXCEPT !.page = new, !.step = "scan"]]
    BY <1>1, <1>23
  <2>2. QED
    BY <1>24, <2>1
<1>26. d \in Store!Call /\ d.step = "scan" /\ d.name = c.name /\ d.page = new /\ d.id = c.id
  BY <1>2, <1>7, <1>23, <1>24 DEF Store!Call
<1>27. CallMeant(d)'
  <2>1. IdOf(n, Slots) = IdOf(n + 1, 0)
    BY <1>6, IdOfNext DEF OneCaller
  <2>2. Reached(d, m)' /\ m \in Listed'
    BY <1>4, <1>8, <1>15, <1>23, <1>26, <2>1 DEF Reached, IdOf
  <2>3. QED
    BY <1>1, <1>2, <1>26, <2>2 DEF CallMeant
<1>28. /\ \A i \in Listed, s \in SlotNumbers : i \in Listed' /\ Slot(i, s)' = Slot(i, s)
       /\ \A i \in Listed', s \in SlotNumbers :
            (i \in Listed /\ Slot(i, s)' = Slot(i, s)) \/ Slot(i, s)'.name = NoName
  BY <1>15, <1>16, <1>18
<1>29. MemoryType' /\ Cached' /\ Stored' /\ GivenMeant' /\ calls'[t] = d
  <2>1. NamesStay(d)
    BY <1>1, <1>25, <1>26, <1>28 DEF NamesStay
  <2>2. calls[t].step # "fill"
    BY <1>1
  <2>3. QED
    BY <1>1, <1>25, <1>26, <1>28, <2>1, <2>2, CacheKept
<1>30. QED
  BY <1>19, <1>20, <1>21, <1>22, <1>27, <1>29, Concluded

-----------------------------------------------------------------------------
\* The writes of a slot.

\* One slot of a listed page is written.
Writes(n, slot, v) ==
  /\ DOMAIN pages' = DOMAIN pages
  /\ \A p \in Store!Pages : p # List[n] => pages'[p] = pages[p]
  /\ pages'[List[n]] = [pages[List[n]] EXCEPT !.slots = [pages[List[n]].slots EXCEPT ![slot] = v]]

SlotBecomes(n, slot, v) ==
  /\ \A m \in Listed : pages'[List[m]].nextPage = pages[List[m]].nextPage
  /\ \A m \in Listed, s \in SlotNumbers :
       Slot(m, s)' = IF m = n /\ s = slot THEN v ELSE Slot(m, s)

LEMMA SlotWritten ==
  ASSUME OneCaller, KeysInv, head' = head, NEW n \in Listed, NEW slot \in SlotNumbers,
         NEW v \in SlotRecord, Writes(n, slot, v)
  PROVE  /\ PagesLinked' /\ List' = List /\ Listed' = Listed /\ Follows(List', head', pages')
         /\ SlotBecomes(n, slot, v)
<1>0. /\ DOMAIN pages' = DOMAIN pages
      /\ \A p \in Store!Pages : p # List[n] => pages'[p] = pages[p]
      /\ pages'[List[n]] = [pages[List[n]] EXCEPT !.slots = [pages[List[n]].slots EXCEPT ![slot] = v]]
  BY DEF Writes
<1>1. PagesLinked /\ Follows(List, head, pages)
  BY DEF KeysInv
<1>2. List[n] \in Store!Pages /\ pages[List[n]] \in PageRecord
  BY <1>1, ListedPages DEF PagesLinked
<1>3. PICK q : q = pages[List[n]]
  OBVIOUS
<1>4. PICK e : e = [q.slots EXCEPT ![slot] = v]
  OBVIOUS
<1>5. q \in PageRecord /\ q.slots \in [SlotNumbers -> SlotRecord] /\ q.nextPage \in 0 .. MaxPages
  BY <1>2, <1>3 DEF PageRecord
<1>6. /\ e \in [SlotNumbers -> SlotRecord] /\ e[slot] = v
      /\ \A s \in SlotNumbers : s # slot => e[s] = q.slots[s]
  BY <1>4, <1>5
<1>7. pages'[List[n]] = [q EXCEPT !.slots = e]
  BY <1>0, <1>3, <1>4
<1>8. /\ pages'[List[n]] \in PageRecord /\ pages'[List[n]].nextPage = q.nextPage
      /\ pages'[List[n]].slots = e
  BY <1>5, <1>6, <1>7 DEF PageRecord
<1>9. \A p \in Store!Pages : pages'[p].nextPage = pages[p].nextPage /\ pages'[p] \in PageRecord
  <2>1. \A p \in Store!Pages : pages[p] \in PageRecord
    BY <1>1 DEF PagesLinked
  <2>2. QED
    BY <1>0, <1>3, <1>8, <2>1
<1>10. \A m \in Listed : pages'[List[m]].nextPage = pages[List[m]].nextPage
  BY <1>1, <1>9, ListedPages
<1>11. List' = List /\ Listed' = Listed /\ Follows(List', head', pages')
  <2>1. List' = List /\ Listed' = Listed /\ Follows(List, head', pages')
    BY <1>1, <1>10, ListKept, Zenon
  <2>2. QED
    BY <2>1, Zenon
<1>12. PagesLinked'
  <2>1. Store!Pages' = Store!Pages
    BY <1>0 DEF Store!Pages
  <2>2. QED
    BY <1>1, <1>9, <2>1 DEF PagesLinked
<1>13. ASSUME NEW m \in Listed, NEW s \in SlotNumbers
       PROVE  Slot(m, s)' = IF m = n /\ s = slot THEN v ELSE Slot(m, s)
  <2>1. Slot(m, s)' = pages'[List[m]].slots[s]
    BY <1>11 DEF Slot
  <2>2. CASE m = n
    <3>1. Slot(m, s)' = e[s]
      BY <1>8, <2>1, <2>2
    <3>2. Slot(m, s) = q.slots[s]
      BY <1>3, <2>2 DEF Slot
    <3>3. QED
      BY <1>6, <2>2, <3>1, <3>2
  <2>3. CASE m # n
    <3>1. List[m] # List[n]
      BY <1>1, <2>3, ListInjective
    <3>2. List[m] \in Store!Pages
      BY <1>1, ListedPages
    <3>3. pages'[List[m]] = pages[List[m]]
      BY <1>0, <3>1, <3>2
    <3>4. QED
      BY <2>1, <2>3, <3>3 DEF Slot
  <2>4. QED
    BY <2>2, <2>3
<1>14. QED
  BY <1>10, <1>11, <1>12, <1>13 DEF SlotBecomes

LEMMA WriteIdKeeps ==
  ASSUME OneCaller, KeysInv, NEW t \in Threads, Store!WriteId(t)
  PROVE  KeysInv'
<1> DEFINE c == calls[t]
<1>1. /\ c.step = "id"
      /\ pages' = [pages EXCEPT ![c.page].slots[c.slot].id = c.id]
      /\ calls' = [calls EXCEPT ![t].step = "name"]
      /\ UNCHANGED <<kind, head, bucket, names, given>>
  BY DEF Store!WriteId, Store!At, Store!cache
<1>2. /\ c \in Store!Call /\ c # Store!Idle /\ c.name \in Names /\ bucket[c.name] = 0
      /\ \E n \in Listed : Reached(c, n)
  BY <1>1, CallOf
<1>3. PICK n \in Listed : Reached(c, n)
  BY <1>2
<1>4. PICK slot, id : slot = c.slot /\ id = c.id
  OBVIOUS
<1>5. /\ List[n] = c.page /\ slot \in SlotNumbers /\ id = IdOf(n, slot)
      /\ \A s \in SlotNumbers : Slot(n, s).id # 0 <=> s < slot
  BY <1>1, <1>3, <1>4 DEF Reached
<1>6. PagesLinked /\ Follows(List, head, pages) /\ Distinct /\ \A m \in Listed : Filled(m)
  BY DEF KeysInv
<1>7. n \in 1 .. MaxPages /\ c.page \in Store!Pages /\ pages[c.page] \in PageRecord
  BY <1>5, <1>6, ListedPages DEF PagesLinked
<1>8. id # 0 /\ id \in 0 .. Slots * MaxPages
  <2>1. slot \in 0 .. Slots /\ slot # 0
    BY <1>5 DEF SlotNumbers, OneCaller
  <2>2. QED
    BY <1>5, <1>7, <2>1, IdOfBounds
<1>9. Slot(n, slot).id = 0 /\ Slot(n, slot).name = NoName
  <2>1. ~(slot < slot)
    BY <1>5 DEF SlotNumbers, OneCaller
  <2>2. QED
    BY <1>5, <1>6, <2>1 DEF Filled
<1>10. pages[c.page].slots \in [SlotNumbers -> SlotRecord] /\ Slot(n, slot) \in SlotRecord
  <2>1. pages[c.page].slots \in [SlotNumbers -> SlotRecord]
    BY <1>7 DEF PageRecord
  <2>2. Slot(n, slot) = pages[c.page].slots[slot]
    BY <1>5 DEF Slot
  <2>3. QED
    BY <1>5, <2>1, <2>2
<1>11. PICK v : v = [Slot(n, slot) EXCEPT !.id = id]
  OBVIOUS
<1>12. v \in SlotRecord /\ v.id = id /\ v.name = NoName
  BY <1>8, <1>9, <1>10, <1>11 DEF SlotRecord
<1>13. Writes(n, slot, v)
  <2>1. pages' = [pages EXCEPT ![c.page] =
                    [pages[c.page] EXCEPT !.slots =
                       [pages[c.page].slots EXCEPT ![slot] = [pages[c.page].slots[slot] EXCEPT !.id = id]]]]
    BY <1>1, <1>4
  <2>2. v = [pages[c.page].slots[slot] EXCEPT !.id = id]
    BY <1>5, <1>11 DEF Slot
  <2>3. pages' = [pages EXCEPT ![c.page] =
                    [pages[c.page] EXCEPT !.slots = [pages[c.page].slots EXCEPT ![slot] = v]]]
    BY <2>1, <2>2
  <2>4. QED
    BY <1>5, <1>7, <2>3 DEF Store!Pages, Writes
<1>14. /\ PagesLinked' /\ List' = List /\ Listed' = Listed /\ Follows(List', head', pages')
       /\ \A m \in Listed : pages'[List[m]].nextPage = pages[List[m]].nextPage
       /\ \A m \in Listed, s \in SlotNumbers :
            Slot(m, s)' = IF m = n /\ s = slot THEN v ELSE Slot(m, s)
  <2>1. head' = head
    BY <1>1
  <2>2. slot \in SlotNumbers /\ v \in SlotRecord /\ Writes(n, slot, v)
    BY <1>5, <1>12, <1>13
  <2>3. /\ PagesLinked' /\ List' = List /\ Listed' = Listed /\ Follows(List', head', pages')
        /\ SlotBecomes(n, slot, v)
    BY <2>1, <2>2, SlotWritten
  <2>4. QED
    BY <2>3 DEF SlotBecomes
<1>15. ASSUME NEW m \in Listed' PROVE Filled(m)'
  <2>1. m \in Listed /\ Filled(m)
    BY <1>6, <1>14
  <2>2. CASE m # n
    <3>1. \A s \in SlotNumbers : Slot(m, s)' = Slot(m, s)
      BY <1>14, <2>1, <2>2
    <3>2. pages'[List'[m]].nextPage = pages[List[m]].nextPage
      BY <1>14, <2>1
    <3>3. \A s \in SlotNumbers : \A r \in 1 .. s : r \in SlotNumbers
      BY DEF SlotNumbers, OneCaller
    <3>4. QED
      BY <2>1, <3>1, <3>2, <3>3 DEF Filled, IdOf, SlotNumbers
  <2>3. CASE m = n
    <3>1. \A s \in SlotNumbers : Slot(n, s)' = IF s = slot THEN v ELSE Slot(n, s)
      BY <1>14
    <3>2. pages'[List'[n]].nextPage = 0
      <4>1. pages[List[n]].nextPage = 0
        BY <1>5, <1>9, <2>1, <2>3 DEF Filled
      <4>2. QED
        BY <1>14, <4>1
    <3>3. ASSUME NEW s \in SlotNumbers
          PROVE  /\ Slot(n, s)'.id \in {0, IdOf(n, s)}
                 /\ Slot(n, s)'.id = 0 => Slot(n, s)'.name = NoName
      <4>1. CASE s = slot
        BY <1>5, <1>12, <3>1, <4>1
      <4>2. CASE s # slot
        BY <2>1, <2>3, <3>1, <4>2 DEF Filled
      <4>3. QED
        BY <4>1, <4>2
    <3>4. ASSUME NEW s \in SlotNumbers, NEW r \in 1 .. s, Slot(n, s)'.id # 0
          PROVE  Slot(n, r)'.id # 0
      <4>1. r \in SlotNumbers /\ r <= s /\ s \in Nat /\ r \in Nat /\ slot \in Nat
        BY <1>5 DEF SlotNumbers, OneCaller
      <4>2. s <= slot
        <5>1. CASE s = slot
          BY <4>1, <5>1
        <5>2. CASE s # slot
          <6>1. Slot(n, s).id # 0
            BY <3>1, <3>4, <5>2
          <6>2. QED
            BY <1>5, <4>1, <6>1
        <5>3. QED
          BY <5>1, <5>2
      <4>3. CASE r = slot
        BY <1>8, <1>12, <3>1, <4>1, <4>3
      <4>4. CASE r # slot
        <5>1. r < slot
          BY <4>1, <4>2, <4>4
        <5>2. Slot(n, r).id # 0
          BY <1>5, <4>1, <5>1
        <5>3. QED
          BY <3>1, <4>1, <4>4, <5>2
      <4>5. QED
        BY <4>3, <4>4
    <3>5. Filled(n)'
      BY <3>2, <3>3, <3>4 DEF Filled, IdOf, SlotNumbers
    <3>6. QED
      BY <2>3, <3>5
  <2>4. QED
    BY <2>2, <2>3
<1>16. \A m \in Listed, s \in SlotNumbers : Slot(m, s)'.name = Slot(m, s).name
  BY <1>9, <1>12, <1>14
<1>17. Distinct'
  BY <1>6, <1>14, <1>16 DEF Distinct, SlotNumbers
<1>18. PICK d : d = [calls[t] EXCEPT !.step = "name"]
  OBVIOUS
<1>19. calls' = [calls EXCEPT ![t] = d]
  <2>1. calls' = [calls EXCEPT ![t] = [calls[t] EXCEPT !.step = "name"]]
    BY <1>1
  <2>2. QED
    BY <1>18, <2>1
<1>20. /\ d \in Store!Call /\ d.step = "name" /\ d.name = c.name /\ d.page = c.page
       /\ d.id = id /\ d.slot = slot
  BY <1>2, <1>4, <1>18 DEF Store!Call
<1>21. CallMeant(d)'
  <2>1. v = [id |-> id, name |-> NoName]
    BY <1>12 DEF SlotRecord
  <2>2. Slot(n, slot)' = [id |-> id, name |-> NoName]
    BY <1>5, <1>14, <2>1
  <2>3. Reached(d, n)' /\ n \in Listed'
    BY <1>5, <1>8, <1>14, <1>20, <2>2 DEF Reached, SlotNumbers
  <2>4. QED
    BY <1>1, <1>2, <1>20, <2>3 DEF CallMeant
<1>22. /\ \A m \in Listed, s \in SlotNumbers :
            m \in Listed' /\ (Slot(m, s)' = Slot(m, s) \/ Slot(m, s).name = NoName)
       /\ \A m \in Listed', s \in SlotNumbers :
            (m \in Listed /\ Slot(m, s)' = Slot(m, s)) \/ Slot(m, s)'.name = NoName
  BY <1>9, <1>12, <1>14
<1>23. MemoryType' /\ Cached' /\ Stored' /\ GivenMeant' /\ calls'[t] = d
  <2>1. NamesStay(d)
    BY <1>1, <1>19, <1>20, <1>22 DEF NamesStay
  <2>2. calls[t].step # "fill"
    BY <1>1
  <2>3. QED
    BY <1>1, <1>19, <1>20, <1>22, <2>1, <2>2, CacheKept
<1>24. QED
  BY <1>14, <1>15, <1>17, <1>21, <1>23, Concluded

LEMMA WriteNameKeeps ==
  ASSUME OneCaller, KeysInv, NEW t \in Threads, Store!WriteName(t)
  PROVE  KeysInv'
<1> DEFINE c == calls[t]
<1>1. /\ c.step = "name"
      /\ pages' = [pages EXCEPT ![c.page].slots[c.slot].name = c.name]
      /\ calls' = [calls EXCEPT ![t].step = "fill"]
      /\ UNCHANGED <<kind, head, bucket, names, given>>
  BY DEF Store!WriteName, Store!At, Store!cache
<1>2. /\ c \in Store!Call /\ c # Store!Idle /\ c.name \in Names /\ bucket[c.name] = 0
      /\ \E n \in Listed : Reached(c, n)
  BY <1>1, CallOf
<1>3. PICK n \in Listed : Reached(c, n)
  BY <1>2
<1>4. PICK slot, id, name : slot = c.slot /\ id = c.id /\ name = c.name
  OBVIOUS
<1>5. /\ List[n] = c.page /\ slot \in SlotNumbers /\ id # 0
      /\ Slot(n, slot) = [id |-> id, name |-> NoName]
  BY <1>1, <1>3, <1>4 DEF Reached
<1>6. PagesLinked /\ Follows(List, head, pages) /\ Distinct /\ Cached /\ \A m \in Listed : Filled(m)
  BY DEF KeysInv
<1>7. c.page \in Store!Pages /\ pages[c.page] \in PageRecord
  BY <1>5, <1>6, ListedPages DEF PagesLinked
<1>8. Slot(n, slot) \in SlotRecord
  <2>1. pages[c.page].slots \in [SlotNumbers -> SlotRecord]
    BY <1>7 DEF PageRecord
  <2>2. Slot(n, slot) = pages[c.page].slots[slot]
    BY <1>5 DEF Slot
  <2>3. QED
    BY <1>5, <2>1, <2>2
<1>9. PICK v : v = [Slot(n, slot) EXCEPT !.name = name]
  OBVIOUS
<1>10. v \in SlotRecord /\ v.id = id /\ v.name = name /\ v = [id |-> id, name |-> name]
  BY <1>2, <1>4, <1>5, <1>8, <1>9 DEF SlotRecord
<1>11. Writes(n, slot, v)
  <2>1. pages' = [pages EXCEPT ![c.page] =
                    [pages[c.page] EXCEPT !.slots =
                       [pages[c.page].slots EXCEPT ![slot] = [pages[c.page].slots[slot] EXCEPT !.name = name]]]]
    BY <1>1, <1>4
  <2>2. v = [pages[c.page].slots[slot] EXCEPT !.name = name]
    BY <1>5, <1>9 DEF Slot
  <2>3. pages' = [pages EXCEPT ![c.page] =
                    [pages[c.page] EXCEPT !.slots = [pages[c.page].slots EXCEPT ![slot] = v]]]
    BY <2>1, <2>2
  <2>4. QED
    BY <1>5, <1>7, <2>3 DEF Store!Pages, Writes
<1>12. /\ PagesLinked' /\ List' = List /\ Listed' = Listed /\ Follows(List', head', pages')
       /\ \A m \in Listed : pages'[List[m]].nextPage = pages[List[m]].nextPage
       /\ \A m \in Listed, s \in SlotNumbers :
            Slot(m, s)' = IF m = n /\ s = slot THEN v ELSE Slot(m, s)
  <2>1. head' = head
    BY <1>1
  <2>2. slot \in SlotNumbers /\ v \in SlotRecord /\ Writes(n, slot, v)
    BY <1>5, <1>10, <1>11
  <2>3. /\ PagesLinked' /\ List' = List /\ Listed' = Listed /\ Follows(List', head', pages')
        /\ SlotBecomes(n, slot, v)
    BY <2>1, <2>2, SlotWritten
  <2>4. QED
    BY <2>3 DEF SlotBecomes
<1>13. \A m \in Listed, s \in SlotNumbers : Slot(m, s)'.id = Slot(m, s).id
  BY <1>5, <1>10, <1>12
<1>14. ASSUME NEW m \in Listed' PROVE Filled(m)'
  <2>1. m \in Listed /\ Filled(m)
    BY <1>6, <1>12
  <2>2. pages'[List'[m]].nextPage = pages[List[m]].nextPage
    BY <1>12, <2>1
  <2>3. \A s \in SlotNumbers : \A r \in 1 .. s : r \in SlotNumbers
    BY DEF SlotNumbers, OneCaller
  <2>4. \A s \in SlotNumbers : Slot(m, s)'.id = 0 => Slot(m, s)'.name = NoName
    <3>1. \A s \in SlotNumbers : Slot(m, s)'.id = 0 => Slot(m, s)' = Slot(m, s)
      BY <1>5, <1>10, <1>12, <2>1
    <3>2. QED
      BY <2>1, <3>1 DEF Filled
  <2>5. \A s \in SlotNumbers : Slot(m, s)'.id = Slot(m, s).id
    BY <1>13, <2>1
  <2>6. QED
    BY <2>1, <2>2, <2>3, <2>4, <2>5 DEF Filled, IdOf, SlotNumbers
\* No other slot has the name: the cache would have it.
<1>15. \A m \in Listed, s \in SlotNumbers : Slot(m, s).name # name
  <2>1. SUFFICES ASSUME NEW m \in Listed, NEW s \in SlotNumbers, Slot(m, s).name = name PROVE FALSE
    OBVIOUS
  <2>2. \/ bucket[name] # 0
        \/ \E u \in Threads : calls[u].step = "fill" /\ calls[u].name = name
    BY <1>2, <1>4, <1>6, <2>1 DEF Cached
  <2>3. \A u \in Threads : u = t
    BY DEF OneCaller
  <2>4. QED
    BY <1>1, <1>2, <1>4, <2>2, <2>3
<1>16. Distinct'
  <2>1. SUFFICES ASSUME NEW i \in Listed, NEW j \in Listed, NEW s \in SlotNumbers,
                        NEW r \in SlotNumbers, Slot(i, s)'.name \in Names,
                        Slot(i, s)'.name = Slot(j, r)'.name
                 PROVE  i = j /\ s = r
    BY <1>12 DEF Distinct, SlotNumbers
  <2>2. CASE (i = n /\ s = slot) \/ (j = n /\ r = slot)
    BY <1>10, <1>12, <1>15, <2>1, <2>2
  <2>3. CASE ~(i = n /\ s = slot) /\ ~(j = n /\ r = slot)
    <3>1. Slot(i, s)' = Slot(i, s) /\ Slot(j, r)' = Slot(j, r)
      BY <1>12, <2>3
    <3>2. QED
      BY <1>6, <2>1, <3>1 DEF Distinct
  <2>4. QED
    BY <2>2, <2>3
<1>17. PICK d : d = [calls[t] EXCEPT !.step = "fill"]
  OBVIOUS
<1>18. calls' = [calls EXCEPT ![t] = d]
  <2>1. calls' = [calls EXCEPT ![t] = [calls[t] EXCEPT !.step = "fill"]]
    BY <1>1
  <2>2. QED
    BY <1>17, <2>1
<1>19. /\ d \in Store!Call /\ d.step = "fill" /\ d.name = name /\ d.page = c.page
       /\ d.id = id /\ d.slot = slot
  BY <1>2, <1>4, <1>17 DEF Store!Call
<1>20. CallMeant(d)'
  <2>1. Slot(n, slot)' = [id |-> id, name |-> name]
    BY <1>5, <1>10, <1>12
  <2>2. Reached(d, n)' /\ n \in Listed'
    BY <1>5, <1>12, <1>19, <2>1 DEF Reached, SlotNumbers
  <2>3. QED
    BY <1>1, <1>2, <1>4, <1>19, <2>2 DEF CallMeant
<1>21. /\ \A m \in Listed, s \in SlotNumbers :
            m \in Listed' /\ (Slot(m, s)' = Slot(m, s) \/ Slot(m, s).name = NoName)
       /\ \A m \in Listed', s \in SlotNumbers :
            \/ m \in Listed /\ Slot(m, s)' = Slot(m, s)
            \/ d.step = "fill" /\ Slot(m, s)'.name = d.name
  BY <1>5, <1>10, <1>12, <1>19
<1>22. MemoryType' /\ Cached' /\ Stored' /\ GivenMeant' /\ calls'[t] = d
  <2>1. NamesStay(d)
    BY <1>1, <1>18, <1>19, <1>21 DEF NamesStay
  <2>2. calls[t].step # "fill"
    BY <1>1
  <2>3. QED
    BY <1>1, <1>18, <1>19, <1>21, <2>1, <2>2, CacheKept
<1>23. QED
  BY <1>12, <1>14, <1>16, <1>20, <1>22, Concluded

\* The cache gets what the file has.
LEMMA FillCacheKeeps ==
  ASSUME OneCaller, KeysInv, NEW t \in Threads, Store!FillCache(t)
  PROVE  KeysInv'
<1> DEFINE c == calls[t]
<1>1. /\ c.step = "fill"
      /\ names' = [names EXCEPT ![c.id] = c.name]
      /\ bucket' = [bucket EXCEPT ![c.name] = c.id]
      /\ given' = given \cup {<<c.name, c.id>>}
      /\ calls' = [calls EXCEPT ![t] = Store!Idle]
      /\ UNCHANGED <<kind, head, pages>>
  BY DEF Store!FillCache, Store!At, Store!file
<1>2. /\ c \in Store!Call /\ c # Store!Idle /\ c.name \in Names /\ bucket[c.name] = 0
      /\ \E n \in Listed : Reached(c, n)
  BY <1>1, CallOf
<1>3. PICK n \in Listed : Reached(c, n)
  BY <1>2
<1>4. PICK slot, id, name : slot = c.slot /\ id = c.id /\ name = c.name
  OBVIOUS
<1>5. slot \in SlotNumbers /\ id # 0 /\ Slot(n, slot) = [id |-> id, name |-> name]
  BY <1>1, <1>3, <1>4 DEF Reached
<1>6. /\ PagesLinked /\ Follows(List, head, pages) /\ Distinct /\ Cached /\ Stored /\ MemoryType
      /\ GivenMeant /\ \A m \in Listed : Filled(m)
  BY DEF KeysInv
<1>7. name \in Names /\ bucket[name] = 0 /\ id \in 0 .. Slots * MaxPages /\ id \in Store!Ids
  <2>1. id \in 0 .. Slots * MaxPages
    BY <1>2, <1>4 DEF Store!Call
  <2>2. Slots * MaxPages \in Nat
    BY DEF OneCaller
  <2>3. id \in 1 .. Slots * MaxPages
    BY <1>5, <2>1, <2>2
  <2>4. QED
    BY <1>2, <1>4, <2>1, <2>3 DEF Store!Ids
<1>8. /\ names' = [names EXCEPT ![id] = name] /\ bucket' = [bucket EXCEPT ![name] = id]
      /\ given' = given \cup {<<name, id>>}
  BY <1>1, <1>4
<1>9. /\ names \in [Store!Ids -> Names \cup {NoName}]
      /\ bucket \in [Names -> 0 .. Slots * MaxPages]
      /\ calls \in [Threads -> Store!Call \cup {Store!Idle}]
  BY <1>6 DEF MemoryType
<1>10. /\ names' \in [Store!Ids -> Names \cup {NoName}] /\ names'[id] = name
       /\ \A i \in Store!Ids : i # id => names'[i] = names[i]
  BY <1>7, <1>8, <1>9
<1>11. /\ bucket' \in [Names -> 0 .. Slots * MaxPages] /\ bucket'[name] = id
       /\ \A x \in Names : x # name => bucket'[x] = bucket[x]
  BY <1>7, <1>8, <1>9
<1>12. /\ calls' \in [Threads -> Store!Call \cup {Store!Idle}] /\ calls'[t] = Store!Idle
       /\ \A u \in Threads : u = t
  BY <1>1, <1>9 DEF OneCaller
<1>13. List' = List /\ Listed' = Listed /\ \A m, s : Slot(m, s)' = Slot(m, s)
  BY <1>1 DEF List, Listed, Slot
<1>14. PagesLinked' /\ Follows(List', head', pages')
  <2>1. PagesLinked'
    BY <1>1, <1>6 DEF PagesLinked, Store!Pages
  <2>2. Follows(List', head', pages')
    BY <1>1, <1>6, <1>13 DEF Follows
  <2>3. QED
    BY <2>1, <2>2
<1>15. (\A m \in Listed : Filled(m))' /\ Distinct'
  <2>1. (\A m \in Listed : Filled(m))'
    BY <1>1, <1>6, <1>13 DEF Filled, IdOf, SlotNumbers
  <2>2. Distinct'
    BY <1>6, <1>13 DEF Distinct, SlotNumbers
  <2>3. QED
    BY <2>1, <2>2
<1>16. MemoryType'
  BY <1>1, <1>6, <1>10, <1>11, <1>12 DEF MemoryType, Store!Ids
<1>17. Cached'
  <2>1. SUFFICES ASSUME NEW m \in Listed, NEW s \in SlotNumbers, NEW x \in Names,
                        x = Slot(m, s).name
                 PROVE  bucket'[x] # 0
    BY <1>13 DEF Cached, SlotNumbers
  <2>2. CASE x = name
    BY <1>5, <1>11, <2>2
  <2>3. CASE x # name
    <3>1. \/ bucket[x] # 0
          \/ \E u \in Threads : calls[u].step = "fill" /\ calls[u].name = x
      BY <1>6, <2>1 DEF Cached
    <3>2. bucket[x] # 0
      BY <1>4, <1>12, <2>3, <3>1
    <3>3. QED
      BY <1>11, <2>3, <3>2
  <2>4. QED
    BY <2>2, <2>3
<1>18. Stored'
  <2>1. SUFFICES ASSUME NEW x \in Names, bucket'[x] # 0
                 PROVE  /\ names'[bucket'[x]] = x
                        /\ \E m \in Listed, s \in SlotNumbers :
                             Slot(m, s) = [id |-> bucket'[x], name |-> x]
    BY <1>13 DEF Stored, SlotNumbers
  <2>2. CASE x = name
    BY <1>5, <1>10, <1>11, <2>2
  <2>3. CASE x # name
    <3>1. bucket'[x] = bucket[x]
      BY <1>11, <2>3
    <3>2. /\ names[bucket[x]] = x
          /\ \E m \in Listed, s \in SlotNumbers : Slot(m, s) = [id |-> bucket[x], name |-> x]
      BY <1>6, <2>1, <3>1 DEF Stored
    <3>3. PICK m \in Listed, s \in SlotNumbers : Slot(m, s) = [id |-> bucket[x], name |-> x]
      BY <3>2
    <3>4. bucket[x] # id
      <4>1. SUFFICES ASSUME bucket[x] = id PROVE FALSE
        OBVIOUS
      <4>2. Slot(m, s).id = id /\ Slot(n, slot).id = id
        BY <1>5, <3>3, <4>1
      <4>3. IdOf(m, s) = IdOf(n, slot)
        <5>1. Slot(m, s).id \in {0, IdOf(m, s)} /\ Slot(n, slot).id \in {0, IdOf(n, slot)}
          BY <1>5, <1>6 DEF Filled
        <5>2. QED
          BY <1>5, <4>2, <5>1
      <4>4. m \in 1 .. MaxPages /\ n \in 1 .. MaxPages
        BY DEF Listed
      <4>5. m = n /\ s = slot
        BY <1>5, <4>3, <4>4, IdOfApart
      <4>6. QED
        BY <1>5, <2>3, <3>3, <4>5
    <3>5. bucket[x] \in Store!Ids
      <4>1. bucket[x] \in 0 .. Slots * MaxPages /\ bucket[x] # 0 /\ Slots * MaxPages \in Nat
        BY <1>9, <2>1, <3>1 DEF OneCaller
      <4>2. QED
        BY <4>1 DEF Store!Ids
    <3>6. names'[bucket[x]] = x
      BY <1>10, <3>2, <3>4, <3>5
    <3>7. QED
      BY <3>1, <3>3, <3>6
  <2>4. QED
    BY <2>2, <2>3
<1>19. GivenMeant'
  <2>1. SUFFICES ASSUME NEW g \in given' PROVE g[1] \in Names /\ g[2] # 0 /\ bucket'[g[1]] = g[2]
    BY DEF GivenMeant
  <2>2. CASE g \in given
    <3>1. g[1] \in Names /\ g[2] # 0 /\ bucket[g[1]] = g[2]
      BY <1>6, <2>2 DEF GivenMeant
    <3>2. g[1] # name
      BY <1>7, <3>1
    <3>3. QED
      BY <1>11, <3>1, <3>2
  <2>3. CASE g = <<name, id>>
    BY <1>5, <1>7, <1>11, <2>3
  <2>4. QED
    BY <1>8, <2>2, <2>3
<1>20. CallMeant(Store!Idle)'
  BY DEF CallMeant, Store!Idle
<1>21. QED
  BY <1>12, <1>13, <1>14, <1>15, <1>16, <1>17, <1>18, <1>19, <1>20, Concluded

-----------------------------------------------------------------------------
\* The reading of the file after a crash.

LEMMA LoadedSlots ==
  ASSUME KeysInv
  PROVE  /\ \A at : at \in Store!Loaded <=>
                      /\ at \in (1 .. MaxPages) \X SlotNumbers
                      /\ at[1] \in Listed /\ Slot(at[1], at[2]).id # 0
         /\ \A at : Store!SlotAt(at) = Slot(at[1], at[2])
<1>1. \A n \in Listed : Filled(n)
  BY DEF KeysInv
<1>2. ASSUME NEW at
      PROVE  at \in Store!Loaded <=>
               /\ at \in (1 .. MaxPages) \X SlotNumbers
               /\ at[1] \in Listed /\ Slot(at[1], at[2]).id # 0
  <2>1. at \in Store!Loaded <=>
          /\ at \in (1 .. MaxPages) \X SlotNumbers
          /\ List[at[1]] # 0
          /\ \A before \in 1 .. at[2] : pages[List[at[1]]].slots[before].id # 0
    BY NthPageListed DEF Store!Loaded, SlotNumbers
  <2>2. SUFFICES ASSUME at \in (1 .. MaxPages) \X SlotNumbers
                 PROVE  at \in Store!Loaded <=> at[1] \in Listed /\ Slot(at[1], at[2]).id # 0
    BY <2>1
  <2>3. PICK n \in 1 .. MaxPages, s \in SlotNumbers : n = at[1] /\ s = at[2]
    BY <2>2
  <2>4. n \in Listed <=> List[n] # 0
    BY DEF Listed
  <2>5. s \in 1 .. s
    BY DEF SlotNumbers
  <2>6. n \in Listed => (Slot(n, s).id # 0 <=> \A before \in 1 .. s : Slot(n, before).id # 0)
    BY <1>1, <2>5 DEF Filled
  <2>7. QED
    BY <2>1, <2>2, <2>3, <2>4, <2>6 DEF Slot
<1>3. \A at : Store!SlotAt(at) = Slot(at[1], at[2])
  BY NthPageListed DEF Store!SlotAt, Slot
<1>4. QED
  BY <1>2, <1>3

\* A name, or an id, that one slot has.
LEMMA LastOfOne ==
  ASSUME OneCaller, NEW at \in (1 .. MaxPages) \X SlotNumbers
  PROVE  Store!LastOf({at}) = at
<1>1. at[2] <= at[2]
  BY DEF SlotNumbers, OneCaller
<1>2. \A other \in {at} : other[1] < at[1] \/ (other[1] = at[1] /\ other[2] <= at[2])
  BY <1>1
<1>3. \E one \in {at} : \A other \in {at} :
        other[1] < one[1] \/ (other[1] = one[1] /\ other[2] <= one[2])
  BY <1>2
<1>4. QED
  BY <1>3 DEF Store!LastOf

LEMMA NamesLoaded ==
  ASSUME OneCaller, KeysInv, NEW n \in Listed, NEW s \in SlotNumbers, Slot(n, s).id # 0
  PROVE  /\ Slot(n, s).name \in Names => Store!LoadedBucket[Slot(n, s).name] = Slot(n, s).id
         /\ Slot(n, s).id \in Store!Ids /\ Store!LoadedNames[Slot(n, s).id] = Slot(n, s).name
<1>1. Distinct /\ PagesLinked /\ Follows(List, head, pages) /\ \A m \in Listed : Filled(m)
  BY DEF KeysInv
<1>2. n \in 1 .. MaxPages
  BY DEF Listed
<1>3. PICK at : at = <<n, s>>
  OBVIOUS
<1>4. at \in (1 .. MaxPages) \X SlotNumbers /\ at[1] = n /\ at[2] = s
  BY <1>2, <1>3
<1>5. at \in Store!Loaded /\ Store!SlotAt(at) = Slot(n, s)
  BY <1>4, LoadedSlots
<1>6. Store!LastOf({at}) = at
  BY <1>4, LastOfOne
<1>7. ASSUME Slot(n, s).name \in Names PROVE Store!LoadedBucket[Slot(n, s).name] = Slot(n, s).id
  <2>1. PICK x \in Names : x = Slot(n, s).name
    BY <1>7
  <2>2. {a \in Store!Loaded : Store!SlotAt(a).name = x} = {at}
    <3>1. ASSUME NEW a \in Store!Loaded, Store!SlotAt(a).name = x PROVE a = at
      <4>1. /\ a \in (1 .. MaxPages) \X SlotNumbers /\ a[1] \in Listed
            /\ Store!SlotAt(a) = Slot(a[1], a[2])
        BY <3>1, LoadedSlots
      <4>2. PICK m \in Listed, r \in SlotNumbers : a = <<m, r>> /\ Slot(m, r).name = x
        BY <3>1, <4>1
      <4>3. m = n /\ r = s
        BY <1>1, <2>1, <4>2 DEF Distinct
      <4>4. QED
        BY <1>3, <4>2, <4>3
    <3>2. QED
      BY <1>5, <2>1, <3>1
  <2>3. Store!LoadedBucket[x] = Store!SlotAt(at).id
    <3>1. Store!LoadedBucket[x] =
            LET own == {a \in Store!Loaded : Store!SlotAt(a).name = x}
            IN IF own = {} THEN 0 ELSE Store!SlotAt(Store!LastOf(own)).id
      BY DEF Store!LoadedBucket
    <3>2. {at} # {}
      OBVIOUS
    <3>3. QED
      BY <1>6, <2>2, <3>1, <3>2
  <2>4. QED
    BY <1>5, <2>1, <2>3
<1>8. Slot(n, s).id \in Store!Ids
  <2>1. Slot(n, s).id = IdOf(n, s)
    BY <1>1 DEF Filled
  <2>2. s \in 0 .. Slots /\ Slots * MaxPages \in Nat
    BY DEF SlotNumbers, OneCaller
  <2>3. IdOf(n, s) \in 0 .. Slots * MaxPages
    BY <1>2, <2>2, IdOfBounds
  <2>4. QED
    BY <2>1, <2>2, <2>3 DEF Store!Ids
<1>9. Store!LoadedNames[Slot(n, s).id] = Slot(n, s).name
  <2>1. PICK i \in Store!Ids : i = Slot(n, s).id
    BY <1>8
  <2>2. {a \in Store!Loaded : Store!SlotAt(a).id = i} = {at}
    <3>1. ASSUME NEW a \in Store!Loaded, Store!SlotAt(a).id = i PROVE a = at
      <4>1. /\ a \in (1 .. MaxPages) \X SlotNumbers /\ a[1] \in Listed
            /\ Store!SlotAt(a) = Slot(a[1], a[2])
        BY <3>1, LoadedSlots
      <4>2. PICK m \in Listed, r \in SlotNumbers : a = <<m, r>> /\ Slot(m, r).id = i
        BY <3>1, <4>1
      <4>3. IdOf(m, r) = IdOf(n, s)
        <5>1. Slot(m, r).id \in {0, IdOf(m, r)} /\ Slot(n, s).id \in {0, IdOf(n, s)}
          BY <1>1 DEF Filled
        <5>2. i # 0
          BY <2>1
        <5>3. QED
          BY <2>1, <4>2, <5>1, <5>2
      <4>4. m \in 1 .. MaxPages
        BY DEF Listed
      <4>5. m = n /\ r = s
        BY <1>2, <4>3, <4>4, IdOfApart
      <4>6. QED
        BY <1>3, <4>2, <4>5
    <3>2. QED
      BY <1>5, <2>1, <3>1
  <2>3. Store!LoadedNames[i] = Store!SlotAt(at).name
    <3>1. Store!LoadedNames[i] =
            LET own == {a \in Store!Loaded : Store!SlotAt(a).id = i}
            IN IF own = {} THEN NoName ELSE Store!SlotAt(Store!LastOf(own)).name
      BY DEF Store!LoadedNames
    <3>2. {at} # {}
      OBVIOUS
    <3>3. QED
      BY <1>6, <2>2, <3>1, <3>2
  <2>4. QED
    BY <1>5, <2>1, <2>3
<1>10. QED
  BY <1>7, <1>8, <1>9

\* What no slot has.
LEMMA NothingLoaded ==
  ASSUME KeysInv
  PROVE  /\ \A x \in Names : Store!LoadedBucket[x] # 0 =>
              \E n \in Listed, s \in SlotNumbers : Slot(n, s).id # 0 /\ Slot(n, s).name = x
         /\ \A i \in Store!Ids : Store!LoadedNames[i] # NoName =>
              \E n \in Listed, s \in SlotNumbers : Slot(n, s).id # 0 /\ Slot(n, s).id = i
<1>1. ASSUME NEW x \in Names, Store!LoadedBucket[x] # 0
      PROVE  \E n \in Listed, s \in SlotNumbers : Slot(n, s).id # 0 /\ Slot(n, s).name = x
  <2>1. {a \in Store!Loaded : Store!SlotAt(a).name = x} # {}
    BY <1>1 DEF Store!LoadedBucket
  <2>2. PICK a \in Store!Loaded : Store!SlotAt(a).name = x
    BY <2>1
  <2>3. /\ a \in (1 .. MaxPages) \X SlotNumbers /\ a[1] \in Listed /\ Slot(a[1], a[2]).id # 0
        /\ Store!SlotAt(a) = Slot(a[1], a[2])
    BY <2>2, LoadedSlots
  <2>4. QED
    BY <2>2, <2>3
<1>2. ASSUME NEW i \in Store!Ids, Store!LoadedNames[i] # NoName
      PROVE  \E n \in Listed, s \in SlotNumbers : Slot(n, s).id # 0 /\ Slot(n, s).id = i
  <2>1. {a \in Store!Loaded : Store!SlotAt(a).id = i} # {}
    BY <1>2 DEF Store!LoadedNames
  <2>2. PICK a \in Store!Loaded : Store!SlotAt(a).id = i
    BY <2>1
  <2>3. /\ a \in (1 .. MaxPages) \X SlotNumbers /\ a[1] \in Listed /\ Slot(a[1], a[2]).id # 0
        /\ Store!SlotAt(a) = Slot(a[1], a[2])
    BY <2>2, LoadedSlots
  <2>4. QED
    BY <2>2, <2>3
<1>3. QED
  BY <1>1, <1>2

LEMMA loadKeysFromStoreKeeps ==
  ASSUME OneCaller, KeysInv, Store!loadKeysFromStore
  PROVE  KeysInv'
<1>1. /\ bucket' = Store!LoadedBucket /\ names' = Store!LoadedNames
      /\ calls' = [t \in Threads |-> Store!Idle]
      /\ UNCHANGED <<kind, head, pages, given>>
  BY DEF Store!loadKeysFromStore, Store!file
<1>2. /\ PagesLinked /\ Follows(List, head, pages) /\ Distinct /\ Stored /\ MemoryType
      /\ GivenMeant /\ \A m \in Listed : Filled(m)
  BY DEF KeysInv
<1>3. List' = List /\ Listed' = Listed /\ \A m, s : Slot(m, s)' = Slot(m, s)
  BY <1>1 DEF List, Listed, Slot
<1>4. PagesLinked' /\ Follows(List, head, pages)'
  <2>1. PagesLinked'
    BY <1>1, <1>2 DEF PagesLinked, Store!Pages
  <2>2. Follows(List, head, pages)'
    BY <1>1, <1>2, <1>3 DEF Follows
  <2>3. QED
    BY <2>1, <2>2
<1>5. (\A m \in Listed : Filled(m))' /\ Distinct'
  <2>1. (\A m \in Listed : Filled(m))'
    BY <1>1, <1>2, <1>3 DEF Filled, IdOf, SlotNumbers
  <2>2. Distinct'
    BY <1>2, <1>3 DEF Distinct, SlotNumbers
  <2>3. QED
    BY <2>1, <2>2
<1>6. 0 \in 0 .. Slots * MaxPages /\ Store!Ids \subseteq 0 .. Slots * MaxPages /\ 0 \notin Store!Ids
  BY DEF OneCaller, Store!Ids
\* What was a slot's name is again.
<1>7. ASSUME NEW n \in Listed, NEW s \in SlotNumbers, Slot(n, s).id # 0
      PROVE  /\ Slot(n, s).name \in Names => bucket'[Slot(n, s).name] = Slot(n, s).id
             /\ Slot(n, s).id \in Store!Ids /\ names'[Slot(n, s).id] = Slot(n, s).name
  BY <1>1, <1>7, NamesLoaded
<1>8. \A x \in Names : bucket'[x] # 0 =>
        \E n \in Listed, s \in SlotNumbers : Slot(n, s).id # 0 /\ Slot(n, s).name = x
  BY <1>1, NothingLoaded
<1>9. \A i \in Store!Ids : names'[i] # NoName =>
        \E n \in Listed, s \in SlotNumbers : Slot(n, s).id # 0 /\ Slot(n, s).id = i
  BY <1>1, NothingLoaded
<1>10. \A n \in Listed, s \in SlotNumbers : Slot(n, s) \in SlotRecord
  <2>1. SUFFICES ASSUME NEW n \in Listed, NEW s \in SlotNumbers PROVE Slot(n, s) \in SlotRecord
    OBVIOUS
  <2>2. pages[List[n]] \in PageRecord
    BY <1>2, ListedPages DEF PagesLinked
  <2>3. pages[List[n]].slots \in [SlotNumbers -> SlotRecord]
    BY <2>2 DEF PageRecord
  <2>4. QED
    BY <2>3 DEF Slot
<1>11. MemoryType'
  <2>1. bucket' \in [Names -> 0 .. Slots * MaxPages]
    <3>1. bucket' = [x \in Names |-> bucket'[x]]
      BY <1>1 DEF Store!LoadedBucket
    <3>2. ASSUME NEW x \in Names PROVE bucket'[x] \in 0 .. Slots * MaxPages
      <4>1. CASE bucket'[x] = 0
        BY <1>6, <4>1
      <4>2. CASE bucket'[x] # 0
        <5>1. PICK n \in Listed, s \in SlotNumbers : Slot(n, s).id # 0 /\ Slot(n, s).name = x
          BY <1>8, <4>2
        <5>2. bucket'[x] = Slot(n, s).id /\ Slot(n, s).id \in Store!Ids
          BY <1>7, <5>1
        <5>3. QED
          BY <1>6, <5>2
      <4>3. QED
        BY <4>1, <4>2
    <3>3. QED
      BY <3>1, <3>2
  <2>2. names' \in [Store!Ids -> Names \cup {NoName}]
    <3>1. names' = [i \in Store!Ids |-> names'[i]]
      BY <1>1 DEF Store!LoadedNames
    <3>2. ASSUME NEW i \in Store!Ids PROVE names'[i] \in Names \cup {NoName}
      <4>1. CASE names'[i] = NoName
        BY <4>1
      <4>2. CASE names'[i] # NoName
        <5>1. PICK n \in Listed, s \in SlotNumbers : Slot(n, s).id # 0 /\ Slot(n, s).id = i
          BY <1>9, <4>2
        <5>2. names'[i] = Slot(n, s).name
          BY <1>7, <5>1
        <5>3. QED
          BY <1>10, <5>2 DEF SlotRecord
      <4>3. QED
        BY <4>1, <4>2
    <3>3. QED
      BY <3>1, <3>2
  <2>3. calls' \in [Threads -> Store!Call \cup {Store!Idle}]
    BY <1>1
  <2>4. QED
    BY <1>1, <1>2, <2>1, <2>2, <2>3 DEF MemoryType, Store!Ids
<1>12. Cached'
  <2>1. SUFFICES ASSUME NEW m \in Listed, NEW s \in SlotNumbers, Slot(m, s).name \in Names
                 PROVE  bucket'[Slot(m, s).name] # 0
    BY <1>3 DEF Cached, SlotNumbers
  <2>2. Slot(m, s).id # 0
    BY <1>2, <2>1 DEF Filled, OneCaller
  <2>3. QED
    BY <1>7, <2>1, <2>2
<1>13. Stored'
  <2>1. SUFFICES ASSUME NEW x \in Names, bucket'[x] # 0
                 PROVE  /\ names'[bucket'[x]] = x
                        /\ \E m \in Listed, s \in SlotNumbers :
                             Slot(m, s) = [id |-> bucket'[x], name |-> x]
    BY <1>3 DEF Stored, SlotNumbers
  <2>2. PICK n \in Listed, s \in SlotNumbers : Slot(n, s).id # 0 /\ Slot(n, s).name = x
    BY <1>8, <2>1
  <2>3. bucket'[x] = Slot(n, s).id /\ names'[Slot(n, s).id] = x
    BY <1>7, <2>2
  <2>4. Slot(n, s) = [id |-> bucket'[x], name |-> x]
    BY <1>10, <2>2, <2>3 DEF SlotRecord
  <2>5. QED
    BY <2>3, <2>4
<1>14. GivenMeant'
  <2>1. SUFFICES ASSUME NEW g \in given PROVE g[1] \in Names /\ g[2] # 0 /\ bucket'[g[1]] = g[2]
    BY <1>1 DEF GivenMeant
  <2>2. g[1] \in Names /\ g[2] # 0 /\ bucket[g[1]] = g[2]
    BY <1>2 DEF GivenMeant
  <2>3. PICK n \in Listed, s \in SlotNumbers : Slot(n, s) = [id |-> g[2], name |-> g[1]]
    BY <1>2, <2>2 DEF Stored
  <2>4. Slot(n, s).id = g[2] /\ Slot(n, s).name = g[1]
    BY <2>3
  <2>5. bucket'[g[1]] = g[2]
    BY <1>7, <2>2, <2>4
  <2>6. QED
    BY <2>2, <2>5
<1>15. \A t \in Threads : CallMeant(calls[t])'
  <2>1. \A t \in Threads : calls'[t] = Store!Idle
    BY <1>1
  <2>2. QED
    BY <2>1 DEF CallMeant, Store!Idle
<1>16. QED
  BY <1>4, <1>5, <1>11, <1>12, <1>13, <1>14, <1>15 DEF KeysInv

-----------------------------------------------------------------------------

LEMMA KeysInvInit == OneCaller /\ Store!Init => KeysInv
<1> SUFFICES ASSUME OneCaller, Store!Init PROVE KeysInv
  OBVIOUS
<1>1. /\ kind \in {"keys", "namespaces"} /\ head = 0 /\ pages = <<>>
      /\ bucket = [n \in Names |-> 0] /\ names = [i \in Store!Ids |-> NoName]
      /\ calls = [t \in Threads |-> Store!Idle] /\ given = {}
  BY DEF Store!Init
<1>2. Store!Pages = {} /\ Store!Pages = 1 .. 0 /\ 0 \in 0 .. MaxPages /\ 0 \in 0 .. Slots * MaxPages
  <2>1. DOMAIN pages = {}
    BY <1>1
  <2>2. QED
    BY <2>1 DEF Store!Pages, OneCaller
<1>3. PagesLinked
  BY <1>1, <1>2 DEF PagesLinked
<1>4. MemoryType
  BY <1>1, <1>2 DEF MemoryType
<1>5. PICK list : list = [n \in 1 .. MaxPages |-> 0]
  OBVIOUS
<1>6. Follows(list, head, pages)
  <2> DEFINE R(n) == IF n = 1 THEN head
                     ELSE IF list[n - 1] = 0 THEN 0 ELSE pages[list[n - 1]].nextPage
  <2>1. ASSUME NEW n \in 1 .. MaxPages PROVE R(n) = 0
    <3>1. CASE n = 1
      BY <1>1, <3>1
    <3>2. CASE n # 1
      <4>1. n - 1 \in 1 .. MaxPages
        BY <3>2 DEF OneCaller
      <4>2. list[n - 1] = 0
        BY <1>5, <4>1
      <4>3. QED
        BY <3>2, <4>2
    <3>3. QED
      BY <3>1, <3>2
  <2>2. list = [n \in 1 .. MaxPages |-> R(n)]
    <3> HIDE DEF R
    <3>1. [n \in 1 .. MaxPages |-> 0] = [n \in 1 .. MaxPages |-> R(n)]
      BY <2>1, Zenon
    <3>2. QED
      BY <1>5, <3>1, Zenon
  <2>3. QED
    BY <2>2 DEF Follows
<1>7. List = list
  <2>1. ListOf(head, pages) = list
    BY <1>6, ListFound, Zenon
  <2>2. QED
    BY <2>1 DEF List
<1>8. Follows(List, head, pages)
  BY <1>6, <1>7, Zenon
<1>9. Listed = {}
  BY <1>5, <1>7 DEF Listed
<1>10. (\A n \in Listed : Filled(n)) /\ Distinct /\ Cached
  BY <1>9 DEF Distinct, Cached
<1>11. Stored /\ GivenMeant
  BY <1>1 DEF Stored, GivenMeant
<1>12. \A t \in Threads : CallMeant(calls[t])
  BY <1>1 DEF CallMeant
<1>13. QED
  BY <1>3, <1>4, <1>8, <1>10, <1>11, <1>12 DEF KeysInv

LEMMA KeysInvKept == OneCaller /\ KeysInv /\ [Store!Next]_Store!vars => KeysInv'
<1> SUFFICES ASSUME OneCaller, KeysInv, [Store!Next]_Store!vars PROVE KeysInv'
  OBVIOUS
<1>1. ASSUME NEW t \in Threads, Store!ThreadStep(t) PROVE KeysInv'
  <2>1. ASSUME NEW n \in Names, Store!getFromCache(t, n) PROVE KeysInv'
    BY <2>1, getFromCacheKeeps
  <2>2. ASSUME NEW n \in Names, Store!addInStore(t, n) PROVE KeysInv'
    BY <2>2, addInStoreKeeps
  <2>3. CASE Store!FirstPage(t)
    BY <2>3, FirstPageKeeps
  <2>4. CASE Store!SetHead(t)
    BY <2>4, SetHeadKeeps
  <2>5. CASE Store!ScanPage(t)
    BY <2>5, ScanPageKeeps
  <2>6. CASE Store!LinkPage(t)
    BY <2>6, LinkPageKeeps
  <2>7. CASE Store!WriteId(t)
    BY <2>7, WriteIdKeeps
  <2>8. CASE Store!WriteName(t)
    BY <2>8, WriteNameKeeps
  <2>9. CASE Store!FillCache(t)
    BY <2>9, FillCacheKeeps
  <2>10. QED
    BY <1>1, <2>1, <2>2, <2>3, <2>4, <2>5, <2>6, <2>7, <2>8, <2>9 DEF Store!ThreadStep
<1>2. CASE Store!loadKeysFromStore
  BY <1>2, loadKeysFromStoreKeeps
<1>3. CASE UNCHANGED Store!vars
  <2>1. UNCHANGED <<kind, head, pages, bucket, names, calls, given>>
    BY <1>3 DEF Store!vars, Store!file, Store!cache
  <2>2. GivenMeant'
    BY <2>1 DEF KeysInv, GivenMeant
  <2>3. QED
    BY <2>1, <2>2, NothingMoved
<1>4. QED
  BY <1>1, <1>2, <1>3 DEF Store!Next

LEMMA KeysInvMeans == OneCaller /\ KeysInv => Store!KeysKept
<1> SUFFICES ASSUME OneCaller, KeysInv, NEW g \in given
             PROVE  /\ Store!LoadedBucket[g[1]] = g[2] /\ Store!LoadedNames[g[2]] = g[1]
                    /\ bucket[g[1]] = g[2] /\ names[g[2]] = g[1]
  BY DEF Store!KeysKept
<1>1. g[1] \in Names /\ g[2] # 0 /\ bucket[g[1]] = g[2]
  BY DEF KeysInv, GivenMeant
<1>2. names[g[2]] = g[1]
  BY <1>1 DEF KeysInv, Stored
<1>3. PICK n \in Listed, s \in SlotNumbers : Slot(n, s) = [id |-> g[2], name |-> g[1]]
  BY <1>1 DEF KeysInv, Stored
<1>4. Slot(n, s).id = g[2] /\ Slot(n, s).name = g[1]
  BY <1>3
<1>5. Store!LoadedBucket[g[1]] = g[2] /\ Store!LoadedNames[g[2]] = g[1]
  BY <1>1, <1>4, NamesLoaded
<1>6. QED
  BY <1>1, <1>2, <1>5

\* A crash at any moment leaves each name that was given with its id, in the file and in the
\* cache made of it, whatever the number of names and the size of the pages, when one thread at
\* a time numbers names (getFromCache(), addKeyInStore(), loadKeysFromStore()).
THEOREM NamesKeepIds == OneCaller => (Store!Spec => []Store!KeysKept)
<1> SUFFICES ASSUME OneCaller PROVE Store!Spec => []Store!KeysKept
  OBVIOUS
<1>1. Store!Init => KeysInv
  BY KeysInvInit
<1>2. KeysInv /\ [Store!Next]_Store!vars => KeysInv'
  BY KeysInvKept
<1>3. KeysInv => Store!KeysKept
  BY KeysInvMeans
<1>4. QED
  BY <1>1, <1>2, <1>3, PTL DEF Store!Spec
====================================================================================
