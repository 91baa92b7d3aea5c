------------------------------ MODULE NamespaceAlias ------------------------------
(******************************************************************************)
(* The stack of namespace declarations a parser, a serializer or a processor  *)
(* keeps while it goes through the elements of a document                     *)
(* (kern/namespacealias.cpp).  Two mappings are kept up to date, from         *)
(* prefixes to namespaces and back, and each declaration records the values   *)
(* it hides, which pop() restores.                                            *)
(*                                                                            *)
(* The headers of the stack, one for each level that declares something, and  *)
(* the list of declarations of each are one sequence here, oldest first, of   *)
(* declarations with their levels.                                            *)
(******************************************************************************)
EXTENDS Naturals, Sequences

CONSTANTS
    Prefixes,         \* the LocalKeyIds used as prefixes
    Default,          \* xmlns, the prefix of the default namespace
    Namespaces,       \* the NamespaceIds
    None,             \* 0: no namespace, no prefix
    Builtins,         \* the declarations of the constructor, <<prefix, namespace>>
    MaxLevel,         \* bound: currentStackLevel
    MaxDeclarations,  \* bound: the declarations on the stack
    Redeclares        \* whether a prefix of an outer level may be declared again for a
                      \* namespace that another prefix of the level already has

ASSUME ConstantsAssumption ==
    /\ Default \in Prefixes
    /\ None \notin Prefixes \cup Namespaces
    /\ Builtins \in Seq(Prefixes \X Namespaces)
    /\ MaxLevel \in Nat /\ MaxDeclarations \in Nat
    /\ Redeclares \in BOOLEAN
    /\ \A i, j \in DOMAIN Builtins : i # j => /\ Builtins[i][1] # Builtins[j][1]
                                              /\ Builtins[i][2] # Builtins[j][2]

VARIABLES
    currentStackLevel,
    localKeyIdToNamespaceIdMap,  \* the namespace of each prefix
    namespaceIdToLocalKeyIdMap,  \* the prefix of each namespace
    declarations,                \* the declarations of all levels, oldest first
    outer                        \* history: both mappings when each level was pushed

vars == <<currentStackLevel, localKeyIdToNamespaceIdMap, namespaceIdToLocalKeyIdMap,
          declarations, outer>>

Scopes == Namespaces \cup {None}

PrefixMaps == [Prefixes -> Scopes]
NamespaceMaps == [Scopes -> Prefixes \cup {None}]

Declaration == [level : Nat, localKeyId : Prefixes, namespaceId : Scopes,
                previousLocalKeyId : Prefixes \cup {None}, previousNamespaceId : Scopes]

TypeOK ==
    /\ currentStackLevel \in Nat
    /\ localKeyIdToNamespaceIdMap \in PrefixMaps
    /\ namespaceIdToLocalKeyIdMap \in NamespaceMaps
    /\ declarations \in Seq(Declaration)
    /\ outer \in Seq([namespaces : PrefixMaps, prefixes : NamespaceMaps])

--------------------------------------------------------------------------------
(* The constructor: the first level, with the prefixes every document has, or  *)
(* with none (the NamespaceAlias of the KeyCache).                             *)
Init ==
    /\ currentStackLevel = 1
    /\ outer = <<[namespaces |-> [p \in Prefixes |-> None],
                  prefixes |-> [n \in Scopes |-> None]]>>
    /\ \E set \in {<<>>, Builtins} :
          /\ declarations =
               [i \in DOMAIN set |->
                  [level |-> 1, localKeyId |-> set[i][1], namespaceId |-> set[i][2],
                   previousLocalKeyId |-> None, previousNamespaceId |-> None]]
          /\ localKeyIdToNamespaceIdMap =
               [p \in Prefixes |-> IF \E i \in DOMAIN set : set[i][1] = p
                                     THEN set[CHOOSE i \in DOMAIN set : set[i][1] = p][2]
                                     ELSE None]
          /\ namespaceIdToLocalKeyIdMap =
               [n \in Scopes |-> IF \E i \in DOMAIN set : set[i][2] = n
                                   THEN set[CHOOSE i \in DOMAIN set : set[i][2] = n][1]
                                   ELSE None]

(* An element starts.                                                          *)
push ==
    /\ currentStackLevel < MaxLevel
    /\ currentStackLevel' = currentStackLevel + 1
    /\ outer' = Append(outer, [namespaces |-> localKeyIdToNamespaceIdMap,
                               prefixes |-> namespaceIdToLocalKeyIdMap])
    /\ UNCHANGED <<localKeyIdToNamespaceIdMap, namespaceIdToLocalKeyIdMap, declarations>>

(* The declarations of the current level: those of stackHead when its level is *)
(* the current one, and none otherwise.                                        *)
AtLevel == {i \in DOMAIN declarations : declarations[i].level = currentStackLevel}

\* Mutant: the values restored are those the newest declaration hid.
Newest(set) == CHOOSE i \in set : \A j \in set : j <= i

(* Undoing declarations newest first leaves what the oldest had hidden.        *)
Oldest(set) == CHOOSE i \in set : \A j \in set : i <= j

(* The mappings once the declarations of the level are undone.                 *)
Undone ==
    [namespaces |-> [p \in Prefixes |->
        LET own == {i \in AtLevel : declarations[i].localKeyId = p}
        IN IF own = {} THEN localKeyIdToNamespaceIdMap[p]
           ELSE declarations[Oldest(own)].previousNamespaceId],
     prefixes |-> [n \in Scopes |->
        LET own == {i \in AtLevel : declarations[i].namespaceId = n}
        IN IF own = {} THEN namespaceIdToLocalKeyIdMap[n]
           ELSE declarations[Oldest(own)].previousLocalKeyId]]

(* The element ends.                                                           *)
pop ==
    /\ currentStackLevel > 0
    /\ currentStackLevel' = currentStackLevel - 1
    /\ localKeyIdToNamespaceIdMap' = Undone.namespaces
    /\ namespaceIdToLocalKeyIdMap' = Undone.prefixes
    /\ declarations' = IF AtLevel = {} THEN declarations
                       ELSE SubSeq(declarations, 1, Oldest(AtLevel) - 1)
    /\ outer' = SubSeq(outer, 1, currentStackLevel - 1)

--------------------------------------------------------------------------------
(* setNamespacePrefix().                                                       *)

(* Both mappings take the new pair.                                            *)
Map(p, n) ==
    /\ localKeyIdToNamespaceIdMap' = [localKeyIdToNamespaceIdMap EXCEPT ![p] = n]
    /\ namespaceIdToLocalKeyIdMap' = [namespaceIdToLocalKeyIdMap EXCEPT ![n] = p]

(* The declarations of the level that concern p or n, when they are looked at: *)
(* not with `overwrite`, nor when p has no namespace.                          *)
Concerned(p, n, overwrite) ==
    IF overwrite \/ localKeyIdToNamespaceIdMap[p] = None THEN {}
    ELSE {i \in AtLevel : declarations[i].localKeyId = p \/ declarations[i].namespaceId = n}

(* The first met is the newest.                                                *)
Met(p, n, overwrite) ==
    LET concerned == Concerned(p, n, overwrite)
    IN declarations[CHOOSE i \in concerned : \A j \in concerned : j <= i]

\* Mutant: a declaration records the prefix it hides after it has mapped it.
DeclareForgetting(p, n) ==
    declarations' = Append(declarations,
        [level |-> currentStackLevel, localKeyId |-> p, namespaceId |-> n,
         previousLocalKeyId |-> p,
         previousNamespaceId |-> localKeyIdToNamespaceIdMap[p]])

Declare(p, n) ==
    declarations' = Append(declarations,
        [level |-> currentStackLevel, localKeyId |-> p, namespaceId |-> n,
         previousLocalKeyId |-> namespaceIdToLocalKeyIdMap[n],
         previousNamespaceId |-> localKeyIdToNamespaceIdMap[p]])

(* p is not declared at this level: mapping it without a declaration loses the *)
(* namespace that an outer level gave it.                                      *)
Loses(p) == \A i \in AtLevel : declarations[i].localKeyId # p

(* A prefix the level does not concern is declared.                            *)
SetNew(p, n, overwrite) ==
    /\ Concerned(p, n, overwrite) = {}
    /\ Len(declarations) < MaxDeclarations
    /\ Declare(p, n)
    /\ Map(p, n)
    /\ UNCHANGED <<currentStackLevel, outer>>

(* The namespace has another prefix at the level: p is mapped, not declared.   *)
(* (When the declaration met is one of p, nothing changes: it says the same,   *)
(* or the call throws.)                                                        *)
SetAlso(p, n, overwrite) ==
    /\ Concerned(p, n, overwrite) # {}
    /\ Met(p, n, overwrite).localKeyId # p
    /\ Redeclares \/ ~Loses(p)
    /\ Map(p, n)
    /\ UNCHANGED <<declarations, currentStackLevel, outer>>

setNamespacePrefix(p, n, overwrite) ==
    /\ n = None => p = Default
    /\ SetNew(p, n, overwrite) \/ SetAlso(p, n, overwrite)

Next ==
    \/ push
    \/ pop
    \/ \E p \in Prefixes, n \in Scopes, overwrite \in BOOLEAN :
          setNamespacePrefix(p, n, overwrite)

Spec == Init /\ [][Next]_vars

--------------------------------------------------------------------------------
(* Properties.                                                                 *)

(* The end of an element gives every prefix and every namespace the meaning it *)
(* had before the element: "All the prefixes set by setNamespacePrefix() after *)
(* the last call to push() are removed.  Original values are restored as       *)
(* well." (namespacealias.h:175), whatever was declared, twice or not.         *)
OuterScopesKept == currentStackLevel > 0 => Undone = outer[currentStackLevel]
================================================================================
