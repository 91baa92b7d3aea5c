------------------------- MODULE BranchHistoryProofs -------------------------
(***************************************************************************)
(* Theorems about BranchManager: the histories of the branches, and the    *)
(* documents on them.                                                      *)
(***************************************************************************)
EXTENDS BranchManagerProofs

USE BoundsAssumption, UsesAssumption, ThreadsAssumption, NoThreadAssumption

-----------------------------------------------------------------------------
(* The elements reached by following "next" down to "null": the revisions of *)
(* a branch, or the branches one comes from.                                 *)

IsChain(S, null, next, g) ==
  g = [q \in S \cup {null} |-> IF q = null THEN {} ELSE {q} \cup g[next[q]]]

Chain(S, null, next) == CHOOSE g : IsChain(S, null, next, g)

\* What is reached from q: it is in every set that has q and is closed.
Reached(S, null, next, q) ==
  {p \in S : \A R \in SUBSET S :
     q \in R /\ (\A x \in R : next[x] # null => next[x] \in R) => p \in R}

LEMMA ChainUnfolds ==
  ASSUME NEW S, NEW null, null \notin S, NEW next \in [S -> S \cup {null}]
  PROVE  LET c == Chain(S, null, next) IN
         /\ c[null] = {}
         /\ \A q \in S : c[q] = {q} \cup c[next[q]]
<1> DEFINE R(q) == IF q = null THEN {} ELSE Reached(S, null, next, q)
           g == [q \in S \cup {null} |-> R(q)]
           c == Chain(S, null, next)
<1>1. ASSUME NEW q \in S
      PROVE  Reached(S, null, next, q) = {q} \cup R(next[q])
  <2>1. next[q] \in S \cup {null}
    OBVIOUS
  <2>2. ASSUME NEW p \in {q} \cup R(next[q])
        PROVE  p \in Reached(S, null, next, q)
    BY <2>1, <2>2 DEF Reached
  <2>3. ASSUME NEW p \in Reached(S, null, next, q), p # q, next[q] # null,
               p \notin Reached(S, null, next, next[q])
        PROVE  FALSE
    <3>1. p \in S
      BY DEF Reached
    <3>2. PICK T \in SUBSET S : /\ next[q] \in T /\ p \notin T
                                /\ \A x \in T : next[x] # null => next[x] \in T
      BY <3>1, <2>3 DEF Reached
    <3>3. T \cup {q} \in SUBSET S /\ \A x \in T \cup {q} : next[x] # null => next[x] \in T \cup {q}
      BY <3>2
    <3>4. QED
      BY <3>2, <3>3, <2>3 DEF Reached
  <2>4. ASSUME NEW p \in Reached(S, null, next, q), p # q, next[q] = null
        PROVE  FALSE
    <3>1. {q} \in SUBSET S /\ \A x \in {q} : next[x] # null => next[x] \in {q}
      BY <2>4
    <3>2. QED
      BY <3>1, <2>4 DEF Reached
  <2>5. QED
    BY <2>1, <2>2, <2>3, <2>4
<1>2. IsChain(S, null, next, g)
  <2>1. \A q \in S : next[q] \in S \cup {null} /\ q # null
    OBVIOUS
  <2>2. \A q \in S \cup {null} : R(q) = IF q = null THEN {} ELSE {q} \cup g[next[q]]
    BY <1>1, <2>1
  <2>3. QED
    BY <2>2 DEF IsChain
<1>3. IsChain(S, null, next, c)
  BY <1>2 DEF Chain
<1>4. QED
  BY <1>3 DEF IsChain

\* What holds of every element of S, and of the next of every element it holds
\* of, when a rank decreases, holds of the elements reached.
LEMMA ChainWithin ==
  ASSUME NEW S, NEW null, null \notin S, NEW next \in [S -> S \cup {null}],
         NEW Good \in SUBSET S, NEW rank \in [S -> Nat],
         \A q \in Good : next[q] # null => next[q] \in Good /\ rank[next[q]] < rank[q]
  PROVE  \A q \in Good : /\ Chain(S, null, next)[q] \subseteq Good
                         /\ \A p \in Chain(S, null, next)[q] : rank[p] <= rank[q]
<1> DEFINE c == Chain(S, null, next)
           Fine(q) == c[q] \subseteq Good /\ \A p \in c[q] : rank[p] <= rank[q]
           Bad == {n \in Nat : \E q \in Good : rank[q] = n /\ ~Fine(q)}
<1>1. c[null] = {} /\ \A q \in S : c[q] = {q} \cup c[next[q]]
  BY ChainUnfolds
<1> HIDE DEF c
<1>2. SUFFICES ASSUME Bad # {}
               PROVE  FALSE
  BY DEF c
<1>3. PICK n \in Bad : \A m \in Bad : n <= m
  BY <1>2, LeastNumber
<1>4. PICK q \in Good : rank[q] = n /\ ~Fine(q)
  OBVIOUS
<1>5. c[q] = {q} \cup c[next[q]] /\ n \in Nat
  BY <1>1
<1>6. CASE next[q] = null
  BY <1>1, <1>4, <1>5, <1>6
<1>7. CASE next[q] # null
  <2>1. next[q] \in Good /\ rank[next[q]] < n /\ rank[next[q]] \in Nat
    BY <1>4, <1>7
  <2>2. Fine(next[q])
    BY <1>3, <1>5, <2>1
  <2>3. \A p \in c[next[q]] : rank[p] \in Nat /\ rank[p] <= rank[next[q]]
    BY <2>2
  <2>4. \A p \in c[q] : p \in Good /\ rank[p] <= rank[q]
    BY <1>4, <1>5, <2>1, <2>2, <2>3
  <2>5. QED
    BY <1>4, <2>4
<1>8. QED
  BY <1>6, <1>7

-----------------------------------------------------------------------------
(* The branches and their revisions.                                       *)

Taken == {p \in Page : revision[p].branch # NoBranch}

RevisionType ==
  [branch : Branch \cup {NoBranch}, id : Nat, prev : Page \cup {NullPage},
   base : Page \cup {NullPage}, writable : BOOLEAN, edits : Nat]

StoreType ==
  /\ nextBranchId \in Nat \ {0}
  /\ branchMap \in SUBSET Branch /\ \A b \in branchMap : b < nextBranchId
  /\ dependsOn \in [Branch -> Branch \cup {NoBranch}]
  /\ lastRevision \in [Branch -> Page \cup {NullPage}]
  /\ revision \in [Page -> RevisionType]

\* A branch is forked from an older one.
Forest ==
  \A b \in branchMap : dependsOn[b] # NoBranch => dependsOn[b] \in branchMap /\ dependsOn[b] < b

Blank == \A p \in Page \ Taken : revision[p] = NoRevision

\* A revision is in the line of its branch, which ends at the last one.
InLine(p) ==
  LET r == revision[p] IN
  /\ r.branch \in branchMap /\ lastRevision[r.branch] # NullPage
  /\ r.id > 0 /\ r.id <= revision[lastRevision[r.branch]].id
  /\ r.prev = NullPage => r.id = 1
  /\ r.prev # NullPage => /\ r.prev \in Taken /\ revision[r.prev].branch = r.branch
                          /\ r.id = revision[r.prev].id + 1
  /\ r.writable => p = lastRevision[r.branch]

Lines ==
  /\ \A b \in Branch : lastRevision[b] # NullPage =>
       lastRevision[b] \in Taken /\ revision[lastRevision[b]].branch = b
  /\ \A p \in Taken : InLine(p)
  /\ \A p, q \in Taken :
       revision[p].branch = revision[q].branch /\ revision[p].id = revision[q].id => p = q

HasBase(p) ==
  LET r == revision[p] IN
  r.base # NullPage =>
    /\ r.base \in Taken /\ ~revision[r.base].writable
    /\ \/ r.base = r.prev
       \/ r.prev = NullPage /\ revision[r.base].branch = dependsOn[r.branch]

StoreInv == StoreType /\ Forest /\ Blank /\ Lines /\ \A p \in Taken : HasBase(p)

LEMMA Numbers ==
  /\ NoBranch \notin Branch /\ NullPage \notin Page /\ Branch \subseteq Nat /\ Page \subseteq Nat
  /\ NoBranch = 0 /\ NullPage = 0
<1>1. MaxBranches \in Nat /\ MaxRevisions \in Nat
  BY DEF BoundsAssumption
<1>2. QED
  BY <1>1 DEF Branch, Page, NoBranch, NullPage

LEMMA FreeMeans == Blank => FreePages = Page \ Taken
<1>1. NoRevision.branch = NoBranch
  BY DEF NoRevision
<1>2. QED
  BY <1>1 DEF Blank, FreePages, Taken

\* What is reached is closed: a rank decreases from an element to the next.
LEMMA ChainClosed ==
  ASSUME NEW S, NEW null, null \notin S, NEW next \in [S -> S \cup {null}],
         NEW Good \in SUBSET S, NEW rank \in [S -> Nat],
         \A q \in Good : next[q] # null => next[q] \in Good /\ rank[next[q]] < rank[q]
  PROVE  \A q \in Good : /\ q \in Chain(S, null, next)[q]
                         /\ \A p \in Chain(S, null, next)[q] :
                              next[p] # null => next[p] \in Chain(S, null, next)[q]
<1> DEFINE c == Chain(S, null, next)
           Fine(q) == \A p \in c[q] : next[p] # null => next[p] \in c[q]
           Bad == {n \in Nat : \E q \in Good : rank[q] = n /\ ~Fine(q)}
<1>1. c[null] = {} /\ \A q \in S : c[q] = {q} \cup c[next[q]]
  BY ChainUnfolds
<1> HIDE DEF c
<1>2. SUFFICES ASSUME Bad # {}
               PROVE  FALSE
  BY <1>1 DEF c
<1>3. PICK n \in Bad : \A m \in Bad : n <= m
  BY <1>2, LeastNumber
<1>4. PICK q \in Good : rank[q] = n /\ ~Fine(q)
  OBVIOUS
<1>5. c[q] = {q} \cup c[next[q]] /\ n \in Nat
  BY <1>1
<1>6. CASE next[q] = null
  BY <1>1, <1>4, <1>5, <1>6
<1>7. CASE next[q] # null
  <2>1. next[q] \in Good /\ rank[next[q]] < n /\ rank[next[q]] \in Nat /\ next[q] \in S
    BY <1>4, <1>7
  <2>2. Fine(next[q]) /\ next[q] \in c[next[q]]
    BY <1>1, <1>3, <1>5, <2>1
  <2>3. QED
    BY <1>4, <1>5, <2>2
<1>8. QED
  BY <1>6, <1>7

Previous == [q \in Page |-> revision[q].prev]

LEMMA RevisionsMeant ==
  \A p \in Page \cup {NullPage} : RevisionsFrom(p) = Chain(Page, NullPage, Previous)[p]
<1> DEFINE Unfolded(g) == [q \in Page \cup {NullPage} |->
             IF q = NullPage THEN {} ELSE {q} \cup g[revision[q].prev]]
<1>1. \A g : IsChain(Page, NullPage, Previous, g) <=> g = Unfolded(g)
  BY DEF IsChain, Previous
<1>2. (CHOOSE g : IsChain(Page, NullPage, Previous, g)) = CHOOSE g : g = Unfolded(g)
  BY <1>1
<1>3. QED
  BY <1>2 DEF RevisionsFrom, Chain

LEMMA AncestorsMeant ==
  ASSUME NEW b \in Branch \cup {NoBranch}
  PROVE  Ancestors(b) = Chain(Branch, NoBranch, [c \in Branch |-> dependsOn[c]])[b]
<1> DEFINE Origin == [c \in Branch |-> dependsOn[c]]
           Unfolded(g) == [c \in Branch \cup {NoBranch} |->
             IF c = NoBranch THEN {} ELSE {c} \cup g[dependsOn[c]]]
<1>1. \A g : IsChain(Branch, NoBranch, Origin, g) <=> g = Unfolded(g)
  BY DEF IsChain
<1>2. (CHOOSE g : IsChain(Branch, NoBranch, Origin, g)) = CHOOSE g : g = Unfolded(g)
  BY <1>1
<1>3. QED
  BY <1>2 DEF Ancestors, Chain

\* The revisions reached from the last one of a branch are those of the branch.
LEMMA RevisionsOfBranch ==
  ASSUME StoreInv, NEW b \in Branch
  PROVE  RevisionsFrom(lastRevision[b]) = {p \in Taken : revision[p].branch = b}
<1> DEFINE own == {p \in Taken : revision[p].branch = b}
           rank == [p \in Page |-> revision[p].id]
           c == Chain(Page, NullPage, Previous)
           last == lastRevision[b]
<1>1. /\ Previous \in [Page -> Page \cup {NullPage}] /\ rank \in [Page -> Nat]
      /\ last \in Page \cup {NullPage}
  BY DEF StoreInv, StoreType, RevisionType, Previous
<1>2. /\ \A p \in Taken : InLine(p) /\ p \in Page /\ revision[p].id \in Nat
      /\ \A p, q \in Taken :
           revision[p].branch = revision[q].branch /\ revision[p].id = revision[q].id => p = q
      /\ last # NullPage => last \in own
  BY <1>1 DEF StoreInv, Lines, Taken
<1>3. \A q \in own : /\ Previous[q] # NullPage =>
                          /\ Previous[q] \in own /\ rank[Previous[q]] < rank[q]
                          /\ rank[q] = rank[Previous[q]] + 1
                     /\ Previous[q] = NullPage => rank[q] = 1
  <2>1. SUFFICES ASSUME NEW q \in own
                 PROVE  /\ Previous[q] # NullPage =>
                             /\ Previous[q] \in own /\ rank[Previous[q]] < rank[q]
                             /\ rank[q] = rank[Previous[q]] + 1
                        /\ Previous[q] = NullPage => rank[q] = 1
    OBVIOUS
  <2>2. q \in Page /\ q \in Taken /\ Previous[q] = revision[q].prev
    BY DEF Taken, Previous
  <2>3. Previous[q] # NullPage =>
          /\ Previous[q] \in Taken /\ revision[Previous[q]].branch = b
          /\ revision[q].id = revision[Previous[q]].id + 1
    BY <1>2, <2>2 DEF InLine
  <2>4. Previous[q] \in Taken => Previous[q] \in Page
    BY DEF Taken
  <2>5. Previous[q] = NullPage => revision[q].id = 1
    BY <1>2, <2>2 DEF InLine
  <2>6. \A p \in Page : rank[p] = revision[p].id /\ rank[p] \in Nat
    BY <1>1
  <2>7. QED
    BY <2>2, <2>3, <2>4, <2>5, <2>6
<1>4. own \in SUBSET Page /\ NullPage \notin Page
  BY Numbers DEF Taken
<1>5. \A q \in own : /\ c[q] \subseteq own /\ q \in c[q]
                     /\ \A p \in c[q] : Previous[p] # NullPage => Previous[p] \in c[q]
  <2> HIDE DEF own, rank
  <2>1. \A q \in own : Previous[q] # NullPage => Previous[q] \in own /\ rank[Previous[q]] < rank[q]
    BY <1>3
  <2>2. \A q \in own : c[q] \subseteq own
    BY <1>1, <1>4, <2>1, ChainWithin
  <2>3. \A q \in own : /\ q \in c[q]
                       /\ \A p \in c[q] : Previous[p] # NullPage => Previous[p] \in c[q]
    BY <1>1, <1>4, <2>1, ChainClosed, ZenonT(60)
  <2>4. QED
    BY <2>2, <2>3
<1>6. RevisionsFrom(last) = c[last]
  BY <1>1, RevisionsMeant
<1> HIDE DEF c
<1>7. CASE last = NullPage
  <2>1. c[last] = {}
    BY <1>1, <1>4, <1>7, ChainUnfolds DEF c
  <2>2. own = {}
    BY <1>2, <1>7 DEF InLine
  <2>3. QED
    BY <1>6, <2>1, <2>2
<1>8. CASE last # NullPage
  <2>1. last \in own /\ c[last] \subseteq own /\ last \in c[last]
    BY <1>2, <1>5, <1>8
  <2>2. ASSUME NEW p \in own, p \notin c[last] PROVE FALSE
    <3> DEFINE Above == {n \in Nat : \E q \in c[last] : rank[q] = n /\ n > rank[p]}
    <3>1. rank[p] \in Nat /\ rank[p] > 0 /\ rank[last] \in Nat /\ rank[p] <= rank[last]
          /\ rank[p] # rank[last]
      BY <1>1, <1>2, <2>1, <2>2 DEF InLine
    <3>2. rank[last] \in Above
      <4> HIDE DEF rank
      <4>1. QED
        BY <2>1, <3>1
    <3>3. PICK m \in Above : \A k \in Above : m <= k
      BY <3>2, LeastNumber
    <3>4. PICK q \in c[last] : rank[q] = m /\ m > rank[p]
      OBVIOUS
    <3>5. q \in own /\ Previous[q] # NullPage
      BY <1>3, <2>1, <3>1, <3>4
    <3>6. Previous[q] \in c[last] /\ Previous[q] \in own /\ m = rank[Previous[q]] + 1
      BY <1>3, <1>5, <2>1, <3>4, <3>5
    <3>7. rank[Previous[q]] \in Nat /\ rank[Previous[q]] >= rank[p]
      BY <1>1, <1>4, <3>1, <3>4, <3>6
    <3>8. CASE rank[Previous[q]] = rank[p]
      <4>1. revision[Previous[q]].id = revision[p].id
        BY <1>4, <3>6, <3>8
      <4>2. Previous[q] = p
        BY <1>2, <3>6, <4>1
      <4>3. QED
        BY <2>2, <3>6, <4>2
    <3>9. CASE rank[Previous[q]] # rank[p]
      <4> HIDE DEF rank
      <4>1. rank[Previous[q]] > rank[p]
        BY <3>1, <3>7, <3>9
      <4>2. rank[Previous[q]] \in Above
        BY <3>6, <3>7, <4>1
      <4>3. m \in Nat /\ m <= rank[Previous[q]]
        BY <3>3, <4>2
      <4>4. QED
        BY <3>6, <3>7, <4>3
    <3>10. QED
      BY <3>8, <3>9
  <2>3. QED
    BY <1>6, <2>1, <2>2
<1>9. QED
  BY <1>7, <1>8

\* A branch and the branches it comes from are there.
LEMMA AncestorsThere ==
  ASSUME StoreInv, NEW b \in branchMap
  PROVE  /\ Ancestors(b) \subseteq branchMap /\ b \in Ancestors(b)
         /\ dependsOn[b] # NoBranch =>
              dependsOn[b] \in branchMap /\ Ancestors(b) = {b} \cup Ancestors(dependsOn[b])
         /\ dependsOn[b] = NoBranch => Ancestors(b) = {b}
<1> DEFINE Origin == [c \in Branch |-> dependsOn[c]]
           rank == [c \in Branch |-> c]
           ch == Chain(Branch, NoBranch, Origin)
<1>1. /\ Origin \in [Branch -> Branch \cup {NoBranch}] /\ rank \in [Branch -> Nat]
      /\ branchMap \in SUBSET Branch /\ NoBranch \notin Branch
      /\ \A c \in branchMap : Origin[c] # NoBranch =>
           Origin[c] \in branchMap /\ rank[Origin[c]] < rank[c]
  BY Numbers DEF StoreInv, StoreType, Forest
<1>2. ch[NoBranch] = {} /\ \A c \in Branch : ch[c] = {c} \cup ch[Origin[c]]
  BY <1>1, ChainUnfolds
<1>3. ch[b] \subseteq branchMap
  BY <1>1, ChainWithin, ZenonT(60)
<1> HIDE DEF ch
<1>4. \A c \in Branch \cup {NoBranch} : Ancestors(c) = ch[c]
  BY AncestorsMeant DEF ch
<1>5. Origin[b] = dependsOn[b] /\ b \in Branch /\ Origin[b] \in Branch \cup {NoBranch}
  BY <1>1
<1>6. QED
  BY <1>1, <1>2, <1>3, <1>4, <1>5

\* What is deleted with a branch: all that was forked from it, and no more.
LEMMA DependantsClosed ==
  ASSUME StoreInv, NEW b \in branchMap
  PROVE  /\ Dependants(b) \subseteq branchMap
         /\ \A c \in branchMap : dependsOn[c] \in Dependants(b) => c \in Dependants(b)
         /\ \A c \in Dependants(b) : c = b \/ dependsOn[c] \in Dependants(b)
<1>1. \A c \in branchMap : dependsOn[c] \in Dependants(b) => c \in Dependants(b)
  <2>1. NoBranch \notin branchMap
    BY Numbers DEF StoreInv, StoreType
  <2>2. QED
    BY <2>1, AncestorsThere DEF Dependants
<1>2. \A c \in Dependants(b) : c = b \/ dependsOn[c] \in Dependants(b)
  BY AncestorsThere DEF Dependants
<1>3. QED
  BY <1>1, <1>2 DEF Dependants

\* What a step leaves of a revision: it may be committed and modified.
Kept(q) ==
  /\ revision'[q].branch = revision[q].branch /\ revision'[q].id = revision[q].id
  /\ revision'[q].prev = revision[q].prev /\ revision'[q].base = revision[q].base
  /\ revision'[q].writable => revision[q].writable

\* The revisions stay as long as their branches.
PagesKept == \A q \in Taken : revision[q].branch \in branchMap' => q \in Taken' /\ Kept(q)

LEMMA RevisionFields ==
  ASSUME StoreInv, NEW p \in Page
  PROVE  /\ revision[p] \in RevisionType
         /\ revision[p].branch \in Branch \cup {NoBranch} /\ revision[p].id \in Nat
         /\ revision[p].prev \in Page \cup {NullPage} /\ revision[p].base \in Page \cup {NullPage}
         /\ revision[p].writable \in BOOLEAN /\ revision[p].edits \in Nat
BY DEF StoreInv, StoreType, RevisionType

LEMMA StoreLeft ==
  ASSUME StoreInv, UNCHANGED <<nextBranchId, branchMap, dependsOn, revisions>>
  PROVE  StoreInv' /\ PagesKept
<1>1. UNCHANGED <<nextBranchId, branchMap, dependsOn, lastRevision, revision>>
  BY DEF revisions
<1>2. Taken' = Taken
  BY <1>1 DEF Taken
<1>3. StoreType' /\ Forest' /\ Blank'
  BY <1>1, <1>2 DEF StoreInv, StoreType, Forest, Blank
<1>4. Lines' /\ \A p \in Taken : HasBase(p)'
  BY <1>1, <1>2 DEF StoreInv, Lines, InLine, HasBase
<1>5. PagesKept
  BY <1>1, <1>2 DEF PagesKept, Kept
<1>6. QED
  BY <1>2, <1>3, <1>4, <1>5 DEF StoreInv

LEMMA BranchAdded ==
  ASSUME StoreInv, NEW from \in branchMap \cup {NoBranch}, DoCreateBranch(from),
         UNCHANGED revisions
  PROVE  /\ StoreInv' /\ PagesKept /\ branchMap' = branchMap \cup {nextBranchId}
         /\ nextBranchId \in Branch /\ nextBranchId \notin branchMap
         /\ lastRevision[nextBranchId] = NullPage /\ dependsOn'[nextBranchId] = from
         /\ \A b \in Branch \ {nextBranchId} : dependsOn'[b] = dependsOn[b]
<1>1. /\ nextBranchId \in Nat \ {0} /\ nextBranchId <= MaxBranches
      /\ branchMap \in SUBSET Branch /\ \A b \in branchMap : b < nextBranchId
      /\ dependsOn \in [Branch -> Branch \cup {NoBranch}]
      /\ nextBranchId' = nextBranchId + 1 /\ branchMap' = branchMap \cup {nextBranchId}
      /\ dependsOn' = [dependsOn EXCEPT ![nextBranchId] = from]
      /\ UNCHANGED <<lastRevision, revision>>
  BY DEF DoCreateBranch, StoreInv, StoreType, revisions
<1>2. nextBranchId \in Branch /\ nextBranchId \notin branchMap /\ MaxBranches \in Nat
  <2>1. MaxBranches \in Nat
    BY DEF BoundsAssumption
  <2>2. nextBranchId \in Branch
    BY <1>1, <2>1 DEF Branch
  <2>3. ~(nextBranchId < nextBranchId)
    BY <1>1
  <2>4. QED
    BY <1>1, <2>1, <2>2, <2>3
<1>3. /\ from \in Branch \cup {NoBranch} /\ dependsOn'[nextBranchId] = from
      /\ \A b \in Branch \ {nextBranchId} : dependsOn'[b] = dependsOn[b]
      /\ dependsOn' \in [Branch -> Branch \cup {NoBranch}]
  BY <1>1, <1>2
<1>4. Taken' = Taken
  BY <1>1 DEF Taken
<1>5. StoreType' /\ Blank'
  <2>1. \A b \in branchMap' : b < nextBranchId'
    <3>1. \A b \in branchMap : b \in Nat /\ b < nextBranchId
      BY <1>1, Numbers
    <3>2. QED
      BY <1>1, <3>1
  <2>2. nextBranchId' \in Nat \ {0} /\ branchMap' \in SUBSET Branch
    BY <1>1, <1>2
  <2>3. QED
    BY <1>1, <1>3, <1>4, <2>1, <2>2 DEF StoreInv, StoreType, Blank
<1>6. Forest'
  <2>1. ASSUME NEW b \in branchMap', dependsOn'[b] # NoBranch
        PROVE  dependsOn'[b] \in branchMap' /\ dependsOn'[b] < b
    BY <1>1, <1>2, <1>3, <2>1 DEF StoreInv, Forest
  <2>2. QED
    BY <2>1 DEF Forest
<1>7. \A p \in Taken : revision[p].branch \in branchMap
  BY DEF StoreInv, Lines, InLine
<1>8. Lines'
  BY <1>1, <1>4 DEF StoreInv, Lines, InLine
<1>9. \A p \in Taken : HasBase(p)'
  <2>1. \A p \in Taken : dependsOn'[revision[p].branch] = dependsOn[revision[p].branch]
    BY <1>1, <1>2, <1>3, <1>7
  <2>2. QED
    BY <1>1, <1>4, <2>1 DEF StoreInv, HasBase
<1>10. lastRevision[nextBranchId] = NullPage
  BY <1>2, <1>7 DEF StoreInv, Lines
<1>11. PagesKept
  BY <1>1, <1>4 DEF PagesKept, Kept
<1>12. QED
  BY <1>1, <1>2, <1>3, <1>4, <1>5, <1>6, <1>8, <1>9, <1>10, <1>11 DEF StoreInv

\* Revisions modified or committed.
LEMMA RevisionsChanged ==
  ASSUME StoreInv, UNCHANGED <<nextBranchId, branchMap, dependsOn, lastRevision>>,
         revision' \in [Page -> RevisionType], \A q \in Page : Kept(q),
         \A q \in Page \ Taken : revision'[q] = revision[q]
  PROVE  StoreInv' /\ PagesKept
<1>1. Taken' = Taken
  BY DEF Taken, Kept
<1>2. StoreType' /\ Forest' /\ Blank'
  BY <1>1 DEF StoreInv, StoreType, Forest, Blank
<1>3. \A p \in Taken : p \in Page /\ InLine(p) /\ HasBase(p)
  BY DEF StoreInv, Lines, Taken
<1>4. \A p \in Page : lastRevision[revision[p].branch] # NullPage /\ revision[p].branch \in branchMap =>
        lastRevision[revision[p].branch] \in Page
  BY DEF StoreInv, StoreType
<1>5. \A p \in Taken : InLine(p)'
  <2>1. SUFFICES ASSUME NEW p \in Taken PROVE InLine(p)'
    OBVIOUS
  <2>2. Kept(p) /\ InLine(p) /\ p \in Page
    BY <1>3
  <2>3. Kept(lastRevision[revision[p].branch])
    BY <1>4, <2>2 DEF InLine
  <2>4. revision[p].prev # NullPage => Kept(revision[p].prev)
    BY <2>2 DEF InLine, Taken
  <2>5. QED
    BY <1>1, <2>2, <2>3, <2>4 DEF InLine, Kept
<1>6. Lines'
  <2>1. \A b \in Branch : lastRevision'[b] # NullPage =>
          lastRevision'[b] \in Taken' /\ revision'[lastRevision'[b]].branch = b
    BY <1>1, <1>3 DEF StoreInv, Lines, Kept
  <2>2. \A p, q \in Taken' :
          revision'[p].branch = revision'[q].branch /\ revision'[p].id = revision'[q].id => p = q
    BY <1>1, <1>3 DEF StoreInv, Lines, Kept
  <2>3. QED
    BY <1>1, <1>5, <2>1, <2>2 DEF Lines
<1>7. \A p \in Taken : HasBase(p)'
  BY <1>1, <1>3 DEF HasBase, Kept
<1>8. PagesKept
  BY <1>1, <1>3 DEF PagesKept
<1>9. QED
  BY <1>1, <1>2, <1>6, <1>7, <1>8 DEF StoreInv

\* A revision added at the end of its branch.
LEMMA RevisionAdded ==
  ASSUME StoreInv, NEW p \in FreePages, NEW b \in branchMap,
         UNCHANGED <<nextBranchId, branchMap, dependsOn>>,
         lastRevision' = [lastRevision EXCEPT ![b] = p],
         revision' \in [Page -> RevisionType],
         \A q \in Page \ {p} : Kept(q) /\ (revision'[q].writable => q # lastRevision[b]),
         \A q \in Page \ Taken : q # p => revision'[q] = revision[q],
         revision'[p].branch = b, revision'[p].prev = lastRevision[b],
         revision'[p].id = IF lastRevision[b] = NullPage THEN 1
                           ELSE revision[lastRevision[b]].id + 1,
         LET base == revision'[p].base IN
           \/ base \in {NullPage, lastRevision[b]}
           \/ /\ lastRevision[b] = NullPage
              /\ base \in Taken /\ ~revision[base].writable /\ revision[base].branch = dependsOn[b]
  PROVE  StoreInv' /\ PagesKept /\ Taken' = Taken \cup {p} /\ p \notin Taken
<1> DEFINE last == lastRevision[b]
<1>1. /\ StoreType /\ p \in Page /\ p \notin Taken /\ b \in Branch
      /\ NoBranch \notin Branch /\ NullPage \notin Page /\ p # NullPage
  BY FreeMeans, Numbers DEF StoreInv, StoreType
<1>2. Taken' = Taken \cup {p}
  BY <1>1 DEF Taken, Kept
<1>3. StoreType' /\ Forest' /\ Blank'
  <2>1. lastRevision' \in [Branch -> Page \cup {NullPage}]
    BY <1>1 DEF StoreType
  <2>2. QED
    BY <1>1, <1>2, <2>1 DEF StoreInv, StoreType, Forest, Blank
<1>4. /\ \A q \in Taken : q \in Page /\ q # p /\ InLine(q) /\ HasBase(q) /\ Kept(q)
      /\ \A q \in Page : revision[q].id \in Nat /\ revision'[q].id \in Nat
      /\ last # NullPage => last \in Taken /\ revision[last].branch = b
      /\ \A q \in Taken : revision[q].branch \in Branch /\ lastRevision[revision[q].branch] \in Taken
  <2>1. \A q \in Taken : q \in Page /\ q # p /\ InLine(q) /\ HasBase(q) /\ Kept(q)
    BY <1>1 DEF StoreInv, Lines, Taken
  <2>2. \A q \in Page : revision[q].id \in Nat /\ revision'[q].id \in Nat
    BY <1>1 DEF StoreType, RevisionType
  <2>3. last # NullPage => last \in Taken /\ revision[last].branch = b
    BY <1>1 DEF StoreInv, Lines
  <2>4. \A q \in Taken : revision[q].branch \in Branch /\ lastRevision[revision[q].branch] \in Taken
    BY <1>1, <2>1 DEF StoreInv, Lines, InLine, StoreType
  <2>5. QED
    BY <2>1, <2>2, <2>3, <2>4
<1>5. lastRevision'[b] = p /\ \A c \in Branch \ {b} : lastRevision'[c] = lastRevision[c]
  BY <1>1 DEF StoreType
<1>6. \A q \in Taken : revision[q].branch = b => last # NullPage /\ revision[q].id <= revision[last].id
  BY <1>4 DEF InLine
<1>7. InLine(p)'
  <2>1. revision'[p].writable => p = lastRevision'[b]
    BY <1>5
  <2>2. revision'[p].id > 0 /\ revision'[p].id <= revision'[lastRevision'[b]].id
    <3>1. last # NullPage => revision[last].id \in Nat
      BY <1>4
    <3>2. QED
      BY <1>4, <1>5, <3>1
  <2>3. last # NullPage => Kept(last)
    BY <1>4
  <2>4. QED
    BY <1>1, <1>2, <1>4, <1>5, <2>1, <2>2, <2>3 DEF InLine, Kept
<1>8. ASSUME NEW q \in Taken PROVE InLine(q)'
  <2> DEFINE c == revision[q].branch
  <2>1. /\ Kept(q) /\ InLine(q) /\ c \in branchMap /\ c \in Branch /\ q # p /\ q \in Page
        /\ revision'[q].branch = c /\ revision'[q].id = revision[q].id /\ revision[q].id > 0
    BY <1>4 DEF InLine, Kept
  <2>2. revision[q].prev # NullPage => revision[q].prev \in Taken /\ Kept(revision[q].prev)
    BY <1>4, <2>1 DEF InLine
  <2>3. lastRevision'[c] # NullPage /\ revision'[q].id <= revision'[lastRevision'[c]].id
    <3>1. CASE c = b
      <4>1. last # NullPage /\ revision[q].id <= revision[last].id /\ revision[last].id \in Nat
        BY <1>4, <1>6, <3>1
      <4>2. revision'[p].id = revision[last].id + 1 /\ revision[q].id \in Nat
        BY <1>4, <4>1
      <4>3. QED
        BY <1>1, <1>5, <2>1, <3>1, <4>1, <4>2
    <3>2. CASE c # b
      <4>1. Kept(lastRevision[c]) /\ lastRevision'[c] = lastRevision[c]
        BY <1>4, <1>5, <2>1, <3>2
      <4>2. QED
        BY <2>1, <4>1 DEF InLine, Kept
    <3>3. QED
      BY <3>1, <3>2
  <2>4. revision'[q].writable => q = lastRevision'[c]
    <3>1. revision'[q].writable => q = lastRevision[c] /\ q # last
      BY <2>1 DEF InLine, Kept
    <3>2. QED
      BY <1>5, <2>1, <3>1
  <2>5. QED
    BY <1>2, <2>1, <2>2, <2>3, <2>4 DEF InLine, Kept
<1>9. \A q, r \in Taken' :
        revision'[q].branch = revision'[r].branch /\ revision'[q].id = revision'[r].id => q = r
  <2>1. \A q \in Taken : revision'[q].branch = b => revision'[q].id # revision'[p].id
    <3>1. \A q \in Taken : revision[q].id \in Nat
      BY <1>4
    <3>2. last # NullPage => revision[last].id \in Nat
      BY <1>4
    <3>3. QED
      BY <1>4, <1>6, <3>1, <3>2 DEF Kept
  <2>2. \A q, r \in Taken :
          revision'[q].branch = revision'[r].branch /\ revision'[q].id = revision'[r].id => q = r
    BY <1>4 DEF StoreInv, Lines, Kept
  <2>3. QED
    BY <1>2, <2>1, <2>2
<1>10. \A c \in Branch : lastRevision'[c] # NullPage =>
         lastRevision'[c] \in Taken' /\ revision'[lastRevision'[c]].branch = c
  BY <1>2, <1>4, <1>5 DEF StoreInv, Lines, Kept
<1>11. Lines'
  BY <1>2, <1>7, <1>8, <1>9, <1>10 DEF Lines
<1>12. HasBase(p)'
  <2>1. last # NullPage => last \in Taken' /\ ~revision'[last].writable
    BY <1>2, <1>4
  <2>2. \A q \in Taken : ~revision[q].writable =>
          q \in Taken' /\ ~revision'[q].writable /\ revision'[q].branch = revision[q].branch
    BY <1>2, <1>4 DEF Kept
  <2>3. QED
    BY <2>1, <2>2 DEF HasBase
<1>13. ASSUME NEW q \in Taken PROVE HasBase(q)'
  <2>1. Kept(q) /\ HasBase(q)
    BY <1>4
  <2>2. revision[q].base \in Taken => Kept(revision[q].base) /\ revision[q].base \in Taken'
    BY <1>2, <1>4
  <2>3. QED
    BY <2>1, <2>2 DEF HasBase, Kept
<1>14. PagesKept
  BY <1>2, <1>4 DEF PagesKept
<1>15. QED
  BY <1>1, <1>2, <1>3, <1>11, <1>12, <1>13, <1>14 DEF StoreInv

\* Branches removed with all that was forked from them.
LEMMA BranchesRemoved ==
  ASSUME StoreInv, NEW removed \in SUBSET branchMap, RemoveBranches(removed),
         \A c \in branchMap : dependsOn[c] \in removed => c \in removed
  PROVE  /\ StoreInv' /\ PagesKept /\ branchMap' = branchMap \ removed
         /\ \A c \in branchMap \ removed :
              dependsOn'[c] = dependsOn[c] /\ lastRevision'[c] = lastRevision[c]
         /\ \A q \in Taken' : q \in Taken /\ revision'[q] = revision[q]
<1> DEFINE dropped == UNION {RevisionsFrom(lastRevision[b]) : b \in removed}
<1>1. /\ branchMap \in SUBSET Branch /\ NoBranch \notin Branch /\ NullPage \notin Page
      /\ StoreType /\ Lines /\ \A q \in Taken : InLine(q) /\ HasBase(q) /\ q \in Page
  BY Numbers DEF StoreInv, StoreType, Lines, Taken
<1>2. \A p \in Page : p \in dropped <=> p \in Taken /\ revision[p].branch \in removed
  <2>1. \A b \in removed : RevisionsFrom(lastRevision[b]) = {p \in Taken : revision[p].branch = b}
    BY <1>1, RevisionsOfBranch
  <2>2. QED
    BY <2>1
<1> HIDE DEF dropped
<1>3. /\ branchMap' = branchMap \ removed /\ nextBranchId' = nextBranchId
      /\ dependsOn' = [b \in Branch |-> IF b \in removed THEN NoBranch ELSE dependsOn[b]]
      /\ lastRevision' = [b \in Branch |-> IF b \in removed THEN NullPage ELSE lastRevision[b]]
      /\ revision' = [p \in Page |-> IF p \in dropped THEN NoRevision ELSE revision[p]]
  BY DEF RemoveBranches, dropped
<1>4. /\ \A p \in Page : p \in Taken' <=> p \in Taken /\ revision[p].branch \notin removed
      /\ \A p \in Page : p \notin dropped => revision'[p] = revision[p]
      /\ \A p \in dropped \cap Page : revision'[p] = NoRevision
  BY <1>2, <1>3 DEF Taken, NoRevision
<1>5. \A q \in Taken' : q \in Taken /\ q \in Page /\ revision'[q] = revision[q]
                        /\ revision[q].branch \in branchMap \ removed
  <2>1. \A q \in Taken' : q \in Page
    BY DEF Taken
  <2>2. QED
    BY <1>1, <1>2, <1>4, <2>1 DEF InLine
<1>6. \A c \in branchMap \ removed :
        dependsOn'[c] = dependsOn[c] /\ lastRevision'[c] = lastRevision[c] /\ c \in Branch
  BY <1>1, <1>3
<1>7. StoreType'
  <2>1. NoRevision \in RevisionType
    BY DEF NoRevision, RevisionType
  <2>2. revision' \in [Page -> RevisionType]
    BY <1>1, <1>3, <2>1 DEF StoreType
  <2>3. QED
    BY <1>1, <1>3, <2>2 DEF StoreType
<1>8. Forest'
  BY <1>1, <1>3, <1>6 DEF StoreInv, Forest
<1>9. Blank'
  BY <1>1, <1>2, <1>4 DEF StoreInv, Blank
<1>10. Lines'
  <2>1. \A b \in Branch : lastRevision'[b] # NullPage =>
          /\ b \notin removed /\ lastRevision'[b] = lastRevision[b]
          /\ lastRevision[b] \in Taken /\ revision[lastRevision[b]].branch = b
          /\ lastRevision[b] \in Taken' /\ revision'[lastRevision[b]] = revision[lastRevision[b]]
    BY <1>1, <1>3, <1>4, <1>5, SMTT(30) DEF Lines
  <2>2. \A q \in Taken' : InLine(q)'
    <3>1. SUFFICES ASSUME NEW q \in Taken' PROVE InLine(q)'
      OBVIOUS
    <3>2. /\ InLine(q) /\ revision'[q] = revision[q] /\ revision[q].branch \in branchMap'
          /\ revision[q].branch \in Branch
          /\ lastRevision'[revision[q].branch] = lastRevision[revision[q].branch]
      BY <1>1, <1>3, <1>5, <1>6
    <3>3. revision[q].prev # NullPage =>
            revision[q].prev \in Taken' /\ revision'[revision[q].prev] = revision[revision[q].prev]
      BY <1>1, <1>4, <1>5, <3>2 DEF InLine
    <3>4. revision'[lastRevision'[revision[q].branch]] = revision[lastRevision[revision[q].branch]]
      BY <2>1, <3>2 DEF InLine
    <3>5. QED
      BY <3>2, <3>3, <3>4 DEF InLine
  <2>3. \A p, q \in Taken' :
          revision'[p].branch = revision'[q].branch /\ revision'[p].id = revision'[q].id => p = q
    BY <1>1, <1>5 DEF Lines
  <2>4. QED
    BY <2>1, <2>2, <2>3 DEF Lines
<1>11. \A q \in Taken' : HasBase(q)'
  <2>1. SUFFICES ASSUME NEW q \in Taken', revision[q].base # NullPage
                 PROVE  HasBase(q)'
    BY <1>5 DEF HasBase
  <2>2. /\ HasBase(q) /\ InLine(q) /\ revision'[q] = revision[q] /\ q \in Taken
        /\ revision[q].branch \in branchMap \ removed
        /\ dependsOn'[revision[q].branch] = dependsOn[revision[q].branch]
    BY <1>1, <1>5, <1>6
  <2>3. revision[q].base \in Taken' /\ revision'[revision[q].base] = revision[revision[q].base]
    <3>1. revision[q].base \in Taken /\ revision[q].base \in Page
      BY <1>1, <2>1, <2>2 DEF HasBase
    <3>2. CASE revision[q].base = revision[q].prev
      BY <1>1, <1>4, <1>5, <2>1, <2>2, <3>1, <3>2 DEF InLine
    <3>3. CASE revision[revision[q].base].branch = dependsOn[revision[q].branch]
      BY <1>4, <1>5, <2>2, <3>1, <3>3
    <3>4. QED
      BY <2>1, <2>2, <3>2, <3>3 DEF HasBase
  <2>4. QED
    BY <2>2, <2>3 DEF HasBase
<1>12. PagesKept
  <2>1. \A q \in Taken : revision[q].branch \in branchMap' =>
          q \in Taken' /\ revision'[q] = revision[q]
    BY <1>1, <1>3, <1>4, <1>5
  <2>2. QED
    BY <2>1 DEF PagesKept, Kept
<1>13. QED
  BY <1>3, <1>5, <1>6, <1>7, <1>8, <1>9, <1>10, <1>11, <1>12 DEF StoreInv

-----------------------------------------------------------------------------
(* The documents and the calls on the branches.                            *)

\* While documents are forked, none is opened for writing (the new branch has no
\* revision yet when another thread could be given the first one), nor to follow
\* its branch (those that share the allocator of a forked document move with it).
Assumed == "fork" \in Uses => OpenFlags \subseteq {"Read", "ExplicitRead", "AsRevision"}

LockType == writeMutex \in [Branch -> Threads \cup {NoThread}]
PositionType == revisionPage \in [Allocator -> Page \cup {NullPage}]

Placed == \A d \in Alive : PageOf(d) \in Taken

ReadOnly == \A d \in Alive : document[d].flags = "ExplicitRead" => ~IsWritable(d)

\* The branch that has the document among its own.
Referencing(t, d) == call[t].step = "forkReference" /\ call[t].doc = d
Home(d) ==
  IF \E t \in Threads : Referencing(t, d) THEN dependsOn[BranchOf(d)] ELSE BranchOf(d)

Registered ==
  \A d \in Document, b \in Branch : d \in instanciated[b] <=> d \in Alive /\ b = Home(d)

ReusedHere == \A b \in Branch : reusable[b] # NoDocument => reusable[b] \in instanciated[b]

Forked(t) == call[t].step \in {"forkSwitch", "forkReference"}

CallMeant(t) ==
  LET d == call[t].doc
      b == call[t].branch
      p == call[t].page IN
  /\ call[t].step = "openWrite" => b \in branchMap
  /\ call[t].step \in {"lock", "reopenLock"} => b = BranchOf(d)
  /\ call[t].step = "lock" => document[d].flags # "ExplicitRead"
  /\ call[t].step = "reopenSwitch" => p \in Taken /\ revision[p].branch = BranchOf(d)
  /\ call[t].step \in Forking =>
       /\ "fork" \in Uses /\ b \in branchMap
       /\ \A u \in Threads \ {t} : call[u].step \in Forking => call[u].branch # b
  /\ call[t].step \in {"forkLock", "forkSwitch"} => dependsOn[b] = BranchOf(d) /\ ~IsWritable(d)
  /\ call[t].step = "forkLock" => lastRevision[b] = NullPage /\ p = PageOf(d)
  /\ Forked(t) =>
       /\ p = lastRevision[b] /\ p # NullPage /\ revision[p].prev = NullPage
       /\ revision[p].writable /\ writeMutex[b] = t
  /\ call[t].step = "forkSwitch" => revision[p].base = PageOf(d)
  /\ call[t].step = "forkReference" => p = PageOf(d) /\ dependsOn[b] # NoBranch

\* Who opens a document on a branch that is being forked waits for its lock.
Guards(u, d) ==
  /\ call[u].doc = d
  /\ call[u].step = "lock" \/ (call[u].step = "opened" /\ call[u].flags = "AsRevision")

Guarded ==
  \A t \in Threads : Forked(t) =>
    \A d \in Alive : BranchOf(d) = call[t].branch /\ d # call[t].doc =>
      \E u \in Threads : Guards(u, d)

HistoryInv ==
  /\ StoreInv /\ LockType /\ PositionType /\ InstanciatedType
  /\ Placed /\ ReadOnly /\ Registered /\ ReusedHere
  /\ (\A t \in Threads : CallMeant(t)) /\ Guarded

LEMMA ForkingUses ==
  ASSUME HistoryInv, SharingInv, CountingInv, NEW t \in Threads, call[t].step \in Forking,
         NEW d, call[t].doc = d
  PROVE  /\ d \in Document /\ d \in Alive /\ UsedBy(t, d) /\ document[d].flags # "ExplicitRead"
         /\ PageOf(d) \in Taken /\ call[t].branch \in branchMap /\ call[t].branch \in Branch
         /\ call[t].step = "forkReference" =>
              BranchOf(d) = call[t].branch /\ PageOf(d) = lastRevision[call[t].branch]
<1>1. CallMeant(t) /\ CallHolds(t) /\ Referenced /\ Placed /\ Lines /\ branchMap \in SUBSET Branch
  BY ReferencedAlive DEF HistoryInv, SharingInv, StoreInv, StoreType
<1>2. d \in Document /\ held[t][d] > 0 /\ document[d].flags # "ExplicitRead"
  BY <1>1 DEF CallHolds, Holding
<1>3. d \in Alive /\ UsedBy(t, d)
  BY <1>1, <1>2 DEF Referenced, UsedBy
<1>4. call[t].branch \in branchMap /\ call[t].branch \in Branch /\ PageOf(d) \in Taken
  BY <1>1, <1>3 DEF CallMeant, Placed
<1>5. call[t].step = "forkReference" =>
        BranchOf(d) = call[t].branch /\ PageOf(d) = lastRevision[call[t].branch]
  BY <1>1, <1>4 DEF CallMeant, Lines, Forked, BranchOf, RevisionOf, PageOf
<1>6. QED
  BY <1>2, <1>3, <1>4, <1>5

\* What a step leaves of the forks of the other threads.
ForksKept(t) ==
  \A u \in Threads \ {t} : call[u].step \in Forking =>
    /\ call[u].branch \in branchMap'
    /\ dependsOn'[call[u].branch] = dependsOn[call[u].branch]
    /\ lastRevision'[call[u].branch] = lastRevision[call[u].branch]
    /\ revisionPage'[document'[call[u].doc].allocator] = revisionPage[document[call[u].doc].allocator]
    /\ Forked(u) =>
         /\ writeMutex'[call[u].branch] = writeMutex[call[u].branch]
         /\ revision[lastRevision[call[u].branch]].writable =>
              revision'[lastRevision[call[u].branch]].writable

\* A document that a step leaves on its branch.
Staying(d) ==
  /\ d \in Alive /\ document'[d].flags = document[d].flags
  /\ PageOf(d)' \in Taken' /\ BranchOf(d)' = BranchOf(d)
  /\ document[d].flags = "ExplicitRead" /\ IsWritable(d)' => IsWritable(d)

LEMMA OthersMeant ==
  ASSUME CountingInv, CountingInv', SharingInv, SharingInv', HistoryInv, StoreInv', PagesKept,
         NEW t \in Threads \cup {NoThread}, \A u \in Threads \ {t} : call'[u] = call[u],
         t \in Threads => CallMeant(t)',
         \A u \in Threads \ {t} : call[u].step = "openWrite" => call[u].branch \in branchMap',
         \A u \in Threads \ {t}, d \in Document :
           call[u].step \in Holding /\ call[u].doc = d => Staying(d),
         ForksKept(t),
         NEW u \in Threads \ {t}
  PROVE  CallMeant(u)'
<1> DEFINE d == call[u].doc
           b == call[u].branch
           p == call[u].page
           s == call[u].step
<1>1. /\ CallMeant(u) /\ CallHolds(u) /\ call'[u] = call[u] /\ u \in Threads /\ u # NoThread
  BY NoThreadAssumption DEF HistoryInv, SharingInv
<1>2. s \in Holding =>
        /\ d \in Document /\ d \in Alive /\ document'[d].flags = document[d].flags
        /\ revisionPage'[document'[d].allocator] \in Taken'
        /\ revision'[revisionPage'[document'[d].allocator]].branch = BranchOf(d)
  BY <1>1 DEF CallHolds, Staying, PageOf, BranchOf, RevisionOf
<1>3. s \in Holding => BranchOf(d) \in branchMap'
  BY <1>2 DEF StoreInv, Lines, InLine
<1>4. s = "reopenSwitch" => p \in Taken' /\ revision'[p].branch = BranchOf(d)
  BY <1>1, <1>3 DEF CallMeant, PagesKept, Kept, Holding, Reopening
<1>5. s \in Forking =>
        /\ PageOf(d) \in Taken /\ Kept(PageOf(d))
        /\ revisionPage'[document'[d].allocator] = PageOf(d)
        /\ b \in branchMap' /\ dependsOn'[b] = dependsOn[b] /\ lastRevision'[b] = lastRevision[b]
  <2>1. SUFFICES ASSUME s \in Forking
                 PROVE  /\ PageOf(d) \in Taken /\ Kept(PageOf(d))
                        /\ revisionPage'[document'[d].allocator] = PageOf(d)
                        /\ b \in branchMap' /\ dependsOn'[b] = dependsOn[b]
                        /\ lastRevision'[b] = lastRevision[b]
    OBVIOUS
  <2>2. PageOf(d) \in Taken
    BY <1>2, <2>1 DEF HistoryInv, Placed, Holding
  <2>3. revision[PageOf(d)].branch \in branchMap'
    BY <1>3, <2>1 DEF Holding, BranchOf, RevisionOf, PageOf
  <2>4. QED
    BY <2>1, <2>2, <2>3 DEF PagesKept, ForksKept, PageOf
<1>6. s \in Forking => \A v \in Threads \ {u} : call'[v].step \in Forking => call'[v].branch # b
  <2>1. SUFFICES ASSUME s \in Forking, NEW v \in Threads \ {u}, call'[v].step \in Forking
                 PROVE  call'[v].branch # b
    OBVIOUS
  <2>2. CASE v = t
    BY <1>1, <2>1, <2>2 DEF CallMeant
  <2>3. CASE v # t
    BY <1>1, <2>1, <2>3, SMTT(30) DEF CallMeant
  <2>4. QED
    BY <2>2, <2>3
<1>7. Forked(u) =>
        /\ revision'[p].prev = NullPage /\ revision'[p].writable /\ writeMutex'[b] = u
        /\ revision'[p].base = revision[p].base
  <2>1. SUFFICES ASSUME Forked(u)
                 PROVE  /\ revision'[p].prev = NullPage /\ revision'[p].writable
                        /\ writeMutex'[b] = u /\ revision'[p].base = revision[p].base
    OBVIOUS
  <2>2. s \in Forking /\ p = lastRevision[b] /\ p # NullPage
        /\ revision[p].prev = NullPage /\ revision[p].writable /\ writeMutex[b] = u
    BY <1>1, <2>1 DEF CallMeant, Forked, Forking
  <2>3. b \in Branch
    BY <2>2, ForkingUses
  <2>4. p \in Taken /\ revision[p].branch = b
    BY <2>2, <2>3 DEF HistoryInv, StoreInv, Lines
  <2>5. Kept(p)
    BY <1>5, <2>2, <2>4 DEF PagesKept
  <2>6. QED
    BY <1>1, <2>1, <2>2, <2>5, SMTT(30) DEF ForksKept, Kept
<1>8. s \in {"lock", "reopenLock"} => b = BranchOf(d)
  BY <1>1 DEF CallMeant
<1>9. s = "lock" => document'[d].flags # "ExplicitRead"
  BY <1>1, <1>2, SMTT(30) DEF CallMeant, Holding
<1>10. s \in {"forkLock", "forkSwitch"} =>
         /\ dependsOn'[b] = revision'[revisionPage'[document'[d].allocator]].branch
         /\ ~revision'[revisionPage'[document'[d].allocator]].writable
  BY <1>1, <1>2, <1>5 DEF CallMeant, Forking, Holding, Kept, IsWritable, RevisionOf, PageOf
<1>11. s = "forkLock" => lastRevision'[b] = NullPage /\ p = revisionPage'[document'[d].allocator]
  BY <1>1, <1>5 DEF CallMeant, Forking
<1>12. /\ s = "forkSwitch" => revision'[p].base = revisionPage'[document'[d].allocator]
       /\ s = "forkReference" => p = revisionPage'[document'[d].allocator] /\ dependsOn'[b] # NoBranch
       /\ Forked(u) => p = lastRevision'[b] /\ p # NullPage
  BY <1>1, <1>5, <1>7 DEF CallMeant, Forking, Forked
<1>13. s = "openWrite" => b \in branchMap'
  BY <1>1, SMTT(30)
<1>14. CallMeant(u)' <=>
         LET pd == revisionPage'[document'[d].allocator] IN
         /\ s = "openWrite" => b \in branchMap'
         /\ s \in {"lock", "reopenLock"} => b = revision'[pd].branch
         /\ s = "lock" => document'[d].flags # "ExplicitRead"
         /\ s = "reopenSwitch" => p \in Taken' /\ revision'[p].branch = revision'[pd].branch
         /\ s \in Forking =>
              /\ "fork" \in Uses /\ b \in branchMap'
              /\ \A v \in Threads \ {u} : call'[v].step \in Forking => call'[v].branch # b
         /\ s \in {"forkLock", "forkSwitch"} =>
              dependsOn'[b] = revision'[pd].branch /\ ~revision'[pd].writable
         /\ s = "forkLock" => lastRevision'[b] = NullPage /\ p = pd
         /\ Forked(u) =>
              /\ p = lastRevision'[b] /\ p # NullPage /\ revision'[p].prev = NullPage
              /\ revision'[p].writable /\ writeMutex'[b] = u
         /\ s = "forkSwitch" => revision'[p].base = pd
         /\ s = "forkReference" => p = pd /\ dependsOn'[b] # NoBranch
  BY <1>1 DEF CallMeant, BranchOf, RevisionOf, PageOf, IsWritable, Forked
<1>15. s \in Forking => "fork" \in Uses
  BY <1>1 DEF CallMeant
<1> HIDE DEF d, b, p, s
<1>16. QED
  BY <1>2, <1>4, <1>5, <1>6, <1>7, <1>8, <1>9, <1>10, <1>11, <1>12, <1>13, <1>14, <1>15
     DEF Holding, Reopening, Forking

\* A document that a step opens, and the forks that its branch may be in.
Opening(t, d) ==
  /\ d \in FreeNumbers /\ d \in Alive' /\ PageOf(d)' \in Taken'
  /\ document'[d].flags = "ExplicitRead" => ~IsWritable(d)'
  /\ \A b \in Branch : d \in instanciated'[b] <=> b = BranchOf(d)'
  /\ \A u \in Threads \ {t} : Forked(u) /\ BranchOf(d)' = call[u].branch => Guards(t, d)'

\* The steps that neither switch the document of a fork to its branch nor
\* reference it there.
LEMMA HistoryStep ==
  ASSUME CountingInv, CountingInv', SharingInv, SharingInv', HistoryInv,
         StoreInv', PagesKept, LockType', PositionType', InstanciatedType',
         NEW t \in Threads \cup {NoThread}, NEW new \in Document \cup {NoDocument},
         \A u \in Threads \ {t} : call'[u] = call[u],
         t \in Threads =>
           /\ CallMeant(t)' /\ call[t].step # "forkReference" /\ call'[t].step # "forkReference"
           /\ call'[t].step = "forkSwitch" => \A d \in Alive' : BranchOf(d)' # call'[t].branch
           /\ \A d \in Alive', u \in Threads :
                Guards(t, d) /\ Forked(u) /\ BranchOf(d) = call[u].branch => Guards(t, d)',
         \A u \in Threads \ {t} : call[u].step = "openWrite" => call[u].branch \in branchMap',
         \A d \in Alive' \ {new} : Staying(d),
         \A d \in Document \ {new}, b \in Branch :
           d \in instanciated'[b] <=> d \in instanciated[b] /\ d \in Alive',
         \A b \in Branch :
           \/ reusable'[b] \in {reusable[b], NoDocument}
           \/ reusable'[b] = new /\ new \in instanciated'[b],
         ForksKept(t),
         new # NoDocument => t \in Threads /\ Opening(t, new)
  PROVE  HistoryInv'
<1>1. /\ NoDocument \notin Document /\ NoThread \notin Threads /\ Referenced'
      /\ \A u \in Threads : CallMeant(u) /\ CallHolds(u)
      /\ Lines' /\ Registered /\ Guarded /\ ReusedHere
      /\ \A u \in Threads \ {t} : u \in Threads /\ u # NoThread
  BY Finite, NoThreadAssumption, ReferencedAfter DEF SharingInv, HistoryInv, StoreInv
<1>2. new # NoDocument => /\ new \in Document /\ new \notin Alive
                          /\ \A u \in Threads : call[u].doc # new /\ held[u][new] = 0
  BY DEF Opening, FreeNumbers
<1>3. \A u \in Threads \ {t} : CallHolds(u)' /\ call'[u] = call[u]
  BY DEF SharingInv
<1>4. ASSUME NEW u \in Threads \ {t}, NEW d \in Document, call[u].step \in Holding, call[u].doc = d
      PROVE  Staying(d) /\ d # new /\ d \in Alive'
  <2>1. d # new
    BY <1>1, <1>2, <1>4
  <2>2. d \in Alive'
    BY <1>1, <1>3, <1>4 DEF CallHolds, Referenced
  <2>3. QED
    BY <2>1, <2>2
<1>5. \A u \in Threads : CallMeant(u)'
  <2>1. \A u \in Threads \ {t} : CallMeant(u)'
    BY <1>4, OthersMeant
  <2>2. QED
    BY <2>1
<1>6. Placed' /\ ReadOnly'
  <2>1. \A d \in Alive' : PageOf(d)' \in Taken'
    BY <1>1 DEF Staying, Opening, Alive
  <2>2. \A d \in Alive' : document'[d].flags = "ExplicitRead" => ~IsWritable(d)'
    BY <1>1 DEF Staying, Opening, Alive, HistoryInv, ReadOnly
  <2>3. QED
    BY <2>1, <2>2 DEF Placed, ReadOnly
<1>7. ASSUME NEW d \in Alive' \ {new} PROVE Home(d)' = Home(d)
  <2>1. Staying(d)
    BY <1>7
  <2>2. \A u \in Threads : Referencing(u, d)' <=> Referencing(u, d)
    BY <1>1, <1>3 DEF Referencing
  <2>3. CASE \E u \in Threads : Referencing(u, d)
    <3>1. PICK u \in Threads : Referencing(u, d)
      BY <2>3
    <3>2. u \in Threads \ {t} /\ call[u].step \in Forking
      BY <1>1, <3>1 DEF Referencing, Forking
    <3>3. BranchOf(d) = call[u].branch
      BY <3>1, <3>2, ForkingUses DEF Referencing
    <3>4. dependsOn'[BranchOf(d)'] = dependsOn[BranchOf(d)]
      BY <2>1, <3>2, <3>3 DEF ForksKept, Staying
    <3>5. QED
      BY <2>2, <2>3, <3>4 DEF Home
  <2>4. CASE ~(\E u \in Threads : Referencing(u, d))
    BY <2>1, <2>2, <2>4 DEF Home, Staying
  <2>5. QED
    BY <2>3, <2>4
<1>8. new # NoDocument => Home(new)' = BranchOf(new)'
  <2>1. new # NoDocument => \A u \in Threads : ~Referencing(u, new)'
    BY <1>1, <1>2, <1>3 DEF Referencing
  <2>2. QED
    BY <2>1 DEF Home
<1>9. Registered'
  <2>1. SUFFICES ASSUME NEW d \in Document, NEW b \in Branch
                 PROVE  d \in instanciated'[b] <=> d \in Alive' /\ b = Home(d)'
    BY DEF Registered
  <2>2. CASE d = new
    BY <1>1, <1>8, <2>2 DEF Opening
  <2>3. CASE d # new /\ d \in Alive'
    <3>1. d \in Alive /\ Home(d)' = Home(d)
      BY <1>7, <2>3 DEF Staying
    <3>2. QED
      BY <1>1, <2>3, <3>1 DEF Registered
  <2>4. CASE d # new /\ d \notin Alive'
    BY <2>4
  <2>5. QED
    BY <2>2, <2>3, <2>4
<1>10. ReusedHere'
  <2>1. SUFFICES ASSUME NEW b \in Branch, reusable'[b] # NoDocument, reusable'[b] = reusable[b]
                 PROVE  reusable'[b] \in instanciated'[b]
    BY DEF ReusedHere
  <2>2. reusable'[b] \in Document /\ reusable'[b] \in instanciated[b]
    BY <1>1, <2>1 DEF ReusedHere, CountingInv, Types, ReusableType
  <2>3. reusable'[b] \in Alive /\ reusable'[b] \in Alive'
    BY <1>1, <2>1, <2>2 DEF Registered, Referenced
  <2>4. reusable'[b] # new
    BY <1>1, <1>2, <2>2, <2>3
  <2>5. QED
    BY <2>2, <2>3, <2>4
<1>11. Guarded'
  <2>1. SUFFICES ASSUME NEW u \in Threads, Forked(u)', NEW d \in Alive',
                        BranchOf(d)' = call'[u].branch, d # call'[u].doc
                 PROVE  \E v \in Threads : Guards(v, d)'
    BY DEF Guarded
  <2>2. u # t /\ Forked(u) /\ call'[u] = call[u]
    BY <1>3, <2>1 DEF Forked
  <2>3. CASE d = new
    <3>1. Opening(t, new) /\ t \in Threads
      BY <1>1, <2>1, <2>3 DEF Alive
    <3>2. Guards(t, new)'
      BY <2>1, <2>2, <2>3, <3>1 DEF Opening
    <3>3. QED
      BY <2>3, <3>1, <3>2
  <2>4. CASE d # new
    <3>1. Staying(d) /\ d \in Alive /\ BranchOf(d) = call[u].branch /\ d # call[u].doc
      BY <2>1, <2>2, <2>4 DEF Staying
    <3>2. PICK v \in Threads : Guards(v, d)
      BY <1>1, <2>2, <3>1 DEF Guarded
    <3>3. CASE v = t
      BY <2>1, <2>2, <3>1, <3>2, <3>3
    <3>4. CASE v # t
      <4>1. Guards(v, d)'
        BY <1>3, <3>2, <3>4 DEF Guards
      <4>2. QED
        BY <4>1
    <3>5. QED
      BY <3>3, <3>4
  <2>5. QED
    BY <2>3, <2>4
<1>12. QED
  BY <1>5, <1>6, <1>9, <1>10, <1>11 DEF HistoryInv

\* What the revisions of a branch that another thread is forking are left.
LastsKept(t) ==
  \A u \in Threads \ {t} : call[u].step \in Forking =>
    /\ lastRevision'[call[u].branch] = lastRevision[call[u].branch]
    /\ Forked(u) /\ revision[lastRevision[call[u].branch]].writable =>
         revision'[lastRevision[call[u].branch]].writable

\* The thread unlocks its own branches only.
LocksKept(t) == \A b \in Branch : writeMutex'[b] = writeMutex[b] \/ writeMutex[b] \in {t, NoThread}

\* The steps that leave the documents on their branches.
LEMMA HistoryQuiet ==
  ASSUME CountingInv, CountingInv', SharingInv, SharingInv', HistoryInv, StoreInv', PagesKept,
         LockType', NEW t \in Threads, NEW c, Becomes(t, c),
         UNCHANGED <<instanciated, reusable, revisionPage>>,
         \A d \in Document : /\ document'[d].flags = document[d].flags
                             /\ document'[d].allocator = document[d].allocator,
         branchMap \subseteq branchMap', \A b \in branchMap : dependsOn'[b] = dependsOn[b],
         CallMeant(t)', call[t].step # "forkReference", c.step # "forkReference",
         c.step = "forkSwitch" => \A d \in Alive : BranchOf(d) # c.branch,
         \A d \in Alive, u \in Threads :
           Guards(t, d) /\ Forked(u) /\ BranchOf(d) = call[u].branch => Guards(t, d)',
         LastsKept(t), LocksKept(t)
  PROVE  HistoryInv'
<1>1. /\ Alive' = Alive /\ NoDocument \notin Document /\ Alive \subseteq Document
      /\ \A u \in Threads : CallMeant(u) /\ u # NoThread
      /\ StoreInv /\ Placed /\ call'[t] = c /\ \A u \in Threads \ {t} : call'[u] = call[u]
  BY Finite, NoThreadAssumption DEF Alive, HistoryInv, Becomes
<1>2. \A d \in Alive : PageOf(d)' = PageOf(d) /\ PageOf(d) \in Taken /\ PageOf(d) \in Taken'
                       /\ Kept(PageOf(d))
  <2>1. SUFFICES ASSUME NEW d \in Alive
                 PROVE  PageOf(d)' = PageOf(d) /\ PageOf(d) \in Taken /\ PageOf(d) \in Taken'
                        /\ Kept(PageOf(d))
    OBVIOUS
  <2>2. PageOf(d)' = PageOf(d)
    BY <1>1 DEF PageOf
  <2>3. PageOf(d) \in Taken /\ revision[PageOf(d)].branch \in branchMap
    BY <1>1 DEF Placed, StoreInv, Lines, InLine
  <2>4. QED
    BY <2>2, <2>3 DEF PagesKept
<1>3. \A d \in Alive : Staying(d)
  <2>1. SUFFICES ASSUME NEW d \in Alive PROVE Staying(d)
    OBVIOUS
  <2>2. PageOf(d)' = PageOf(d) /\ PageOf(d) \in Taken' /\ Kept(PageOf(d)) /\ d \in Document
    BY <1>1, <1>2
  <2>3. QED
    BY <2>2 DEF Staying, Kept, PageOf, BranchOf, IsWritable, RevisionOf
<1>4. ForksKept(t)
  <2>1. SUFFICES ASSUME NEW u \in Threads \ {t}, call[u].step \in Forking
                 PROVE  /\ call[u].branch \in branchMap'
                        /\ dependsOn'[call[u].branch] = dependsOn[call[u].branch]
                        /\ document'[call[u].doc].allocator = document[call[u].doc].allocator
                        /\ Forked(u) => writeMutex'[call[u].branch] = writeMutex[call[u].branch]
    BY DEF ForksKept, LastsKept
  <2>2. call[u].branch \in branchMap /\ call[u].branch \in Branch /\ call[u].doc \in Document
    BY <2>1, ForkingUses
  <2>3. Forked(u) => writeMutex[call[u].branch] = u
    BY <1>1 DEF CallMeant
  <2>4. QED
    BY <1>1, <2>2, <2>3 DEF LocksKept
<1>5. PositionType' /\ InstanciatedType'
  BY DEF HistoryInv, PositionType, InstanciatedType
<1>6. \A d \in Document, b \in Branch : d \in instanciated'[b] <=> d \in instanciated[b] /\ d \in Alive'
  BY <1>1 DEF HistoryInv, Registered
<1>7. \A u \in Threads \ {t} : call[u].step = "openWrite" => call[u].branch \in branchMap'
  BY <1>1 DEF CallMeant
<1>8. NoDocument \in Document \cup {NoDocument} /\ t \in Threads \cup {NoThread}
  OBVIOUS
<1>9. c.step = "forkSwitch" => \A d \in Alive' : BranchOf(d)' # call'[t].branch
  BY <1>1, <1>3 DEF Staying
<1>10. /\ \A b \in Branch : reusable'[b] \in {reusable[b], NoDocument}
       /\ \A d \in Alive' : Staying(d)
  BY <1>1, <1>3
<1>11. QED
  BY <1>1, <1>4, <1>5, <1>6, <1>7, <1>8, <1>9, <1>10, HistoryStep

Meaningless == {"idle", "opened", "reopen", "discard", "release"}

LEMMA QuietMeant ==
  ASSUME NEW t \in Threads, call'[t].step \in Meaningless
  PROVE  CallMeant(t)'
BY DEF CallMeant, Meaningless, Forking, Forked

\* The steps that leave the branches and the revisions too.
LEMMA HistoryLeft ==
  ASSUME CountingInv, CountingInv', SharingInv, SharingInv', HistoryInv,
         UNCHANGED <<nextBranchId, branchMap, dependsOn, revisions>>,
         LockType', NEW t \in Threads, NEW c, Becomes(t, c),
         UNCHANGED <<instanciated, reusable, revisionPage>>,
         \A d \in Document : /\ document'[d].flags = document[d].flags
                             /\ document'[d].allocator = document[d].allocator,
         c.step \in Meaningless \cup {"openWrite", "lock", "reopenLock"},
         CallMeant(t)', call[t].step # "forkReference",
         \A d \in Alive, u \in Threads :
           Guards(t, d) /\ Forked(u) /\ BranchOf(d) = call[u].branch => Guards(t, d)',
         LocksKept(t)
  PROVE  HistoryInv'
<1>1. StoreInv' /\ PagesKept
  BY StoreLeft DEF HistoryInv
<1>2. LastsKept(t)
  BY DEF LastsKept, revisions
<1>3. c.step # "forkReference" /\ c.step # "forkSwitch"
  BY DEF Meaningless
<1>4. QED
  BY <1>1, <1>2, <1>3, HistoryQuiet

\* The branch that is being forked has one revision, of the thread that forks.
LEMMA ForkedAlone ==
  ASSUME HistoryInv, NEW u \in Threads, Forked(u), NEW q \in Taken,
         revision[q].branch = call[u].branch
  PROVE  /\ q = lastRevision[call[u].branch] /\ revision[q].writable
         /\ writeMutex[call[u].branch] = u /\ revision[q].prev = NullPage
<1> DEFINE b == call[u].branch
           p == call[u].page
<1>1. /\ CallMeant(u) /\ StoreInv /\ Lines /\ branchMap \in SUBSET Branch
  BY DEF HistoryInv, StoreInv, StoreType
<1>2. /\ b \in branchMap /\ b \in Branch /\ p = lastRevision[b] /\ p # NullPage
      /\ revision[p].prev = NullPage /\ revision[p].writable /\ writeMutex[b] = u
  BY <1>1 DEF CallMeant, Forked, Forking
<1>3. p \in Taken /\ revision[p].branch = b /\ InLine(p) /\ InLine(q)
  BY <1>1, <1>2 DEF Lines
<1>4. revision[p].id = 1 /\ revision[q].id > 0 /\ revision[q].id <= 1 /\ revision[q].id \in Nat
  <2>1. q \in Page
    BY DEF Taken
  <2>2. QED
    BY <1>1, <1>2, <1>3, <2>1, RevisionFields DEF InLine
<1>5. q = p
  BY <1>1, <1>3, <1>4 DEF Lines
<1>6. QED
  BY <1>2, <1>5

LEMMA HistoryProceed ==
  ASSUME CountingInv, CountingInv', SharingInv, SharingInv', HistoryInv, NEW t \in Threads,
         \/ OpenWriteThrows(t) \/ IncrementRefCountOfFreed(t) \/ IncrementRefCount(t)
         \/ LockWrite(t) \/ ReopenBegin(t)
  PROVE  HistoryInv'
<1> DEFINE d == call[t].doc
           b == call[t].branch
<1>1. /\ UNCHANGED <<nextBranchId, branchMap, dependsOn, revisions>>
      /\ UNCHANGED <<instanciated, reusable, revisionPage>>
  BY DEF OpenWriteThrows, IncrementRefCountOfFreed, IncrementRefCount, LockWrite, ReopenBegin,
         branches, documents
<1>2. /\ CallMeant(t) /\ CallHolds(t) /\ LockType /\ DocumentType /\ Referenced
      /\ \A u \in Threads : CallMeant(u) /\ u # NoThread
      /\ Idle.step = "idle" /\ Placed /\ Lines /\ branchMap \in SUBSET Branch /\ StoreInv
  BY NoThreadAssumption, ReferencedAlive
     DEF HistoryInv, SharingInv, CountingInv, Types, Idle, StoreInv, StoreType
<1>3. CASE OpenWriteThrows(t)
  <2>1. Becomes(t, Idle) /\ call'[t] = Idle /\ Idle.step \in Meaningless
    BY <1>2, <1>3, CallReturns DEF OpenWriteThrows, Return, Becomes, Meaningless
  <2>2. /\ call[t].step = "openWrite" /\ writeMutex[b] = NoThread
        /\ writeMutex' = [writeMutex EXCEPT ![b] = t] /\ UNCHANGED document
    BY <1>3 DEF OpenWriteThrows, documents
  <2>3. LockType' /\ LocksKept(t)
    BY <1>2, <2>2 DEF LockType, LocksKept
  <2>4. CallMeant(t)' /\ \A e \in Alive : ~Guards(t, e)
    BY <2>1, <2>2, QuietMeant DEF Guards
  <2>5. QED
    BY <1>1, <2>1, <2>2, <2>3, <2>4, HistoryLeft
<1>4. CASE IncrementRefCountOfFreed(t)
  <2>1. /\ UNCHANGED <<call, document, writeMutex>> /\ call[t].step = "opened"
        /\ Becomes(t, call[t]) /\ call[t].step \in Meaningless
    BY <1>4 DEF IncrementRefCountOfFreed, threads, documents, mutexes, Becomes, Meaningless
  <2>2. CallMeant(t)' /\ LockType' /\ LocksKept(t) /\ \A e \in Alive : Guards(t, e)' = Guards(t, e)
    BY <1>2, <2>1, QuietMeant DEF LockType, LocksKept, Guards
  <2>3. QED
    BY <1>1, <2>1, <2>2, HistoryLeft
<1>5. CASE LockWrite(t)
  <2>1. /\ call[t].step = "lock" /\ b = BranchOf(d) /\ writeMutex[b] = NoThread /\ UNCHANGED document
        /\ \/ writeMutex' = [writeMutex EXCEPT ![b] = t]
           \/ writeMutex' = [writeMutex EXCEPT ![b] = t, ![BranchOf(d)] = NoThread]
    BY <1>2, <1>5 DEF LockWrite, CallMeant, documents
  <2>2. LockType' /\ LocksKept(t)
    BY <1>2, <2>1 DEF LockType, LocksKept
  <2>3. PICK c : Becomes(t, c) /\ c.step \in Meaningless
    <3> DEFINE c == [Idle EXCEPT !.step = "discard", !.doc = d]
    <3>1. Return(t) \/ call' = [call EXCEPT ![t] = c]
      BY <1>5 DEF LockWrite
    <3>2. c.step \in Meaningless /\ Idle.step \in Meaningless
      BY DEF Idle, Meaningless
    <3>3. Becomes(t, c) \/ Becomes(t, Idle)
      BY <3>1, CallReturns DEF Return
    <3>4. QED
      BY <3>2, <3>3, Zenon
  <2>4. CallMeant(t)'
    BY <2>3, QuietMeant DEF Becomes
  <2>5. \A e \in Alive, u \in Threads : ~(Guards(t, e) /\ Forked(u) /\ BranchOf(e) = call[u].branch)
    <3>1. \A u \in Threads : Forked(u) => writeMutex[call[u].branch] = u /\ u # NoThread
      BY <1>2 DEF CallMeant
    <3>2. QED
      BY <2>1, <3>1 DEF Guards
  <2>6. QED
    BY <1>1, <2>1, <2>2, <2>3, <2>4, <2>5, HistoryLeft
<1>6. CASE ReopenBegin(t)
  <2>1. /\ call[t].step = "reopen" /\ UNCHANGED <<document, writeMutex>>
        /\ Becomes(t, [step |-> "reopenLock", doc |-> d, branch |-> BranchOf(d),
                       page |-> call[t].page, flags |-> call[t].flags])
    BY <1>6, CallMoves DEF ReopenBegin, documents
  <2>2. PICK c : Becomes(t, c) /\ c.step = "reopenLock" /\ c.doc = d /\ c.branch = BranchOf(d)
    BY <2>1
  <2>3. d \in Document /\ d \in Alive /\ PageOf(d) \in Taken
    BY <1>2, <2>1 DEF CallHolds, Holding, Reopening, Referenced, Placed
  <2>4. CallMeant(t)'
    <3>1. revision'[revisionPage'[document'[d].allocator]].branch = BranchOf(d)
      BY <1>1, <2>1 DEF revisions, BranchOf, RevisionOf
    <3>2. QED
      BY <2>2, <3>1 DEF CallMeant, Becomes, BranchOf, RevisionOf, Forking, Forked
  <2>5. LockType' /\ LocksKept(t) /\ \A e \in Alive : ~Guards(t, e)
    BY <1>2, <2>1 DEF LockType, LocksKept, Guards
  <2>6. QED
    BY <1>1, <2>1, <2>2, <2>4, <2>5, HistoryLeft
<1>7. CASE IncrementRefCount(t)
  <2>1. /\ call[t].step = "opened" /\ d \in Alive /\ d \in Document /\ UNCHANGED writeMutex
        /\ \A e \in Document : document'[e].flags = document[e].flags
                               /\ document'[e].allocator = document[e].allocator
    BY <1>2, <1>7 DEF IncrementRefCount, DocumentType, mutexes, Alive
  <2>2. LockType' /\ LocksKept(t) /\ call[t].step # "forkReference"
    BY <1>2, <2>1 DEF LockType, LocksKept
  <2>3. CASE Return(t) /\ ~(call[t].flags = "AsRevision" /\ IsWritable(d) /\ ~IsLockedWrite(t, d))
    <3>1. Becomes(t, Idle) /\ call'[t] = Idle /\ Idle.step \in Meaningless
      BY <1>2, <2>3, CallReturns DEF Return, Becomes, Meaningless
    <3>2. ASSUME NEW u \in Threads, Guards(t, d), Forked(u), BranchOf(d) = call[u].branch
          PROVE  FALSE
      <4>1. PageOf(d) \in Taken /\ revision[PageOf(d)].branch = call[u].branch
        BY <1>2, <2>1, <3>2 DEF Placed, BranchOf, RevisionOf, PageOf
      <4>2. revision[PageOf(d)].writable /\ writeMutex[BranchOf(d)] = u /\ u # t
        BY <2>1, <3>2, <4>1, ForkedAlone DEF Forked
      <4>3. QED
        BY <2>1, <2>3, <3>2, <4>2 DEF Guards, IsWritable, IsLockedWrite, RevisionOf, PageOf
    <3>3. \A e \in Alive, u \in Threads : ~(Guards(t, e) /\ Forked(u) /\ BranchOf(e) = call[u].branch)
      BY <3>2 DEF Guards
    <3>4. CallMeant(t)'
      BY <3>1, QuietMeant
    <3>5. QED
      BY <1>1, <2>1, <2>2, <3>1, <3>3, <3>4, HistoryLeft
  <2>4. CASE /\ call' = [call EXCEPT ![t].step = "lock", ![t].branch = BranchOf(d)]
             /\ call[t].flags = "AsRevision"
    <3>1. Becomes(t, [step |-> "lock", doc |-> d, branch |-> BranchOf(d), page |-> call[t].page,
                      flags |-> call[t].flags])
      BY <2>4, CallMoves
    <3>2. PICK c : Becomes(t, c) /\ c.step = "lock" /\ c.doc = d /\ c.branch = BranchOf(d)
      BY <3>1
    <3>3. document'[d].flags # "ExplicitRead"
      BY <1>2, <2>1, <2>4 DEF CallHolds
    <3>4. revision'[revisionPage'[document'[d].allocator]].branch = BranchOf(d)
      BY <1>1, <2>1, SMTT(30) DEF revisions, BranchOf, RevisionOf
    <3>5. CallMeant(t)'
      BY <3>2, <3>3, <3>4 DEF CallMeant, Becomes, BranchOf, RevisionOf, Forking, Forked
    <3>6. \A e \in Alive : Guards(t, e) => Guards(t, e)'
      BY <3>2 DEF Guards, Becomes
    <3>7. QED
      BY <1>1, <2>1, <2>2, <3>2, <3>5, <3>6, HistoryLeft
  <2>5. QED
    BY <1>7, <2>3, <2>4 DEF IncrementRefCount
<1>8. QED
  BY <1>3, <1>4, <1>5, <1>6, <1>7

LEMMA HistoryUse ==
  ASSUME CountingInv, CountingInv', SharingInv, SharingInv', HistoryInv, NEW t \in Threads,
         NEW d \in Document, GrantWrite(t, d) \/ ScheduleRemoval(t, d) \/ ReleaseBegin(t, d)
  PROVE  HistoryInv'
<1>1. /\ UNCHANGED <<nextBranchId, branchMap, dependsOn, revisions>>
      /\ UNCHANGED <<instanciated, reusable, revisionPage, document>>
  BY DEF GrantWrite, ScheduleRemoval, ReleaseBegin, branches, documents
<1>2. /\ CallMeant(t) /\ LockType /\ Referenced /\ ReadOnly /\ Placed
      /\ Idle.step = "idle" /\ Idle.step \in Meaningless
      /\ BranchOf(d)' = BranchOf(d)
  BY <1>1, ReferencedAlive DEF HistoryInv, Idle, Meaningless, BranchOf, RevisionOf, revisions
<1>3. ASSUME NEW c, Becomes(t, c), CallMeant(t)', call[t].step \in {"idle", "discard"},
             c.step \in Meaningless \cup {"lock"}, LockType', LocksKept(t)
      PROVE  HistoryInv'
  <2>1. \A e \in Alive : ~Guards(t, e)
    BY <1>3 DEF Guards
  <2>2. call[t].step # "forkReference"
    BY <1>3
  <2>3. QED
    BY <1>1, <1>3, <2>1, <2>2, HistoryLeft
<1>4. CASE ScheduleRemoval(t, d)
  <2>1. UNCHANGED <<call, writeMutex>> /\ call[t] = Idle /\ Becomes(t, call[t])
    BY <1>4 DEF ScheduleRemoval, threads, mutexes, Becomes
  <2>2. LockType' /\ LocksKept(t) /\ CallMeant(t)'
    BY <1>2, <2>1, QuietMeant DEF LockType, LocksKept
  <2>3. QED
    BY <1>2, <1>3, <2>1, <2>2
<1>5. CASE ReleaseBegin(t, d)
  <2>1. call[t].step \in {"idle", "discard"}
        /\ writeMutex' = IF IsLockedWrite(t, d) THEN [writeMutex EXCEPT ![BranchOf(d)] = NoThread]
                         ELSE writeMutex
    BY <1>2, <1>5 DEF ReleaseBegin
  <2>2. PICK c : call' = [call EXCEPT ![t] = c] /\ c.step = "release"
    <3> DEFINE c == [Idle EXCEPT !.step = "release", !.doc = d]
    <3>1. call' = [call EXCEPT ![t] = c]
      BY <1>5 DEF ReleaseBegin
    <3>2. c.step = "release"
      BY DEF Idle
    <3>3. QED
      BY <3>1, <3>2, Zenon
  <2>3. Becomes(t, c) /\ c.step \in Meaningless
    BY <2>2, CallReturns DEF Meaningless
  <2>4. CallMeant(t)'
    BY <2>3, QuietMeant DEF Becomes
  <2>5. LockType' /\ LocksKept(t)
    BY <1>2, <2>1 DEF LockType, LocksKept, IsLockedWrite
  <2>6. QED
    BY <1>3, <2>1, <2>3, <2>4, <2>5
<1>6. CASE GrantWrite(t, d)
  <2>1. call[t] = Idle /\ held[t][d] > 0 /\ UNCHANGED writeMutex /\ d \in Alive
    BY <1>2, <1>6 DEF GrantWrite, mutexes, Referenced
  <2>2. LockType' /\ LocksKept(t)
    BY <1>2, <2>1 DEF LockType, LocksKept
  <2>3. CASE UNCHANGED call
    <3>1. Becomes(t, call[t])
      BY <2>3 DEF Becomes
    <3>2. CallMeant(t)'
      BY <1>2, <2>1, <2>3, QuietMeant
    <3>3. QED
      BY <1>2, <1>3, <2>1, <2>2, <3>1, <3>2
  <2>4. CASE /\ IsWritable(d)
             /\ call' = [call EXCEPT ![t] =
                  [Idle EXCEPT !.step = "lock", !.doc = d, !.branch = BranchOf(d)]]
    <3>1. PICK c : call' = [call EXCEPT ![t] = c] /\ c.step = "lock" /\ c.doc = d
                   /\ c.branch = BranchOf(d)
      <4> DEFINE c == [Idle EXCEPT !.step = "lock", !.doc = d, !.branch = BranchOf(d)]
      <4>1. call' = [call EXCEPT ![t] = c]
        BY <2>4
      <4>2. c.step = "lock" /\ c.doc = d /\ c.branch = BranchOf(d)
        BY DEF Idle
      <4>3. QED
        BY <4>1, <4>2, Zenon
    <3>2. Becomes(t, c)
      BY <3>1, CallReturns
    <3>3. document'[d].flags # "ExplicitRead"
      BY <1>1, <1>2, <2>1, <2>4 DEF ReadOnly
    <3>4. CallMeant(t)'
      BY <1>2, <3>1, <3>2, <3>3 DEF CallMeant, Becomes, Forking, Forked, BranchOf, RevisionOf
    <3>5. QED
      BY <1>2, <1>3, <2>1, <2>2, <3>1, <3>2, <3>4
  <2>5. CASE call' = [call EXCEPT ![t] = [Idle EXCEPT !.step = "reopen", !.doc = d]]
    <3>1. PICK c : call' = [call EXCEPT ![t] = c] /\ c.step = "reopen"
      <4> DEFINE c == [Idle EXCEPT !.step = "reopen", !.doc = d]
      <4>1. call' = [call EXCEPT ![t] = c]
        BY <2>5
      <4>2. c.step = "reopen"
        BY DEF Idle
      <4>3. QED
        BY <4>1, <4>2, Zenon
    <3>2. Becomes(t, c) /\ c.step \in Meaningless
      BY <3>1, CallReturns DEF Meaningless
    <3>3. CallMeant(t)'
      BY <3>2, QuietMeant DEF Becomes
    <3>4. QED
      BY <1>2, <1>3, <2>1, <2>2, <3>2, <3>3
  <2>6. QED
    BY <1>6, <2>3, <2>4, <2>5 DEF GrantWrite
<1>7. QED
  BY <1>4, <1>5, <1>6

LEMMA HistoryOpenWriteBegin ==
  ASSUME CountingInv, CountingInv', SharingInv, SharingInv', HistoryInv, NEW t \in Threads,
         NEW b \in Branch, NEW flags \in OpenFlags, OpenWriteBegin(t, b, flags)
  PROVE  HistoryInv'
<1>1. /\ UNCHANGED <<nextBranchId, branchMap, dependsOn, revisions, writeMutex>>
      /\ UNCHANGED <<instanciated, reusable, revisionPage, document>>
      /\ call[t] = Idle /\ Idle.step = "idle" /\ b \in branchMap
  BY DEF OpenWriteBegin, branches, documents, Idle
<1>2. PICK c : call' = [call EXCEPT ![t] = c] /\ c.step = "openWrite" /\ c.branch = b
  <2> DEFINE c == [Idle EXCEPT !.step = "openWrite", !.branch = b, !.flags = flags]
  <2>1. call' = [call EXCEPT ![t] = c]
    BY DEF OpenWriteBegin
  <2>2. c.step = "openWrite" /\ c.branch = b
    BY DEF Idle
  <2>3. QED
    BY <2>1, <2>2, Zenon
<1>3. Becomes(t, c)
  BY <1>2, CallReturns
<1>4. CallMeant(t)'
  BY <1>1, <1>2, <1>3 DEF CallMeant, Becomes, Forking, Forked
<1>5. LockType' /\ LocksKept(t) /\ call[t].step # "forkReference" /\ \A e \in Alive : ~Guards(t, e)
  BY <1>1 DEF HistoryInv, LockType, LocksKept, Guards
<1>6. QED
  BY <1>1, <1>2, <1>3, <1>4, <1>5, HistoryLeft

LEMMA HistoryEdit ==
  ASSUME CountingInv, CountingInv', SharingInv, SharingInv', HistoryInv, NEW t \in Threads,
         NEW d \in Document, Edit(t, d) \/ Commit(t, d)
  PROVE  HistoryInv'
<1> DEFINE p == PageOf(d)
<1>1. /\ UNCHANGED <<nextBranchId, branchMap, dependsOn, lastRevision, call>>
      /\ UNCHANGED <<instanciated, reusable, revisionPage, document>>
      /\ call[t] = Idle /\ Idle.step = "idle" /\ Idle.step \in Meaningless
  BY DEF Edit, Commit, branches, documents, threads, Idle, Meaningless
<1>2. /\ StoreInv /\ LockType /\ GrantHeld(t) /\ Referenced /\ Placed
      /\ \A u \in Threads : CallMeant(u) /\ u # NoThread
  BY NoThreadAssumption, ReferencedAlive DEF HistoryInv, SharingInv
<1>3. d \in Alive /\ p \in Taken /\ p \in Page
  BY <1>2 DEF Edit, Commit, GrantHeld, Referenced, Placed, Taken
<1>4. /\ revision' \in [Page -> RevisionType] /\ \A q \in Page : Kept(q)
      /\ \A q \in Page \ {p} : revision'[q] = revision[q]
      /\ Edit(t, d) => revision'[p].writable = revision[p].writable
  <2>1. revision \in [Page -> RevisionType] /\ revision[p] \in RevisionType
    BY <1>2, <1>3 DEF StoreInv, StoreType
  <2>2. CASE Edit(t, d)
    <3>1. revision' = [revision EXCEPT ![p] = [revision[p] EXCEPT !.edits = revision[p].edits + 1]]
      BY <2>1, <2>2 DEF Edit, PageOf
    <3>2. [revision[p] EXCEPT !.edits = revision[p].edits + 1] \in RevisionType
      BY <2>1 DEF RevisionType
    <3>3. QED
      BY <1>3, <2>1, <3>1, <3>2 DEF Kept, RevisionType
  <2>3. CASE Commit(t, d)
    <3>1. revision' = [revision EXCEPT ![p] = [revision[p] EXCEPT !.writable = FALSE]]
      BY <2>1, <2>3 DEF Commit, PageOf
    <3>2. [revision[p] EXCEPT !.writable = FALSE] \in RevisionType
      BY <2>1 DEF RevisionType
    <3>3. Commit(t, d) => ~Edit(t, d)
      BY <2>1, <3>1, <1>3 DEF Edit, PageOf, RevisionType
    <3>4. /\ revision' \in [Page -> RevisionType]
          /\ \A q \in Page \ {p} : revision'[q] = revision[q]
          /\ revision'[p] = [revision[p] EXCEPT !.writable = FALSE]
      <4> HIDE DEF p
      <4>1. QED
        BY <1>3, <2>1, <3>1, <3>2
    <3>5. Kept(p)
      BY <2>1, <3>4 DEF Kept, RevisionType
    <3>6. \A q \in Page \ {p} : Kept(q)
      BY <3>4 DEF Kept
    <3>7. QED
      BY <2>3, <3>3, <3>4, <3>5, <3>6
  <2>4. QED
    BY <2>2, <2>3
<1>5. StoreInv' /\ PagesKept
  BY <1>1, <1>2, <1>3, <1>4, RevisionsChanged
<1>6. /\ LockType' /\ LocksKept(t)
      /\ Edit(t, d) \/ writeMutex[BranchOf(d)] = t
  BY <1>2 DEF Edit, Commit, LockType, LocksKept, mutexes, IsLockedWrite
<1>7. LastsKept(t)
  <2>1. SUFFICES ASSUME NEW u \in Threads \ {t}, Forked(u),
                        revision[lastRevision[call[u].branch]].writable
                 PROVE  revision'[lastRevision[call[u].branch]].writable
    BY <1>1 DEF LastsKept
  <2>2. /\ call[u].branch \in Branch /\ writeMutex[call[u].branch] = u
        /\ lastRevision[call[u].branch] # NullPage
    BY <1>2, <2>1, ForkingUses DEF CallMeant, Forked, Forking
  <2>3. /\ lastRevision[call[u].branch] \in Page
        /\ revision[lastRevision[call[u].branch]].branch = call[u].branch
    BY <1>2, <2>2 DEF StoreInv, Lines, Taken
  <2>4. lastRevision[call[u].branch] = p => Edit(t, d)
    BY <1>6, <2>2, <2>3 DEF BranchOf, RevisionOf, PageOf
  <2>5. QED
    BY <1>4, <2>1, <2>3, <2>4
<1>8. /\ Becomes(t, call[t]) /\ CallMeant(t)'
      /\ call[t].step # "forkReference" /\ call[t].step # "forkSwitch"
      /\ \A e \in Alive : ~Guards(t, e)
  BY <1>1, QuietMeant DEF Becomes, Guards
<1> HIDE DEF p
<1>9. QED
  BY <1>1, <1>2, <1>5, <1>6, <1>7, <1>8, HistoryQuiet

LEMMA HistoryCreateBranch ==
  ASSUME CountingInv, CountingInv', SharingInv, SharingInv', HistoryInv, NEW t \in Threads,
         CreateBranch(t)
  PROVE  HistoryInv'
<1>1. /\ UNCHANGED <<writeMutex, revisions, call, instanciated, reusable, revisionPage, document>>
      /\ DoCreateBranch(NoBranch) /\ call[t] = Idle /\ Idle.step \in Meaningless
      /\ UNCHANGED <<lastRevision, revision>> /\ Idle.step = "idle"
  BY DEF CreateBranch, mutexes, threads, documents, revisions, Idle, Meaningless
<1>2. /\ StoreInv' /\ PagesKept /\ branchMap \subseteq branchMap'
      /\ \A b \in branchMap : dependsOn'[b] = dependsOn[b]
  BY <1>1, BranchAdded DEF HistoryInv, StoreInv, StoreType
<1>3. LockType' /\ LocksKept(t) /\ LastsKept(t) /\ Becomes(t, call[t]) /\ CallMeant(t)'
  BY <1>1, QuietMeant DEF HistoryInv, LockType, LocksKept, LastsKept, Becomes
<1>4. /\ call[t].step # "forkReference" /\ call[t].step # "forkSwitch"
      /\ \A e \in Alive : ~Guards(t, e)
  BY <1>1 DEF Guards, Meaningless
<1>5. QED
  BY <1>1, <1>2, <1>3, <1>4, HistoryQuiet

LEMMA HistoryFork ==
  ASSUME CountingInv, CountingInv', SharingInv, SharingInv', HistoryInv, NEW t \in Threads,
         NEW d \in Document, Fork(t, d)
  PROVE  HistoryInv'
<1> DEFINE b == nextBranchId
<1>1. /\ UNCHANGED <<writeMutex, revisions, instanciated, reusable, revisionPage, document>>
      /\ DoCreateBranch(BranchOf(d)) /\ call[t] = Idle /\ Idle.step = "idle"
      /\ UNCHANGED <<lastRevision, revision>>
      /\ "fork" \in Uses /\ held[t][d] > 0 /\ ~IsWritable(d)
  BY DEF Fork, mutexes, documents, revisions, Idle
<1>2. /\ d \in Alive /\ PageOf(d) \in Taken /\ BranchOf(d) \in branchMap
      /\ \A u \in Threads : CallMeant(u)
  BY <1>1, ReferencedAlive
     DEF HistoryInv, Referenced, Placed, StoreInv, Lines, InLine, BranchOf, RevisionOf, PageOf
<1>3. /\ StoreInv' /\ PagesKept /\ branchMap' = branchMap \cup {b} /\ b \in Branch
      /\ b \notin branchMap /\ lastRevision[b] = NullPage /\ dependsOn'[b] = BranchOf(d)
      /\ \A c \in Branch \ {b} : dependsOn'[c] = dependsOn[c]
  BY <1>1, <1>2, BranchAdded DEF HistoryInv
<1>4. PICK c : /\ call' = [call EXCEPT ![t] = c] /\ c.step = "forkLock" /\ c.doc = d
               /\ c.branch = b /\ c.page = PageOf(d)
  <2> DEFINE c == [Idle EXCEPT !.step = "forkLock", !.doc = d, !.branch = nextBranchId,
                               !.page = revisionPage[document[d].allocator]]
  <2>1. call' = [call EXCEPT ![t] = c]
    BY DEF Fork
  <2>2. c.step = "forkLock" /\ c.doc = d /\ c.branch = b /\ c.page = PageOf(d)
    BY DEF Idle, PageOf
  <2>3. QED
    BY <2>1, <2>2, Zenon
<1>5. Becomes(t, c)
  BY <1>4, CallReturns
<1>6. CallMeant(t)'
  <2>1. \A u \in Threads \ {t} : call'[u].step \in Forking => call'[u].branch # b
    BY <1>2, <1>3, <1>5 DEF CallMeant, Becomes
  <2>2. call'[t] = c /\ lastRevision'[b] = NullPage /\ b \in branchMap'
    BY <1>1, <1>3, <1>5 DEF Becomes
  <2>3. /\ dependsOn'[b] = revision'[revisionPage'[document'[d].allocator]].branch
        /\ ~revision'[revisionPage'[document'[d].allocator]].writable
        /\ PageOf(d) = revisionPage'[document'[d].allocator]
    BY <1>1, <1>3 DEF BranchOf, RevisionOf, PageOf, IsWritable
  <2> HIDE DEF b
  <2>4. QED
    BY <1>1, <1>4, <2>1, <2>2, <2>3
       DEF CallMeant, Forked, Forking, BranchOf, RevisionOf, PageOf, IsWritable
<1>7. LockType' /\ LocksKept(t) /\ LastsKept(t)
  BY <1>1 DEF HistoryInv, LockType, LocksKept, LastsKept
<1>8. /\ call[t].step # "forkReference" /\ c.step # "forkReference" /\ c.step # "forkSwitch"
      /\ \A e \in Alive : ~Guards(t, e)
      /\ \A x \in branchMap : dependsOn'[x] = dependsOn[x]
  BY <1>1, <1>3, <1>4 DEF Guards, HistoryInv, StoreInv, StoreType
<1> HIDE DEF b
<1>9. QED
  BY <1>1, <1>3, <1>5, <1>6, <1>7, <1>8, HistoryQuiet

LEMMA HistoryForkRevision ==
  ASSUME CountingInv, CountingInv', SharingInv, SharingInv', HistoryInv, NEW t \in Threads,
         ForkRevision(t)
  PROVE  HistoryInv'
<1> DEFINE b == call[t].branch
           d == call[t].doc
<1>1. PICK p \in FreePages :
        /\ revision' = [revision EXCEPT ![p] =
             [branch |-> b, id |-> 1, prev |-> NullPage, base |-> call[t].page,
              writable |-> TRUE, edits |-> 0]]
        /\ lastRevision' = [lastRevision EXCEPT ![b] = p]
        /\ call' = [call EXCEPT ![t].step = "forkSwitch", ![t].page = p]
  BY DEF ForkRevision
<1>2. /\ UNCHANGED <<nextBranchId, branchMap, dependsOn, instanciated, reusable, revisionPage, document>>
      /\ call[t].step = "forkLock" /\ writeMutex[b] = NoThread
      /\ writeMutex' = [writeMutex EXCEPT ![b] = t]
  BY DEF ForkRevision, branches, documents
<1>3. /\ CallMeant(t) /\ StoreInv /\ StoreType /\ Lines /\ LockType /\ Blank
      /\ \A u \in Threads : CallMeant(u) /\ u # NoThread
      /\ \A q \in Taken : revision[q].branch \in Branch
  BY NoThreadAssumption DEF HistoryInv, StoreInv, Lines, InLine, StoreType
<1>4. /\ d \in Alive /\ d \in Document /\ PageOf(d) \in Taken /\ b \in branchMap /\ b \in Branch
      /\ lastRevision[b] = NullPage /\ call[t].page = PageOf(d)
      /\ dependsOn[b] = BranchOf(d) /\ ~IsWritable(d) /\ "fork" \in Uses
      /\ \A u \in Threads \ {t} : call[u].step \in Forking => call[u].branch # b
  BY <1>2, <1>3, ForkingUses DEF CallMeant, Forking
<1>5. /\ p \in Page /\ p \notin Taken /\ p # NullPage /\ PageOf(d) \in Page
      /\ FreePages = Page \ Taken
  BY <1>3, <1>4, FreeMeans, Numbers DEF Taken
<1>6. /\ revision' \in [Page -> RevisionType]
      /\ \A q \in Page \ {p} : revision'[q] = revision[q]
      /\ revision'[p].branch = b /\ revision'[p].prev = NullPage /\ revision'[p].id = 1
      /\ revision'[p].writable /\ revision'[p].base = PageOf(d)
  <2> DEFINE r == [branch |-> b, id |-> 1, prev |-> NullPage, base |-> call[t].page,
                   writable |-> TRUE, edits |-> 0]
  <2>1. r \in RevisionType
    BY <1>4, <1>5 DEF RevisionType
  <2>2. revision' = [revision EXCEPT ![p] = r]
    BY <1>1
  <2>3. revision \in [Page -> RevisionType]
    BY <1>3 DEF StoreType
  <2>4. revision'[p] = r /\ \A q \in Page \ {p} : revision'[q] = revision[q]
    BY <1>5, <2>2, <2>3
  <2>5. revision' \in [Page -> RevisionType]
    <3> HIDE DEF r
    <3>1. QED
      BY <2>1, <2>2, <2>3
  <2>6. QED
    BY <1>4, <2>4, <2>5
<1>7. StoreInv' /\ PagesKept /\ Taken' = Taken \cup {p}
  <2>1. \A q \in Page \ {p} : Kept(q) /\ (revision'[q].writable => q # lastRevision[b])
    BY <1>4, <1>5, <1>6, Numbers DEF Kept
  <2>2. \A q \in Page \ Taken : q # p => revision'[q] = revision[q]
    BY <1>6
  <2>3. /\ revision'[p].prev = lastRevision[b]
        /\ revision'[p].id = IF lastRevision[b] = NullPage THEN 1
                             ELSE revision[lastRevision[b]].id + 1
    BY <1>4, <1>6
  <2>4. /\ lastRevision[b] = NullPage
        /\ revision'[p].base \in Taken /\ ~revision[revision'[p].base].writable
        /\ revision[revision'[p].base].branch = dependsOn[b]
    BY <1>4, <1>6, SMTT(30) DEF IsWritable, BranchOf, RevisionOf, PageOf
  <2>5. p \in FreePages /\ b \in branchMap /\ lastRevision' = [lastRevision EXCEPT ![b] = p]
        /\ UNCHANGED <<nextBranchId, branchMap, dependsOn>> /\ revision'[p].branch = b
    BY <1>1, <1>2, <1>4, <1>6
  <2> HIDE DEF b, d
  <2>6. QED
    BY <1>3, <1>6, <2>1, <2>2, <2>3, <2>4, <2>5, RevisionAdded, ZenonT(60)
<1>8. PICK c : /\ Becomes(t, c) /\ c.step = "forkSwitch" /\ c.doc = d /\ c.branch = b /\ c.page = p
  <2> DEFINE c == [step |-> "forkSwitch", doc |-> call[t].doc, branch |-> call[t].branch, page |-> p,
                   flags |-> call[t].flags]
  <2>1. Becomes(t, c)
    BY <1>1, CallMoves
  <2>2. c.step = "forkSwitch" /\ c.doc = d /\ c.branch = b /\ c.page = p
    OBVIOUS
  <2> HIDE DEF b, d
  <2>3. QED
    BY <2>1, <2>2, Zenon
<1>9. lastRevision'[b] = p /\ writeMutex'[b] = t /\ LockType' /\ LocksKept(t)
  BY <1>1, <1>2, <1>3, <1>4 DEF StoreType, LockType, LocksKept
<1>10. revisionPage'[document'[d].allocator] = PageOf(d) /\ revision'[PageOf(d)] = revision[PageOf(d)]
  BY <1>2, <1>4, <1>5, <1>6 DEF PageOf
<1>11. CallMeant(t)'
  <2>1. \A u \in Threads \ {t} : call'[u].step \in Forking => call'[u].branch # b
    BY <1>4, <1>8 DEF Becomes
  <2>2. /\ call'[t] = c /\ b \in branchMap' /\ dependsOn'[b] = dependsOn[b]
    BY <1>2, <1>4, <1>8 DEF Becomes
  <2>3. revision[PageOf(d)].branch = BranchOf(d) /\ ~revision[PageOf(d)].writable
    BY <1>4 DEF BranchOf, IsWritable, RevisionOf, PageOf
  <2> HIDE DEF b, d
  <2>4. QED
    BY <1>4, <1>5, <1>6, <1>8, <1>9, <1>10, <2>1, <2>2, <2>3, SMTT(30)
       DEF CallMeant, Forked, Forking, BranchOf, RevisionOf, PageOf, IsWritable
<1>12. LastsKept(t)
  <2>1. SUFFICES ASSUME NEW u \in Threads \ {t}, call[u].step \in Forking
                 PROVE  /\ lastRevision'[call[u].branch] = lastRevision[call[u].branch]
                        /\ Forked(u) => revision'[lastRevision[call[u].branch]] =
                                          revision[lastRevision[call[u].branch]]
    BY DEF LastsKept
  <2>2. call[u].branch # b /\ call[u].branch \in Branch /\ CallMeant(u)
    BY <1>3, <1>4, <2>1, ForkingUses
  <2>3. lastRevision'[call[u].branch] = lastRevision[call[u].branch]
    BY <1>1, <1>3, <2>2 DEF StoreType
  <2>4. Forked(u) => lastRevision[call[u].branch] \in Taken
    BY <1>3, <2>2 DEF CallMeant, Lines
  <2>5. \A q \in Taken : revision'[q] = revision[q]
    BY <1>5, <1>6 DEF Taken
  <2>6. QED
    BY <2>3, <2>4, <2>5
<1>13. \A e \in Alive : BranchOf(e) # c.branch
  <2>1. SUFFICES ASSUME NEW e \in Alive, BranchOf(e) = b PROVE FALSE
    BY <1>8
  <2>2. PageOf(e) \in Taken /\ InLine(PageOf(e)) /\ revision[PageOf(e)].branch = b
    BY <1>3, <2>1 DEF HistoryInv, Placed, Lines, BranchOf, RevisionOf, PageOf
  <2>3. QED
    BY <1>4, <2>2 DEF InLine
<1>14. /\ call[t].step # "forkReference" /\ c.step # "forkReference"
       /\ \A e \in Alive : ~Guards(t, e)
       /\ branchMap \subseteq branchMap' /\ \A x \in branchMap : dependsOn'[x] = dependsOn[x]
  BY <1>2, <1>8 DEF Guards
<1> HIDE DEF b, d
<1>15. QED
  BY <1>2, <1>7, <1>8, <1>9, <1>11, <1>12, <1>13, <1>14, HistoryQuiet

LEMMA CreateRevisionAdds ==
  ASSUME StoreInv, NEW p \in FreePages, NEW b \in branchMap, NEW noInherit \in BOOLEAN,
         CreateRevision(b, p, noInherit), UNCHANGED <<nextBranchId, branchMap, dependsOn>>
  PROVE  /\ StoreInv' /\ PagesKept /\ Taken' = Taken \cup {p} /\ p \in Page /\ p \notin Taken
         /\ revision'[p].branch = b /\ revision'[p].prev = lastRevision[b]
         /\ revision'[p].base = IF noInherit THEN NullPage ELSE lastRevision[b]
         /\ lastRevision'[b] = p /\ \A c \in Branch \ {b} : lastRevision'[c] = lastRevision[c]
         /\ \A q \in Page \ {p, lastRevision[b]} : revision'[q] = revision[q]
<1> DEFINE last == lastRevision[b]
           r == [branch |-> b, id |-> IF last = NullPage THEN 1 ELSE revision[last].id + 1,
                 prev |-> last, base |-> IF noInherit THEN NullPage ELSE last,
                 writable |-> TRUE, edits |-> 0]
<1>1. /\ StoreType /\ p \in Page /\ p \notin Taken /\ b \in Branch /\ p # NullPage
      /\ last \in Page \cup {NullPage} /\ (last # NullPage => last \in Taken)
  <2>1. StoreType /\ Lines /\ FreePages = Page \ Taken
    BY FreeMeans DEF StoreInv
  <2>2. b \in Branch
    BY <2>1 DEF StoreType
  <2>3. p \in Page /\ p \notin Taken /\ p # NullPage
    BY <2>1, Numbers
  <2>4. last \in Page \cup {NullPage}
    BY <2>1, <2>2 DEF StoreType
  <2>5. last # NullPage => last \in Taken
    BY <2>1, <2>2 DEF Lines
  <2>6. QED
    BY <2>1, <2>2, <2>3, <2>4, <2>5
<1>2. /\ lastRevision' = [lastRevision EXCEPT ![b] = p]
      /\ revision' = [q \in Page |-> IF q = p THEN r
                                     ELSE IF q = last THEN [revision[q] EXCEPT !.writable = FALSE]
                                     ELSE revision[q]]
  BY DEF CreateRevision
<1>3. r \in RevisionType
  <2>1. last # NullPage => revision[last].id + 1 \in Nat
    BY <1>1 DEF StoreType, RevisionType
  <2>2. (IF last = NullPage THEN 1 ELSE revision[last].id + 1) \in Nat
    BY <2>1
  <2>3. QED
    BY <1>1, <2>2 DEF RevisionType
<1>4. /\ r.branch = b /\ r.prev = last /\ r.writable
      /\ r.id = IF last = NullPage THEN 1 ELSE revision[last].id + 1
      /\ r.base = IF noInherit THEN NullPage ELSE last
  OBVIOUS
<1> HIDE DEF r
<1>5. /\ revision'[p] = r
      /\ \A q \in Page \ {p, last} : revision'[q] = revision[q]
      /\ last \in Page => revision'[last] = [revision[last] EXCEPT !.writable = FALSE]
  BY <1>1, <1>2
<1>6. \A q \in Page : /\ revision[q] \in RevisionType
                      /\ [revision[q] EXCEPT !.writable = FALSE] \in RevisionType
  BY <1>1 DEF StoreType, RevisionType
<1>7. revision' \in [Page -> RevisionType]
  <2>1. \A q \in Page : revision'[q] \in RevisionType
    BY <1>2, <1>3, <1>6
  <2>2. QED
    BY <1>2, <2>1
<1>8. ASSUME NEW q \in Page \ {p}
      PROVE  Kept(q) /\ (revision'[q].writable => q # last)
  <2>1. CASE q = last
    <3>1. revision'[q] = [revision[q] EXCEPT !.writable = FALSE] /\ revision[q] \in RevisionType
      BY <1>5, <1>6, <2>1
    <3>2. QED
      BY <3>1 DEF Kept, RevisionType
  <2>2. CASE q # last
    BY <1>5, <2>2 DEF Kept
  <2>3. QED
    BY <2>1, <2>2
<1>9. \A q \in Page \ Taken : q # p => revision'[q] = revision[q]
  BY <1>1, <1>5, Numbers
<1>10. StoreInv' /\ PagesKept /\ Taken' = Taken \cup {p}
  <2>1. /\ revision'[p].branch = b /\ revision'[p].prev = lastRevision[b]
        /\ revision'[p].id = IF lastRevision[b] = NullPage THEN 1
                             ELSE revision[lastRevision[b]].id + 1
        /\ revision'[p].base \in {NullPage, lastRevision[b]}
    BY <1>4, <1>5
  <2>2. \A q \in Page \ {p} : Kept(q) /\ (revision'[q].writable => q # lastRevision[b])
    BY <1>8
  <2>3. lastRevision' = [lastRevision EXCEPT ![b] = p]
    BY <1>2
  <2>4. LET base == revision'[p].base IN
          \/ base \in {NullPage, lastRevision[b]}
          \/ /\ lastRevision[b] = NullPage
             /\ base \in Taken /\ ~revision[base].writable /\ revision[base].branch = dependsOn[b]
    BY <2>1
  <2> HIDE DEF last
  <2>5. QED
    BY <1>7, <1>9, <2>1, <2>2, <2>3, <2>4, RevisionAdded, ZenonT(60)
<1>11. lastRevision'[b] = p /\ \A c \in Branch \ {b} : lastRevision'[c] = lastRevision[c]
  BY <1>1, <1>2 DEF StoreType
<1>12. QED
  BY <1>1, <1>4, <1>5, <1>10, <1>11

\* A revision created in a branch whose mutex is free, and that has a revision:
\* nobody is forking the branch.
LEMMA CreateRevisionLeaves ==
  ASSUME HistoryInv, SharingInv, CountingInv, NEW t \in Threads, NEW p \in FreePages,
         NEW b \in branchMap, b \in Branch,
         writeMutex[b] = NoThread, lastRevision[b] # NullPage \/ \A u \in Threads : call[u].step # "forkLock",
         p \in Page, p \notin Taken, \A c \in Branch \ {b} : lastRevision'[c] = lastRevision[c],
         \A q \in Page \ {p, lastRevision[b]} : revision'[q] = revision[q]
  PROVE  /\ LastsKept(t)
         /\ \A u \in Threads \ {t} : call[u].step \in Forking => call[u].branch # b
<1>1. /\ \A u \in Threads : CallMeant(u) /\ u # NoThread
      /\ Lines
  BY NoThreadAssumption DEF HistoryInv, StoreInv
<1>2. SUFFICES ASSUME NEW u \in Threads \ {t}, call[u].step \in Forking
               PROVE  /\ lastRevision'[call[u].branch] = lastRevision[call[u].branch]
                      /\ call[u].branch # b
                      /\ Forked(u) => revision'[lastRevision[call[u].branch]] =
                                        revision[lastRevision[call[u].branch]]
  BY DEF LastsKept
<1>3. call[u].branch \in Branch
  BY <1>2, ForkingUses
<1>4. call[u].branch # b
  BY <1>1, <1>2 DEF CallMeant, Forking, Forked
<1>5. Forked(u) => /\ lastRevision[call[u].branch] \in Taken
                   /\ revision[lastRevision[call[u].branch]].branch = call[u].branch
  BY <1>1, <1>3 DEF CallMeant, Lines
<1>6. lastRevision[b] # NullPage => revision[lastRevision[b]].branch = b
  BY <1>1 DEF Lines
<1>7. Forked(u) => lastRevision[call[u].branch] \in Page \ {p, lastRevision[b]}
  <2>1. NullPage \notin Page
    BY Numbers
  <2>2. QED
    BY <1>4, <1>5, <1>6, <2>1 DEF Taken
<1>8. QED
  BY <1>3, <1>4, <1>7

LEMMA HistoryReopenLock ==
  ASSUME CountingInv, CountingInv', SharingInv, SharingInv', HistoryInv, NEW t \in Threads,
         ReopenLock(t)
  PROVE  HistoryInv'
<1> DEFINE d == call[t].doc
           b == BranchOf(d)
<1>1. /\ UNCHANGED <<nextBranchId, branchMap, dependsOn>>
      /\ UNCHANGED <<instanciated, reusable, revisionPage, document>>
      /\ call[t].step = "reopenLock"
  BY DEF ReopenLock, branches, documents
<1>2. /\ CallMeant(t) /\ CallHolds(t) /\ StoreInv /\ LockType /\ Referenced /\ Placed
      /\ branchMap \in SUBSET Branch /\ Idle.step \in Meaningless
  BY ReferencedAlive DEF HistoryInv, SharingInv, StoreInv, StoreType, Idle, Meaningless
<1>3. /\ d \in Document /\ d \in Alive /\ call[t].branch = b /\ writeMutex[b] = NoThread
      /\ PageOf(d) \in Taken
  BY <1>1, <1>2, SMTT(30) DEF ReopenLock, CallMeant, CallHolds, Holding, Reopening, Referenced, Placed
<1>4. b = revision[PageOf(d)].branch /\ b \in branchMap /\ b \in Branch /\ lastRevision[b] # NullPage
  BY <1>2, <1>3 DEF BranchOf, RevisionOf, PageOf, StoreInv, Lines, InLine
<1>5. LockType' /\ LocksKept(t)
  <2>1. \/ writeMutex' = [writeMutex EXCEPT ![call[t].branch] = t]
        \/ writeMutex' = [[writeMutex EXCEPT ![call[t].branch] = t] EXCEPT ![b] = NoThread]
    BY DEF ReopenLock
  <2> HIDE DEF b
  <2>2. QED
    BY <1>2, <1>3, <1>4, <2>1 DEF LockType, LocksKept
<1>6. /\ call[t].step # "forkReference" /\ \A e \in Alive : ~Guards(t, e)
  BY <1>1 DEF Guards
<1>7. CASE Return(t) /\ UNCHANGED revisions
  <2>1. Becomes(t, Idle) /\ CallMeant(t)'
    BY <1>2, <1>7, CallReturns, QuietMeant DEF Return, Becomes
  <2>2. QED
    BY <1>1, <1>2, <1>5, <1>6, <1>7, <2>1, HistoryLeft
<1>8. ASSUME NEW p \in FreePages, CreateRevision(b, p, FALSE),
             call' = [call EXCEPT ![t].step = "reopenSwitch", ![t].page = p]
      PROVE  HistoryInv'
  <2>1. /\ StoreInv' /\ PagesKept /\ p \in Taken' /\ p \in Page /\ p \notin Taken
        /\ revision'[p].branch = b
        /\ \A c \in Branch \ {b} : lastRevision'[c] = lastRevision[c]
        /\ \A q \in Page \ {p, lastRevision[b]} : revision'[q] = revision[q]
    <3> DEFINE noInherit == FALSE
    <3>1. b \in branchMap /\ noInherit \in BOOLEAN /\ CreateRevision(b, p, noInherit)
      BY <1>4, <1>8
    <3> HIDE DEF b, d, noInherit
    <3>2. QED
      BY <1>1, <1>2, <3>1, CreateRevisionAdds
  <2>2. LastsKept(t)
    BY <1>3, <1>4, <2>1, CreateRevisionLeaves
  <2>3. PICK c : Becomes(t, c) /\ c.step = "reopenSwitch" /\ c.doc = d /\ c.page = p
    <3> DEFINE c == [step |-> "reopenSwitch", doc |-> call[t].doc, branch |-> call[t].branch,
                     page |-> p, flags |-> call[t].flags]
    <3>1. Becomes(t, c)
      BY <1>8, CallMoves
    <3>2. c.step = "reopenSwitch" /\ c.doc = d /\ c.page = p
      OBVIOUS
    <3> HIDE DEF d
    <3>3. QED
      BY <3>1, <3>2, Zenon
  <2>4. BranchOf(d)' = b
    <3>1. Kept(PageOf(d))
      BY <1>1, <1>3, <1>4, <2>1 DEF PagesKept
    <3>2. QED
      BY <1>1, <1>4, <2>3, <3>1 DEF Kept, BranchOf, RevisionOf, PageOf, Becomes
  <2>5. CallMeant(t)'
    BY <2>1, <2>3, <2>4 DEF CallMeant, Becomes, Forking, Forked
  <2>6. branchMap \subseteq branchMap' /\ \A x \in branchMap : dependsOn'[x] = dependsOn[x]
    BY <1>1
  <2> HIDE DEF b, d
  <2>7. QED
    BY <1>1, <1>5, <1>6, <2>1, <2>2, <2>3, <2>5, <2>6, HistoryQuiet
<1>9. QED
  BY <1>7, <1>8 DEF ReopenLock

\* A document that is being forked has an allocator of its own.
LEMMA ForkedApart ==
  ASSUME Assumed, CountingInv, SharingInv, HistoryInv, NEW u \in Threads, call[u].step \in Forking,
         NEW x, call[u].doc = x
  PROVE  /\ \A e \in Alive \ {x} : document[e].allocator # document[x].allocator
         /\ \A t \in Threads \ {u} : ~UsedBy(t, x)
<1>1. /\ x \in Document /\ x \in Alive /\ UsedBy(u, x) /\ document[x].flags # "ExplicitRead"
  BY ForkingUses
<1>2. "fork" \in Uses
  BY DEF HistoryInv, CallMeant
<1>3. document[x].flags # "FollowBranch"
  BY <1>1, <1>2 DEF Assumed, CountingInv, Types, DocumentType, Alive
<1>4. Alone /\ Allocated
  BY DEF SharingInv
<1>5. QED
  BY <1>1, <1>3, <1>4 DEF Alone, Allocated

LEMMA HistoryReopenSwitch ==
  ASSUME Assumed, CountingInv, CountingInv', SharingInv, SharingInv', HistoryInv, NEW t \in Threads,
         ReopenSwitch(t)
  PROVE  HistoryInv'
<1> DEFINE d == call[t].doc
           p == call[t].page
           a == document[d].allocator
<1>1. /\ UNCHANGED <<nextBranchId, branchMap, dependsOn, revisions, lastRevision, revision>>
      /\ UNCHANGED <<instanciated, reusable, document, writeMutex>>
      /\ call[t].step = "reopenSwitch" /\ Return(t)
      /\ revisionPage' = [revisionPage EXCEPT ![a] = p]
  BY DEF ReopenSwitch, SwitchRevisionPage, branches, revisions, mutexes
<1>2. /\ CallMeant(t) /\ CallHolds(t) /\ StoreInv /\ LockType /\ Referenced /\ Placed /\ Allocated
      /\ PositionType /\ InstanciatedType /\ Registered /\ ReadOnly
      /\ \A u \in Threads : CallMeant(u) /\ u # NoThread
      /\ Idle.step = "idle" /\ Idle.step \in Meaningless /\ NoDocument \notin Document
  BY ReferencedAlive, NoThreadAssumption, Finite DEF HistoryInv, SharingInv, Idle, Meaningless
<1>3. /\ d \in Document /\ d \in Alive /\ UsedBy(t, d) /\ document[d].flags # "ExplicitRead"
      /\ p \in Taken /\ p \in Page /\ revision[p].branch = BranchOf(d) /\ a \in Allocator
  BY <1>1, <1>2
     DEF CallMeant, CallHolds, Holding, Reopening, Referenced, Allocated, Taken, UsedBy
<1>4. /\ revisionPage'[a] = p /\ PositionType'
      /\ \A c \in Allocator \ {a} : revisionPage'[c] = revisionPage[c]
  BY <1>1, <1>2, <1>3 DEF PositionType
<1>5. /\ Becomes(t, Idle) /\ call'[t] = Idle /\ CallMeant(t)' /\ StoreInv' /\ PagesKept
      /\ LockType' /\ InstanciatedType' /\ Alive' = Alive
  <2>1. Becomes(t, Idle) /\ call'[t] = Idle
    BY <1>1, CallReturns DEF Return, Becomes
  <2>2. QED
    BY <1>1, <1>2, <2>1, QuietMeant, StoreLeft DEF LockType, InstanciatedType, Alive
<1>6. \A u \in Threads \ {t} : call'[u] = call[u]
  BY <1>5 DEF Becomes
<1>7. ASSUME NEW e \in Alive PROVE Staying(e)
  <2>1. e \in Document /\ document[e].allocator \in Allocator /\ PageOf(e) \in Taken
    BY <1>2 DEF Alive, Allocated, Placed
  <2>2. CASE document[e].allocator = a
    <3>1. PageOf(e)' = p /\ PageOf(e) = PageOf(d)
      BY <1>1, <1>4, <2>2 DEF PageOf
    <3>2. BranchOf(e) = BranchOf(d)
      BY <3>1 DEF BranchOf, RevisionOf, PageOf
    <3>3. BranchOf(e)' = revision[p].branch
      BY <1>1, <3>1 DEF BranchOf, RevisionOf, PageOf
    <3>4. document[e].flags # "ExplicitRead"
      BY <1>2, <1>3, <2>2 DEF Allocated
    <3>5. p \in Taken'
      BY <1>1, <1>3 DEF Taken
    <3>6. QED
      BY <1>1, <1>3, <3>1, <3>2, <3>3, <3>4, <3>5 DEF Staying
  <2>3. CASE document[e].allocator # a
    <3>1. PageOf(e)' = PageOf(e) /\ Taken' = Taken
      BY <1>1, <1>4, <2>1, <2>3 DEF PageOf, Taken
    <3>2. BranchOf(e)' = BranchOf(e) /\ IsWritable(e)' = IsWritable(e)
      BY <1>1, <3>1 DEF BranchOf, RevisionOf, PageOf, IsWritable
    <3>3. QED
      BY <1>1, <2>1, <3>1, <3>2 DEF Staying
  <2>4. QED
    BY <2>2, <2>3
<1>8. ForksKept(t)
  <2>1. SUFFICES ASSUME NEW u \in Threads \ {t}, call[u].step \in Forking
                 PROVE  /\ call[u].branch \in branchMap
                        /\ revisionPage'[document[call[u].doc].allocator] =
                             revisionPage[document[call[u].doc].allocator]
    BY <1>1 DEF ForksKept
  <2>2. /\ call[u].doc \in Alive /\ call[u].doc \in Document /\ call[u].branch \in branchMap
    BY <2>1, ForkingUses
  <2>3. d # call[u].doc /\ document[d].allocator # document[call[u].doc].allocator
    BY <1>3, <2>1, ForkedApart
  <2>4. document[call[u].doc].allocator \in Allocator
    BY <1>2, <2>2 DEF Allocated
  <2>5. QED
    BY <1>4, <2>2, <2>3, <2>4
<1>9. \A e \in Document, b \in Branch : e \in instanciated'[b] <=> e \in instanciated[b] /\ e \in Alive'
  BY <1>1, <1>2, <1>5 DEF Registered
<1>10. \A u \in Threads \ {t} : call[u].step = "openWrite" => call[u].branch \in branchMap'
  BY <1>1, <1>2 DEF CallMeant
<1>11. /\ call[t].step # "forkReference" /\ call'[t].step # "forkReference"
       /\ call'[t].step # "forkSwitch" /\ \A e \in Alive : ~Guards(t, e)
  BY <1>1, <1>2, <1>5 DEF Guards
<1>12. /\ \A b \in Branch : reusable'[b] \in {reusable[b], NoDocument}
       /\ \A e \in Alive' : Staying(e) /\ e \in Alive
  BY <1>1, <1>5, <1>7
<1>13. NoDocument \in Document \cup {NoDocument} /\ t \in Threads \cup {NoThread}
  OBVIOUS
<1> HIDE DEF d, p, a
<1>14. QED
  BY <1>4, <1>5, <1>6, <1>8, <1>9, <1>10, <1>11, <1>12, <1>13, HistoryStep

LEMMA HistoryForkSwitch ==
  ASSUME Assumed, CountingInv, CountingInv', SharingInv, SharingInv', HistoryInv, NEW t \in Threads,
         ForkSwitch(t)
  PROVE  HistoryInv'
<1>0. PICK d, b, p, a : d = call[t].doc /\ b = call[t].branch /\ p = call[t].page
                        /\ a = document[d].allocator
  OBVIOUS
<1>1. /\ d = call[t].doc /\ b = call[t].branch /\ p = call[t].page /\ a = document[d].allocator
      /\ UNCHANGED <<nextBranchId, branchMap, dependsOn, revisions, lastRevision, revision>>
      /\ UNCHANGED <<instanciated, reusable, document, writeMutex>>
      /\ call[t].step = "forkSwitch" /\ call' = [call EXCEPT ![t].step = "forkReference"]
      /\ revisionPage' = [revisionPage EXCEPT ![a] = p]
  BY <1>0 DEF ForkSwitch, SwitchRevisionPage, branches, revisions, mutexes
<1>2. /\ CallMeant(t) /\ StoreInv /\ LockType /\ Placed /\ Allocated /\ Lines /\ ReusedHere
      /\ PositionType /\ InstanciatedType /\ Registered /\ ReadOnly /\ Guarded
      /\ \A u \in Threads : CallMeant(u) /\ CallHolds(u)
  BY DEF HistoryInv, SharingInv, StoreInv
<1>3. /\ d \in Document /\ d \in Alive /\ document[d].flags # "ExplicitRead" /\ a \in Allocator
      /\ b \in branchMap /\ b \in Branch /\ PageOf(d) \in Taken
      /\ dependsOn[b] = BranchOf(d) /\ p = lastRevision[b] /\ p # NullPage
      /\ revision[p].prev = NullPage /\ revision[p].writable /\ writeMutex[b] = t /\ "fork" \in Uses
      /\ \A u \in Threads \ {t} : call[u].step \in Forking => call[u].branch # b
  BY <1>1, <1>2, ForkingUses DEF CallMeant, Allocated, Forked, Forking
<1>4. p \in Taken /\ p \in Page /\ revision[p].branch = b
  BY <1>2, <1>3 DEF Lines, Taken
<1>5. /\ revisionPage'[a] = p /\ PositionType'
      /\ \A c \in Allocator \ {a} : revisionPage'[c] = revisionPage[c]
  BY <1>1, <1>2, <1>3, <1>4 DEF PositionType
<1>6. PICK c : /\ Becomes(t, c) /\ c.step = "forkReference" /\ c.doc = d /\ c.branch = b /\ c.page = p
  <2> DEFINE c == [step |-> "forkReference", doc |-> call[t].doc, branch |-> call[t].branch,
                   page |-> call[t].page, flags |-> call[t].flags]
  <2>1. Becomes(t, c)
    BY <1>1, CallMoves
  <2>2. c.step = "forkReference" /\ c.doc = d /\ c.branch = b /\ c.page = p
    BY <1>1
  <2>3. QED
    BY <2>1, <2>2, Zenon
<1>7. call'[t] = c /\ \A u \in Threads \ {t} : call'[u] = call[u]
  BY <1>6 DEF Becomes
<1>8. StoreInv' /\ PagesKept /\ LockType' /\ InstanciatedType' /\ Alive' = Alive /\ Taken' = Taken
  BY <1>1, <1>2, StoreLeft DEF LockType, InstanciatedType, Alive, Taken
<1>9. /\ \A e \in Alive \ {d} : document[e].allocator # a /\ e \in Document
                                /\ document[e].allocator \in Allocator
      /\ \A u \in Threads \ {t} : ~UsedBy(u, d)
  <2>1. call[t].step \in Forking
    BY <1>1 DEF Forking
  <2>2. QED
    BY <1>1, <1>2, <1>3, <2>1, ForkedApart DEF Allocated, Alive
<1>10. /\ \A e \in Alive \ {d} : PageOf(e)' = PageOf(e) /\ BranchOf(e)' = BranchOf(e)
                                 /\ IsWritable(e)' = IsWritable(e) /\ Staying(e)
       /\ PageOf(d)' = p /\ BranchOf(d)' = b
  <2>1. \A e \in Alive \ {d} : PageOf(e)' = PageOf(e)
    BY <1>1, <1>5, <1>9 DEF PageOf
  <2>2. \A e \in Alive \ {d} : BranchOf(e)' = BranchOf(e) /\ IsWritable(e)' = IsWritable(e)
    BY <1>1, <2>1 DEF BranchOf, RevisionOf, PageOf, IsWritable
  <2>3. PageOf(d)' = p
    BY <1>1, <1>5 DEF PageOf
  <2>4. BranchOf(d)' = b
    BY <1>1, <1>4, <2>3 DEF BranchOf, RevisionOf, PageOf
  <2>5. \A e \in Alive \ {d} : Staying(e)
    BY <1>1, <1>2, <1>8, <2>1, <2>2 DEF Staying, Placed
  <2>6. QED
    BY <2>1, <2>2, <2>3, <2>4, <2>5
<1>11. Placed' /\ ReadOnly'
  <2>1. \A e \in Alive : PageOf(e)' \in Taken
    BY <1>2, <1>4, <1>10 DEF Placed
  <2>2. \A e \in Alive : document[e].flags = "ExplicitRead" => ~IsWritable(e)'
    BY <1>2, <1>3, <1>10 DEF ReadOnly
  <2>3. QED
    BY <1>1, <1>8, <2>1, <2>2 DEF Placed, ReadOnly
<1>12. \A u \in Threads \ {t} : call[u].step \in Holding => call[u].doc # d /\ call[u].doc \in Alive
  BY <1>2, <1>9, ReferencedAlive DEF CallHolds, UsedBy, Referenced
<1>13. Registered'
  <2>1. ASSUME NEW e \in Alive \ {d} PROVE Home(e)' = Home(e)
    <3>1. \A u \in Threads : Referencing(u, e)' <=> Referencing(u, e)
      BY <1>1, <1>6, <1>7, <2>1 DEF Referencing
    <3>2. BranchOf(e)' = BranchOf(e) /\ dependsOn' = dependsOn
      BY <1>1, <1>10, <2>1
    <3>3. QED
      BY <3>1, <3>2 DEF Home
  <2>2. Home(d)' = Home(d)
    <3>1. \A u \in Threads : ~Referencing(u, d)
      BY <1>1, <1>12 DEF Referencing, Holding, Forking
    <3>2. Referencing(t, d)'
      BY <1>6, <1>7 DEF Referencing
    <3>3. Home(d)' = dependsOn'[BranchOf(d)']
      BY <3>2 DEF Home
    <3>4. Home(d) = BranchOf(d)
      BY <3>1 DEF Home
    <3>5. dependsOn'[BranchOf(d)'] = BranchOf(d)
      BY <1>1, <1>3, <1>10
    <3>6. QED
      BY <3>3, <3>4, <3>5
  <2>3. \A e \in Alive : Home(e)' = Home(e)
    BY <2>1, <2>2
  <2>4. \A e \in Document, x \in Branch : e \in instanciated[x] <=> e \in Alive /\ x = Home(e)'
    BY <1>2, <2>3 DEF Registered
  <2>5. QED
    BY <1>1, <1>8, <2>4 DEF Registered
<1>14. ReusedHere'
  BY <1>1, <1>2 DEF ReusedHere
<1>15. CallMeant(t)'
  <2>1. \A u \in Threads \ {t} : call'[u].step \in Forking => call'[u].branch # b
    BY <1>3, <1>7
  <2>2. /\ revision'[p].prev = NullPage /\ revision'[p].writable /\ writeMutex'[b] = t
        /\ b \in branchMap' /\ p = lastRevision'[b] /\ PageOf(d)' = p
    BY <1>1, <1>3, <1>10, SMTT(30)
  <2>3. dependsOn'[b] # NoBranch
    BY <1>1, <1>3 DEF Taken, BranchOf, RevisionOf, PageOf
  <2>4. QED
    BY <1>3, <1>6, <1>7, <2>1, <2>2, <2>3 DEF CallMeant, Forking, Forked, PageOf
<1>16. \A u \in Threads : CallMeant(u)'
  <2>1. ForksKept(t)
    <3>1. SUFFICES ASSUME NEW u \in Threads \ {t}, call[u].step \in Forking
                   PROVE  /\ call[u].branch \in branchMap
                          /\ revisionPage'[document[call[u].doc].allocator] =
                               revisionPage[document[call[u].doc].allocator]
      BY <1>1 DEF ForksKept
    <3>2. call[u].doc \in Alive /\ call[u].doc # d /\ call[u].branch \in branchMap
      BY <1>12, <3>1, ForkingUses DEF Holding
    <3>3. QED
      BY <1>1, <1>10, <3>2 DEF PageOf
  <2>2. \A u \in Threads \ {t}, e \in Document :
          call[u].step \in Holding /\ call[u].doc = e => Staying(e)
    BY <1>10, <1>12
  <2>3. \A u \in Threads \ {t} : call[u].step = "openWrite" => call[u].branch \in branchMap'
    BY <1>1, <1>2 DEF CallMeant
  <2>4. \A u \in Threads \ {t} : CallMeant(u)'
    BY <1>7, <1>8, <1>15, <2>1, <2>2, <2>3, OthersMeant
  <2>5. QED
    BY <1>15, <2>4
<1>17. Guarded'
  <2>1. SUFFICES ASSUME NEW u \in Threads, Forked(u)', NEW e \in Alive,
                        BranchOf(e)' = call'[u].branch, e # call'[u].doc
                 PROVE  \E v \in Threads : Guards(v, e)'
    BY <1>8 DEF Guarded
  <2>2. Forked(u) /\ call'[u].branch = call[u].branch /\ call'[u].doc = call[u].doc
    BY <1>1, <1>6, <1>7, <2>1 DEF Forked
  <2>3. e # d
    BY <1>1, <1>3, <1>7, <1>10, <1>6, <2>1, <2>2 DEF Forked, Forking
  <2>4. BranchOf(e) = call[u].branch
    BY <1>10, <2>1, <2>2, <2>3
  <2>5. PICK v \in Threads : Guards(v, e)
    BY <1>2, <2>1, <2>2, <2>4 DEF Guarded
  <2>6. v # t
    BY <1>1, <2>5 DEF Guards
  <2>7. Guards(v, e)'
    BY <1>7, <2>5, <2>6 DEF Guards
  <2>8. QED
    BY <2>7
<1>18. QED
  BY <1>5, <1>8, <1>11, <1>13, <1>14, <1>16, <1>17 DEF HistoryInv

LEMMA HistoryUnchanged ==
  ASSUME HistoryInv, UNCHANGED <<mutexes, branches, revisions, documents, threads>>
  PROVE  HistoryInv'
<1>1. /\ UNCHANGED <<nextBranchId, branchMap, dependsOn, revisions, lastRevision, revision>>
      /\ UNCHANGED <<instanciated, reusable, document, revisionPage, writeMutex, call>>
  BY DEF branches, mutexes, documents, threads, revisions
<1>2. StoreInv' /\ Taken' = Taken /\ Alive' = Alive
  BY <1>1, StoreLeft DEF HistoryInv, Taken, Alive
<1>3. \A d : /\ PageOf(d)' = PageOf(d) /\ BranchOf(d)' = BranchOf(d)
             /\ IsWritable(d)' = IsWritable(d) /\ Home(d)' = Home(d)
  BY <1>1 DEF PageOf, BranchOf, IsWritable, RevisionOf, Home, Referencing
<1>4. LockType' /\ PositionType' /\ InstanciatedType'
  BY <1>1 DEF HistoryInv, LockType, PositionType, InstanciatedType
<1>5. Placed' /\ ReadOnly' /\ Registered' /\ ReusedHere'
  BY <1>1, <1>2, <1>3, SMTT(30) DEF HistoryInv, Placed, ReadOnly, Registered, ReusedHere
<1>6. \A t \in Threads : CallMeant(t)'
  BY <1>1, <1>2 DEF HistoryInv, CallMeant, Forked, PageOf, BranchOf, IsWritable, RevisionOf
<1>7. Guarded'
  BY <1>1, <1>2, <1>3, SMTT(30) DEF HistoryInv, Guarded, Guards, Forked
<1>8. QED
  BY <1>2, <1>4, <1>5, <1>6, <1>7 DEF HistoryInv

LEMMA HistoryForkReference ==
  ASSUME CountingInv, CountingInv', SharingInv, SharingInv', HistoryInv, NEW t \in Threads,
         ForkReference(t)
  PROVE  HistoryInv'
<1>0. PICK d, b, p : d = call[t].doc /\ b = call[t].branch /\ p = call[t].page
  OBVIOUS
<1>1. /\ UNCHANGED <<mutexes, branches, revisions, reusable, document, revisionPage>>
      /\ UNCHANGED <<nextBranchId, branchMap, dependsOn, revisions, lastRevision, revision, writeMutex>>
      /\ d = call[t].doc /\ b = call[t].branch /\ p = call[t].page
      /\ call[t].step = "forkReference"
  BY <1>0 DEF ForkReference, branches, revisions, mutexes
<1>2. CASE UNCHANGED <<instanciated, threads>>
  BY <1>1, <1>2, HistoryUnchanged DEF documents
<1>3. CASE /\ instanciated' = [[instanciated EXCEPT ![dependsOn[b]] = @ \ {d}]
                                 EXCEPT ![b] = @ \cup {d}]
           /\ Return(t)
  <2>1. /\ CallMeant(t) /\ StoreInv /\ LockType /\ Placed /\ ReusedHere /\ ReusedRead
        /\ PositionType /\ InstanciatedType /\ Registered /\ ReadOnly /\ Guarded
        /\ \A u \in Threads : CallMeant(u) /\ CallHolds(u)
        /\ Idle.step = "idle" /\ Idle.step \in Meaningless /\ Referenced
    BY ReferencedAlive DEF HistoryInv, SharingInv, Idle, Meaningless
  <2>2. /\ d \in Document /\ d \in Alive /\ document[d].flags # "ExplicitRead" /\ b \in Branch
        /\ BranchOf(d) = b /\ UsedBy(t, d)
    BY <1>1, ForkingUses DEF Forking
  <2>3. Becomes(t, Idle) /\ call'[t] = Idle /\ \A u \in Threads \ {t} : call'[u] = call[u]
    BY <1>3, CallReturns DEF Return, Becomes
  <2>4. /\ StoreInv' /\ PagesKept /\ LockType' /\ PositionType' /\ Alive' = Alive /\ Taken' = Taken
        /\ CallMeant(t)'
    BY <1>1, <2>1, <2>3, StoreLeft, QuietMeant DEF LockType, PositionType, Alive, Taken
  <2>5. \A e : /\ PageOf(e)' = PageOf(e) /\ BranchOf(e)' = BranchOf(e)
               /\ IsWritable(e)' = IsWritable(e)
    BY <1>1 DEF PageOf, BranchOf, IsWritable, RevisionOf
  <2>6. InstanciatedType'
    <3>1. \A x \in Branch : instanciated[x] \subseteq Document
      BY <2>1 DEF InstanciatedType
    <3>2. instanciated' \in [Branch -> SUBSET Document]
      BY <1>3, <2>1, <2>2, <3>1 DEF InstanciatedType
    <3>3. QED
      BY <3>2 DEF InstanciatedType
  <2>7. /\ \A e \in Document \ {d}, x \in Branch : e \in instanciated'[x] <=> e \in instanciated[x]
        /\ \A x \in Branch : d \in instanciated'[x] <=>
             x = b \/ (d \in instanciated[x] /\ x # dependsOn[b])
    BY <1>3, <2>1, <2>2 DEF InstanciatedType
  <2>8. \A u \in Threads : Referencing(u, d) <=> u = t
    <3>1. Referencing(t, d)
      BY <1>1 DEF Referencing
    <3>2. \A u \in Threads : Referencing(u, d) => UsedBy(u, d)
      BY <2>1 DEF Referencing, CallHolds, Holding, Forking, UsedBy
    <3>3. QED
      BY <2>2, <3>1, <3>2 DEF SharingInv, Alone
  <2>9. Home(d) = dependsOn[b] /\ Home(d)' = b
    <3>1. Home(d) = dependsOn[b]
      BY <2>2, <2>8 DEF Home
    <3>2. \A u \in Threads : ~Referencing(u, d)'
      BY <2>1, <2>3, <2>8 DEF Referencing
    <3>3. QED
      BY <2>2, <2>5, <3>1, <3>2 DEF Home
  <2>10. \A e \in Document \ {d} : Home(e)' = Home(e)
    <3>1. SUFFICES ASSUME NEW e \in Document \ {d} PROVE Home(e)' = Home(e)
      OBVIOUS
    <3>2. \A u \in Threads : Referencing(u, e)' <=> Referencing(u, e)
      BY <1>1, <2>1, <2>3 DEF Referencing
    <3>3. BranchOf(e)' = BranchOf(e) /\ dependsOn' = dependsOn
      BY <1>1, <2>5
    <3>4. QED
      BY <3>2, <3>3 DEF Home
  <2>11. Registered'
    <3>1. \A e \in Document \ {d}, x \in Branch : e \in instanciated'[x] <=> e \in Alive /\ x = Home(e)'
      BY <2>1, <2>7, <2>10 DEF Registered
    <3>2. \A x \in Branch : d \in instanciated[x] => x = dependsOn[b]
      BY <2>1, <2>2, <2>9 DEF Registered
    <3>3. \A x \in Branch : d \in instanciated'[x] <=> d \in Alive /\ x = Home(d)'
      BY <2>2, <2>7, <2>9, <3>2
    <3>4. QED
      BY <2>4, <3>1, <3>3 DEF Registered
  <2>12. ReusedHere'
    <3>1. \A x \in Branch : reusable[x] # NoDocument => reusable[x] \in Document /\ reusable[x] # d
      BY <2>1, <2>2 DEF ReusedRead, CountingInv, Types, ReusableType
    <3>2. QED
      BY <1>1, <2>1, <2>7, <3>1 DEF ReusedHere
  <2>13. Placed' /\ ReadOnly'
    BY <1>1, <2>1, <2>4, <2>5 DEF Placed, ReadOnly
  <2>14. \A e \in Alive : Staying(e)
    BY <1>1, <2>1, <2>4, <2>5 DEF Staying, Placed
  <2>15. \A u \in Threads : CallMeant(u)'
    <3>1. ForksKept(t)
      BY <1>1, ForkingUses DEF ForksKept
    <3>2. \A u \in Threads \ {t}, e \in Document :
            call[u].step \in Holding /\ call[u].doc = e => Staying(e)
      BY <2>1, <2>14 DEF CallHolds, Referenced
    <3>3. \A u \in Threads \ {t} : call[u].step = "openWrite" => call[u].branch \in branchMap'
      BY <1>1, <2>1 DEF CallMeant
    <3>4. \A u \in Threads \ {t} : CallMeant(u)'
      BY <2>3, <2>4, <3>1, <3>2, <3>3, OthersMeant
    <3>5. QED
      BY <2>4, <3>4
  <2>16. Guarded'
    <3>1. SUFFICES ASSUME NEW u \in Threads, Forked(u)', NEW e \in Alive,
                          BranchOf(e)' = call'[u].branch, e # call'[u].doc
                   PROVE  \E v \in Threads : Guards(v, e)'
      BY <2>4 DEF Guarded
    <3>2. u # t /\ Forked(u) /\ call'[u] = call[u]
      BY <2>1, <2>3, <3>1 DEF Forked
    <3>3. PICK v \in Threads : Guards(v, e)
      BY <2>1, <2>5, <3>1, <3>2 DEF Guarded
    <3>4. v # t
      BY <1>1, <3>3 DEF Guards
    <3>5. Guards(v, e)'
      BY <2>3, <3>3, <3>4 DEF Guards
    <3>6. QED
      BY <3>5
  <2>17. QED
    BY <2>4, <2>6, <2>11, <2>12, <2>13, <2>15, <2>16 DEF HistoryInv
<1>4. QED
  BY <1>1, <1>2, <1>3 DEF ForkReference

\* The position of an allocator that is still bound to a document.
LEMMA PositionSet ==
  ASSUME NEW next, NEW position \in [Allocator -> Page \cup {NullPage}],
         SetDocuments(next, position)
  PROVE  /\ document' = next /\ PositionType'
         /\ \A d \in Document : next[d].allocator \in Allocator =>
              revisionPage'[next[d].allocator] = position[next[d].allocator]
BY DEF SetDocuments, PositionType

\* A document left as it is, the revisions too.
LEMMA StaysWithRevisions ==
  ASSUME UNCHANGED revision, Placed, NEW e \in Alive, document'[e] = document[e],
         revisionPage'[document[e].allocator] = revisionPage[document[e].allocator],
         Taken' = Taken
  PROVE  Staying(e)
<1>1. PageOf(e)' = PageOf(e)
  BY DEF PageOf
<1>2. BranchOf(e)' = BranchOf(e) /\ IsWritable(e)' = IsWritable(e)
  BY <1>1 DEF BranchOf, IsWritable, RevisionOf, PageOf
<1>3. PageOf(e) \in Taken
  BY DEF Placed
<1>4. QED
  BY <1>1, <1>2, <1>3 DEF Staying

LEMMA HistoryCollect ==
  ASSUME CountingInv, CountingInv', SharingInv, SharingInv', HistoryInv, InstanciatedType', Collect
  PROVE  HistoryInv'
<1>1. PICK deleted, collected :
        /\ instanciated' = [b \in Branch |-> instanciated[b] \ deleted]
        /\ reusable' = [b \in Branch |-> IF b \in collected THEN NoDocument ELSE reusable[b]]
        /\ SetDocuments([d \in Document |-> IF d \in deleted THEN Unused ELSE document[d]],
                        revisionPage)
  BY DEF Collect
<1>2. /\ UNCHANGED <<nextBranchId, branchMap, dependsOn, revisions, lastRevision, revision>>
      /\ UNCHANGED <<call, writeMutex>>
  BY DEF Collect, branches, revisions, mutexes, threads
<1>3. /\ StoreInv /\ LockType /\ Placed /\ PositionType /\ Registered /\ Referenced'
      /\ Allocated /\ Allocated' /\ NoThread \notin Threads
      /\ \A u \in Threads : CallMeant(u) /\ CallHolds(u)'
  BY ReferencedAfter, NoThreadAssumption DEF HistoryInv, SharingInv
<1>4. /\ document' = [d \in Document |-> IF d \in deleted THEN Unused ELSE document[d]]
      /\ PositionType'
      /\ \A d \in Document : document'[d].allocator \in Allocator =>
           revisionPage'[document'[d].allocator] = revisionPage[document'[d].allocator]
  BY <1>1, <1>3, PositionSet DEF PositionType
<1>5. \A d \in Document : /\ d \in Alive' <=> d \in Alive /\ d \notin deleted
                          /\ d \in Alive' => document'[d] = document[d]
  BY <1>4 DEF Alive, Unused
<1>6. StoreInv' /\ PagesKept /\ LockType' /\ Taken' = Taken
  BY <1>2, <1>3, StoreLeft DEF LockType, Taken
<1>7. \A e \in Alive' : /\ e \in Document /\ Staying(e) /\ document'[e] = document[e]
                        /\ revisionPage'[document[e].allocator] = revisionPage[document[e].allocator]
  <2>1. SUFFICES ASSUME NEW e \in Alive'
                 PROVE  /\ e \in Document /\ Staying(e) /\ document'[e] = document[e]
                        /\ revisionPage'[document[e].allocator] = revisionPage[document[e].allocator]
    OBVIOUS
  <2>2. e \in Document /\ e \in Alive /\ document'[e] = document[e]
    BY <1>5 DEF Alive
  <2>3. revisionPage'[document[e].allocator] = revisionPage[document[e].allocator]
    BY <1>3, <1>4, <2>2 DEF Allocated
  <2>4. QED
    BY <1>2, <1>3, <1>6, <2>2, <2>3, StaysWithRevisions
<1>8. ForksKept(NoThread)
  <2>1. SUFFICES ASSUME NEW u \in Threads, call[u].step \in Forking
                 PROVE  /\ call[u].branch \in branchMap
                        /\ revisionPage'[document'[call[u].doc].allocator] =
                             revisionPage[document[call[u].doc].allocator]
    BY <1>2 DEF ForksKept
  <2>2. call[u].branch \in branchMap
    BY <2>1, ForkingUses
  <2>3. call[u].doc \in Alive'
    BY <1>2, <1>3, <2>1 DEF CallHolds, Holding, Referenced
  <2>4. QED
    BY <1>7, <2>2, <2>3
<1>9. \A d \in Document, b \in Branch : d \in instanciated'[b] <=> d \in instanciated[b] /\ d \in Alive'
  BY <1>1, <1>3, <1>5 DEF Registered
<1>10. \A u \in Threads : call[u].step = "openWrite" => call[u].branch \in branchMap'
  BY <1>2, <1>3 DEF CallMeant
<1>11. /\ \A b \in Branch : reusable'[b] \in {reusable[b], NoDocument}
       /\ \A e \in Alive' : Staying(e) /\ \A u \in Threads : call'[u] = call[u]
       /\ NoThread \in Threads \cup {NoThread} /\ NoDocument \in Document \cup {NoDocument}
  BY <1>1, <1>2, <1>7
<1>12. QED
  BY <1>2, <1>3, <1>4, <1>6, <1>8, <1>9, <1>10, <1>11, HistoryStep

LEMMA HistoryOpenWrite ==
  ASSUME Assumed, CountingInv, CountingInv', SharingInv, SharingInv', HistoryInv, InstanciatedType',
         NEW t \in Threads, OpenWrite(t)
  PROVE  HistoryInv'
<1>0. PICK b, flags : b = call[t].branch /\ flags = call[t].flags
  OBVIOUS
<1> DEFINE noInherit == call[t].flags = "ResetRevision"
<1>1. /\ b = call[t].branch /\ flags = call[t].flags /\ call[t].step = "openWrite"
      /\ writeMutex[b] = NoThread /\ writeMutex' = [writeMutex EXCEPT ![b] = t]
      /\ UNCHANGED <<nextBranchId, branchMap, dependsOn, reusable>>
  BY <1>0 DEF OpenWrite, branches
<1>2. PICK p \in FreePages, d \in FreeNumbers, a \in FreeAllocators :
        /\ CreateRevision(b, p, noInherit)
        /\ SetDocuments([document EXCEPT ![d] = [flags |-> flags, allocator |-> a, refCount |-> 0]],
                        [revisionPage EXCEPT ![a] = p])
        /\ instanciated' = [instanciated EXCEPT ![b] = @ \cup {d}]
        /\ call' = [call EXCEPT ![t] = [Idle EXCEPT !.step = "opened", !.doc = d, !.flags = flags]]
  BY <1>0, Zenon DEF OpenWrite
<1> HIDE DEF noInherit
<1>3. /\ StoreInv /\ LockType /\ Placed /\ PositionType /\ Registered /\ Allocated /\ Allocated'
      /\ DocumentType /\ InstanciatedType /\ Lines /\ ReadOnly
      /\ branchMap \in SUBSET Branch /\ NoDocument \notin Document
      /\ \A u \in Threads : CallMeant(u) /\ CallHolds(u) /\ CallSound(u)
  BY Finite DEF HistoryInv, SharingInv, CountingInv, Types, StoreInv, StoreType
<1>4. /\ flags \in {"Write", "ResetRevision"} /\ flags \in OpenFlags /\ flags # "none"
      /\ b \in branchMap /\ b \in Branch
  BY <1>1, <1>3 DEF CallMeant, CallHolds, CallSound
<1>5. \A u \in Threads : call[u].step \notin Forking
  BY <1>3, <1>4 DEF Assumed, CallMeant
<1>6. /\ StoreInv' /\ PagesKept /\ p \in Taken' /\ p \in Page /\ p \notin Taken
      /\ revision'[p].branch = b
  <2>1. noInherit \in BOOLEAN
    BY DEF noInherit
  <2>2. QED
    BY <1>1, <1>2, <1>3, <1>4, <2>1, CreateRevisionAdds
<1>7. d \in Document /\ d \notin Alive /\ a \in Allocator /\ \A e \in Alive : document[e].allocator # a
  BY DEF FreeNumbers, FreeAllocators
<1>8. /\ PositionType' /\ document'[d].flags = flags /\ document'[d].allocator = a
      /\ \A e \in Document \ {d} : document'[e] = document[e]
      /\ revisionPage'[a] = p
      /\ \A e \in Alive : revisionPage'[document[e].allocator] = revisionPage[document[e].allocator]
  <2> DEFINE next == [document EXCEPT ![d] = [flags |-> flags, allocator |-> a, refCount |-> 0]]
             position == [revisionPage EXCEPT ![a] = p]
  <2>1. /\ position \in [Allocator -> Page \cup {NullPage}] /\ position[a] = p
        /\ \A c \in Allocator \ {a} : position[c] = revisionPage[c]
    BY <1>3, <1>6, <1>7 DEF PositionType
  <2>2. /\ next[d].flags = flags /\ next[d].allocator = a
        /\ \A e \in Document \ {d} : next[e] = document[e]
    BY <1>3, <1>7 DEF DocumentType
  <2>3. SetDocuments(next, position)
    BY <1>2
  <2> HIDE DEF next, position
  <2>4. /\ document' = next /\ PositionType'
        /\ \A e \in Document : next[e].allocator \in Allocator =>
             revisionPage'[next[e].allocator] = position[next[e].allocator]
    BY <2>1, <2>3, PositionSet
  <2>5. \A e \in Alive : e \in Document /\ e # d /\ document[e].allocator \in Allocator \ {a}
    BY <1>3, <1>7 DEF Allocated, Alive
  <2>6. \A e \in Alive : revisionPage'[document[e].allocator] = revisionPage[document[e].allocator]
    BY <2>1, <2>2, <2>4, <2>5
  <2>7. QED
    BY <1>7, <2>1, <2>2, <2>4, <2>6
<1>9. PICK c : Becomes(t, c) /\ c.step = "opened" /\ c.doc = d /\ c.flags = flags
  <2> DEFINE c == [Idle EXCEPT !.step = "opened", !.doc = d, !.flags = flags]
  <2>1. Becomes(t, c)
    BY <1>2, CallReturns
  <2>2. c.step = "opened" /\ c.doc = d /\ c.flags = flags
    BY DEF Idle
  <2>3. QED
    BY <2>1, <2>2, Zenon
<1>10. call'[t] = c /\ \A u \in Threads \ {t} : call'[u] = call[u]
  BY <1>9 DEF Becomes
<1>11. \A e \in Alive' \ {d} : Staying(e)
  <2>1. SUFFICES ASSUME NEW e \in Alive' \ {d} PROVE Staying(e)
    OBVIOUS
  <2>2. e \in Document /\ e \in Alive /\ document'[e] = document[e]
    BY <1>8 DEF Alive
  <2>3. PageOf(e)' = PageOf(e) /\ PageOf(e) \in Taken /\ revision[PageOf(e)].branch \in branchMap
    BY <1>3, <1>8, <2>2 DEF PageOf, Placed, Lines, InLine
  <2>4. PageOf(e) \in Taken' /\ Kept(PageOf(e))
    BY <1>1, <1>6, <2>3 DEF PagesKept
  <2>5. BranchOf(e)' = BranchOf(e) /\ (IsWritable(e)' => IsWritable(e))
    BY <2>3, <2>4 DEF BranchOf, IsWritable, RevisionOf, PageOf, Kept
  <2>6. QED
    BY <2>2, <2>3, <2>4, <2>5 DEF Staying
<1>12. Opening(t, d)
  <2>1. d \in Alive' /\ document'[d].flags # "ExplicitRead"
    BY <1>4, <1>7, <1>8 DEF Alive
  <2>2. PageOf(d)' = p /\ BranchOf(d)' = b
    <3>1. PageOf(d)' = p
      BY <1>8 DEF PageOf
    <3>2. QED
      BY <1>6, <3>1 DEF BranchOf, RevisionOf, PageOf
  <2>3. \A x \in Branch : d \in instanciated'[x] <=> x = b
    BY <1>2, <1>3, <1>4, <1>7 DEF Registered, InstanciatedType
  <2>4. \A u \in Threads : ~Forked(u)
    BY <1>5 DEF Forked, Forking
  <2>5. QED
    BY <1>6, <2>1, <2>2, <2>3, <2>4 DEF Opening
<1>13. \A e \in Document \ {d}, x \in Branch :
         e \in instanciated'[x] <=> e \in instanciated[x] /\ e \in Alive'
  BY <1>2, <1>3, <1>4, <1>8 DEF Registered, InstanciatedType, Alive
<1>14. /\ CallMeant(t)' /\ call[t].step # "forkReference" /\ call'[t].step # "forkReference"
       /\ call'[t].step # "forkSwitch" /\ \A e : ~Guards(t, e)
  BY <1>1, <1>9, <1>10, QuietMeant DEF Meaningless, Guards
<1>15. LockType' /\ ForksKept(t)
  BY <1>1, <1>3, <1>5 DEF LockType, ForksKept
<1>16. \A u \in Threads \ {t} : call[u].step = "openWrite" => call[u].branch \in branchMap'
  BY <1>1, <1>3 DEF CallMeant
<1>17. /\ \A x \in Branch : reusable'[x] \in {reusable[x], NoDocument}
       /\ d \in Document \cup {NoDocument} /\ t \in Threads \cup {NoThread}
  BY <1>1, <1>7
<1>18. QED
  BY <1>6, <1>8, <1>10, <1>11, <1>12, <1>13, <1>14, <1>15, <1>16, <1>17, HistoryStep

\* What lookupRevision() finds is a revision of the branch, committed unless the
\* writer's was asked for.
LEMMA RevisionLooked ==
  ASSUME StoreInv, NEW b \in Branch, NEW asked \in Page, NEW flags, NEW p,
         p = LookupRevision(asked, flags), p # NullPage,
         asked \in RevisionsFrom(lastRevision[b])
  PROVE  /\ p \in Taken /\ p \in Page /\ revision[p].branch = b
         /\ flags \in {"Read", "ExplicitRead"} => ~revision[p].writable
<1>1. asked \in Taken /\ revision[asked].branch = b /\ InLine(asked)
  BY RevisionsOfBranch DEF StoreInv, Lines
<1>2. p = asked \/ (p = revision[asked].prev /\ revision[asked].writable)
  BY DEF LookupRevision
<1>3. p \in Taken /\ p \in Page /\ revision[p].branch = b
  BY <1>1, <1>2 DEF InLine, Taken
<1>4. ASSUME flags \in {"Read", "ExplicitRead"}, revision[p].writable PROVE FALSE
  <2>1. p = revision[asked].prev /\ revision[asked].writable /\ p # asked
    <3>1. revision[asked].writable
      BY <1>2, <1>4 DEF LookupRevision
    <3>2. p = revision[asked].prev
      BY <1>4, <3>1 DEF LookupRevision
    <3>3. revision[asked].id = revision[p].id + 1 /\ revision[p].id \in Nat
      BY <1>1, <1>3, <3>2, RevisionFields DEF InLine
    <3>4. QED
      BY <3>1, <3>2, <3>3
  <2>2. InLine(p)
    BY <1>3 DEF StoreInv, Lines
  <2>3. p = lastRevision[b] /\ asked = lastRevision[b]
    BY <1>1, <1>3, <1>4, <2>1, <2>2 DEF InLine
  <2>4. QED
    BY <2>1, <2>3
<1>5. QED
  BY <1>3, <1>4

\* A document that follows a branch is there at the revision that was found.
LEMMA FollowedThere ==
  ASSUME Assumed, CountingInv, SharingInv, HistoryInv, NEW b \in Branch, NEW p \in Taken,
         revision[p].branch = b, NEW flags \in OpenFlags, NEW e \in Followed(b, p, flags)
  PROVE  e \in Alive /\ PageOf(e) = p
<1>1. /\ e \in instanciated[b] /\ flags = "FollowBranch" /\ revision[PageOf(e)].id = revision[p].id
      /\ e \in Document
  BY DEF Followed, RevisionOf, PageOf, HistoryInv, InstanciatedType
<1>2. e \in Alive /\ Home(e) = b
  BY <1>1 DEF HistoryInv, Registered
<1>3. \A u \in Threads : ~Referencing(u, e)
  BY <1>1 DEF Assumed, HistoryInv, CallMeant, Referencing, Forking
<1>4. BranchOf(e) = b
  BY <1>2, <1>3 DEF Home
<1>5. PageOf(e) \in Taken /\ revision[PageOf(e)].branch = b
  BY <1>2, <1>4 DEF HistoryInv, Placed, BranchOf, RevisionOf, PageOf
<1>6. QED
  BY <1>1, <1>2, <1>5 DEF HistoryInv, StoreInv, Lines

LEMMA HistoryInstanciate ==
  ASSUME Assumed, CountingInv, CountingInv', SharingInv, SharingInv', HistoryInv, InstanciatedType',
         NEW t \in Threads, call[t] = Idle, UNCHANGED <<mutexes, branches, revisions>>,
         NEW b \in Branch, NEW flags \in OpenFlags, NEW p \in Taken, revision[p].branch = b,
         flags \in {"Read", "ExplicitRead"} => ~revision[p].writable,
         NEW d \in FreeNumbers, NEW a \in Allocator,
         NEW c, Becomes(t, c), c.step = "opened", c.doc = d, c.flags = flags,
         IF Followed(b, p, flags) # {}
           THEN \E e \in Followed(b, p, flags) : a = document[e].allocator
           ELSE a \in FreeAllocators,
         InstanciateDocument(b, p, d, a, flags)
  PROVE  HistoryInv'
<1> DEFINE kept == SetsReusable(b, p, flags)
           deleted == IF kept /\ Collectable(b) THEN {reusable[b]} ELSE {}
           next == [e \in Document |->
             IF e = d THEN [flags |-> flags, allocator |-> a, refCount |-> IF kept THEN 1 ELSE 0]
             ELSE IF e \in deleted THEN Unused
             ELSE document[e]]
           position == [revisionPage EXCEPT ![a] = IF a \in FreeAllocators THEN p ELSE @]
<1>1. /\ SetDocuments(next, position)
      /\ instanciated' = [instanciated EXCEPT ![b] = (@ \ deleted) \cup {d}]
      /\ reusable' = [reusable EXCEPT ![b] = IF kept THEN d ELSE @]
  BY DEF InstanciateDocument
<1>2. /\ StoreInv /\ LockType /\ Placed /\ PositionType /\ Registered /\ Allocated /\ Allocated'
      /\ InstanciatedType /\ ReusedHere /\ ReusedRead /\ ReusableType
      /\ NoDocument \notin Document
      /\ \A u \in Threads : CallMeant(u) /\ CallHolds(u)
  BY Finite DEF HistoryInv, SharingInv, CountingInv, Types
<1>3. /\ UNCHANGED <<nextBranchId, branchMap, dependsOn, revisions, lastRevision, revision, writeMutex>>
      /\ call'[t] = c /\ \A u \in Threads \ {t} : call'[u] = call[u]
      /\ Idle.step = "idle" /\ p \in Page
      /\ d \in Document /\ d \notin Alive
  BY DEF branches, revisions, mutexes, Becomes, Idle, Taken, FreeNumbers
<1>4. deleted \subseteq {reusable[b]} /\ \A e \in deleted : document[e].flags = "ExplicitRead" /\ e # NoDocument
  BY <1>2 DEF Collectable, ReusedRead
<1>5. /\ next[d].flags = flags /\ next[d].allocator = a
      /\ \A e \in Document \ {d} : IF e \in deleted THEN next[e] = Unused ELSE next[e] = document[e]
  BY <1>3
<1>6. /\ position \in [Allocator -> Page \cup {NullPage}] /\ position[a] = p
      /\ \A e \in Alive : document[e].allocator \in Allocator
                          /\ position[document[e].allocator] = revisionPage[document[e].allocator]
  <2>1. \A e \in Alive : document[e].allocator \in Allocator
    BY <1>2 DEF Allocated
  <2>2. CASE Followed(b, p, flags) # {}
    <3>1. PICK e \in Followed(b, p, flags) : a = document[e].allocator
      BY <2>2
    <3>2. e \in Alive /\ PageOf(e) = p
      BY FollowedThere
    <3>3. a \notin FreeAllocators /\ revisionPage[a] = p
      BY <3>1, <3>2 DEF FreeAllocators, PageOf
    <3>4. QED
      BY <1>2, <2>1, <3>3 DEF PositionType
  <2>3. CASE ~(Followed(b, p, flags) # {})
    <3>1. a \in FreeAllocators /\ \A e \in Alive : document[e].allocator # a
      BY <2>3 DEF FreeAllocators
    <3>2. QED
      BY <1>2, <1>3, <2>1, <3>1 DEF PositionType
  <2>4. QED
    BY <2>2, <2>3
<1>7. kept => flags = "ExplicitRead"
  BY DEF SetsReusable
<1> HIDE DEF next, position, deleted, kept
<1>8. /\ document' = next /\ PositionType'
      /\ \A e \in Document : next[e].allocator \in Allocator =>
           revisionPage'[next[e].allocator] = position[next[e].allocator]
  BY <1>1, <1>6, PositionSet
<1>9. \A e \in Alive' \ {d} : e \in Document /\ e \in Alive /\ document'[e] = document[e]
  BY <1>5, <1>8 DEF Alive, Unused
<1>10. flags # "none" /\ flags \in AllFlags
  BY UsesAssumption DEF AllFlags
<1>11. d \in Alive' /\ PageOf(d)' = p
  BY <1>3, <1>5, <1>6, <1>8, <1>10 DEF Alive, PageOf
<1>12. StoreInv' /\ PagesKept /\ LockType' /\ Taken' = Taken
  BY <1>2, <1>3, StoreLeft DEF LockType, Taken
<1>13. \A e \in Alive' \ {d} :
         revisionPage'[document[e].allocator] = revisionPage[document[e].allocator]
  BY <1>6, <1>8, <1>9
<1>14. \A e \in Alive' \ {d} : Staying(e)
  BY <1>2, <1>3, <1>9, <1>12, <1>13, StaysWithRevisions
<1>15. BranchOf(d)' = b /\ IsWritable(d)' = revision[p].writable
  BY <1>3, <1>11 DEF BranchOf, IsWritable, RevisionOf, PageOf
<1>16. /\ \A x \in Branch : d \in instanciated'[x] <=> x = b
       /\ \A x \in Branch, e \in Document \ {d} : e \in instanciated'[x] <=>
            e \in instanciated[x] /\ (x = b => e \notin deleted)
  <2>1. /\ instanciated'[b] = (instanciated[b] \ deleted) \cup {d}
        /\ \A x \in Branch \ {b} : instanciated'[x] = instanciated[x]
    BY <1>1, <1>2 DEF InstanciatedType
  <2>2. \A x \in Branch : d \notin instanciated[x]
    BY <1>2, <1>3 DEF Registered
  <2>3. QED
    BY <2>1, <2>2
<1>17. \A e \in Document \ {d}, x \in Branch :
         e \in instanciated'[x] <=> e \in instanciated[x] /\ e \in Alive'
  <2>1. SUFFICES ASSUME NEW e \in Document \ {d}, NEW x \in Branch
                 PROVE  e \in instanciated'[x] <=> e \in instanciated[x] /\ e \in Alive'
    OBVIOUS
  <2>2. e \in instanciated[x] => e \in Alive /\ x = Home(e)
    BY <1>2 DEF Registered
  <2>3. e \in deleted => e = reusable[b] /\ e \in instanciated[b] /\ b = Home(e)
    BY <1>2, <1>4 DEF ReusedHere, Registered
  <2>4. e \in Alive' <=> e \in Alive /\ e \notin deleted
    BY <1>5, <1>8 DEF Alive, Unused
  <2>5. QED
    BY <1>16, <2>2, <2>3, <2>4
<1>18. \A x \in Branch : \/ reusable'[x] \in {reusable[x], NoDocument}
                         \/ reusable'[x] = d /\ d \in instanciated'[x]
  BY <1>1, <1>2, <1>16 DEF ReusableType
<1>19. ForksKept(t)
  <2>1. SUFFICES ASSUME NEW u \in Threads \ {t}, call[u].step \in Forking
                 PROVE  /\ call[u].branch \in branchMap
                        /\ revisionPage'[document'[call[u].doc].allocator] =
                             revisionPage[document[call[u].doc].allocator]
    BY <1>3 DEF ForksKept
  <2>2. /\ call[u].branch \in branchMap /\ call[u].doc \in Alive /\ call[u].doc \in Document
        /\ document[call[u].doc].flags # "ExplicitRead"
    BY <2>1, ForkingUses
  <2>3. document'[call[u].doc] = document[call[u].doc]
    BY <1>3, <1>4, <1>5, <1>8, <2>2
  <2>4. QED
    BY <1>6, <1>8, <2>2, <2>3
<1>20. ASSUME NEW u \in Threads, Forked(u), b = call[u].branch PROVE Guards(t, d)'
  <2>1. revision[p].writable
    BY <1>20, ForkedAlone
  <2>2. "fork" \in Uses
    BY <1>2, <1>20 DEF CallMeant, Forked, Forking
  <2>3. flags = "AsRevision"
    BY <2>1, <2>2 DEF Assumed
  <2>4. QED
    BY <1>3, <2>3 DEF Guards
<1>21. Opening(t, d)
  BY <1>5, <1>8, <1>11, <1>12, <1>15, <1>16, <1>20 DEF Opening
<1>22. /\ CallMeant(t)' /\ call[t].step # "forkReference" /\ call'[t].step # "forkReference"
       /\ call'[t].step # "forkSwitch" /\ \A e : ~Guards(t, e)
  BY <1>3, QuietMeant DEF Meaningless, Guards
<1>23. \A u \in Threads \ {t} : call[u].step = "openWrite" => call[u].branch \in branchMap'
  BY <1>2, <1>3 DEF CallMeant
<1>24. d \in Document \cup {NoDocument} /\ t \in Threads \cup {NoThread}
  BY <1>3
<1>25. QED
  BY <1>3, <1>8, <1>12, <1>14, <1>17, <1>18, <1>19, <1>21, <1>22, <1>23, <1>24, HistoryStep

LEMMA HistoryOpenRead ==
  ASSUME Assumed, CountingInv, CountingInv', SharingInv, SharingInv', HistoryInv, InstanciatedType',
         NEW t \in Threads, NEW b \in Branch, NEW asked \in Page, NEW flags \in OpenFlags,
         OpenRead(t, b, asked, flags)
  PROVE  HistoryInv'
<1>1. PICK p : p = LookupRevision(asked, flags)
  OBVIOUS
<1>2. /\ call[t] = Idle /\ UNCHANGED <<mutexes, branches, revisions>> /\ p # NullPage
      /\ asked \in RevisionsFrom(lastRevision[b])
  BY <1>1 DEF OpenRead
<1>3. PICK d \in Document :
        /\ call' = [call EXCEPT ![t] = [Idle EXCEPT !.step = "opened", !.doc = d, !.flags = flags]]
        /\ \/ UNCHANGED documents
           \/ /\ FreeNumbers # {} /\ d = Min(FreeNumbers)
              /\ \E a \in Allocator :
                   /\ IF Followed(b, p, flags) # {}
                      THEN \E e \in Followed(b, p, flags) : a = document[e].allocator
                      ELSE a = Min(FreeAllocators)
                   /\ InstanciateDocument(b, p, d, a, flags)
  BY <1>1, Zenon DEF OpenRead
<1>4. PICK c : Becomes(t, c) /\ c.step = "opened" /\ c.doc = d /\ c.flags = flags
  <2> DEFINE c == [Idle EXCEPT !.step = "opened", !.doc = d, !.flags = flags]
  <2>1. Becomes(t, c)
    BY <1>3, CallReturns
  <2>2. c.step = "opened" /\ c.doc = d /\ c.flags = flags
    BY DEF Idle
  <2>3. QED
    BY <2>1, <2>2, Zenon
<1>5. /\ p \in Taken /\ revision[p].branch = b
      /\ flags \in {"Read", "ExplicitRead"} => ~revision[p].writable
  BY <1>1, <1>2, RevisionLooked DEF HistoryInv
<1>6. CASE UNCHANGED documents
  <2>1. /\ UNCHANGED <<nextBranchId, branchMap, dependsOn, revisions, writeMutex>>
        /\ UNCHANGED <<instanciated, reusable, revisionPage, document>>
        /\ Idle.step = "idle"
    BY <1>2, <1>6 DEF branches, mutexes, documents, Idle
  <2>2. LockType' /\ LocksKept(t)
    BY <2>1 DEF HistoryInv, LockType, LocksKept
  <2>3. /\ CallMeant(t)' /\ call[t].step # "forkReference" /\ \A e \in Alive : ~Guards(t, e)
        /\ c.step \in Meaningless
    BY <1>2, <1>4, <2>1, QuietMeant DEF Meaningless, Guards, Becomes
  <2>4. QED
    BY <1>4, <2>1, <2>2, <2>3, HistoryLeft
<1>7. ASSUME FreeNumbers # {}, d = Min(FreeNumbers), NEW a \in Allocator,
             IF Followed(b, p, flags) # {}
               THEN \E e \in Followed(b, p, flags) : a = document[e].allocator
               ELSE a = Min(FreeAllocators),
             InstanciateDocument(b, p, d, a, flags)
      PROVE  HistoryInv'
  <2>1. d \in FreeNumbers
    <3>1. FreeNumbers \in SUBSET Document
      BY DEF FreeNumbers
    <3>2. QED
      BY <1>7, <3>1, MinChooses
  <2>2. Min(FreeAllocators) \in FreeAllocators
    BY <2>1, AllocatorLeft
  <2>3. IF Followed(b, p, flags) # {}
          THEN \E e \in Followed(b, p, flags) : a = document[e].allocator
          ELSE a \in FreeAllocators
    BY <1>7, <2>2
  <2>4. QED
    BY <1>2, <1>4, <1>5, <1>7, <2>1, <2>3, HistoryInstanciate
<1>8. QED
  BY <1>3, <1>6, <1>7

\* A document is not released on a branch that is being forked from it.
LEMMA ReleasedApart ==
  ASSUME CountingInv, SharingInv, HistoryInv, NEW t \in Threads, NEW d,
         call[t].step = "release", call[t].doc = d, NEW u \in Threads, call[u].step \in Forking
  PROVE  /\ call[u].doc # d /\ call[u].doc \in Alive /\ call[u].doc \in Document
         /\ call[u].branch # BranchOf(d)
<1>1. /\ Referenced /\ Alone /\ Guarded /\ Placed /\ Lines
      /\ \A v \in Threads : CallMeant(v) /\ CallHolds(v)
  BY ReferencedAlive DEF SharingInv, HistoryInv, StoreInv
<1>2. d \in Document /\ d \in Alive /\ UsedBy(t, d)
  BY <1>1 DEF CallHolds, Holding, Referenced, UsedBy
<1>3. /\ call[u].doc \in Alive /\ call[u].doc \in Document /\ UsedBy(u, call[u].doc)
      /\ document[call[u].doc].flags # "ExplicitRead"
  BY ForkingUses
<1>4. call[u].doc # d
  <2>1. u # t
    BY DEF Forking
  <2>2. QED
    BY <1>1, <1>2, <1>3, <2>1 DEF Alone
<1>5. ASSUME Forked(u), call[u].branch = BranchOf(d) PROVE FALSE
  <2>1. PICK v \in Threads : Guards(v, d)
    BY <1>1, <1>2, <1>4, <1>5 DEF Guarded
  <2>2. UsedBy(v, d)
    BY <1>1, <2>1 DEF Guards, CallHolds, Holding, UsedBy
  <2>3. document[d].flags # "ExplicitRead"
    BY <1>1, <1>2, <2>1 DEF Guards, CallMeant, CallHolds
  <2>4. v # t
    BY <2>1 DEF Guards
  <2>5. QED
    BY <1>1, <1>2, <2>2, <2>3, <2>4 DEF Alone
<1>6. ASSUME call[u].step = "forkLock", call[u].branch = BranchOf(d) PROVE FALSE
  <2>1. PageOf(d) \in Taken /\ revision[PageOf(d)].branch = BranchOf(d)
    BY <1>1, <1>2 DEF Placed, BranchOf, RevisionOf, PageOf
  <2>2. lastRevision[BranchOf(d)] # NullPage
    BY <1>1, <2>1 DEF Lines, InLine
  <2>3. QED
    BY <1>1, <1>6, <2>2 DEF CallMeant
<1>7. QED
  BY <1>3, <1>4, <1>5, <1>6 DEF Forking, Forked

RegisteredWithout(d) == [instanciated EXCEPT ![BranchOf(d)] = @ \ {d}]

\* The branches removed with a document have no other, and nobody is forking one.
LEMMA RemovedUnused ==
  ASSUME CountingInv, SharingInv, HistoryInv, NEW t \in Threads, NEW d,
         call[t].step = "release", call[t].doc = d,
         NEW removed, removed = RemovedBranches(BranchOf(d), RegisteredWithout(d))
  PROVE  /\ BranchOf(d) \in branchMap /\ removed \in SUBSET branchMap
         /\ \A c \in branchMap : dependsOn[c] \in removed => c \in removed
         /\ \A e \in Alive \ {d} : BranchOf(e) \notin removed
         /\ \A u \in Threads : call[u].step \in Forking => call[u].branch \notin removed
<1>0. PICK b, registered : /\ b = BranchOf(d) /\ registered = [instanciated EXCEPT ![b] = @ \ {d}]
                           /\ removed = RemovedBranches(b, registered)
  BY DEF RegisteredWithout
<1>1. /\ Referenced /\ Placed /\ Lines /\ StoreInv /\ Registered /\ InstanciatedType
      /\ branchMap \in SUBSET Branch
      /\ \A v \in Threads : CallMeant(v) /\ CallHolds(v)
  BY ReferencedAlive DEF SharingInv, HistoryInv, StoreInv, StoreType
<1>2. d \in Document /\ d \in Alive
  BY <1>1 DEF CallHolds, Holding, Referenced
<1>3. b \in branchMap /\ b \in Branch
  <2>1. PageOf(d) \in Taken /\ revision[PageOf(d)].branch = b
    BY <1>0, <1>1, <1>2, Zenon DEF Placed, BranchOf, RevisionOf, PageOf
  <2>2. QED
    BY <1>1, <2>1, SMTT(30) DEF Lines, InLine
<1>4. removed = {} \/ (removed = Dependants(b) /\ \A c \in removed : registered[c] = {})
  BY <1>0 DEF RemovedBranches, IsFreeFromDocuments
<1>5. /\ removed \in SUBSET branchMap
      /\ \A c \in branchMap : dependsOn[c] \in removed => c \in removed
      /\ \A c \in removed : c = b \/ dependsOn[c] \in removed
  BY <1>1, <1>3, <1>4, DependantsClosed
<1>6. \A e \in Alive \ {d}, x \in removed : e \notin instanciated[x]
  <2>1. \A x \in Branch : registered[x] = instanciated[x] \/ registered[x] = instanciated[x] \ {d}
    BY <1>0, <1>1, <1>3 DEF InstanciatedType
  <2>2. SUFFICES ASSUME NEW e \in Alive \ {d}, NEW x \in removed, e \in instanciated[x]
                 PROVE  FALSE
    OBVIOUS
  <2>3. x \in Branch /\ registered[x] = {}
    BY <1>1, <1>4, <1>5
  <2>4. e \in registered[x]
    BY <2>1, <2>2, <2>3
  <2>5. QED
    BY <2>3, <2>4
<1>7. \A e \in Alive \ {d}, x \in removed : Home(e) # x
  <2>1. \A e \in Alive : e \in Document
    BY DEF Alive
  <2>2. QED
    BY <1>1, <1>5, <1>6, <2>1 DEF Registered
<1>8. ASSUME NEW e \in Alive \ {d}, BranchOf(e) \in removed PROVE FALSE
  <2>1. PICK u \in Threads : Referencing(u, e)
    BY <1>7, <1>8 DEF Home
  <2>2. call[u].step \in Forking /\ Home(e) = dependsOn[BranchOf(e)]
    BY <2>1 DEF Referencing, Forking, Home
  <2>3. BranchOf(e) = call[u].branch
    BY <2>1, <2>2, ForkingUses DEF Referencing
  <2>4. BranchOf(e) # b
    BY <1>0, <2>2, <2>3, ReleasedApart
  <2>5. QED
    BY <1>5, <1>7, <1>8, <2>2, <2>4
<1>9. ASSUME NEW u \in Threads, call[u].step \in Forking, call[u].branch \in removed PROVE FALSE
  <2>1. /\ call[u].doc \in Alive \ {d} /\ call[u].branch # b
    BY <1>0, <1>9, ReleasedApart
  <2>2. BranchOf(call[u].doc) \notin removed
    BY <1>8, <2>1
  <2>3. CASE call[u].step = "forkReference"
    BY <1>9, <2>2, <2>3, ForkingUses
  <2>4. CASE call[u].step # "forkReference"
    <3>1. dependsOn[call[u].branch] = BranchOf(call[u].doc)
      BY <1>1, <1>9, <2>4 DEF CallMeant, Forking
    <3>2. QED
      BY <1>5, <1>9, <2>1, <2>2, <3>1
  <2>5. QED
    BY <2>3, <2>4
<1>10. QED
  BY <1>0, <1>3, <1>5, <1>8, <1>9

LEMMA HistoryRelease ==
  ASSUME CountingInv, CountingInv', SharingInv, SharingInv', HistoryInv, InstanciatedType',
         NEW t \in Threads, ReleaseDocument(t)
  PROVE  HistoryInv'
<1>0. PICK d, b : d = call[t].doc /\ b = BranchOf(d)
  OBVIOUS
<1>1. PICK registered : registered = [instanciated EXCEPT ![b] = @ \ {d}]
  OBVIOUS
<1>2. PICK removed : /\ removed = RemovedBranches(b, registered)
                     /\ removed = RemovedBranches(BranchOf(d), RegisteredWithout(d))
  BY <1>0, <1>1 DEF RegisteredWithout
<1>3. /\ call[t].step = "release" /\ call[t].doc = d /\ branchManager = NoThread
      /\ UNCHANGED <<branchManager, reusable>>
      /\ \/ /\ document' = [document EXCEPT ![d].refCount = @ - 1] /\ Return(t)
            /\ UNCHANGED <<writeMutex, branches, revisions, instanciated, revisionPage>>
         \/ /\ RemoveBranches(removed) /\ d \in instanciated[b]
            /\ writeMutex' = [c \in Branch |-> IF c \in removed THEN NoThread ELSE writeMutex[c]]
            /\ instanciated' = registered
            /\ SetDocuments([document EXCEPT ![d] = Unused], revisionPage)
            /\ Return(t)
         \/ UNCHANGED <<writeMutex, branches, revisions, instanciated, document, revisionPage, threads>>
  BY <1>0, <1>1, <1>2 DEF ReleaseDocument
<1>4. /\ StoreInv /\ LockType /\ Placed /\ PositionType /\ Registered /\ Allocated /\ Allocated'
      /\ DocumentType /\ InstanciatedType /\ Lines /\ Referenced /\ NoDocument \notin Document
      /\ branchMap \in SUBSET Branch
      /\ \A u \in Threads : CallMeant(u) /\ CallHolds(u) /\ u # NoThread
      /\ Idle.step = "idle" /\ Idle.step \in Meaningless
  BY Finite, ReferencedAlive, NoThreadAssumption
     DEF HistoryInv, SharingInv, CountingInv, Types, StoreInv, StoreType, Idle, Meaningless
<1>5. d \in Document /\ d \in Alive
  BY <1>3, <1>4 DEF CallHolds, Holding, Referenced
<1>6. CASE UNCHANGED <<writeMutex, branches, revisions, instanciated, document, revisionPage, threads>>
  <2>1. UNCHANGED <<mutexes, branches, revisions, documents, threads>>
    BY <1>3, <1>6 DEF mutexes, documents
  <2>2. QED
    BY <2>1, HistoryUnchanged
<1>7. Return(t) => /\ Becomes(t, Idle) /\ call'[t] = Idle /\ CallMeant(t)'
                   /\ \A u \in Threads \ {t} : call'[u] = call[u]
  BY <1>4, CallReturns, QuietMeant DEF Return, Becomes
<1>8. CASE /\ document' = [document EXCEPT ![d].refCount = @ - 1] /\ Return(t)
           /\ UNCHANGED <<writeMutex, branches, revisions, instanciated, revisionPage>>
  <2>1. /\ UNCHANGED <<nextBranchId, branchMap, dependsOn, revisions>>
        /\ \A e \in Document : /\ document'[e].flags = document[e].flags
                               /\ document'[e].allocator = document[e].allocator
    BY <1>4, <1>5, <1>8 DEF branches, DocumentType
  <2>2. LockType' /\ LocksKept(t) /\ \A e \in Alive : ~Guards(t, e)
    BY <1>3, <1>4, <1>8 DEF LockType, LocksKept, Guards
  <2>3. QED
    BY <1>3, <1>4, <1>7, <1>8, <2>1, <2>2, HistoryLeft
<1>9. CASE /\ RemoveBranches(removed) /\ d \in instanciated[b]
           /\ writeMutex' = [c \in Branch |-> IF c \in removed THEN NoThread ELSE writeMutex[c]]
           /\ instanciated' = registered
           /\ SetDocuments([document EXCEPT ![d] = Unused], revisionPage)
           /\ Return(t)
  <2>1. /\ b \in branchMap /\ removed \in SUBSET branchMap
        /\ \A c \in branchMap : dependsOn[c] \in removed => c \in removed
        /\ \A e \in Alive \ {d} : BranchOf(e) \notin removed
        /\ \A u \in Threads : call[u].step \in Forking => call[u].branch \notin removed
    <3>1. call[t].step = "release" /\ call[t].doc = d /\ b = BranchOf(d)
      BY <1>0, <1>3
    <3>2. removed = RemovedBranches(BranchOf(d), RegisteredWithout(d))
      BY <1>2
    <3>3. /\ BranchOf(d) \in branchMap /\ removed \in SUBSET branchMap
          /\ \A c \in branchMap : dependsOn[c] \in removed => c \in removed
          /\ \A e \in Alive \ {d} : BranchOf(e) \notin removed
          /\ \A u \in Threads : call[u].step \in Forking => call[u].branch \notin removed
      <4>1. BranchOf(d) \in branchMap
        BY <3>1, <3>2, RemovedUnused
      <4>2. removed \in SUBSET branchMap
        BY <3>1, <3>2, RemovedUnused
      <4>3. \A c \in branchMap : dependsOn[c] \in removed => c \in removed
        BY <3>1, <3>2, RemovedUnused
      <4>4. \A e \in Alive \ {d} : BranchOf(e) \notin removed
        BY <3>1, <3>2, RemovedUnused
      <4>5. \A u \in Threads : call[u].step \in Forking => call[u].branch \notin removed
        BY <3>1, <3>2, RemovedUnused
      <4>6. QED
        BY <4>1, <4>2, <4>3, <4>4, <4>5
    <3>4. QED
      BY <3>1, <3>3
  <2>2. /\ StoreInv' /\ PagesKept /\ branchMap' = branchMap \ removed
        /\ \A c \in branchMap \ removed :
             dependsOn'[c] = dependsOn[c] /\ lastRevision'[c] = lastRevision[c]
        /\ \A q \in Taken' : q \in Taken /\ revision'[q] = revision[q]
    BY <1>4, <1>9, <2>1, BranchesRemoved
  <2>3. /\ document' = [document EXCEPT ![d] = Unused] /\ PositionType'
        /\ \A e \in Document : document'[e].allocator \in Allocator =>
             revisionPage'[document'[e].allocator] = revisionPage[document'[e].allocator]
    BY <1>4, <1>9, PositionSet DEF PositionType
  <2>4. /\ \A e \in Document \ {d} : document'[e] = document[e]
        /\ document'[d] = Unused
    BY <1>4, <1>5, <2>3 DEF DocumentType
  <2>5. \A e \in Document : e \in Alive' <=> e \in Alive /\ e # d
    BY <2>4 DEF Alive, Unused
  <2>6. \A e \in Alive \ {d} :
          /\ e \in Document /\ document'[e] = document[e]
          /\ revisionPage'[document'[e].allocator] = revisionPage[document[e].allocator]
    <3>1. \A e \in Alive \ {d} : e \in Document /\ document'[e] = document[e]
      BY <2>4 DEF Alive
    <3>2. QED
      BY <1>4, <2>3, <3>1 DEF Allocated
  <2>7. ASSUME NEW e \in Alive' PROVE Staying(e)
    <3>1. e \in Alive \ {d} /\ document'[e] = document[e]
      BY <2>5, <2>6 DEF Alive
    <3>2. PageOf(e)' = PageOf(e) /\ PageOf(e) \in Taken /\ revision[PageOf(e)].branch = BranchOf(e)
      BY <1>4, <2>6, <3>1 DEF PageOf, Placed, BranchOf, RevisionOf
    <3>3. BranchOf(e) \in branchMap'
      BY <1>4, <2>1, <2>2, <3>1, <3>2 DEF Lines, InLine
    <3>4. PageOf(e) \in Taken' /\ revision'[PageOf(e)] = revision[PageOf(e)]
      BY <2>2, <3>2, <3>3 DEF PagesKept
    <3>5. BranchOf(e)' = BranchOf(e) /\ IsWritable(e)' = IsWritable(e)
      BY <3>2, <3>4 DEF BranchOf, IsWritable, RevisionOf, PageOf
    <3>6. QED
      BY <3>1, <3>2, <3>4, <3>5 DEF Staying
  <2>8. ForksKept(t)
    <3>1. SUFFICES ASSUME NEW u \in Threads \ {t}, call[u].step \in Forking
                   PROVE  /\ call[u].branch \in branchMap'
                          /\ dependsOn'[call[u].branch] = dependsOn[call[u].branch]
                          /\ lastRevision'[call[u].branch] = lastRevision[call[u].branch]
                          /\ revisionPage'[document'[call[u].doc].allocator] =
                               revisionPage[document[call[u].doc].allocator]
                          /\ Forked(u) =>
                               /\ writeMutex'[call[u].branch] = writeMutex[call[u].branch]
                               /\ revision'[lastRevision[call[u].branch]] =
                                    revision[lastRevision[call[u].branch]]
      BY DEF ForksKept
    <3>2. /\ call[u].branch \in branchMap \ removed /\ call[u].branch \in Branch
          /\ call[u].doc \in Alive \ {d}
      BY <1>3, <2>1, <3>1, ForkingUses, ReleasedApart
    <3>3. writeMutex'[call[u].branch] = writeMutex[call[u].branch]
      BY <1>9, <3>2
    <3>4. Forked(u) => /\ lastRevision[call[u].branch] \in Taken
                       /\ revision[lastRevision[call[u].branch]].branch = call[u].branch
      BY <1>4, <3>1, <3>2 DEF CallMeant, Lines
    <3>5. Forked(u) => revision'[lastRevision[call[u].branch]] = revision[lastRevision[call[u].branch]]
      BY <2>2, <3>2, <3>4 DEF PagesKept
    <3>6. QED
      BY <2>2, <2>6, <3>2, <3>3, <3>5
  <2>9. \A e \in Document, x \in Branch : e \in instanciated'[x] <=> e \in instanciated[x] /\ e \in Alive'
    <3>1. /\ instanciated'[b] = instanciated[b] \ {d}
          /\ \A x \in Branch \ {b} : instanciated'[x] = instanciated[x]
      BY <1>1, <1>4, <1>9, <2>1 DEF InstanciatedType
    <3>2. \A x \in Branch : d \in instanciated[x] => x = b
      BY <1>4, <1>5, <1>9, <2>1 DEF Registered
    <3>3. \A e \in Document, x \in Branch : e \in instanciated[x] => e \in Alive
      BY <1>4 DEF Registered
    <3>4. QED
      BY <2>5, <3>1, <3>2, <3>3
  <2>10. LockType'
    BY <1>4, <1>9 DEF LockType
  <2>11. \A u \in Threads \ {t} : call[u].step # "openWrite"
    BY <1>3, <1>4 DEF CallHolds
  <2>12. /\ call[t].step # "forkReference" /\ call'[t].step # "forkReference"
         /\ call'[t].step # "forkSwitch" /\ \A e : ~Guards(t, e)
    BY <1>3, <1>4, <1>7, <1>9 DEF Guards
  <2>13. /\ \A x \in Branch : reusable'[x] \in {reusable[x], NoDocument}
         /\ NoDocument \in Document \cup {NoDocument} /\ t \in Threads \cup {NoThread}
         /\ \A e \in Alive' : Staying(e)
    BY <1>3, <2>7
  <2>14. QED
    BY <1>7, <1>9, <2>2, <2>3, <2>8, <2>9, <2>10, <2>11, <2>12, <2>13, HistoryStep
<1>10. QED
  BY <1>3, <1>6, <1>8, <1>9

LEMMA HistoryInit == Init => HistoryInv
<1> SUFFICES ASSUME Init PROVE HistoryInv
  OBVIOUS
<1>1. /\ MaxBranches \in Nat /\ MaxRevisions \in Nat /\ InitialBranches \in 1 .. MaxBranches
      /\ InitialBranches <= MaxRevisions
  BY DEF BoundsAssumption
<1>2. /\ nextBranchId = InitialBranches + 1 /\ branchMap = 1 .. InitialBranches
      /\ dependsOn = [b \in Branch |-> IF b \in 2 .. InitialBranches THEN 1 ELSE NoBranch]
      /\ lastRevision = [b \in Branch |-> IF b \in branchMap THEN b ELSE NullPage]
  BY DEF Init
<1>3. branchMap \subseteq Page /\ branchMap \subseteq Branch /\ \A b \in branchMap : b \in Nat /\ b > 0
  BY <1>1, <1>2 DEF Page, Branch
<1>4. /\ revision \in [Page -> {revision[p] : p \in Page}]
      /\ \A p \in branchMap : revision[p] =
           [branch |-> p, id |-> 1, prev |-> NullPage, base |-> dependsOn[p],
            writable |-> FALSE, edits |-> 0]
      /\ \A p \in Page \ branchMap : revision[p] = NoRevision
  <2>1. revision = [p \in Page |-> IF p \notin branchMap THEN NoRevision ELSE
           [branch |-> p, id |-> 1, prev |-> NullPage, base |-> dependsOn[p],
            writable |-> FALSE, edits |-> 0]]
    BY Zenon DEF Init
  <2>2. QED
    BY <1>3, <2>1, Zenon
<1>5. \A b \in branchMap : dependsOn[b] # NoBranch => dependsOn[b] = 1 /\ b # 1 /\ 1 \in branchMap
  <2>1. SUFFICES ASSUME NEW b \in branchMap, dependsOn[b] # NoBranch
                 PROVE  dependsOn[b] = 1 /\ b # 1 /\ 1 \in branchMap
    OBVIOUS
  <2>2. b \in Branch /\ dependsOn[b] = IF b \in 2 .. InitialBranches THEN 1 ELSE NoBranch
    BY <1>2, <1>3
  <2>3. b \in 2 .. InitialBranches
    BY <2>1, <2>2
  <2>4. QED
    BY <1>1, <1>2, <2>2, <2>3
<1>6. \A p \in branchMap :
        /\ revision[p].branch = p /\ revision[p].id = 1 /\ revision[p].prev = NullPage
        /\ revision[p].base = dependsOn[p] /\ ~revision[p].writable
  <2>1. SUFFICES ASSUME NEW p \in branchMap
                 PROVE  /\ revision[p].branch = p /\ revision[p].id = 1
                        /\ revision[p].prev = NullPage /\ revision[p].base = dependsOn[p]
                        /\ ~revision[p].writable
    OBVIOUS
  <2>2. revision[p] = [branch |-> p, id |-> 1, prev |-> NullPage, base |-> dependsOn[p],
                       writable |-> FALSE, edits |-> 0]
    BY <1>4, Zenon
  <2>3. /\ revision[p].branch = p /\ revision[p].id = 1
        /\ revision[p].prev = NullPage /\ revision[p].base = dependsOn[p]
    BY <2>2
  <2>4. ~revision[p].writable
    BY <2>2
  <2>5. QED
    BY <2>3, <2>4
<1>7. \A p \in Page \ branchMap : revision[p].branch = NoBranch
  <2>1. NoRevision.branch = NoBranch
    BY DEF NoRevision
  <2>2. QED
    BY <1>4, <2>1
<1>8. Taken = branchMap
  BY <1>3, <1>6, <1>7, Numbers DEF Taken
<1>9. StoreType
  <2>1. dependsOn \in [Branch -> Branch \cup {NoBranch}]
    BY <1>1, <1>2, <1>3 DEF Branch
  <2>2. \A b \in branchMap : dependsOn[b] \in Page \cup {NullPage}
    <3>1. \A b \in branchMap : dependsOn[b] = NoBranch \/ (dependsOn[b] = 1 /\ 1 \in Page)
      BY <1>3, <1>5
    <3>2. QED
      BY <3>1 DEF NoBranch, NullPage
  <2>3. \A p \in Page : revision[p] \in RevisionType
    <3>1. ASSUME NEW p \in branchMap PROVE revision[p] \in RevisionType
      <4>1. p \in Branch /\ 1 \in Nat /\ dependsOn[p] \in Page \cup {NullPage}
        BY <1>3, <2>2
      <4>2. [branch |-> p, id |-> 1, prev |-> NullPage, base |-> dependsOn[p],
             writable |-> FALSE, edits |-> 0] \in RevisionType
        BY <4>1 DEF RevisionType
      <4>3. QED
        BY <1>4, <4>2, Zenon
    <3>2. NoRevision \in RevisionType
      BY DEF RevisionType, NoRevision
    <3>3. QED
      BY <1>4, <3>1, <3>2, Zenon
  <2>4. lastRevision \in [Branch -> Page \cup {NullPage}]
    BY <1>2, <1>3
  <2>5. /\ nextBranchId \in Nat \ {0} /\ branchMap \in SUBSET Branch
        /\ \A b \in branchMap : b < nextBranchId
    BY <1>1, <1>2, <1>3
  <2>6. revision \in [Page -> RevisionType]
    BY <1>4, <2>3
  <2>7. QED
    BY <2>1, <2>4, <2>5, <2>6 DEF StoreType
<1>10. Forest
  BY <1>3, <1>5 DEF Forest
<1>11. Blank
  <2>1. \A p \in Page \ branchMap : revision[p] = NoRevision
    BY <1>4
  <2>2. QED
    BY <1>8, <2>1, Zenon DEF Blank
<1>12. Lines
  <2>1. /\ \A b \in branchMap : lastRevision[b] = b
        /\ \A b \in Branch \ branchMap : lastRevision[b] = NullPage
    BY <1>2, <1>3
  <2>2. \A p \in branchMap : p # NullPage
    BY <1>3, Numbers
  <2>3. \A p \in branchMap : InLine(p)
    <3>1. SUFFICES ASSUME NEW p \in branchMap PROVE InLine(p)
      OBVIOUS
    <3>2. /\ revision[p].branch = p /\ revision[p].id = 1 /\ revision[p].prev = NullPage
          /\ ~revision[p].writable /\ lastRevision[p] = p /\ p # NullPage
      BY <1>6, <2>1, <2>2
    <3>3. QED
      BY <3>2 DEF InLine
  <2>4. QED
    BY <1>8, <1>6, <2>1, <2>3 DEF Lines
<1>13. \A p \in Taken : HasBase(p)
  BY <1>3, <1>5, <1>8, <1>6, Numbers DEF HasBase
<1>14. /\ Alive = {} /\ \A t \in Threads : call[t] = Idle /\ Idle.step = "idle"
  BY DEF Init, Alive, Unused, Idle
<1>15. LockType /\ PositionType /\ InstanciatedType /\ ReusedHere
  BY DEF Init, LockType, PositionType, InstanciatedType, ReusedHere
<1>16. Placed /\ ReadOnly /\ Registered /\ Guarded
  <2>1. \A b \in Branch : instanciated[b] = {}
    BY DEF Init
  <2>2. QED
    BY <1>14, <2>1 DEF Placed, ReadOnly, Registered, Guarded, Forked
<1>17. \A t \in Threads : CallMeant(t)
  BY <1>14 DEF CallMeant, Forking, Forked
<1>18. QED
  BY <1>9, <1>10, <1>11, <1>12, <1>13, <1>15, <1>16, <1>17 DEF HistoryInv, StoreInv

LEMMA HistoryNext ==
  ASSUME Assumed, CountingInv, CountingInv', SharingInv, SharingInv', HistoryInv, InstanciatedType',
         [Next]_vars
  PROVE  HistoryInv'
<1>1. ASSUME Collect PROVE HistoryInv'
  BY <1>1, HistoryCollect
<1>2. ASSUME NEW t \in Threads, Proceed(t) PROVE HistoryInv'
  BY <1>2, HistoryProceed, HistoryOpenWrite, HistoryReopenLock, HistoryReopenSwitch,
     HistoryForkRevision, HistoryForkSwitch, HistoryForkReference, HistoryRelease DEF Proceed
<1>3. ASSUME NEW t \in Threads, Open(t) PROVE HistoryInv'
  BY <1>3, HistoryCreateBranch, HistoryOpenWriteBegin, HistoryOpenRead DEF Open
<1>4. ASSUME NEW t \in Threads, NEW d \in Document, UseDocument(t, d) PROVE HistoryInv'
  BY <1>4, HistoryUse, HistoryEdit, HistoryFork DEF UseDocument
<1>5. CASE UNCHANGED vars
  BY <1>5, HistoryUnchanged DEF vars
<1>6. CASE Next
  BY <1>1, <1>2, <1>3, <1>4, <1>6 DEF Next
<1>7. QED
  BY <1>5, <1>6

-----------------------------------------------------------------------------
(* What the invariant means.                                               *)

LEMMA HistoryMeansLines == HistoryInv => LinearHistory
<1> SUFFICES ASSUME HistoryInv PROVE LinearHistory
  OBVIOUS
<1>1. /\ StoreInv /\ Lines /\ branchMap \in SUBSET Branch /\ FreePages = Page \ Taken
      /\ Taken \subseteq Page
  BY FreeMeans DEF HistoryInv, StoreInv, StoreType, Taken
<1>2. \A b \in Branch : RevisionsFrom(lastRevision[b]) = {p \in Taken : revision[p].branch = b}
  BY <1>1, RevisionsOfBranch
<1>3. \A p \in Taken : InLine(p)
  BY <1>1 DEF Lines
<1>4. ASSUME NEW b \in branchMap, NEW p \in RevisionsFrom(lastRevision[b])
      PROVE  /\ revision[p].branch = b
             /\ revision[p].id =
                  IF revision[p].prev = NullPage THEN 1 ELSE revision[revision[p].prev].id + 1
             /\ revision[p].writable => p = lastRevision[b]
  <2>1. p \in Taken /\ revision[p].branch = b
    BY <1>1, <1>2, <1>4
  <2>2. QED
    BY <1>3, <2>1 DEF InLine
<1>5. ASSUME NEW p \in Page \ FreePages
      PROVE  /\ revision[p].branch \in branchMap
             /\ p \in RevisionsFrom(lastRevision[revision[p].branch])
  BY <1>1, <1>2, <1>3, <1>5 DEF InLine
<1>6. QED
  BY <1>4, <1>5 DEF LinearHistory

LEMMA HistoryMeansBases == HistoryInv => BasesKept
<1> SUFFICES ASSUME HistoryInv PROVE BasesKept
  OBVIOUS
<1>1. /\ FreePages = Page \ Taken /\ Taken \subseteq Page
      /\ \A p \in Taken : HasBase(p)
  BY FreeMeans DEF HistoryInv, StoreInv, Taken
<1>2. QED
  BY <1>1 DEF BasesKept, HasBase

LEMMA HistoryMeansDocuments ==
  ASSUME HistoryInv, SharingInv, CountingInv
  PROVE  DocumentsKept
<1>1. /\ StoreInv /\ Lines /\ branchMap \in SUBSET Branch /\ FreePages = Page \ Taken
      /\ Taken \subseteq Page /\ Placed /\ Registered /\ NoBranch \notin Branch
      /\ dependsOn \in [Branch -> Branch \cup {NoBranch}]
  BY FreeMeans, Numbers DEF HistoryInv, StoreInv, StoreType, Taken
<1>2. SUFFICES ASSUME NEW d \in Alive
               PROVE  /\ PageOf(d) \notin FreePages
                      /\ Ancestors(BranchOf(d)) \subseteq branchMap
                      /\ {b \in Branch : d \in instanciated[b]} = {Home(d)}
  BY DEF DocumentsKept, Home, Referencing, PageOf
<1>3. d \in Document /\ PageOf(d) \in Taken /\ BranchOf(d) \in branchMap
  <2>1. d \in Document /\ PageOf(d) \in Taken
    BY <1>1 DEF Alive, Placed
  <2>2. QED
    BY <1>1, <2>1 DEF Lines, InLine, BranchOf, RevisionOf, PageOf
<1>4. Ancestors(BranchOf(d)) \subseteq branchMap
  BY <1>1, <1>3, AncestorsThere
<1>5. Home(d) \in Branch
  <2>1. CASE \E t \in Threads : Referencing(t, d)
    <3>1. PICK t \in Threads : call[t].step = "forkReference" /\ call[t].doc = d
      BY <2>1 DEF Referencing
    <3>2. BranchOf(d) = call[t].branch /\ dependsOn[call[t].branch] # NoBranch
      BY <3>1, ForkingUses DEF HistoryInv, CallMeant, Forking
    <3>3. dependsOn[BranchOf(d)] \in Branch
      BY <1>1, <1>3, <3>2
    <3>4. QED
      BY <2>1, <3>3 DEF Home
  <2>2. CASE ~ \E t \in Threads : Referencing(t, d)
    BY <1>1, <1>3, <2>2 DEF Home
  <2>3. QED
    BY <2>1, <2>2
<1>6. {b \in Branch : d \in instanciated[b]} = {Home(d)}
  BY <1>1, <1>3, <1>5 DEF Registered
<1>7. QED
  BY <1>1, <1>3, <1>4, <1>6

-----------------------------------------------------------------------------

StoreOfBranchesInv == CountingInv /\ SharingInv /\ HistoryInv

LEMMA StoreOfBranches ==
  ASSUME Assumed
  PROVE  Spec => []StoreOfBranchesInv
<1>1. Init => StoreOfBranchesInv
  BY CountingInit, SharingInit, HistoryInit DEF StoreOfBranchesInv
<1>2. StoreOfBranchesInv /\ [Next]_vars => StoreOfBranchesInv'
  <2>1. SUFFICES ASSUME CountingInv, SharingInv, HistoryInv, [Next]_vars
                 PROVE  CountingInv' /\ SharingInv' /\ HistoryInv'
    BY DEF StoreOfBranchesInv
  <2>2. CountingInv'
    BY <2>1, CountingNext
  <2>3. SharingInv' /\ InstanciatedType'
    BY <2>1, <2>2, SharingNext DEF HistoryInv
  <2>4. HistoryInv'
    BY <2>1, <2>2, <2>3, HistoryNext
  <2>5. QED
    BY <2>2, <2>3, <2>4
<1>3. QED
  BY <1>1, <1>2, PTL DEF Spec

\* However the threads open, write, commit, reopen, fork and remove, each branch
\* is one line of revisions, numbered from 1, of which the last alone may be
\* writable, and no revision page is left out of the lines: createRevision(),
\* forkRevision() and dropRevisions() on one BranchPage.
THEOREM EveryBranchOneLine == Assumed => (Spec => []LinearHistory)
<1> SUFFICES ASSUME Assumed PROVE Spec => []LinearHistory
  OBVIOUS
<1>1. Spec => []StoreOfBranchesInv
  BY StoreOfBranches
<1>2. StoreOfBranchesInv => LinearHistory
  BY HistoryMeansLines DEF StoreOfBranchesInv
<1>3. QED
  BY <1>1, <1>2, PTL

\* No revision survives the one it shares pages with, which stays committed:
\* deleteBranch() takes all that was forked from a branch, or nothing.
THEOREM NoRevisionWithoutBase == Assumed => (Spec => []BasesKept)
<1> SUFFICES ASSUME Assumed PROVE Spec => []BasesKept
  OBVIOUS
<1>1. Spec => []StoreOfBranchesInv
  BY StoreOfBranches
<1>2. StoreOfBranchesInv => BasesKept
  BY HistoryMeansBases DEF StoreOfBranchesInv
<1>3. QED
  BY <1>1, <1>2, PTL

\* The revision of a document in memory is there, with its branch and all those
\* it was forked from, and one branch counts the document among its own: what
\* checkBranchForRemoval(), updateDocumentReference() and cleanupReusableDocument()
\* rely on, and keep.
THEOREM NoDocumentOffItsBranch == Assumed => (Spec => []DocumentsKept)
<1> SUFFICES ASSUME Assumed PROVE Spec => []DocumentsKept
  OBVIOUS
<1>1. Spec => []StoreOfBranchesInv
  BY StoreOfBranches
<1>2. StoreOfBranchesInv => DocumentsKept
  BY HistoryMeansDocuments DEF StoreOfBranchesInv
<1>3. QED
  BY <1>1, <1>2, PTL

-----------------------------------------------------------------------------
(* Types, and the bounds that the numbers stay in.                         *)

\* The revisions of a branch have the numbers from 1 to the last: there are no
\* more numbers than pages.
LEMMA NumbersBounded ==
  ASSUME StoreInv, NEW p \in Page
  PROVE  revision[p].id \in 0 .. MaxRevisions
<1> DEFINE n == revision[p].id
           b == revision[p].branch
           Has(k, q) == q \in Taken /\ revision[q].branch = b /\ revision[q].id = k
           Unused0 == {m \in Nat : \E k \in 1 .. n : m = n - k /\ \A q : ~Has(k, q)}
<1>1. /\ n \in Nat /\ MaxRevisions \in Nat /\ Blank /\ \A q \in Taken : InLine(q) /\ q \in Page
      /\ \A q \in Page : revision[q].id \in Nat
  BY RevisionFields DEF StoreInv, Lines, BoundsAssumption, Taken
<1>2. CASE p \notin Taken
  BY <1>1, <1>2 DEF Blank, NoRevision
<1>3. ASSUME p \in Taken, NEW j \in 1 .. n, \A q : ~Has(j, q) PROVE FALSE
  <2>1. n - j \in Unused0
    BY <1>1, <1>3
  <2>2. PICK m \in Unused0 : \A i \in Unused0 : m <= i
    BY <2>1, LeastNumber
  <2>3. PICK k \in 1 .. n : m = n - k /\ \A q : ~Has(k, q)
    OBVIOUS
  <2>4. Has(n, p)
    BY <1>3
  <2>5. k # n /\ k + 1 \in 1 .. n /\ m \in Nat /\ k \in Nat
    BY <1>1, <2>3, <2>4
  <2>6. n - (k + 1) \notin Unused0
    BY <1>1, <2>2, <2>3, <2>5
  <2>7. PICK q : Has(k + 1, q)
    BY <1>1, <2>5, <2>6
  <2>8. revision[q].prev # NullPage
    BY <1>1, <2>5, <2>7 DEF InLine
  <2>9. revision[q].prev \in Taken /\ revision[revision[q].prev].branch = b
        /\ k + 1 = revision[revision[q].prev].id + 1
    BY <1>1, <2>7, <2>8 DEF InLine
  <2>10. Has(k, revision[q].prev)
    BY <1>1, <2>5, <2>9
  <2>11. QED
    BY <2>3, <2>10
<1>4. CASE p \in Taken
  <2> DEFINE f == [k \in 1 .. n |-> CHOOSE q : Has(k, q)]
  <2>1. \A k \in 1 .. n : Has(k, f[k])
    <3>1. \A k \in 1 .. n : \E q : Has(k, q)
      BY <1>3, <1>4
    <3>2. QED
      BY <3>1
  <2>2. \A k, m \in 1 .. n : f[k] = f[m] => k = m
    BY <2>1
  <2>3. f \in [1 .. n -> Page]
    <3>1. \A k \in 1 .. n : f[k] \in Page
      BY <1>1, <2>1
    <3>2. QED
      BY <3>1
  <2>4. 1 \in Int /\ n \in Int /\ MaxRevisions \in Int
    BY <1>1
  <2> HIDE DEF f, n
  <2>5. f \in Injection(1 .. n, Page)
    BY <2>2, <2>3 DEF Injection, IsInjective
  <2>6. /\ IsFiniteSet(1 .. MaxRevisions) /\ Cardinality(1 .. n) = IF 1 > n THEN 0 ELSE n - 1 + 1
        /\ Cardinality(1 .. MaxRevisions) = IF 1 > MaxRevisions THEN 0 ELSE MaxRevisions - 1 + 1
    BY <2>4, FS_Interval
  <2>7. Cardinality(1 .. n) <= Cardinality(1 .. MaxRevisions)
    BY <2>5, <2>6, FS_Injection DEF Page
  <2>8. n \in 0 .. MaxRevisions
    BY <1>1, <2>6, <2>7
  <2>9. QED
    BY <2>8 DEF n
<1>5. QED
  BY <1>2, <1>4

CallRange(t) == call[t].branch \in Branch \cup {NoBranch} /\ call[t].page \in Page \cup {NullPage}

RangesInv ==
  /\ nextBranchId <= MaxBranches + 1
  /\ branchManager \in Threads \cup {NoThread}
  /\ scheduled \subseteq branchMap
  /\ \A p \in Page : revision[p].edits <= MaxEdits
  /\ \A t \in Threads : CallRange(t)
  /\ fault \in {"none", "freed document", "freed branch", "not referenced"}

LEMMA RangesMeanTypes ==
  ASSUME CountingInv, SharingInv, HistoryInv, RangesInv
  PROVE  TypeOK
<1>1. /\ CountingInv /\ Types /\ StoreInv /\ StoreType /\ LockType /\ PositionType /\ InstanciatedType
      /\ HeldType /\ DocumentType /\ ReusableType /\ BranchType /\ CallType
      /\ granted \in [Threads -> SUBSET Document]
  BY DEF CountingInv, Types, HistoryInv, StoreInv, SharingInv
<1>2. nextBranchId \in 1 .. MaxBranches + 1 /\ branchMap \subseteq 1 .. nextBranchId - 1
  <2>1. MaxBranches \in Nat /\ nextBranchId \in Nat \ {0} /\ \A b \in branchMap : b \in 1 .. MaxBranches
    BY <1>1 DEF BoundsAssumption, BranchType, Branch
  <2>2. \A b \in branchMap : b < nextBranchId
    BY <1>1 DEF StoreType
  <2>3. nextBranchId <= MaxBranches + 1
    BY DEF RangesInv
  <2>4. nextBranchId \in 1 .. MaxBranches + 1
    BY <2>1, <2>3
  <2>5. \A b \in branchMap : b \in 1 .. nextBranchId - 1
    BY <2>1, <2>2
  <2>6. QED
    BY <2>4, <2>5
<1>3. revision \in [Page -> [branch : Branch \cup {NoBranch}, id : 0 .. MaxRevisions,
                             prev : Page \cup {NullPage}, base : Page \cup {NullPage},
                             writable : BOOLEAN, edits : 0 .. MaxEdits]]
  <2>1. SUFFICES ASSUME NEW p \in Page
                 PROVE  revision[p] \in [branch : Branch \cup {NoBranch}, id : 0 .. MaxRevisions,
                             prev : Page \cup {NullPage}, base : Page \cup {NullPage},
                             writable : BOOLEAN, edits : 0 .. MaxEdits]
    BY <1>1 DEF StoreType
  <2>2. revision[p] \in RevisionType
    BY <1>1 DEF StoreType
  <2>3. revision[p].id \in 0 .. MaxRevisions
    BY <1>1, NumbersBounded
  <2>4. revision[p].edits \in 0 .. MaxEdits
    <3>1. revision[p].edits \in Nat /\ MaxEdits \in Nat /\ revision[p].edits <= MaxEdits
      BY <1>1, RevisionFields DEF RangesInv, BoundsAssumption
    <3>2. QED
      BY <3>1
  <2>5. QED
    BY <2>2, <2>3, <2>4 DEF RevisionType
<1>4. call \in [Threads -> [step : Steps, doc : Document \cup {NoDocument},
                            branch : Branch \cup {NoBranch}, page : Page \cup {NullPage},
                            flags : OpenFlags \cup {"none"}]]
  <2>1. ASSUME NEW t \in Threads
        PROVE  call[t] \in [step : Steps, doc : Document \cup {NoDocument},
                            branch : Branch \cup {NoBranch}, page : Page \cup {NullPage},
                            flags : OpenFlags \cup {"none"}]
    <3>1. CallSound(t) /\ call[t].branch \in Branch \cup {NoBranch} /\ call[t].page \in Page \cup {NullPage}
      BY DEF CountingInv, RangesInv, CallRange
    <3>2. QED
      BY <3>1 DEF CallSound
  <2>2. QED
    BY <1>1, <2>1 DEF CallType
<1>5. /\ branchManager \in Threads \cup {NoThread}
      /\ writeMutex \in [Branch -> Threads \cup {NoThread}]
      /\ dependsOn \in [Branch -> Branch \cup {NoBranch}]
      /\ scheduled \subseteq branchMap
      /\ lastRevision \in [Branch -> Page \cup {NullPage}]
  BY <1>1 DEF RangesInv, LockType, StoreType
<1>6. /\ instanciated \in [Branch -> SUBSET Document]
      /\ reusable \in [Branch -> Document \cup {NoDocument}]
      /\ document \in [Document -> [flags : OpenFlags \cup {"none"},
                                    allocator : Allocator \cup {NoDocument}, refCount : Nat]]
      /\ revisionPage \in [Allocator -> Page \cup {NullPage}]
      /\ held \in [Threads -> [Document -> 0 .. MaxHeld]]
      /\ granted \in [Threads -> SUBSET Document]
      /\ fault \in {"none", "freed document", "freed branch", "not referenced"}
  BY <1>1 DEF InstanciatedType, ReusableType, DocumentType, PositionType, HeldType, RangesInv
<1>7. QED
  BY <1>2, <1>3, <1>4, <1>5, <1>6 DEF TypeOK

LEMMA RangesInit == Init => RangesInv
<1> SUFFICES ASSUME Init PROVE RangesInv
  OBVIOUS
<1>1. MaxBranches \in Nat /\ MaxEdits \in Nat /\ InitialBranches \in 1 .. MaxBranches
  BY DEF BoundsAssumption
<1>2. nextBranchId <= MaxBranches + 1
  <2>1. nextBranchId = InitialBranches + 1
    BY DEF Init
  <2>2. QED
    BY <1>1, <2>1
<1>3. \A p \in Page : revision[p].edits <= MaxEdits
  <2>1. \A p \in Page : revision[p].edits = 0
    BY DEF Init, NoRevision
  <2>2. QED
    BY <1>1, <2>1
<1>4. \A t \in Threads : CallRange(t)
  BY DEF Init, Idle, CallRange
<1>5. QED
  BY <1>2, <1>3, <1>4 DEF Init, RangesInv

\* A revision that is created has no modification, and nothing but Edit adds one.
LEMMA EditsBounded ==
  ASSUME RangesInv, \A p \in Page : revision'[p].edits \in {0, revision[p].edits}
  PROVE  \A p \in Page : revision'[p].edits <= MaxEdits
<1>1. MaxEdits \in Nat /\ \A p \in Page : revision[p].edits <= MaxEdits
  BY DEF BoundsAssumption, RangesInv
<1>2. QED
  BY <1>1

LEMMA CallsRange ==
  ASSUME RangesInv, NEW t \in Threads, NEW c, Becomes(t, c),
         c.branch \in Branch \cup {NoBranch}, c.page \in Page \cup {NullPage}
  PROVE  \A u \in Threads : CallRange(u)'
BY DEF Becomes, RangesInv, CallRange

\* A call that begins has neither.
LEMMA CallsBegin ==
  ASSUME CountingInv, RangesInv, NEW t \in Threads, NEW step, NEW d, NEW flags,
         \/ call' = [call EXCEPT ![t] = Idle]
         \/ call' = [call EXCEPT ![t] = [Idle EXCEPT !.step = step, !.doc = d]]
         \/ call' = [call EXCEPT ![t] = [Idle EXCEPT !.step = step, !.doc = d, !.flags = flags]]
  PROVE  \A u \in Threads : CallRange(u)'
<1> DEFINE c == [Idle EXCEPT !.step = step, !.doc = d]
           e == [Idle EXCEPT !.step = step, !.doc = d, !.flags = flags]
<1>1. Becomes(t, Idle) \/ Becomes(t, c) \/ Becomes(t, e)
  BY CallReturns
<1>2. /\ Idle.branch = NoBranch /\ c.branch = NoBranch /\ e.branch = NoBranch
      /\ Idle.page = NullPage /\ c.page = NullPage /\ e.page = NullPage
  BY SMTT(30) DEF Idle
<1> HIDE DEF c, e
<1>3. QED
  BY <1>1, <1>2, CallsRange

\* The branch of a document that somebody uses is there.
LEMMA BranchUsed ==
  ASSUME CountingInv, HistoryInv, NEW d \in Document,
         d \in Alive \/ \E t \in Threads : held[t][d] > 0
  PROVE  d \in Alive /\ PageOf(d) \in Page /\ BranchOf(d) \in branchMap /\ BranchOf(d) \in Branch
<1>1. d \in Alive
  BY ReferencedAlive DEF Referenced
<1>2. PageOf(d) \in Taken
  BY <1>1 DEF HistoryInv, Placed
<1>3. InLine(PageOf(d)) /\ branchMap \in SUBSET Branch
  BY <1>2 DEF HistoryInv, StoreInv, Lines, StoreType
<1>4. QED
  BY <1>1, <1>2, <1>3 DEF InLine, BranchOf, RevisionOf, PageOf, Taken

\* A step that creates or removes no branch and schedules none, and changes no
\* revision.
RangesLeft ==
  UNCHANGED <<nextBranchId, branchMap, scheduled, revision, fault>>

LEMMA RangesQuiet ==
  ASSUME RangesInv, RangesLeft, branchManager' \in Threads \cup {NoThread},
         \A u \in Threads : CallRange(u)'
  PROVE  RangesInv'
BY DEF RangesInv, RangesLeft

LEMMA RangesProceed ==
  ASSUME CountingInv, SharingInv, HistoryInv, RangesInv, NEW t \in Threads,
         \/ OpenWriteThrows(t) \/ IncrementRefCount(t) \/ LockWrite(t) \/ ReopenBegin(t)
         \/ ReopenSwitch(t) \/ ForkSwitch(t)
  PROVE  RangesInv'
<1> DEFINE d == call[t].doc
           b == call[t].branch
<1>1. Idle.branch = NoBranch /\ Idle.page = NullPage /\ branchManager \in Threads \cup {NoThread}
      /\ CallRange(t) /\ CallHolds(t) /\ d \in Document \cup {NoDocument}
  BY DEF Idle, RangesInv, SharingInv, CountingInv, CallSound
<1>2. CASE OpenWriteThrows(t)
  <2>1. Becomes(t, Idle) /\ RangesLeft /\ branchManager' = NoThread
    BY <1>2, CallReturns DEF OpenWriteThrows, Return, RangesLeft, branches, revisions
  <2>2. QED
    BY <1>1, <2>1, CallsRange, RangesQuiet
<1>3. CASE IncrementRefCount(t)
  <2>1. RangesLeft /\ UNCHANGED branchManager /\ d \in Alive
    BY <1>3 DEF IncrementRefCount, RangesLeft, mutexes, branches, revisions
  <2>2. BranchOf(d) \in Branch
    BY <2>1, BranchUsed DEF Alive
  <2>3. \/ call' = [call EXCEPT ![t].step = "lock", ![t].branch = BranchOf(d)]
        \/ call' = [call EXCEPT ![t] = Idle]
    BY <1>3 DEF IncrementRefCount, Return
  <2>4. \/ Becomes(t, Idle)
        \/ Becomes(t, [step |-> "lock", doc |-> d, branch |-> BranchOf(d),
                       page |-> call[t].page, flags |-> call[t].flags])
    BY <2>3, CallReturns, CallMoves
  <2>5. \A u \in Threads : CallRange(u)'
    BY <1>1, <2>2, <2>4, CallsRange DEF CallRange
  <2>6. QED
    BY <1>1, <2>1, <2>5, RangesQuiet
<1>4. CASE LockWrite(t)
  <2>1. RangesLeft /\ UNCHANGED branchManager
        /\ \/ call' = [call EXCEPT ![t] = Idle]
           \/ call' = [call EXCEPT ![t] = [Idle EXCEPT !.step = "discard", !.doc = d]]
    BY <1>4 DEF LockWrite, Return, RangesLeft, branches, revisions
  <2>3. \A u \in Threads : CallRange(u)'
    BY <2>1, CallsBegin
  <2>4. QED
    BY <1>1, <2>1, <2>3, RangesQuiet
<1>5. CASE ReopenBegin(t)
  <2>1. RangesLeft /\ branchManager' = t
        /\ call[t].step = "reopen"
        /\ call' = [call EXCEPT ![t].step = "reopenLock", ![t].branch = BranchOf(d)]
    BY <1>5 DEF ReopenBegin, RangesLeft, branches, revisions
  <2>2. d \in Document /\ held[t][d] > 0
    BY <1>1, <2>1 DEF CallHolds, Holding, Reopening
  <2>3. BranchOf(d) \in Branch
    BY <2>2, BranchUsed
  <2>4. Becomes(t, [step |-> "reopenLock", doc |-> d, branch |-> BranchOf(d),
                    page |-> call[t].page, flags |-> call[t].flags])
    BY <2>1, CallMoves
  <2>5. \A u \in Threads : CallRange(u)'
    BY <1>1, <2>3, <2>4, CallsRange DEF CallRange
  <2>6. QED
    BY <1>1, <2>1, <2>5, RangesQuiet
<1>6. CASE ReopenSwitch(t)
  <2>1. Becomes(t, Idle) /\ RangesLeft /\ UNCHANGED branchManager
    BY <1>6, CallReturns DEF ReopenSwitch, Return, RangesLeft, branches, revisions, mutexes
  <2>2. QED
    BY <1>1, <2>1, CallsRange, RangesQuiet
<1>7. CASE ForkSwitch(t)
  <2>1. RangesLeft /\ UNCHANGED branchManager
        /\ call' = [call EXCEPT ![t].step = "forkReference"]
    BY <1>7 DEF ForkSwitch, RangesLeft, branches, revisions, mutexes
  <2>2. Becomes(t, [step |-> "forkReference", doc |-> d, branch |-> b,
                    page |-> call[t].page, flags |-> call[t].flags])
    BY <2>1, CallMoves
  <2>3. \A u \in Threads : CallRange(u)'
    BY <1>1, <2>2, CallsRange DEF CallRange
  <2>4. QED
    BY <1>1, <2>1, <2>3, RangesQuiet
<1>8. QED
  BY <1>2, <1>3, <1>4, <1>5, <1>6, <1>7

LEMMA RangesCreate ==
  ASSUME CountingInv, SharingInv, HistoryInv, RangesInv, NEW t \in Threads,
         OpenWrite(t) \/ ReopenLock(t) \/ ForkRevision(t)
  PROVE  RangesInv'
<1> DEFINE d == call[t].doc
           b == call[t].branch
<1>1. /\ Idle.branch = NoBranch /\ Idle.page = NullPage /\ branchManager \in Threads \cup {NoThread}
      /\ CallRange(t) /\ FreePages \subseteq Page /\ revision \in [Page -> RevisionType]
      /\ fault \in {"none", "freed document", "freed branch", "not referenced"}
  BY DEF Idle, RangesInv, HistoryInv, StoreInv, StoreType, FreePages
<1>2. ASSUME NEW c, NEW p, NEW noInherit, CreateRevision(c, p, noInherit)
      PROVE  \A q \in Page : revision'[q].edits \in {0, revision[q].edits}
  <2>1. SUFFICES ASSUME NEW q \in Page PROVE revision'[q].edits \in {0, revision[q].edits}
    OBVIOUS
  <2>2. revision[q] \in RevisionType
    BY <1>1
  <2>3. CASE q = p
    BY <1>2, <2>3 DEF CreateRevision
  <2>4. CASE q # p
    <3>1. revision'[q] \in {revision[q], [revision[q] EXCEPT !.writable = FALSE]}
      BY <1>2, <2>4 DEF CreateRevision
    <3>2. QED
      BY <2>2, <3>1 DEF RevisionType
  <2>5. QED
    BY <2>3, <2>4
<1>3. CASE OpenWrite(t)
  <2>1. /\ UNCHANGED <<nextBranchId, branchMap, scheduled, fault>> /\ branchManager' = NoThread
        /\ \E p \in FreePages : CreateRevision(b, p, call[t].flags = "ResetRevision")
        /\ \E e : call' = [call EXCEPT ![t] =
             [Idle EXCEPT !.step = "opened", !.doc = e, !.flags = call[t].flags]]
    BY <1>3 DEF OpenWrite, branches
  <2>2. PICK e : call' = [call EXCEPT ![t] =
                   [Idle EXCEPT !.step = "opened", !.doc = e, !.flags = call[t].flags]]
    BY <2>1
  <2>3. \A u \in Threads : CallRange(u)'
    BY <2>2, CallsBegin
  <2>4. \A q \in Page : revision'[q].edits <= MaxEdits
    BY <1>2, <2>1, EditsBounded
  <2>5. QED
    BY <1>1, <2>1, <2>3, <2>4 DEF RangesInv
<1>4. CASE ReopenLock(t)
  <2>1. UNCHANGED <<nextBranchId, branchMap, scheduled, fault>>
        /\ branchManager' \in {NoThread, branchManager}
    BY <1>4 DEF ReopenLock, branches
  <2>2. \/ \E p \in FreePages : /\ CreateRevision(BranchOf(d), p, FALSE)
                                /\ call' = [call EXCEPT ![t].step = "reopenSwitch", ![t].page = p]
        \/ Return(t) /\ UNCHANGED revision
    BY <1>4 DEF ReopenLock, revisions
  <2>3. \A u \in Threads : CallRange(u)'
    <3>1. CASE Return(t)
      BY <1>1, <3>1, CallReturns, CallsRange DEF Return
    <3>2. ASSUME NEW p \in FreePages, call' = [call EXCEPT ![t].step = "reopenSwitch", ![t].page = p]
          PROVE  \A u \in Threads : CallRange(u)'
      <4>1. Becomes(t, [step |-> "reopenSwitch", doc |-> d, branch |-> b, page |-> p,
                        flags |-> call[t].flags])
        BY <3>2, CallMoves
      <4>2. QED
        BY <1>1, <4>1, CallsRange DEF CallRange
    <3>3. QED
      BY <2>2, <3>1, <3>2
  <2>4. \A q \in Page : revision'[q].edits <= MaxEdits
    BY <1>2, <2>2, EditsBounded
  <2>5. QED
    BY <1>1, <2>1, <2>3, <2>4 DEF RangesInv
<1>5. CASE ForkRevision(t)
  <2>1. PICK p \in FreePages :
          /\ revision' = [revision EXCEPT ![p] =
               [branch |-> b, id |-> 1, prev |-> NullPage, base |-> call[t].page,
                writable |-> TRUE, edits |-> 0]]
          /\ call' = [call EXCEPT ![t].step = "forkSwitch", ![t].page = p]
    BY <1>5 DEF ForkRevision
  <2>2. UNCHANGED <<branchManager, nextBranchId, branchMap, scheduled, fault>>
    BY <1>5 DEF ForkRevision, branches
  <2>3. Becomes(t, [step |-> "forkSwitch", doc |-> d, branch |-> b, page |-> p,
                    flags |-> call[t].flags])
    BY <2>1, CallMoves
  <2>4. \A u \in Threads : CallRange(u)'
    BY <1>1, <2>3, CallsRange DEF CallRange
  <2>5. \A q \in Page : revision'[q].edits \in {0, revision[q].edits}
    BY <1>1, <2>1
  <2>6. \A q \in Page : revision'[q].edits <= MaxEdits
    BY <2>5, EditsBounded
  <2>7. QED
    BY <1>1, <2>2, <2>4, <2>6 DEF RangesInv
<1>6. QED
  BY <1>3, <1>4, <1>5

LEMMA RangesRelease ==
  ASSUME CountingInv, SharingInv, HistoryInv, RangesInv, NEW t \in Threads,
         ForkReference(t) \/ ReleaseDocument(t) \/ IncrementRefCountOfFreed(t)
  PROVE  RangesInv'
<1>1. /\ branchManager \in Threads \cup {NoThread} /\ nextBranchId <= MaxBranches + 1
      /\ scheduled \subseteq branchMap /\ \A u \in Threads : CallRange(u)
      /\ fault \in {"none", "freed document", "freed branch", "not referenced"}
  BY ZenonT(60) DEF RangesInv
<1>2. /\ UNCHANGED <<branchManager, nextBranchId>> /\ (UNCHANGED call \/ Return(t))
      /\ fault' \in {fault, "freed document", "freed branch", "not referenced"}
  BY DEF ForkReference, ReleaseDocument, IncrementRefCountOfFreed, RemoveBranches, branches, mutexes,
         threads
<1>3. \A u \in Threads : CallRange(u)'
  <2>1. CASE UNCHANGED call
    BY <1>1, <2>1 DEF CallRange
  <2>2. CASE Return(t)
    BY <2>2, CallsBegin, ZenonT(60) DEF Return
  <2>3. QED
    BY <1>2, <2>1, <2>2
<1>4. \/ UNCHANGED <<branchMap, scheduled, revision>>
      \/ \E removed : RemoveBranches(removed)
  BY DEF ForkReference, ReleaseDocument, IncrementRefCountOfFreed, branches, revisions
<1>5. \A p \in Page : revision'[p].edits \in {0, revision[p].edits}
  BY <1>4 DEF RemoveBranches, NoRevision
<1>6. scheduled' \subseteq branchMap'
  BY <1>1, <1>4 DEF RemoveBranches
<1>7. \A p \in Page : revision'[p].edits <= MaxEdits
  BY <1>5, EditsBounded
<1>8. branchManager' \in Threads \cup {NoThread} /\ nextBranchId' <= MaxBranches + 1
  BY <1>1, <1>2
<1>9. fault' \in {"none", "freed document", "freed branch", "not referenced"}
  BY <1>1, <1>2
<1>10. QED
  BY <1>3, <1>6, <1>7, <1>8, <1>9 DEF RangesInv

LEMMA RangesUse ==
  ASSUME CountingInv, SharingInv, HistoryInv, RangesInv, NEW t \in Threads, NEW d \in Document,
         UseDocument(t, d)
  PROVE  RangesInv'
<1>1. /\ branchManager \in Threads \cup {NoThread} /\ nextBranchId <= MaxBranches + 1
      /\ scheduled \subseteq branchMap /\ (\A u \in Threads : CallRange(u))
      /\ revision \in [Page -> RevisionType]
      /\ fault \in {"none", "freed document", "freed branch", "not referenced"}
      /\ nextBranchId \in Nat /\ MaxBranches \in Nat /\ MaxEdits \in Nat /\ nextBranchId # 0
  BY DEF RangesInv, HistoryInv, StoreInv, StoreType, BoundsAssumption
<1>2. CASE GrantWrite(t, d)
  <2>1. RangesLeft /\ UNCHANGED branchManager /\ held[t][d] > 0
    BY <1>2 DEF GrantWrite, RangesLeft, mutexes, branches, revisions
  <2>2. BranchOf(d) \in Branch
    BY <2>1, BranchUsed
  <2>3. \/ UNCHANGED call
        \/ call' = [call EXCEPT ![t] = [Idle EXCEPT !.step = "reopen", !.doc = d]]
        \/ call' = [call EXCEPT ![t] = [Idle EXCEPT !.step = "lock", !.doc = d, !.branch = BranchOf(d)]]
    BY <1>2 DEF GrantWrite
  <2>4. CASE UNCHANGED call
    BY <1>1, <2>1, <2>4, RangesQuiet DEF CallRange
  <2>5. CASE call' = [call EXCEPT ![t] = [Idle EXCEPT !.step = "reopen", !.doc = d]]
    <3>1. \A u \in Threads : CallRange(u)'
      BY <2>5, CallsBegin
    <3>2. QED
      BY <1>1, <2>1, <3>1, RangesQuiet
  <2>6. CASE call' = [call EXCEPT ![t] = [Idle EXCEPT !.step = "lock", !.doc = d, !.branch = BranchOf(d)]]
    <3> DEFINE c == [Idle EXCEPT !.step = "lock", !.doc = d, !.branch = BranchOf(d)]
    <3>1. Becomes(t, c)
      BY <2>6, CallReturns
    <3>2. c.branch = BranchOf(d) /\ c.page = NullPage
      BY DEF Idle
    <3> HIDE DEF c
    <3>3. \A u \in Threads : CallRange(u)'
      BY <2>2, <3>1, <3>2, CallsRange
    <3>4. QED
      BY <1>1, <2>1, <3>3, RangesQuiet
  <2>7. QED
    BY <2>3, <2>4, <2>5, <2>6
<1>3. CASE Edit(t, d)
  <2>1. /\ UNCHANGED <<branchManager, nextBranchId, branchMap, scheduled, fault, call>>
        /\ revision[PageOf(d)].edits < MaxEdits
        /\ revision' = [revision EXCEPT ![PageOf(d)].edits = @ + 1]
    BY <1>3 DEF Edit, PageOf, mutexes, branches, threads
  <2>2. \A p \in Page : revision'[p].edits <= MaxEdits
    <3>1. SUFFICES ASSUME NEW p \in Page PROVE revision'[p].edits <= MaxEdits
      OBVIOUS
    <3>2. revision[p] \in RevisionType /\ revision[p].edits \in Nat /\ revision[p].edits <= MaxEdits
      BY <1>1 DEF RevisionType, RangesInv
    <3>3. CASE p # PageOf(d)
      BY <1>1, <2>1, <3>2, <3>3
    <3>4. CASE p = PageOf(d)
      <4>1. revision'[p].edits = revision[p].edits + 1
        BY <1>1, <2>1, <3>2, <3>4 DEF RevisionType
      <4>2. PICK e \in Nat : e = revision[p].edits
        BY <3>2
      <4>3. e < MaxEdits /\ MaxEdits \in Nat
        BY <1>1, <2>1, <3>4, <4>2
      <4>4. e + 1 <= MaxEdits
        BY <4>3
      <4>5. QED
        BY <4>1, <4>2, <4>4
    <3>5. QED
      BY <3>3, <3>4
  <2>3. QED
    BY <1>1, <2>1, <2>2 DEF RangesInv, CallRange
<1>4. CASE Commit(t, d)
  <2>1. /\ UNCHANGED <<branchManager, nextBranchId, branchMap, scheduled, fault, call>>
        /\ revision' = [revision EXCEPT ![PageOf(d)].writable = FALSE]
    BY <1>4 DEF Commit, PageOf, branches
  <2>2. \A p \in Page : revision'[p].edits = revision[p].edits
    <3>1. SUFFICES ASSUME NEW p \in Page PROVE revision'[p].edits = revision[p].edits
      OBVIOUS
    <3>2. revision[p] \in RevisionType
      BY <1>1
    <3>3. QED
      BY <1>1, <2>1, <3>2 DEF RevisionType
  <2>3. \A p \in Page : revision'[p].edits <= MaxEdits
    BY <2>2, EditsBounded
  <2>4. QED
    BY <1>1, <2>1, <2>3 DEF RangesInv, CallRange
<1>5. CASE Fork(t, d)
  <2>1. /\ UNCHANGED <<branchManager, revision, fault, scheduled>>
        /\ nextBranchId <= MaxBranches /\ nextBranchId' = nextBranchId + 1
        /\ branchMap' = branchMap \cup {nextBranchId} /\ held[t][d] > 0
        /\ call' = [call EXCEPT ![t] =
             [Idle EXCEPT !.step = "forkLock", !.doc = d, !.branch = nextBranchId,
                          !.page = revisionPage[document[d].allocator]]]
    BY <1>5 DEF Fork, DoCreateBranch, mutexes, revisions
  <2>2. nextBranchId \in Branch /\ nextBranchId' <= MaxBranches + 1
    <3>1. nextBranchId \in Nat /\ nextBranchId # 0 /\ MaxBranches \in Nat
          /\ nextBranchId <= MaxBranches /\ nextBranchId' = nextBranchId + 1
      BY <1>1, <2>1
    <3>2. QED
      BY <3>1 DEF Branch
  <2>3. PageOf(d) \in Page
    BY <2>1, BranchUsed
  <2> DEFINE c == [Idle EXCEPT !.step = "forkLock", !.doc = d, !.branch = nextBranchId,
                               !.page = revisionPage[document[d].allocator]]
  <2>4. Becomes(t, c)
    BY <2>1, CallReturns
  <2>5. c.branch = nextBranchId /\ c.page = PageOf(d)
    BY DEF Idle, PageOf
  <2> HIDE DEF c
  <2>6. \A u \in Threads : CallRange(u)'
    BY <2>2, <2>3, <2>4, <2>5, CallsRange
  <2>7. scheduled' \subseteq branchMap' /\ \A p \in Page : revision'[p].edits <= MaxEdits
    BY <1>1, <2>1 DEF RangesInv
  <2>8. QED
    BY <1>1, <2>1, <2>2, <2>6, <2>7 DEF RangesInv
<1>6. CASE ScheduleRemoval(t, d)
  <2>1. /\ UNCHANGED <<branchManager, nextBranchId, branchMap, revision, fault, call>>
        /\ scheduled' = scheduled \cup {BranchOf(d)} /\ held[t][d] > 0
    BY <1>6 DEF ScheduleRemoval, mutexes, revisions, threads
  <2>2. BranchOf(d) \in branchMap
    BY <2>1, BranchUsed
  <2>3. QED
    BY <1>1, <2>1, <2>2 DEF RangesInv, CallRange
<1>7. CASE ReleaseBegin(t, d)
  <2>1. RangesLeft /\ UNCHANGED branchManager
        /\ call' = [call EXCEPT ![t] = [Idle EXCEPT !.step = "release", !.doc = d]]
    BY <1>7 DEF ReleaseBegin, RangesLeft, branches, revisions
  <2>2. \A u \in Threads : CallRange(u)'
    BY <2>1, CallsBegin
  <2>3. QED
    BY <1>1, <2>1, <2>2, RangesQuiet
<1>8. QED
  BY <1>2, <1>3, <1>4, <1>5, <1>6, <1>7 DEF UseDocument

LEMMA RangesOpen ==
  ASSUME CountingInv, SharingInv, HistoryInv, RangesInv, NEW t \in Threads, Open(t)
  PROVE  RangesInv'
<1>1. /\ branchManager \in Threads \cup {NoThread} /\ nextBranchId <= MaxBranches + 1
      /\ scheduled \subseteq branchMap /\ (\A u \in Threads : CallRange(u))
      /\ fault \in {"none", "freed document", "freed branch", "not referenced"}
      /\ nextBranchId \in Nat /\ MaxBranches \in Nat /\ branchMap \subseteq Branch
  BY DEF RangesInv, HistoryInv, StoreInv, StoreType, BoundsAssumption
<1>2. CASE CreateBranch(t)
  <2>1. /\ UNCHANGED <<branchManager, revision, fault, scheduled, call>>
        /\ nextBranchId <= MaxBranches /\ nextBranchId' = nextBranchId + 1
        /\ branchMap' = branchMap \cup {nextBranchId}
    BY <1>2 DEF CreateBranch, DoCreateBranch, mutexes, revisions, threads
  <2>2. nextBranchId' <= MaxBranches + 1
    <3>1. nextBranchId \in Nat /\ MaxBranches \in Nat
          /\ nextBranchId <= MaxBranches /\ nextBranchId' = nextBranchId + 1
      BY <1>1, <2>1
    <3>2. QED
      BY <3>1
  <2>3. QED
    BY <1>1, <2>1, <2>2 DEF RangesInv, CallRange
<1>3. ASSUME NEW b \in Branch, NEW flags \in OpenFlags, OpenWriteBegin(t, b, flags)
      PROVE  RangesInv'
  <2>1. RangesLeft /\ branchManager' = t
        /\ call' = [call EXCEPT ![t] = [Idle EXCEPT !.step = "openWrite", !.branch = b, !.flags = flags]]
    BY <1>3 DEF OpenWriteBegin, RangesLeft, branches, revisions
  <2> DEFINE c == [Idle EXCEPT !.step = "openWrite", !.branch = b, !.flags = flags]
  <2>2. Becomes(t, c)
    BY <2>1, CallReturns
  <2>3. c.branch = b /\ c.page = NullPage
    BY DEF Idle
  <2> HIDE DEF c
  <2>4. \A u \in Threads : CallRange(u)'
    BY <2>2, <2>3, CallsRange
  <2>5. QED
    BY <1>1, <2>1, <2>4, RangesQuiet
<1>4. ASSUME NEW b \in Branch, NEW p \in Page, NEW flags \in OpenFlags, OpenRead(t, b, p, flags)
      PROVE  RangesInv'
  <2>1. RangesLeft /\ UNCHANGED branchManager
    BY <1>4 DEF OpenRead, RangesLeft, branches, revisions, mutexes
  <2>2. PICK d : call' = [call EXCEPT ![t] = [Idle EXCEPT !.step = "opened", !.doc = d, !.flags = flags]]
    BY <1>4 DEF OpenRead
  <2>3. \A u \in Threads : CallRange(u)'
    BY <2>2, CallsBegin
  <2>4. QED
    BY <1>1, <2>1, <2>3, RangesQuiet
<1>5. QED
  BY <1>2, <1>3, <1>4 DEF Open

LEMMA RangesNext ==
  ASSUME CountingInv, SharingInv, HistoryInv, RangesInv, [Next]_vars
  PROVE  RangesInv'
<1>1. ASSUME Collect PROVE RangesInv'
  BY <1>1 DEF Collect, RangesInv, CallRange, mutexes, branches, revisions, threads
<1>2. ASSUME NEW t \in Threads, Proceed(t) PROVE RangesInv'
  BY <1>2, RangesProceed, RangesCreate, RangesRelease DEF Proceed
<1>3. ASSUME NEW t \in Threads, Open(t) PROVE RangesInv'
  BY <1>3, RangesOpen
<1>4. ASSUME NEW t \in Threads, NEW d \in Document, UseDocument(t, d) PROVE RangesInv'
  BY <1>4, RangesUse
<1>5. CASE UNCHANGED vars
  BY <1>5 DEF RangesInv, CallRange, vars, mutexes, branches, revisions, threads
<1>6. CASE Next
  BY <1>1, <1>2, <1>3, <1>4, <1>6 DEF Next
<1>7. QED
  BY <1>5, <1>6

\* The state of the store stays what it is declared to be: above all, the number
\* of a revision, that createRevision() takes from the one before it, never
\* passes the number of pages; no branch removed stays scheduled for removal; and
\* a thread waits for, or writes, only branches and pages that there are.
THEOREM EveryNumberInItsRange == Assumed => (Spec => []TypeOK)
<1> SUFFICES ASSUME Assumed PROVE Spec => []TypeOK
  OBVIOUS
<1>1. Spec => []StoreOfBranchesInv
  BY StoreOfBranches
<1>2. Init => RangesInv
  BY RangesInit
<1>3. StoreOfBranchesInv /\ RangesInv /\ [Next]_vars => RangesInv'
  BY RangesNext DEF StoreOfBranchesInv
<1>4. StoreOfBranchesInv /\ RangesInv => TypeOK
  BY RangesMeanTypes DEF StoreOfBranchesInv
<1>5. QED
  BY <1>1, <1>2, <1>3, <1>4, PTL DEF Spec
=============================================================================
