------------------------- MODULE BranchManagerProofs -------------------------
(***************************************************************************)
(* Theorems about BranchManager: the reference counts of the documents,    *)
(* and which threads use which document.                                   *)
(***************************************************************************)
EXTENDS BranchManager, SetSums

USE BoundsAssumption, UsesAssumption, ThreadsAssumption, NoThreadAssumption

-----------------------------------------------------------------------------
(* Counting references.                                                    *)

HeldOf(d) == [t \in Threads |-> held[t][d]]
HeldBy(t) == [d \in Document |-> held[t][d]]
Reusers(d) == {b \in Branch : reusable[b] = d}
References(d) == SumOver(Threads, HeldOf(d)) + Cardinality(Reusers(d))

\* What every number of references is counted with.
HeldType == held \in [Threads -> [Document -> 0 .. MaxHeld]]

LEMMA ReferencesMeant ==
  \A d \in Document : MapThenSumSet(LAMBDA t : held[t][d], Threads) = SumOver(Threads, HeldOf(d))
<1> SUFFICES ASSUME NEW d \in Document
             PROVE  MapThenSumSet(LAMBDA t : held[t][d], Threads) = SumOver(Threads, HeldOf(d))
  OBVIOUS
<1> DEFINE Unfolded(g) == [S \in SUBSET Threads |->
             IF S = {} THEN 0 ELSE held[Any(S)][d] + g[S \ {Any(S)}]]
<1>1. \A g : IsSum(Threads, HeldOf(d), g) <=> g = Unfolded(g)
  <2>1. \A S \in SUBSET Threads : S # {} => HeldOf(d)[Any(S)] = held[Any(S)][d]
    BY DEF Any, HeldOf
  <2>2. QED
    BY <2>1 DEF IsSum
<1>2. (CHOOSE g : IsSum(Threads, HeldOf(d), g)) = CHOOSE g : g = Unfolded(g)
  BY <1>1
<1>3. QED
  BY <1>2 DEF MapThenSumSet, MapThenFoldSet, Any, SumOver

LEMMA InUseMeant == \A t \in Threads : InUse(t) = SumOver(Document, HeldBy(t))
<1> SUFFICES ASSUME NEW t \in Threads
             PROVE  InUse(t) = SumOver(Document, HeldBy(t))
  OBVIOUS
<1> DEFINE Unfolded(g) == [S \in SUBSET Document |->
             IF S = {} THEN 0 ELSE held[t][Any(S)] + g[S \ {Any(S)}]]
<1>1. \A g : IsSum(Document, HeldBy(t), g) <=> g = Unfolded(g)
  <2>1. \A S \in SUBSET Document : S # {} => HeldBy(t)[Any(S)] = held[t][Any(S)]
    BY DEF Any, HeldBy
  <2>2. QED
    BY <2>1 DEF IsSum
<1>2. (CHOOSE g : IsSum(Document, HeldBy(t), g)) = CHOOSE g : g = Unfolded(g)
  BY <1>1
<1>3. QED
  BY <1>2 DEF InUse, MapThenSumSet, MapThenFoldSet, Any, SumOver

LEMMA Finite ==
  /\ IsFiniteSet(Document) /\ IsFiniteSet(Branch) /\ MaxHeld \in Nat
  /\ Document \subseteq Nat /\ NoDocument \notin Document /\ NoDocument = 0
<1>1. MaxDocuments \in Nat /\ MaxBranches \in Nat /\ MaxHeld \in Nat
  BY DEF BoundsAssumption
<1>2. IsFiniteSet(1 .. MaxDocuments) /\ IsFiniteSet(1 .. MaxBranches)
  BY <1>1, InitialSegment
<1>3. 1 .. MaxDocuments \subseteq Nat /\ 0 \notin 1 .. MaxDocuments
  BY <1>1
<1>4. QED
  BY <1>1, <1>2, <1>3 DEF Document, Branch, NoDocument

LEMMA ReferencesNumber ==
  ASSUME HeldType, NEW d \in Document
  PROVE  /\ SumOver(Threads, HeldOf(d)) \in Nat
         /\ IsFiniteSet(Reusers(d)) /\ Cardinality(Reusers(d)) \in Nat
         /\ Reusers(d) # {} => Cardinality(Reusers(d)) >= 1
         /\ \A t \in Threads : held[t][d] <= SumOver(Threads, HeldOf(d))
<1>1. HeldOf(d) \in Terms(Threads, MaxHeld)
  BY DEF HeldType, HeldOf, Terms
<1>2. SumOver(Threads, HeldOf(d)) \in Nat
  BY <1>1, SumIsUnits, Finite
<1>3. \A t \in Threads : held[t][d] <= SumOver(Threads, HeldOf(d))
  BY <1>1, TermWithinSum, Finite DEF HeldOf
<1>4. IsFiniteSet(Reusers(d)) /\ Cardinality(Reusers(d)) \in Nat
  <2>1. Reusers(d) \in SUBSET Branch
    BY DEF Reusers
  <2>2. QED
    BY <2>1, Finite, FS_Subset, FS_CardinalityType
<1>5. Reusers(d) # {} => Cardinality(Reusers(d)) >= 1
  BY <1>4, FS_EmptySet
<1>6. QED
  BY <1>2, <1>3, <1>4, <1>5

LEMMA HeldWithinUse ==
  ASSUME HeldType, NEW t \in Threads, NEW d \in Document
  PROVE  InUse(t) \in Nat /\ held[t][d] <= InUse(t)
<1>1. HeldBy(t) \in Terms(Document, MaxHeld)
  BY DEF HeldType, HeldBy, Terms
<1>2. HeldBy(t)[d] <= SumOver(Document, HeldBy(t)) /\ SumOver(Document, HeldBy(t)) \in Nat
  BY <1>1, TermWithinSum, Finite
<1>3. QED
  BY <1>2, InUseMeant DEF HeldBy

-----------------------------------------------------------------------------
(* The inductive invariant.                                                *)

DocumentType ==
  document \in [Document -> [flags : OpenFlags \cup {"none"},
                             allocator : Allocator \cup {NoDocument}, refCount : Nat]]

ReusableType == reusable \in [Branch -> Document \cup {NoDocument}]

BranchType == nextBranchId \in Nat \ {0} /\ branchMap \in SUBSET Branch

CallType == call = [t \in Threads |-> call[t]]

Types == HeldType /\ DocumentType /\ ReusableType /\ BranchType /\ CallType

\* A thread that opens a document may hold one more, and one that releases a
\* document holds it.
Using(t) == SumOver(Document, HeldBy(t))

CallSound(t) ==
  /\ call[t] \in [step : Steps, doc : Document \cup {NoDocument}, branch : {call[t].branch},
                  page : {call[t].page}, flags : OpenFlags \cup {"none"}]
  /\ call[t].step \in {"openWrite", "opened"} => Using(t) < MaxHeld
  /\ call[t].step = "release" => call[t].doc \in Document /\ held[t][call[t].doc] > 0

\* A deleted document has no count.
NoneCounted == \A d \in Document : document[d].flags = "none" => document[d].refCount = 0

Counted == \A d \in Document : References(d) <= document[d].refCount

CountingInv == Types /\ NoneCounted /\ Counted /\ \A t \in Threads : CallSound(t)

LEMMA IdleSound ==
  ASSUME NEW t \in Threads, call'[t] = Idle
  PROVE  CallSound(t)'
BY DEF CallSound, Idle, Steps

\* The calls that neither open nor release a document.
LEMMA CallOnSound ==
  ASSUME CallType, NEW t \in Threads, NEW step \in Steps \ {"openWrite", "opened", "release"},
         NEW d \in Document \cup {NoDocument}, NEW b, NEW p, NEW flags \in OpenFlags \cup {"none"},
         call' = [call EXCEPT ![t] =
           [step |-> step, doc |-> d, branch |-> b, page |-> p, flags |-> flags]]
  PROVE  CallSound(t)' /\ call' = [call EXCEPT ![t] = call'[t]]
<1>1. call'[t] = [step |-> step, doc |-> d, branch |-> b, page |-> p, flags |-> flags]
  BY DEF CallType
<1>2. call' = [call EXCEPT ![t] = call'[t]]
  BY <1>1
<1>3. CallSound(t)'
  BY <1>1 DEF CallSound
<1>4. QED
  BY <1>2, <1>3

\* A call that goes on with the same document.
LEMMA CallGoesOn ==
  ASSUME CallType, NEW t \in Threads, CallSound(t),
         NEW step \in Steps \ {"openWrite", "opened", "release"}, NEW b, NEW p,
         \/ call' = [call EXCEPT ![t].step = step, ![t].branch = b]
         \/ call' = [call EXCEPT ![t].step = step, ![t].page = p]
         \/ call' = [call EXCEPT ![t].step = step]
  PROVE  CallSound(t)' /\ call' = [call EXCEPT ![t] = call'[t]]
<1> DEFINE now == call'[t]
<1>1. /\ call[t] \in [step : Steps, doc : Document \cup {NoDocument}, branch : {call[t].branch},
                      page : {call[t].page}, flags : OpenFlags \cup {"none"}]
      /\ call = [u \in Threads |-> call[u]]
  BY DEF CallType, CallSound
<1>2. CASE call' = [call EXCEPT ![t].step = step, ![t].branch = b]
  <2>1. now = [step |-> step, doc |-> call[t].doc, branch |-> b, page |-> call[t].page,
               flags |-> call[t].flags]
    BY <1>1, <1>2
  <2>2. call' = [call EXCEPT ![t] = now]
    BY <1>1, <1>2
  <2>3. QED
    BY <1>1, <2>1, <2>2 DEF CallSound
<1>3. CASE call' = [call EXCEPT ![t].step = step, ![t].page = p]
  <2>1. now = [step |-> step, doc |-> call[t].doc, branch |-> call[t].branch, page |-> p,
               flags |-> call[t].flags]
    BY <1>1, <1>3
  <2>2. call' = [call EXCEPT ![t] = now]
    BY <1>1, <1>3
  <2>3. QED
    BY <1>1, <2>1, <2>2 DEF CallSound
<1>4. CASE call' = [call EXCEPT ![t].step = step]
  <2>1. now = [step |-> step, doc |-> call[t].doc, branch |-> call[t].branch,
               page |-> call[t].page, flags |-> call[t].flags]
    BY <1>1, <1>4
  <2>2. call' = [call EXCEPT ![t] = now]
    BY <1>1, <1>4
  <2>3. QED
    BY <1>1, <2>1, <2>2 DEF CallSound
<1>5. QED
  BY <1>2, <1>3, <1>4

\* What the calls of the other threads need is left alone by a step of t.
LEMMA OthersSound ==
  ASSUME CountingInv, NEW t \in Threads,
         call' = [call EXCEPT ![t] = call'[t]],
         \A u \in Threads \ {t} : held'[u] = held[u]
  PROVE  CallType' /\ \A u \in Threads \ {t} : CallSound(u)'
<1>1. \A u \in Threads \ {t} : call'[u] = call[u] /\ HeldBy(u)' = HeldBy(u)
  BY DEF CountingInv, Types, CallType, HeldBy
<1>2. \A u \in Threads \ {t} : Using(u)' = Using(u)
  BY <1>1 DEF Using
<1>3. CallType'
  BY DEF CountingInv, Types, CallType
<1>4. QED
  BY <1>1, <1>2, <1>3 DEF CountingInv, CallSound

\* The steps that count no reference.
LEMMA QuietStep ==
  ASSUME CountingInv, NEW t \in Threads, UNCHANGED <<held, document, reusable>>, BranchType',
         call' = [call EXCEPT ![t] = call'[t]], CallSound(t)'
  PROVE  CountingInv'
<1>1. CallType' /\ \A u \in Threads : CallSound(u)'
  BY OthersSound
<1>2. \A d \in Document : HeldOf(d)' = HeldOf(d) /\ Reusers(d)' = Reusers(d)
  BY DEF HeldOf, Reusers
<1>3. Counted' /\ NoneCounted'
  BY <1>2 DEF Counted, NoneCounted, References, CountingInv
<1>4. HeldType' /\ DocumentType' /\ ReusableType'
  BY DEF HeldType, DocumentType, ReusableType, CountingInv, Types
<1>5. QED
  BY <1>1, <1>3, <1>4 DEF CountingInv, Types

LEMMA QuietProceed ==
  ASSUME CountingInv, NEW t \in Threads,
         \/ OpenWriteThrows(t) \/ IncrementRefCountOfFreed(t) \/ LockWrite(t) \/ ReopenBegin(t)
         \/ ReopenLock(t) \/ ReopenSwitch(t) \/ ForkRevision(t) \/ ForkSwitch(t) \/ ForkReference(t)
  PROVE  CountingInv'
<1>1. UNCHANGED <<held, document, reusable, nextBranchId, branchMap>>
  BY Zenon DEF OpenWriteThrows, IncrementRefCountOfFreed, LockWrite, ReopenBegin, ReopenLock,
         ReopenSwitch, ForkRevision, ForkSwitch, ForkReference, branches, documents, threads
<1>2. BranchType'
  BY <1>1 DEF BranchType, CountingInv, Types
<1>3. CallType /\ CallSound(t)
  BY DEF CountingInv, Types
<1>4. CASE OpenWriteThrows(t) \/ ReopenSwitch(t)
  <2>1. call' = [call EXCEPT ![t] = Idle]
    BY <1>4 DEF OpenWriteThrows, ReopenSwitch, Return
  <2>2. QED
    BY <1>1, <1>2, <1>3, <2>1, IdleSound, QuietStep DEF CallType
<1>5. CASE IncrementRefCountOfFreed(t) \/ ForkReference(t)
  <2>1. call' = call \/ call' = [call EXCEPT ![t] = Idle]
    BY <1>5, Zenon DEF IncrementRefCountOfFreed, ForkReference, threads, Return
  <2>2. CASE call' = [call EXCEPT ![t] = Idle]
    BY <1>1, <1>2, <1>3, <2>2, IdleSound, QuietStep DEF CallType
  <2>3. CASE call' = call
    <3>1. HeldBy(t)' = HeldBy(t)
      BY <1>1 DEF HeldBy
    <3>2. CallSound(t)'
      BY <1>1, <1>3, <2>3, <3>1 DEF CallSound, Using
    <3>3. QED
      BY <1>1, <1>2, <1>3, <2>3, <3>2, QuietStep DEF CallType
  <2>4. QED
    BY <2>1, <2>2, <2>3, SMTT(30)
<1>6. CASE LockWrite(t)
  <2>1. \/ call' = [call EXCEPT ![t] = Idle]
        \/ call' = [call EXCEPT ![t] = [Idle EXCEPT !.step = "discard", !.doc = call[t].doc]]
    BY <1>6 DEF LockWrite, Return
  <2>2. CASE call' = [call EXCEPT ![t] = Idle]
    BY <1>1, <1>2, <1>3, <2>2, IdleSound, QuietStep DEF CallType
  <2>3. CASE call' = [call EXCEPT ![t] = [Idle EXCEPT !.step = "discard", !.doc = call[t].doc]]
    <3>1. CallSound(t)'
      BY <1>3, <2>3 DEF CallSound, CallType, Idle, Steps
    <3>2. QED
      BY <1>1, <1>2, <1>3, <2>3, <3>1, QuietStep DEF CallType
  <2>4. QED
    BY <2>1, <2>2, <2>3
<1>7. CASE ReopenBegin(t) \/ ForkRevision(t) \/ ForkSwitch(t)
  <2>1. /\ {"reopenLock", "forkSwitch", "forkReference"} \subseteq
              Steps \ {"openWrite", "opened", "release"}
        /\ \/ call' = [call EXCEPT ![t].step = "reopenLock", ![t].branch = BranchOf(call[t].doc)]
           \/ \E p : call' = [call EXCEPT ![t].step = "forkSwitch", ![t].page = p]
           \/ call' = [call EXCEPT ![t].step = "forkReference"]
    BY <1>7 DEF ReopenBegin, ForkRevision, ForkSwitch, Steps
  <2>2. CallSound(t)' /\ call' = [call EXCEPT ![t] = call'[t]]
    BY <1>3, <2>1, CallGoesOn
  <2>3. QED
    BY <1>1, <1>2, <2>2, QuietStep
<1>8. CASE ReopenLock(t)
  <2>1. \/ \E p : call' = [call EXCEPT ![t].step = "reopenSwitch", ![t].page = p]
        \/ call' = [call EXCEPT ![t] = Idle]
    BY <1>8 DEF ReopenLock, Return
  <2>2. CASE \E p : call' = [call EXCEPT ![t].step = "reopenSwitch", ![t].page = p]
    <3>1. "reopenSwitch" \in Steps \ {"openWrite", "opened", "release"}
      BY DEF Steps
    <3>2. CallSound(t)' /\ call' = [call EXCEPT ![t] = call'[t]]
      BY <1>3, <2>2, <3>1, CallGoesOn
    <3>3. QED
      BY <1>1, <1>2, <3>2, QuietStep
  <2>3. CASE call' = [call EXCEPT ![t] = Idle]
    BY <1>1, <1>2, <1>3, <2>3, IdleSound, QuietStep DEF CallType
  <2>4. QED
    BY <2>1, <2>2, <2>3
<1>9. QED
  BY <1>4, <1>5, <1>6, <1>7, <1>8, SMTT(30)

LEMMA QuietUse ==
  ASSUME CountingInv, NEW t \in Threads, NEW d \in Document, UseDocument(t, d)
  PROVE  CountingInv'
<1>1. UNCHANGED <<held, document, reusable>>
  BY DEF UseDocument, GrantWrite, Edit, Commit, Fork, ScheduleRemoval, ReleaseBegin, documents,
         threads
<1>2. CallType /\ CallSound(t) /\ BranchType
  BY DEF CountingInv, Types
<1>3. BranchType'
  <2>1. CASE Fork(t, d)
    BY <1>2, <2>1, Finite DEF Fork, DoCreateBranch, BranchType, Branch
  <2>2. CASE ~Fork(t, d)
    BY <1>2, <2>2 DEF UseDocument, GrantWrite, Edit, Commit, ScheduleRemoval, ReleaseBegin,
                      branches, BranchType
  <2>3. QED
    BY <2>1, <2>2
<1>4. CASE Edit(t, d) \/ Commit(t, d) \/ ScheduleRemoval(t, d)
  <2>1. call' = call
    BY <1>4 DEF Edit, Commit, ScheduleRemoval, threads
  <2>2. HeldBy(t)' = HeldBy(t)
    BY <1>1 DEF HeldBy
  <2>3. CallSound(t)'
    BY <1>1, <1>2, <2>1, <2>2 DEF CallSound, Using
  <2>4. QED
    BY <1>1, <1>2, <1>3, <2>1, <2>3, QuietStep DEF CallType
<1>5. CASE GrantWrite(t, d) \/ Fork(t, d)
  <2>1. call[t] = Idle
    BY <1>5 DEF GrantWrite, Fork
  <2>2. \/ call' = call
        \/ call' = [call EXCEPT ![t] =
             [step |-> "lock", doc |-> d, branch |-> BranchOf(d), page |-> NullPage, flags |-> "none"]]
        \/ call' = [call EXCEPT ![t] =
             [step |-> "reopen", doc |-> d, branch |-> NoBranch, page |-> NullPage, flags |-> "none"]]
        \/ call' = [call EXCEPT ![t] =
             [step |-> "forkLock", doc |-> d, branch |-> nextBranchId,
              page |-> revisionPage[document[d].allocator], flags |-> "none"]]
    BY <1>5, ZenonT(60) DEF GrantWrite, Fork, Idle
  <2>3. CASE call' = call
    BY <1>1, <1>2, <1>3, <2>1, <2>3, IdleSound, QuietStep DEF CallType
  <2>4. CASE call' # call
    <3>1. PICK step \in {"lock", "reopen", "forkLock"} : \E b, p : call' = [call EXCEPT ![t] =
            [step |-> step, doc |-> d, branch |-> b, page |-> p, flags |-> "none"]]
      BY <2>2, <2>4, Zenon
    <3>2. PICK b, p : call' = [call EXCEPT ![t] =
            [step |-> step, doc |-> d, branch |-> b, page |-> p, flags |-> "none"]]
      BY <3>1
    <3>3. step \in Steps \ {"openWrite", "opened", "release"}
      BY <3>1 DEF Steps
    <3>4. CallSound(t)' /\ call' = [call EXCEPT ![t] = call'[t]]
      BY <1>2, <3>2, <3>3, CallOnSound
    <3>5. QED
      BY <1>1, <1>3, <3>4, QuietStep
  <2>5. QED
    BY <2>3, <2>4
<1>6. CASE ReleaseBegin(t, d)
  <2>1. /\ call' = [call EXCEPT ![t] = [Idle EXCEPT !.step = "release", !.doc = d]]
        /\ held[t][d] > 0
    BY <1>6 DEF ReleaseBegin
  <2>2. CallSound(t)' /\ call' = [call EXCEPT ![t] = call'[t]]
    BY <1>1, <1>2, <2>1 DEF CallSound, CallType, Steps, Idle
  <2>3. QED
    BY <1>1, <1>3, <2>2, QuietStep
<1>7. QED
  BY <1>4, <1>5, <1>6 DEF UseDocument

LEMMA QuietOpen ==
  ASSUME CountingInv, NEW t \in Threads,
         \/ CreateBranch(t)
         \/ \E b \in Branch, flags \in OpenFlags : OpenWriteBegin(t, b, flags)
  PROVE  CountingInv'
<1>1. CallType /\ CallSound(t) /\ BranchType /\ HeldType
  BY DEF CountingInv, Types
<1>2. CASE CreateBranch(t)
  <2>1. UNCHANGED <<held, document, reusable, call>>
    BY <1>2 DEF CreateBranch, documents, threads
  <2>2. BranchType'
    BY <1>1, <1>2, Finite DEF CreateBranch, DoCreateBranch, BranchType, Branch
  <2>3. CallSound(t)'
    BY <1>2, <2>1, IdleSound DEF CreateBranch
  <2>4. QED
    BY <1>1, <2>1, <2>2, <2>3, QuietStep DEF CallType
<1>3. ASSUME NEW b \in Branch, NEW flags \in OpenFlags, OpenWriteBegin(t, b, flags)
      PROVE  CountingInv'
  <2>1. /\ UNCHANGED <<held, document, reusable, nextBranchId, branchMap>>
        /\ call' = [call EXCEPT ![t] =
             [Idle EXCEPT !.step = "openWrite", !.branch = b, !.flags = flags]]
        /\ InUse(t) < MaxHeld /\ flags # "none"
    BY <1>3 DEF OpenWriteBegin, documents, branches
  <2>2. Using(t)' = Using(t) /\ Using(t) = InUse(t)
    BY <2>1, InUseMeant DEF Using, HeldBy
  <2>3. CallSound(t)' /\ call' = [call EXCEPT ![t] = call'[t]]
    BY <1>1, <2>1, <2>2 DEF CallSound, CallType, Steps, Idle
  <2>4. BranchType'
    BY <1>1, <2>1 DEF BranchType
  <2>5. QED
    BY <2>1, <2>3, <2>4, QuietStep
<1>4. QED
  BY <1>2, <1>3

-----------------------------------------------------------------------------
(* The steps that count references.                                        *)

\* A deleted document has no reference.
LEMMA DeletedUnreferenced ==
  ASSUME CountingInv, NEW d \in Document, document[d].flags = "none"
  PROVE  SumOver(Threads, HeldOf(d)) = 0 /\ Reusers(d) = {} /\ Cardinality(Reusers(d)) = 0
<1>1. document[d].refCount = 0 /\ References(d) <= document[d].refCount
  BY DEF CountingInv, NoneCounted, Counted
<1>2. /\ SumOver(Threads, HeldOf(d)) \in Nat /\ Cardinality(Reusers(d)) \in Nat
      /\ Reusers(d) # {} => Cardinality(Reusers(d)) >= 1
  BY ReferencesNumber DEF CountingInv, Types
<1>3. QED
  BY <1>1, <1>2 DEF References

\* A reusable document that is counted once is used by no thread, and can be
\* reused from one branch.
LEMMA ReusableAlone ==
  ASSUME CountingInv, NEW b \in Branch, reusable[b] # NoDocument,
         document[reusable[b]].refCount = 1
  PROVE  /\ reusable[b] \in Document
         /\ SumOver(Threads, HeldOf(reusable[b])) = 0
         /\ Reusers(reusable[b]) = {b}
<1> DEFINE d == reusable[b]
           sharing == Reusers(d)
<1>1. d \in Document
  BY DEF CountingInv, Types, ReusableType
<1>2. b \in sharing
  BY DEF Reusers
<1>3. /\ SumOver(Threads, HeldOf(d)) \in Nat
      /\ IsFiniteSet(sharing) /\ Cardinality(sharing) \in Nat
      /\ sharing # {} => Cardinality(sharing) >= 1
  BY <1>1, ReferencesNumber DEF CountingInv, Types
<1>4. References(d) <= 1
  BY <1>1 DEF CountingInv, Counted
<1>5. SumOver(Threads, HeldOf(d)) = 0 /\ Cardinality(sharing) = 1
  BY <1>2, <1>3, <1>4 DEF References
<1>6. IsFiniteSet(sharing \ {b}) /\ Cardinality(sharing \ {b}) = 0
  <2>1. Cardinality(sharing \ {b}) = Cardinality(sharing) - 1 /\ IsFiniteSet(sharing \ {b})
    BY <1>2, <1>3, FS_RemoveElement
  <2>2. QED
    BY <1>5, <2>1
<1>7. sharing \ {b} = {}
  BY <1>6, FS_EmptySet
<1>8. QED
  BY <1>1, <1>2, <1>5, <1>7

\* A branch less, a reference less.
LEMMA FewerReusers ==
  ASSUME HeldType, NEW d \in Document, Reusers(d)' \subseteq Reusers(d)
  PROVE  Cardinality(Reusers(d)') \in Nat /\ Cardinality(Reusers(d)') <= Cardinality(Reusers(d))
<1>1. IsFiniteSet(Reusers(d))
  BY ReferencesNumber
<1>2. QED
  BY <1>1, FS_Subset, FS_CardinalityType

\* A thread t that now holds document d n times.
LEMMA HeldMoves ==
  ASSUME HeldType, NEW t \in Threads, NEW d \in Document, NEW n \in 0 .. MaxHeld,
         held' = [held EXCEPT ![t][d] = n]
  PROVE  /\ HeldType'
         /\ SumOver(Threads, HeldOf(d)') = SumOver(Threads, HeldOf(d)) - held[t][d] + n
         /\ \A e \in Document \ {d} : HeldOf(e)' = HeldOf(e)
         /\ \A u \in Threads \ {t} : held'[u] = held[u]
<1>1. HeldType'
  BY DEF HeldType
<1>2. /\ \A u \in Threads, e \in Document :
           held'[u][e] = IF u = t /\ e = d THEN n ELSE held[u][e]
      /\ \A u \in Threads \ {t} : held'[u] = held[u]
  BY DEF HeldType
<1>3. \A e \in Document \ {d} : HeldOf(e)' = HeldOf(e)
  BY <1>2 DEF HeldOf
<1>4. SumOver(Threads, HeldOf(d)') = SumOver(Threads, HeldOf(d)) - held[t][d] + n
  <2> DEFINE before == HeldOf(d)
             after == HeldOf(d)'
  <2>1. before \in Terms(Threads, MaxHeld) /\ after \in Terms(Threads, MaxHeld)
    BY <1>1 DEF HeldType, HeldOf, Terms
  <2>2. (\A u \in Threads \ {t} : after[u] = before[u]) /\ after[t] = n /\ before[t] = held[t][d]
    BY <1>2 DEF HeldOf
  <2>3. SumOver(Threads, after) = SumOver(Threads, before) - before[t] + after[t]
    BY <2>1, <2>2, Finite, SumChange, ThreadsAssumption
  <2>4. QED
    BY <2>2, <2>3
<1>5. QED
  BY <1>1, <1>2, <1>3, <1>4

\* A step of t that keeps the types, the counts and its own call.
LEMMA CountingStep ==
  ASSUME CountingInv, NEW t \in Threads, HeldType', DocumentType', ReusableType', BranchType',
         call' = [call EXCEPT ![t] = call'[t]], CallSound(t)',
         \A u \in Threads \ {t} : held'[u] = held[u],
         NoneCounted', Counted'
  PROVE  CountingInv'
<1>1. CallType' /\ \A u \in Threads \ {t} : CallSound(u)'
  BY OthersSound
<1>2. QED
  BY <1>1 DEF CountingInv, Types

\* A thread counts the reference it was given.
LEMMA IncrementCounted ==
  ASSUME CountingInv, NEW t \in Threads, IncrementRefCount(t)
  PROVE  CountingInv'
<1>1. /\ CallType /\ CallSound(t) /\ HeldType /\ DocumentType /\ ReusableType /\ BranchType
      /\ NoneCounted /\ Counted
  BY DEF CountingInv, Types
<1>2. PICK d \in Document :
      /\ d = call[t].doc /\ document[d].flags # "none" /\ call[t].step = "opened"
      /\ document' = [document EXCEPT ![d].refCount = @ + 1]
      /\ held' = [held EXCEPT ![t][d] = @ + 1]
      /\ UNCHANGED <<reusable, nextBranchId, branchMap>>
  BY DEF IncrementRefCount, Alive, branches
<1> DEFINE n == held[t][d] + 1
<1>3. n \in 0 .. MaxHeld
  <2>1. Using(t) < MaxHeld /\ Using(t) \in Nat /\ held[t][d] <= Using(t)
    BY <1>1, <1>2, HeldWithinUse, InUseMeant DEF CallSound, Using
  <2>2. held[t][d] \in Nat /\ MaxHeld \in Nat
    BY <1>1, <1>2, Finite DEF HeldType
  <2>3. QED
    BY <2>1, <2>2
<1>4. held' = [held EXCEPT ![t][d] = n]
  BY <1>1, <1>2 DEF HeldType
<1>5. /\ HeldType'
      /\ SumOver(Threads, HeldOf(d)') = SumOver(Threads, HeldOf(d)) + 1
      /\ \A e \in Document \ {d} : HeldOf(e)' = HeldOf(e)
      /\ \A u \in Threads \ {t} : held'[u] = held[u]
  <2>1. /\ HeldType'
        /\ SumOver(Threads, HeldOf(d)') = SumOver(Threads, HeldOf(d)) - held[t][d] + n
        /\ \A e \in Document \ {d} : HeldOf(e)' = HeldOf(e)
        /\ \A u \in Threads \ {t} : held'[u] = held[u]
    BY <1>1, <1>2, <1>3, <1>4, HeldMoves, ZenonT(60)
  <2>2. SumOver(Threads, HeldOf(d)) \in Nat /\ held[t][d] \in Nat
    BY <1>1, <1>2, ReferencesNumber DEF HeldType
  <2>3. QED
    BY <2>1, <2>2
<1>6. /\ DocumentType' /\ document'[d].refCount = document[d].refCount + 1
      /\ \A e \in Document : document'[e].flags = document[e].flags
      /\ \A e \in Document \ {d} : document'[e] = document[e]
  BY <1>1, <1>2 DEF DocumentType
<1>7. NoneCounted'
  BY <1>1, <1>2, <1>6 DEF NoneCounted
<1>8. Counted'
  <2>1. ASSUME NEW e \in Document PROVE References(e)' <= document'[e].refCount
    <3>1. References(e) <= document[e].refCount /\ Reusers(e)' = Reusers(e)
      BY <1>1, <1>2 DEF Counted, Reusers
    <3>2. CASE e = d
      <4>1. /\ SumOver(Threads, HeldOf(d)) \in Nat /\ Cardinality(Reusers(d)) \in Nat
            /\ document[d].refCount \in Nat
        BY <1>1, <1>2, ReferencesNumber DEF DocumentType
      <4>2. QED
        BY <1>5, <1>6, <3>1, <3>2, <4>1 DEF References
    <3>3. CASE e # d
      BY <1>5, <1>6, <3>1, <3>3 DEF References
    <3>4. QED
      BY <3>2, <3>3
  <2>2. QED
    BY <2>1 DEF Counted
<1>9. CallSound(t)' /\ call' = [call EXCEPT ![t] = call'[t]]
  <2>1. \/ call' = [call EXCEPT ![t].step = "lock", ![t].branch = BranchOf(d)]
        \/ call' = [call EXCEPT ![t] = Idle]
    BY <1>2 DEF IncrementRefCount, Return
  <2>2. CASE call' = [call EXCEPT ![t].step = "lock", ![t].branch = BranchOf(d)]
    <3>1. "lock" \in Steps \ {"openWrite", "opened", "release"}
      BY DEF Steps
    <3>2. QED
      BY <1>1, <2>2, <3>1, CallGoesOn
  <2>3. CASE call' = [call EXCEPT ![t] = Idle]
    BY <1>1, <2>3, IdleSound DEF CallType
  <2>4. QED
    BY <2>1, <2>2, <2>3
<1>10. ReusableType' /\ BranchType'
  BY <1>1, <1>2 DEF ReusableType, BranchType
<1>11. QED
  BY <1>5, <1>6, <1>7, <1>8, <1>9, <1>10, CountingStep

\* A thread gives up its reference, with the document if it is the last one.
LEMMA ReleaseCounted ==
  ASSUME CountingInv, NEW t \in Threads, ReleaseDocument(t)
  PROVE  CountingInv'
<1>1. /\ CallType /\ CallSound(t) /\ HeldType /\ DocumentType /\ ReusableType /\ BranchType
      /\ NoneCounted /\ Counted
  BY DEF CountingInv, Types
<1>2. PICK d \in Document : d = call[t].doc /\ held[t][d] > 0
  BY <1>1 DEF ReleaseDocument, CallSound
<1>3. /\ UNCHANGED reusable
      /\ ReusableType' /\ BranchType'
      /\ \A e \in Document : Reusers(e)' = Reusers(e)
  <2>1. UNCHANGED reusable /\ nextBranchId' = nextBranchId /\ branchMap' \subseteq branchMap
    BY DEF ReleaseDocument, RemoveBranches, branches
  <2>2. QED
    BY <1>1, <2>1 DEF ReusableType, BranchType, Reusers
<1>4. /\ held[t][d] \in Nat /\ held[t][d] <= MaxHeld /\ MaxHeld \in Nat
      /\ SumOver(Threads, HeldOf(d)) \in Nat /\ Cardinality(Reusers(d)) \in Nat
      /\ held[t][d] <= SumOver(Threads, HeldOf(d))
      /\ SumOver(Threads, HeldOf(d)) + Cardinality(Reusers(d)) <= document[d].refCount
      /\ document[d].refCount \in Nat
  BY <1>1, <1>2, ReferencesNumber, Finite DEF HeldType, DocumentType, Counted, References
<1>5. CASE document[d].refCount > 1 /\ call' = [call EXCEPT ![t] = Idle]
           /\ document' = [document EXCEPT ![d].refCount = @ - 1]
           /\ held' = [held EXCEPT ![t][d] = @ - 1]
  <2> DEFINE n == held[t][d] - 1
  <2>1. n \in 0 .. MaxHeld
    BY <1>2, <1>4
  <2>2. held' = [held EXCEPT ![t][d] = n]
    BY <1>1, <1>5 DEF HeldType
  <2>3. /\ HeldType'
        /\ SumOver(Threads, HeldOf(d)') = SumOver(Threads, HeldOf(d)) - held[t][d] + n
        /\ \A e \in Document \ {d} : HeldOf(e)' = HeldOf(e)
        /\ \A u \in Threads \ {t} : held'[u] = held[u]
    BY <1>1, <2>1, <2>2, HeldMoves
  <2>4. /\ DocumentType' /\ document'[d].refCount = document[d].refCount - 1
        /\ \A e \in Document : document'[e].flags = document[e].flags
        /\ \A e \in Document \ {d} : document'[e] = document[e]
    BY <1>1, <1>4, <1>5 DEF DocumentType
  <2>5. NoneCounted'
    BY <1>1, <1>5, <2>4 DEF NoneCounted
  <2>6. Counted'
    <3>1. References(d)' <= document'[d].refCount
      BY <1>3, <1>4, <2>3, <2>4 DEF References
    <3>2. \A e \in Document \ {d} : References(e)' <= document'[e].refCount
      BY <1>1, <1>3, <2>3, <2>4 DEF References, Counted
    <3>3. QED
      BY <3>1, <3>2 DEF Counted
  <2>7. CallSound(t)' /\ call' = [call EXCEPT ![t] = call'[t]]
    BY <1>1, <1>5, IdleSound DEF CallType
  <2>8. QED
    BY <1>3, <2>3, <2>4, <2>5, <2>6, <2>7, CountingStep
<1>6. CASE document[d].refCount = 1 /\ call' = [call EXCEPT ![t] = Idle]
           /\ document' = [document EXCEPT ![d] = Unused]
           /\ held' = [held EXCEPT ![t][d] = 0]
  <2>1. 0 \in 0 .. MaxHeld
    BY <1>4
  <2>2. /\ HeldType'
        /\ SumOver(Threads, HeldOf(d)') = SumOver(Threads, HeldOf(d)) - held[t][d] + 0
        /\ \A e \in Document \ {d} : HeldOf(e)' = HeldOf(e)
        /\ \A u \in Threads \ {t} : held'[u] = held[u]
    BY <1>1, <1>6, <2>1, HeldMoves
  <2>3. /\ DocumentType' /\ document'[d].refCount = 0
        /\ \A e \in Document \ {d} : document'[e] = document[e]
    BY <1>1, <1>6 DEF DocumentType, Unused, NoDocument
  <2>4. NoneCounted'
    BY <1>1, <2>3 DEF NoneCounted
  <2>5. Counted'
    <3>1. References(d)' <= document'[d].refCount
      BY <1>2, <1>3, <1>4, <1>6, <2>2, <2>3 DEF References
    <3>2. \A e \in Document \ {d} : References(e)' <= document'[e].refCount
      BY <1>1, <1>3, <2>2, <2>3 DEF References, Counted
    <3>3. QED
      BY <3>1, <3>2 DEF Counted
  <2>6. CallSound(t)' /\ call' = [call EXCEPT ![t] = call'[t]]
    BY <1>1, <1>6, IdleSound DEF CallType
  <2>7. QED
    BY <1>3, <2>2, <2>3, <2>4, <2>5, <2>6, CountingStep
<1>7. CASE UNCHANGED <<document, held, call>>
  <2>1. CallSound(t)'
    BY <1>1, <1>7 DEF CallSound, Using, HeldBy
  <2>2. QED
    BY <1>1, <1>3, <1>7, <2>1, QuietStep DEF CallType
<1>8. QED
  BY <1>2, <1>5, <1>6, <1>7 DEF ReleaseDocument, SetDocuments, Return, threads

\* The garbage collector deletes documents that nobody holds.
LEMMA CollectCounted ==
  ASSUME CountingInv, Collect
  PROVE  CountingInv'
<1> DEFINE collected == {b \in branchMap : Collectable(b)}
           deleted == {reusable[b] : b \in collected}
<1>1. /\ CallType /\ HeldType /\ DocumentType /\ ReusableType /\ BranchType
      /\ NoneCounted /\ Counted /\ \A t \in Threads : CallSound(t)
  BY DEF CountingInv, Types
<1>2. /\ UNCHANGED <<held, call, nextBranchId, branchMap>>
      /\ reusable' = [b \in Branch |-> IF b \in collected THEN NoDocument ELSE reusable[b]]
      /\ document' = [d \in Document |-> IF d \in deleted THEN Unused ELSE document[d]]
  BY DEF Collect, SetDocuments, threads, branches
<1>3. HeldType' /\ CallType' /\ BranchType' /\ \A t \in Threads : CallSound(t)'
  BY <1>1, <1>2 DEF HeldType, CallType, BranchType, CallSound, Using, HeldBy
<1>4. ReusableType'
  BY <1>1, <1>2 DEF ReusableType
<1>5. DocumentType' /\ NoneCounted'
  BY <1>1, <1>2 DEF DocumentType, NoneCounted, Unused
<1>6. Counted'
  <2>1. SUFFICES ASSUME NEW d \in Document
                 PROVE  References(d)' <= document'[d].refCount
    BY DEF Counted
  <2>2. HeldOf(d)' = HeldOf(d)
    BY <1>2 DEF HeldOf
  <2>3. CASE d \in deleted
    <3>1. PICK b \in collected : d = reusable[b]
      BY <2>3
    <3>2. b \in Branch /\ reusable[b] # NoDocument /\ document[reusable[b]].refCount = 1
      BY <1>1, <3>1 DEF Collectable, BranchType
    <3>3. SumOver(Threads, HeldOf(d)) = 0 /\ Reusers(d) = {b}
      BY <3>1, <3>2, ReusableAlone
    <3>4. Reusers(d)' = {}
      BY <1>2, <3>1, <3>2, <3>3, Finite DEF Reusers
    <3>5. References(d)' = 0
      BY <2>2, <3>3, <3>4, FS_EmptySet DEF References
    <3>6. document'[d].refCount = 0
      BY <1>2, <2>3 DEF Unused
    <3>7. QED
      BY <3>5, <3>6
  <2>4. CASE d \notin deleted
    <3>1. Reusers(d)' \subseteq Reusers(d)
      BY <1>2, Finite DEF Reusers
    <3>2. Cardinality(Reusers(d)') \in Nat /\ Cardinality(Reusers(d)') <= Cardinality(Reusers(d))
      BY <1>1, <3>1, FewerReusers
    <3>3. /\ SumOver(Threads, HeldOf(d)) \in Nat /\ Cardinality(Reusers(d)) \in Nat
          /\ document[d].refCount \in Nat
      BY <1>1, ReferencesNumber DEF DocumentType
    <3>4. References(d) <= document[d].refCount /\ document'[d] = document[d]
      BY <1>1, <1>2, <2>4 DEF Counted
    <3>5. QED
      BY <2>2, <3>2, <3>3, <3>4 DEF References
  <2>5. QED
    BY <2>3, <2>4
<1>7. QED
  BY <1>3, <1>4, <1>5, <1>6 DEF CountingInv, Types

-----------------------------------------------------------------------------
(* The steps that open a document.                                         *)

\* A document has a place left when FreeNumbers says so: Min() chooses one.
LEMMA MinChooses ==
  ASSUME NEW S \in SUBSET Document, S # {}
  PROVE  Min(S) \in S
<1> DEFINE upTo(m) == {z \in S : z <= m}
           segments == {upTo(m) : m \in S}
<1>1. IsFiniteSet(S) /\ S \subseteq Nat
  BY Finite, FS_Subset
<1>2. segments \subseteq FiniteSubsetsOf(S) /\ segments # {}
  <2>1. segments \subseteq SUBSET S /\ segments # {}
    OBVIOUS
  <2>2. FiniteSubsetsOf(S) = SUBSET S
    BY <1>1, FS_FiniteSubsetsOfFinite
  <2>3. QED
    BY <2>1, <2>2
<1>3. PICK T \in segments : \A U \in segments : ~(<<U, T>> \in StrictSubsetOrdering(S))
  BY <1>2, FS_StrictSubsetOrderingWellFounded, WFMin
<1>4. PICK x \in S : T = upTo(x)
  BY <1>3
<1>5. ASSUME NEW y \in S PROVE x <= y
  <2>1. SUFFICES ASSUME y < x PROVE FALSE
    BY <1>1
  <2>2. x \in Nat /\ y \in Nat /\ \A z \in S : z \in Nat /\ (z <= y => z <= x)
    BY <1>1, <2>1
  <2>3. upTo(y) \subseteq upTo(x) /\ x \in upTo(x) /\ x \notin upTo(y)
    <3>1. x <= x /\ ~(x <= y)
      BY <2>1, <2>2
    <3>2. QED
      BY <2>2, <3>1, Zenon
  <2>4. <<upTo(y), upTo(x)>> \in StrictSubsetOrdering(S)
    <3>1. upTo(y) \in SUBSET S /\ upTo(x) \in SUBSET S /\ upTo(y) # upTo(x)
      BY <2>3
    <3>2. QED
      BY <2>3, <3>1 DEF StrictSubsetOrdering
  <2>5. upTo(y) \in segments
    BY <1>5
  <2>6. QED
    BY <1>3, <1>4, <2>4, <2>5
<1>6. QED
  BY <1>5 DEF Min

LEMMA OpenWriteCounted ==
  ASSUME CountingInv, NEW t \in Threads, OpenWrite(t)
  PROVE  CountingInv'
<1>1. /\ CallType /\ CallSound(t) /\ HeldType /\ DocumentType /\ ReusableType /\ BranchType
      /\ NoneCounted /\ Counted
  BY DEF CountingInv, Types
<1>2. PICK d \in FreeNumbers, a \in Allocator :
      /\ document' = [document EXCEPT ![d] =
                       [flags |-> call[t].flags, allocator |-> a, refCount |-> 0]]
      /\ call' = [call EXCEPT ![t] =
           [Idle EXCEPT !.step = "opened", !.doc = d, !.flags = call[t].flags]]
  BY DEF OpenWrite, SetDocuments, FreeAllocators
<1>3. UNCHANGED <<held, reusable, nextBranchId, branchMap>> /\ call[t].step = "openWrite"
  BY DEF OpenWrite, branches
<1>4. d \in Document /\ document[d].flags = "none"
  BY <1>2 DEF FreeNumbers, Alive
<1>5. call[t].flags \in OpenFlags \cup {"none"} /\ Using(t) < MaxHeld
  BY <1>1, <1>3 DEF CallSound
<1>6. /\ DocumentType' /\ document'[d].refCount = 0
      /\ \A e \in Document \ {d} : document'[e] = document[e]
  BY <1>1, <1>2, <1>4, <1>5 DEF DocumentType
<1>7. NoneCounted'
  BY <1>1, <1>6 DEF NoneCounted
<1>8. Counted'
  <2>1. \A e \in Document : HeldOf(e)' = HeldOf(e) /\ Reusers(e)' = Reusers(e)
    BY <1>3 DEF HeldOf, Reusers
  <2>2. References(d)' <= document'[d].refCount
    BY <1>4, <1>6, <2>1, DeletedUnreferenced DEF References
  <2>3. QED
    BY <1>1, <1>6, <2>1, <2>2 DEF Counted, References
<1>9. HeldType' /\ ReusableType' /\ BranchType' /\ Using(t)' = Using(t)
  BY <1>1, <1>3 DEF HeldType, ReusableType, BranchType, Using, HeldBy
<1>10. CallSound(t)' /\ call' = [call EXCEPT ![t] = call'[t]]
  BY <1>1, <1>2, <1>4, <1>5, <1>9 DEF CallSound, CallType, Steps, Idle
<1>11. QED
  BY <1>3, <1>6, <1>7, <1>8, <1>9, <1>10, CountingStep

\* A new document may become the reusable document of its branch, and have the
\* one it replaces deleted.
LEMMA InstanciateCounted ==
  ASSUME CountingInv, NEW b \in Branch, NEW p, NEW d \in FreeNumbers, NEW a \in Allocator,
         NEW flags \in OpenFlags, InstanciateDocument(b, p, d, a, flags), UNCHANGED held
  PROVE  DocumentType' /\ ReusableType' /\ NoneCounted' /\ Counted'
<1> DEFINE kept == SetsReusable(b, p, flags)
           deleted == IF kept /\ Collectable(b) THEN {reusable[b]} ELSE {}
           count == IF kept THEN 1 ELSE 0
<1>1. /\ HeldType /\ DocumentType /\ ReusableType /\ NoneCounted /\ Counted
  BY DEF CountingInv, Types
<1>2. /\ document' = [e \in Document |->
           IF e = d THEN [flags |-> flags, allocator |-> a, refCount |-> count]
           ELSE IF e \in deleted THEN Unused
           ELSE document[e]]
      /\ reusable' = [reusable EXCEPT ![b] = IF kept THEN d ELSE @]
  BY DEF InstanciateDocument, SetDocuments
<1>3. d \in Document /\ document[d].flags = "none" /\ flags # "none"
  BY DEF FreeNumbers, Alive, UsesAssumption, AllFlags
<1>4. DocumentType'
  BY <1>1, <1>2, <1>3 DEF DocumentType, Unused
<1>5. NoneCounted'
  BY <1>1, <1>2, <1>3 DEF NoneCounted, Unused
<1>6. ReusableType'
  BY <1>1, <1>2, <1>3 DEF ReusableType
<1>7. Counted'
  <2>1. SUFFICES ASSUME NEW e \in Document
                 PROVE  References(e)' <= document'[e].refCount
    BY DEF Counted
  <2>2. HeldOf(e)' = HeldOf(e)
    BY DEF HeldOf
  <2>3. /\ SumOver(Threads, HeldOf(e)) \in Nat /\ Cardinality(Reusers(e)) \in Nat
        /\ document[e].refCount \in Nat /\ References(e) <= document[e].refCount
    BY <1>1, ReferencesNumber DEF DocumentType, Counted
  <2>4. CASE e = d
    <3>1. SumOver(Threads, HeldOf(d)) = 0 /\ Reusers(d) = {} /\ Cardinality(Reusers(d)) = 0
      BY <1>3, DeletedUnreferenced
    <3>2. document'[d].refCount = count
      BY <1>2, <1>3
    <3>3. CASE kept
      <4>1. Reusers(d)' = {b}
        BY <1>1, <1>2, <3>1, <3>3 DEF Reusers, ReusableType
      <4>2. Cardinality(Reusers(d)') = 1 /\ HeldOf(d)' = HeldOf(d)
        BY <2>2, <2>4, <4>1, FS_Singleton
      <4>3. References(d)' = 1
        BY <3>1, <4>2 DEF References
      <4>4. QED
        BY <2>4, <3>2, <3>3, <4>3
    <3>4. CASE ~kept
      <4>1. Reusers(d)' = Reusers(d)
        BY <1>1, <1>2, <3>4 DEF Reusers, ReusableType
      <4>2. References(d)' = 0
        BY <2>2, <2>4, <3>1, <4>1 DEF References
      <4>3. QED
        BY <2>4, <3>2, <3>4, <4>2
    <3>5. QED
      BY <3>3, <3>4
  <2>5. CASE e # d /\ e \in deleted
    <3>1. kept /\ e = reusable[b] /\ e # NoDocument /\ document[reusable[b]].refCount = 1
      BY <2>5 DEF Collectable
    <3>2. SumOver(Threads, HeldOf(e)) = 0 /\ Reusers(e) = {b}
      BY <3>1, ReusableAlone
    <3>3. Reusers(e)' = {}
      BY <1>1, <1>2, <2>5, <3>1, <3>2 DEF Reusers, ReusableType
    <3>4. References(e)' = 0
      BY <2>2, <3>2, <3>3, FS_EmptySet DEF References
    <3>5. document'[e].refCount = 0
      BY <1>2, <2>5 DEF Unused
    <3>6. QED
      BY <3>4, <3>5
  <2>6. CASE e # d /\ e \notin deleted
    <3>1. Reusers(e)' \subseteq Reusers(e)
      BY <1>1, <1>2, <2>6 DEF Reusers, ReusableType
    <3>2. Cardinality(Reusers(e)') \in Nat /\ Cardinality(Reusers(e)') <= Cardinality(Reusers(e))
      BY <1>1, <3>1, FewerReusers
    <3>3. document'[e] = document[e]
      BY <1>2, <2>6
    <3>4. QED
      BY <2>2, <2>3, <3>2, <3>3 DEF References
  <2>7. QED
    BY <2>4, <2>5, <2>6
<1>8. QED
  BY <1>4, <1>5, <1>6, <1>7

LEMMA OpenReadCounted ==
  ASSUME CountingInv, NEW t \in Threads, NEW b \in Branch, NEW asked \in Page,
         NEW flags \in OpenFlags, OpenRead(t, b, asked, flags)
  PROVE  CountingInv'
<1> DEFINE p == LookupRevision(asked, flags)
<1>1. CallType /\ HeldType /\ DocumentType /\ ReusableType /\ BranchType
  BY DEF CountingInv, Types
<1>2. /\ UNCHANGED <<held, nextBranchId, branchMap>> /\ InUse(t) < MaxHeld
  BY DEF OpenRead, branches
<1>3. PICK d \in Document :
      /\ call' = [call EXCEPT ![t] = [Idle EXCEPT !.step = "opened", !.doc = d, !.flags = flags]]
      /\ \/ UNCHANGED documents
         \/ /\ FreeNumbers # {} /\ d = Min(FreeNumbers)
            /\ \E a \in Allocator : InstanciateDocument(b, p, d, a, flags)
  BY DEF OpenRead
<1>4. HeldType' /\ BranchType' /\ Using(t)' = Using(t) /\ Using(t) < MaxHeld
  BY <1>1, <1>2, InUseMeant DEF HeldType, BranchType, Using, HeldBy
<1>5. CallSound(t)' /\ call' = [call EXCEPT ![t] = call'[t]]
  BY <1>1, <1>3, <1>4 DEF CallSound, CallType, Steps, Idle
<1>6. CASE UNCHANGED documents
  BY <1>2, <1>4, <1>5, <1>6, QuietStep DEF documents
<1>7. CASE /\ FreeNumbers # {} /\ d = Min(FreeNumbers)
           /\ \E a \in Allocator : InstanciateDocument(b, p, d, a, flags)
  <2>1. d \in FreeNumbers
    <3>1. FreeNumbers \in SUBSET Document
      BY DEF FreeNumbers
    <3>2. QED
      BY <1>7, <3>1, MinChooses
  <2>2. DocumentType' /\ ReusableType' /\ NoneCounted' /\ Counted'
    BY <1>2, <1>7, <2>1, InstanciateCounted
  <2>3. QED
    BY <1>2, <1>4, <1>5, <2>2, CountingStep
<1>8. QED
  BY <1>3, <1>6, <1>7

-----------------------------------------------------------------------------

LEMMA CountingInit == Init => CountingInv
<1> SUFFICES ASSUME Init PROVE CountingInv
  OBVIOUS
<1>1. /\ HeldType /\ DocumentType /\ ReusableType /\ CallType
      /\ \A t \in Threads : call[t] = Idle
      /\ \A d \in Document : document[d] = Unused /\ HeldOf(d) = [t \in Threads |-> 0]
  <2>1. 0 \in 0 .. MaxHeld /\ 0 \in Nat
    BY Finite
  <2>2. HeldType /\ \A d \in Document : HeldOf(d) = [t \in Threads |-> 0]
    BY <2>1 DEF Init, HeldType, HeldOf
  <2>3. DocumentType /\ \A d \in Document : document[d] = Unused
    BY <2>1 DEF Init, DocumentType, Unused
  <2>4. ReusableType
    BY DEF Init, ReusableType
  <2>5. CallType /\ \A t \in Threads : call[t] = Idle
    BY DEF Init, CallType
  <2>6. QED
    BY <2>2, <2>3, <2>4, <2>5
<1>2. BranchType
  <2>1. InitialBranches \in Nat /\ InitialBranches <= MaxBranches /\ MaxBranches \in Nat
    BY DEF BoundsAssumption
  <2>2. InitialBranches + 1 \in Nat \ {0} /\ 1 .. InitialBranches \subseteq 1 .. MaxBranches
    BY <2>1
  <2>3. QED
    BY <2>2 DEF Init, BranchType, Branch
<1>3. \A t \in Threads : CallSound(t)
  BY <1>1 DEF CallSound, Idle, Steps
<1>4. NoneCounted
  BY <1>1 DEF NoneCounted, Unused
<1>5. Counted
  <2>1. SUFFICES ASSUME NEW d \in Document
                 PROVE  References(d) <= document[d].refCount
    BY DEF Counted
  <2>2. SumOver(Threads, HeldOf(d)) = 0
    BY <1>1, SumOfZeros, ThreadsAssumption
  <2>3. Reusers(d) = {}
    BY Finite DEF Init, Reusers
  <2>4. QED
    BY <1>1, <2>2, <2>3, FS_EmptySet DEF References, Unused
<1>6. QED
  BY <1>1, <1>2, <1>3, <1>4, <1>5 DEF CountingInv, Types

LEMMA CountingNext == CountingInv /\ [Next]_vars => CountingInv'
<1> SUFFICES ASSUME CountingInv, [Next]_vars PROVE CountingInv'
  OBVIOUS
<1>1. CASE Collect
  BY <1>1, CollectCounted
<1>2. ASSUME NEW t \in Threads, Proceed(t) PROVE CountingInv'
  BY <1>2, OpenWriteCounted, IncrementCounted, ReleaseCounted, QuietProceed DEF Proceed
<1>3. ASSUME NEW t \in Threads, Open(t) PROVE CountingInv'
  BY <1>3, QuietOpen, OpenReadCounted DEF Open
<1>4. ASSUME NEW t \in Threads, NEW d \in Document, UseDocument(t, d) PROVE CountingInv'
  BY <1>4, QuietUse
<1>5. CASE UNCHANGED vars
  <2>1. UNCHANGED <<held, document, reusable, nextBranchId, branchMap, call>>
    BY <1>5 DEF vars, threads, documents, branches
  <2>2. /\ HeldType' /\ DocumentType' /\ ReusableType' /\ BranchType' /\ CallType'
        /\ NoneCounted' /\ \A t \in Threads : CallSound(t)'
    BY <2>1 DEF CountingInv, Types, HeldType, DocumentType, ReusableType, BranchType, CallType,
                NoneCounted, CallSound, Using, HeldBy
  <2>3. Counted'
    BY <2>1 DEF CountingInv, Counted, References, HeldOf, Reusers
  <2>4. QED
    BY <2>2, <2>3 DEF CountingInv, Types
<1>6. QED
  BY <1>1, <1>2, <1>3, <1>4, <1>5 DEF Next

LEMMA CountingMeans == CountingInv => ReferencesCounted
<1> SUFFICES ASSUME CountingInv, NEW d \in Document
             PROVE  MapThenSumSet(LAMBDA t : held[t][d], Threads) +
                      Cardinality({b \in Branch : reusable[b] = d}) <= document[d].refCount
  BY DEF ReferencesCounted
<1>1. References(d) <= document[d].refCount
  BY DEF CountingInv, Counted
<1>2. MapThenSumSet(LAMBDA t : held[t][d], Threads) = SumOver(Threads, HeldOf(d))
  BY ReferencesMeant
<1>3. QED
  BY <1>1, <1>2 DEF References, Reusers

\* A document is counted as many times as it is referenced, whatever the threads
\* open, share, fork, release and collect: Document::incrementRefCount(),
\* Store::releaseDocument() and cleanupReusableDocument() delete no document in
\* use.
THEOREM EveryReferenceCounted == Spec => []ReferencesCounted
<1>1. Init => CountingInv
  BY CountingInit
<1>2. CountingInv /\ [Next]_vars => CountingInv'
  BY CountingNext
<1>3. CountingInv => ReferencesCounted
  BY CountingMeans
<1>4. QED
  BY <1>1, <1>2, <1>3, PTL DEF Spec

-----------------------------------------------------------------------------
(* Who uses which document.                                                *)

PageOf(d) == revisionPage[document[d].allocator]

Reopening == {"reopen", "reopenLock", "reopenSwitch"}
Forking == {"forkLock", "forkSwitch", "forkReference"}
\* The calls made with a document that the thread holds.
Holding == Reopening \cup Forking \cup {"lock", "discard", "release"}

UsedBy(t, d) == held[t][d] > 0 \/ (call[t].step = "opened" /\ call[t].doc = d)

\* Only a document opened with ExplicitRead is used by several threads.
Alone ==
  \A d \in Alive : document[d].flags # "ExplicitRead" =>
    \A t, u \in Threads : UsedBy(t, d) /\ UsedBy(u, d) => t = u

\* Only documents that follow a branch share an allocator.
Allocated ==
  /\ \A d \in Alive : document[d].allocator \in Allocator
  /\ \A d \in Document \ Alive : document[d].allocator = NoDocument
  /\ \A d, e \in Alive : document[d].allocator = document[e].allocator =>
       d = e \/ document[d].flags = "FollowBranch"
  /\ \A a \in Allocator : revisionPage[a] # NullPage =>
       \E d \in Document : document[d].allocator = a

ReusedRead ==
  \A b \in Branch : reusable[b] # NoDocument => document[reusable[b]].flags = "ExplicitRead"

CallHolds(t) ==
  LET d == call[t].doc IN
  /\ call[t].step \in Holding => d \in Document /\ held[t][d] > 0
  /\ call[t].step \in Reopening \cup Forking => document[d].flags # "ExplicitRead"
  /\ call[t].step \in {"openWrite", "reopenLock"} => branchManager = t
  /\ call[t].step = "openWrite" => call[t].flags \in {"Write", "ResetRevision"}
  /\ call[t].step = "opened" /\ d \in Alive => document[d].flags = call[t].flags
  /\ call[t].step = "release" => d \notin granted[t]

\* A thread uses what it was granted.
GrantHeld(t) ==
  \A d \in granted[t] :
    /\ d \in Alive /\ UsedBy(t, d)
    /\ held[t][d] = 0 => document[d].flags # "ExplicitRead"

SharingInv ==
  /\ granted \in [Threads -> SUBSET Document]
  /\ Alone /\ Allocated /\ ReusedRead
  /\ \A t \in Threads : CallHolds(t) /\ GrantHeld(t)

\* What the counts are there for.
Referenced ==
  \A d \in Document :
    /\ \A t \in Threads : held[t][d] \in Nat /\ (held[t][d] > 0 => d \in Alive)
    /\ \A b \in Branch : reusable[b] = d => d \in Alive

LEMMA ReferencedAlive == CountingInv => Referenced
<1> SUFFICES ASSUME CountingInv, NEW d \in Document
             PROVE  /\ \A t \in Threads : held[t][d] \in Nat /\ (held[t][d] > 0 => d \in Alive)
                    /\ \A b \in Branch : reusable[b] = d => d \in Alive
  BY DEF Referenced
<1>1. HeldType /\ ReusableType
  BY DEF CountingInv, Types
<1>2. \A t \in Threads : held[t][d] \in Nat
  BY <1>1, Finite DEF HeldType
<1>3. ASSUME document[d].flags = "none"
      PROVE  /\ \A t \in Threads : ~(held[t][d] > 0)
             /\ \A b \in Branch : reusable[b] # d
  <2>1. SumOver(Threads, HeldOf(d)) = 0 /\ Reusers(d) = {}
    BY <1>3, DeletedUnreferenced
  <2>2. \A t \in Threads : held[t][d] <= SumOver(Threads, HeldOf(d))
    BY <1>1, ReferencesNumber
  <2>3. QED
    BY <1>2, <2>1, <2>2 DEF Reusers
<1>4. QED
  BY <1>2, <1>3 DEF Alive

LEMMA ReferencedAfter == CountingInv' => Referenced'
BY ReferencedAlive, PTL

\* What a step of t does to the documents, of which it may open a new one.
LEMMA SharingKept ==
  ASSUME CountingInv, CountingInv', SharingInv,
         NEW t \in Threads \cup {NoThread}, NEW new \in Document \cup {NoDocument},
         \A d \in Document \ {new} :
           \/ /\ document'[d].flags = document[d].flags
              /\ document'[d].allocator = document[d].allocator
           \/ document'[d] = Unused,
         \A d \in Alive : document'[d] = Unused =>
           document[d].flags = "ExplicitRead" \/ (t \in Threads /\ held[t][d] > 0),
         \A a \in Allocator : revisionPage'[a] # NullPage =>
           \E d \in Document : document'[d].allocator = a,
         \A b \in Branch :
           \/ reusable'[b] \in {reusable[b], NoDocument}
           \/ reusable'[b] = new /\ document'[new].flags = "ExplicitRead",
         \A u \in Threads \ {t} :
           call'[u] = call[u] /\ held'[u] = held[u] /\ granted'[u] = granted[u],
         branchManager' = branchManager \/ branchManager \in {NoThread, t},
         granted' \in [Threads -> SUBSET Document],
         t \in Threads =>
           /\ CallHolds(t)' /\ GrantHeld(t)'
           /\ \A d \in Alive : UsedBy(t, d)' => UsedBy(t, d) \/ document[d].flags = "ExplicitRead",
         new # NoDocument =>
           /\ new \in FreeNumbers /\ document'[new].flags # "none"
           /\ document'[new].allocator \in Allocator
           /\ \A d \in Alive : document[d].allocator = document'[new].allocator =>
                document[d].flags = "FollowBranch" /\ document'[new].flags = "FollowBranch"
  PROVE  SharingInv'
<1>1. /\ Alone /\ Allocated /\ ReusedRead
      /\ \A u \in Threads : CallHolds(u) /\ GrantHeld(u)
  BY DEF SharingInv
<1>2. NoDocument \notin Document
  BY Finite
<1>3. \A d \in Document \ {new} : d \in Alive' =>
        /\ d \in Alive /\ document'[d].flags = document[d].flags
        /\ document'[d].allocator = document[d].allocator
  BY DEF Alive, Unused
<1>4. new # NoDocument => /\ new \in Document /\ new \notin Alive
                          /\ \A u \in Threads : call[u].doc # new /\ held[u][new] = 0
  BY DEF FreeNumbers
<1>5. \A u \in Threads, d \in Document : /\ held'[u][d] \in Nat /\ held[u][d] \in Nat
                                         /\ held'[u][d] > 0 => d \in Alive'
                                         /\ held[u][d] > 0 => d \in Alive
  BY ReferencedAlive, ReferencedAfter DEF Referenced
<1>6. Alone'
  <2>1. SUFFICES ASSUME NEW d \in Alive', document'[d].flags # "ExplicitRead",
                        NEW u \in Threads, NEW v \in Threads, UsedBy(u, d)', UsedBy(v, d)'
                 PROVE  u = v
    BY DEF Alone
  <2>2. d \in Document
    BY DEF Alive
  <2>3. CASE d = new
    <3>1. \A w \in Threads \ {t} : ~UsedBy(w, d)'
      BY <1>2, <1>4, <2>2, <2>3 DEF UsedBy
    <3>2. QED
      BY <2>1, <3>1
  <2>4. CASE d # new
    <3>1. d \in Alive /\ document[d].flags # "ExplicitRead"
      BY <1>3, <2>1, <2>2, <2>4
    <3>2. \A w \in Threads : UsedBy(w, d)' => UsedBy(w, d)
      BY <3>1 DEF UsedBy
    <3>3. QED
      BY <1>1, <2>1, <3>1, <3>2 DEF Alone
  <2>5. QED
    BY <2>3, <2>4
<1>7. Allocated'
  <2>1. \A d \in Alive' : document'[d].allocator \in Allocator
    BY <1>1, <1>2, <1>3 DEF Allocated, Alive
  <2>2. \A d \in Document \ Alive' : document'[d].allocator = NoDocument
    BY <1>1, <1>2 DEF Allocated, Alive, Unused
  <2>3. ASSUME NEW d \in Alive', NEW e \in Alive', document'[d].allocator = document'[e].allocator, d # e
        PROVE  document'[d].flags = "FollowBranch"
    <3>1. d \in Document /\ e \in Document
      BY DEF Alive
    <3>2. CASE d = new
      BY <1>2, <1>3, <2>3, <3>1, <3>2
    <3>3. CASE e = new
      BY <1>2, <1>3, <2>3, <3>1, <3>3
    <3>4. CASE d # new /\ e # new
      BY <1>1, <1>3, <2>3, <3>1, <3>4 DEF Allocated
    <3>5. QED
      BY <3>2, <3>3, <3>4
  <2>4. QED
    BY <2>1, <2>2, <2>3 DEF Allocated
<1>8. ReusedRead'
  <2>1. SUFFICES ASSUME NEW b \in Branch, reusable'[b] # NoDocument
                 PROVE  document'[reusable'[b]].flags = "ExplicitRead"
    BY DEF ReusedRead
  <2>2. ReusableType /\ ReusableType'
    BY DEF CountingInv, Types
  <2>3. reusable'[b] \in Document /\ reusable'[b] \in Alive'
    <3>1. reusable'[b] \in Document
      BY <2>1, <2>2 DEF ReusableType
    <3>2. QED
      BY <3>1, ReferencedAfter DEF Referenced
  <2>4. CASE reusable'[b] = reusable[b]
    <3>1. reusable[b] \in Alive
      BY <2>1, <2>3, <2>4, ReferencedAlive DEF Referenced
    <3>2. reusable[b] # new
      BY <1>2, <1>4, <2>3, <2>4, <3>1
    <3>3. QED
      BY <1>1, <1>3, <2>1, <2>3, <2>4, <3>2 DEF ReusedRead
  <2>5. QED
    BY <2>1, <2>4
<1>9. ASSUME NEW u \in Threads \ {t}
      PROVE  CallHolds(u)' /\ GrantHeld(u)'
  <2>1. CallHolds(u) /\ GrantHeld(u) /\ call'[u] = call[u] /\ held'[u] = held[u]
        /\ granted'[u] = granted[u] /\ u # NoThread
    BY <1>1
  <2>2. ASSUME NEW d \in Document, d \in Alive, d \in Alive'
        PROVE  document'[d].flags = document[d].flags
    BY <1>2, <1>3, <1>4, <2>2
  <2>3. CallHolds(u)'
    <3>1. call[u].step = "opened" /\ call[u].doc \in Alive' =>
            document'[call[u].doc].flags = call[u].flags
      BY <1>2, <1>3, <1>4, <2>1 DEF CallHolds, Alive
    <3>2. call[u].step \in Holding =>
            document'[call[u].doc].flags = document[call[u].doc].flags
      BY <1>5, <2>1, <2>2 DEF CallHolds
    <3>3. call[u].step \in {"openWrite", "reopenLock"} => branchManager' = u
      BY <2>1 DEF CallHolds
    <3>4. QED
      BY <2>1, <3>1, <3>2, <3>3 DEF CallHolds, Holding
  <2>4. GrantHeld(u)'
    <3>1. SUFFICES ASSUME NEW d \in granted[u]
                   PROVE  /\ d \in Alive' /\ UsedBy(u, d)'
                          /\ held'[u][d] = 0 => document'[d].flags # "ExplicitRead"
      BY <2>1 DEF GrantHeld
    <3>2. /\ d \in Alive /\ d \in Document /\ UsedBy(u, d) /\ UsedBy(u, d)'
          /\ held[u][d] = 0 => document[d].flags # "ExplicitRead"
      BY <2>1 DEF GrantHeld, Alive, UsedBy
    <3>3. d \in Alive'
      <4>1. CASE held[u][d] > 0
        BY <1>5, <2>1, <3>2, <4>1
      <4>2. CASE ~(held[u][d] > 0)
        <5>1. document[d].flags # "ExplicitRead"
          BY <1>5, <3>2, <4>2
        <5>2. document'[d] # Unused
          BY <1>1, <2>1, <3>2, <5>1 DEF Alone, UsedBy
        <5>3. QED
          BY <1>2, <1>4, <3>2, <5>2 DEF Alive
      <4>3. QED
        BY <4>1, <4>2
    <3>4. QED
      BY <2>1, <2>2, <3>2, <3>3
  <2>5. QED
    BY <2>3, <2>4
<1>10. QED
  BY <1>6, <1>7, <1>8, <1>9 DEF SharingInv

\* The call of t becomes c, those of the others go on.
Becomes(t, c) == call'[t] = c /\ \A u \in Threads \ {t} : call'[u] = call[u]

LEMMA CallReturns ==
  ASSUME CountingInv, NEW t \in Threads, NEW c, call' = [call EXCEPT ![t] = c]
  PROVE  Becomes(t, c)
BY DEF Becomes, CountingInv, Types, CallType

LEMMA CallMoves ==
  ASSUME CountingInv, NEW t \in Threads, NEW step, NEW b, NEW p,
         \/ call' = [call EXCEPT ![t].step = step, ![t].branch = b] /\ p = call[t].page
         \/ call' = [call EXCEPT ![t].step = step, ![t].page = p] /\ b = call[t].branch
         \/ call' = [call EXCEPT ![t].step = step] /\ b = call[t].branch /\ p = call[t].page
  PROVE  Becomes(t, [step |-> step, doc |-> call[t].doc, branch |-> b, page |-> p,
                     flags |-> call[t].flags])
<1>1. /\ call[t] \in [step : Steps, doc : Document \cup {NoDocument}, branch : {call[t].branch},
                      page : {call[t].page}, flags : OpenFlags \cup {"none"}]
      /\ call = [u \in Threads |-> call[u]]
  BY DEF CountingInv, Types, CallType, CallSound
<1>2. \A u \in Threads \ {t} : call'[u] = call[u]
  BY <1>1
<1>3. call'[t] = [step |-> step, doc |-> call[t].doc, branch |-> b, page |-> p,
                  flags |-> call[t].flags]
  BY <1>1, ZenonT(60)
<1>4. QED
  BY <1>2, <1>3 DEF Becomes

\* The steps that neither open nor count a document.
LEMMA SharingLeft ==
  ASSUME CountingInv, CountingInv', SharingInv, NEW t \in Threads, NEW c, Becomes(t, c),
         UNCHANGED <<document, reusable, held>>,
         \A a \in Allocator : revisionPage'[a] # NullPage =>
           revisionPage[a] # NullPage \/ \E d \in Document : document[d].allocator = a,
         NEW G, granted' = [granted EXCEPT ![t] = G],
         G \subseteq granted[t] \cup {d \in Document : held[t][d] > 0},
         branchManager' = branchManager \/ branchManager \in {NoThread, t},
         call[t].step = "opened" => c = call[t],
         c.step = "opened" => c = call[t] \/ document[c.doc].flags = "ExplicitRead",
         CallHolds(t)'
  PROVE  SharingInv'
<1>1. /\ Allocated /\ GrantHeld(t) /\ granted \in [Threads -> SUBSET Document]
  BY DEF SharingInv
<1>2. /\ granted' \in [Threads -> SUBSET Document] /\ granted'[t] = G
      /\ \A u \in Threads \ {t} : granted'[u] = granted[u]
  BY <1>1
<1>3. /\ Referenced /\ Alive' = Alive /\ call'[t] = c
      /\ \A u \in Threads \ {t} : call'[u] = call[u]
  BY ReferencedAlive DEF Alive, Becomes
<1>4. \A d \in Alive : UsedBy(t, d)' => UsedBy(t, d) \/ document[d].flags = "ExplicitRead"
  BY <1>3 DEF UsedBy
<1>5. GrantHeld(t)'
  <2>1. SUFFICES ASSUME NEW d \in G
                 PROVE  /\ d \in Alive /\ UsedBy(t, d)'
                        /\ held[t][d] = 0 => document[d].flags # "ExplicitRead"
    BY <1>2, <1>3 DEF GrantHeld
  <2>2. CASE held[t][d] > 0
    <3>1. d \in Document
      BY <1>1, <1>2
    <3>2. QED
      BY <1>3, <2>2, <3>1 DEF Referenced, UsedBy
  <2>3. CASE ~(held[t][d] > 0)
    BY <1>1, <1>3, <2>3 DEF GrantHeld, UsedBy
  <2>4. QED
    BY <2>2, <2>3
<1>6. NoDocument \in Document \cup {NoDocument} /\ t \in Threads \cup {NoThread}
  OBVIOUS
<1>7. \A a \in Allocator : revisionPage'[a] # NullPage => \E d \in Document : document'[d].allocator = a
  BY <1>1 DEF Allocated
<1>8. \A d \in Alive : document'[d] # Unused
  BY DEF Alive, Unused
<1>9. QED
  BY <1>2, <1>3, <1>4, <1>5, <1>6, <1>7, <1>8, SharingKept

LEMMA IdleHolds ==
  ASSUME NEW t \in Threads, call'[t] = Idle
  PROVE  CallHolds(t)'
BY DEF CallHolds, Idle, Holding, Reopening, Forking

LEMMA SharingProceed ==
  ASSUME CountingInv, CountingInv', SharingInv, NEW t \in Threads,
         \/ OpenWriteThrows(t) \/ IncrementRefCountOfFreed(t) \/ LockWrite(t) \/ ReopenBegin(t)
         \/ ReopenLock(t) \/ ReopenSwitch(t) \/ ForkRevision(t) \/ ForkSwitch(t) \/ ForkReference(t)
  PROVE  SharingInv'
<1> DEFINE d == call[t].doc
<1>1. UNCHANGED <<held, document, reusable>>
  BY DEF OpenWriteThrows, IncrementRefCountOfFreed, LockWrite, ReopenBegin, ReopenLock,
         ReopenSwitch, ForkRevision, ForkSwitch, ForkReference, documents, threads
<1>2. /\ Referenced /\ Allocated /\ CallHolds(t) /\ GrantHeld(t)
      /\ granted = [u \in Threads |-> granted[u]] /\ call = [u \in Threads |-> call[u]]
  BY ReferencedAlive DEF SharingInv, CountingInv, Types, CallType
<1>3. ASSUME NEW c, Becomes(t, c), UNCHANGED <<revisionPage, granted>>, CallHolds(t)',
             branchManager' = branchManager \/ branchManager \in {NoThread, t},
             call[t].step = "opened" => c = call[t],
             c.step = "opened" => c = call[t]
      PROVE  SharingInv'
  <2>1. granted' = [granted EXCEPT ![t] = granted[t]]
    BY <1>2, <1>3
  <2>2. QED
    BY <1>1, <1>3, <2>1, SharingLeft
<1>4. ASSUME NEW c, Becomes(t, c), UNCHANGED revisionPage, CallHolds(t)', Grant(t, d),
             UNCHANGED branchManager, call[t].step \in Holding, c.step # "opened"
      PROVE  SharingInv'
  <2>1. d \in Document /\ held[t][d] > 0 /\ call[t].step # "opened"
    BY <1>2, <1>4 DEF CallHolds, Holding, Reopening, Forking
  <2>2. granted' = [granted EXCEPT ![t] = granted[t] \cup {d}]
    BY <1>4 DEF Grant
  <2>3. QED
    BY <1>1, <1>4, <2>1, <2>2, SharingLeft
<1>5. CASE OpenWriteThrows(t)
  <2>1. Becomes(t, Idle)
    BY <1>5, CallReturns DEF OpenWriteThrows, Return
  <2>2. CallHolds(t)'
    BY <2>1, IdleHolds DEF Becomes
  <2>3. branchManager = t
    BY <1>2, <1>5 DEF OpenWriteThrows, CallHolds
  <2>4. QED
    BY <1>3, <1>5, <2>1, <2>2, <2>3 DEF OpenWriteThrows, documents, Idle
<1>6. CASE IncrementRefCountOfFreed(t)
  <2>1. UNCHANGED <<call, granted, revisionPage, branchManager>> /\ Becomes(t, call[t])
    BY <1>6 DEF IncrementRefCountOfFreed, threads, documents, mutexes, Becomes
  <2>2. CallHolds(t)'
    BY <1>1, <1>2, <2>1 DEF CallHolds, Alive
  <2>3. QED
    BY <1>3, <2>1, <2>2
<1>7. CASE LockWrite(t)
  <2>1. call[t].step = "lock" /\ UNCHANGED <<branchManager, revisionPage>>
    BY <1>7 DEF LockWrite, documents
  <2>2. CASE Grant(t, d) /\ Return(t)
    <3>1. Becomes(t, Idle)
      BY <2>2, CallReturns DEF Return
    <3>2. QED
      BY <1>4, <2>1, <2>2, <3>1, IdleHolds DEF Becomes, Holding, Idle
  <2>3. CASE /\ call' = [call EXCEPT ![t] = [Idle EXCEPT !.step = "discard", !.doc = d]]
             /\ UNCHANGED granted
    <3>1. Becomes(t, [Idle EXCEPT !.step = "discard", !.doc = d])
      BY <2>3, CallReturns
    <3>2. CallHolds(t)'
      BY <1>1, <1>2, <2>1, <3>1 DEF CallHolds, Becomes, Idle, Holding, Reopening, Forking
    <3>3. QED
      BY <1>3, <2>1, <2>3, <3>1, <3>2 DEF Idle
  <2>4. QED
    BY <1>7, <2>2, <2>3 DEF LockWrite
<1>8. CASE ReopenBegin(t)
  <2>1. Becomes(t, [step |-> "reopenLock", doc |-> d, branch |-> BranchOf(d), page |-> call[t].page,
                    flags |-> call[t].flags])
    BY <1>8, CallMoves DEF ReopenBegin
  <2>2. /\ call[t].step = "reopen" /\ branchManager = NoThread /\ branchManager' = t
        /\ UNCHANGED <<revisionPage, granted>>
    BY <1>8 DEF ReopenBegin, documents
  <2>3. CallHolds(t)'
    BY <1>1, <1>2, <2>1, <2>2 DEF CallHolds, Becomes, Holding, Reopening, Forking
  <2>4. QED
    BY <1>3, <2>1, <2>2, <2>3
<1>9. CASE ReopenLock(t)
  <2>1. /\ UNCHANGED <<granted, revisionPage>> /\ branchManager = t /\ call[t].step = "reopenLock"
    BY <1>2, <1>9 DEF ReopenLock, documents, CallHolds
  <2>2. CASE Return(t)
    <3>1. Becomes(t, Idle)
      BY <2>2, CallReturns DEF Return
    <3>2. QED
      BY <1>3, <2>1, <3>1, IdleHolds DEF Becomes, Idle
  <2>3. ASSUME NEW p, call' = [call EXCEPT ![t].step = "reopenSwitch", ![t].page = p]
        PROVE  SharingInv'
    <3>1. Becomes(t, [step |-> "reopenSwitch", doc |-> d, branch |-> call[t].branch, page |-> p,
                      flags |-> call[t].flags])
      BY <2>3, CallMoves
    <3>2. CallHolds(t)'
      BY <1>1, <1>2, <2>1, <3>1 DEF CallHolds, Becomes, Holding, Reopening, Forking
    <3>3. QED
      BY <1>3, <2>1, <3>1, <3>2
  <2>4. QED
    BY <1>9, <2>2, <2>3 DEF ReopenLock
<1>10. ASSUME SwitchRevisionPage(t), call[t].step \in Holding, NEW a \in Allocator,
              revisionPage'[a] # NullPage
       PROVE  revisionPage[a] # NullPage \/ \E e \in Document : document[e].allocator = a
  BY <1>2, <1>10 DEF SwitchRevisionPage, CallHolds
<1>11. CASE ReopenSwitch(t)
  <2>1. Becomes(t, Idle) /\ call[t].step = "reopenSwitch" /\ UNCHANGED branchManager
    BY <1>11, CallReturns DEF ReopenSwitch, Return, mutexes
  <2>2. call[t].step \in Holding /\ d \in Document /\ held[t][d] > 0
    BY <1>2, <2>1 DEF CallHolds, Holding, Reopening
  <2>3. granted' = [granted EXCEPT ![t] = granted[t] \cup {d}]
    BY <1>11 DEF ReopenSwitch, Grant
  <2>4. \A a \in Allocator : revisionPage'[a] # NullPage =>
          revisionPage[a] # NullPage \/ \E e \in Document : document[e].allocator = a
    BY <1>10, <1>11, <2>2 DEF ReopenSwitch
  <2>5. CallHolds(t)' /\ Idle.step = "idle"
    BY <2>1, IdleHolds DEF Becomes, Idle
  <2>6. QED
    BY <1>1, <2>1, <2>2, <2>3, <2>4, <2>5, SharingLeft
<1>12. CASE ForkRevision(t)
  <2>1. PICK p : call' = [call EXCEPT ![t].step = "forkSwitch", ![t].page = p]
    BY <1>12 DEF ForkRevision
  <2>2. Becomes(t, [step |-> "forkSwitch", doc |-> d, branch |-> call[t].branch, page |-> p,
                    flags |-> call[t].flags])
    BY <2>1, CallMoves
  <2>3. call[t].step = "forkLock" /\ UNCHANGED <<branchManager, revisionPage, granted>>
    BY <1>12 DEF ForkRevision, documents
  <2>4. CallHolds(t)'
    BY <1>1, <1>2, <2>2, <2>3 DEF CallHolds, Becomes, Holding, Reopening, Forking
  <2>5. QED
    BY <1>3, <2>2, <2>3, <2>4
<1>13. CASE ForkSwitch(t)
  <2>1. Becomes(t, [step |-> "forkReference", doc |-> d, branch |-> call[t].branch,
                    page |-> call[t].page, flags |-> call[t].flags])
    BY <1>13, CallMoves DEF ForkSwitch
  <2>2. CallHolds(t)'
    BY <1>1, <1>2, <1>13, <2>1 DEF ForkSwitch, CallHolds, Becomes, Holding, Reopening, Forking
  <2>3. call[t].step = "forkSwitch" /\ UNCHANGED <<branchManager, granted>>
    BY <1>13 DEF ForkSwitch, mutexes
  <2>4. \A a \in Allocator : revisionPage'[a] # NullPage =>
          revisionPage[a] # NullPage \/ \E e \in Document : document[e].allocator = a
    BY <1>10, <1>13, <2>3 DEF ForkSwitch, Holding, Forking
  <2>5. granted' = [granted EXCEPT ![t] = granted[t]]
    BY <1>2, <2>3
  <2>6. PICK c : Becomes(t, c) /\ c.step = "forkReference"
    BY <2>1, SMTT(30)
  <2>7. QED
    BY <1>1, <2>2, <2>3, <2>4, <2>5, <2>6, SharingLeft
<1>14. CASE ForkReference(t)
  <2>1. call[t].step = "forkReference" /\ UNCHANGED <<branchManager, revisionPage>>
    BY <1>14 DEF ForkReference, mutexes
  <2>2. CASE UNCHANGED threads
    <3>1. UNCHANGED <<call, granted>> /\ Becomes(t, call[t])
      BY <2>2 DEF threads, Becomes
    <3>2. CallHolds(t)'
      BY <1>1, <1>2, <2>1, <3>1 DEF CallHolds, Alive
    <3>3. QED
      BY <1>3, <2>1, <3>1, <3>2
  <2>3. CASE Grant(t, d) /\ Return(t)
    <3>1. Becomes(t, Idle)
      BY <2>3, CallReturns DEF Return
    <3>2. QED
      BY <1>4, <2>1, <2>3, <3>1, IdleHolds DEF Becomes, Holding, Forking, Idle
  <2>4. QED
    BY <1>14, <2>2, <2>3, ZenonT(60) DEF ForkReference
<1>15. QED
  BY <1>5, <1>6, <1>7, <1>8, <1>9, <1>11, <1>12, <1>13, <1>14, SMTT(30)

LEMMA SharingUse ==
  ASSUME CountingInv, CountingInv', SharingInv, NEW t \in Threads, NEW d \in Document,
         UseDocument(t, d)
  PROVE  SharingInv'
<1>1. /\ UNCHANGED <<held, document, reusable, revisionPage, branchManager>>
  BY DEF UseDocument, GrantWrite, Edit, Commit, Fork, ScheduleRemoval, ReleaseBegin, documents,
         threads, mutexes
<1>2. /\ Referenced /\ CallHolds(t) /\ granted = [u \in Threads |-> granted[u]]
  BY ReferencedAlive DEF SharingInv
<1>3. ASSUME NEW c, Becomes(t, c), CallHolds(t)', NEW G, granted' = [granted EXCEPT ![t] = G],
             G \subseteq granted[t] \cup {e \in Document : held[t][e] > 0},
             call[t].step = "opened" => c = call[t],
             c.step = "opened" => c = call[t]
      PROVE  SharingInv'
  BY <1>1, <1>3, SharingLeft
<1>4. CASE Edit(t, d) \/ ScheduleRemoval(t, d)
  <2>1. UNCHANGED <<call, granted>>
    BY <1>4 DEF Edit, ScheduleRemoval, threads
  <2>2. Becomes(t, call[t]) /\ granted' = [granted EXCEPT ![t] = granted[t]]
    BY <1>2, <2>1 DEF Becomes
  <2>3. CallHolds(t)'
    BY <1>1, <1>2, <2>1 DEF CallHolds, Alive
  <2>4. QED
    BY <1>3, <2>2, <2>3
<1>5. CASE Commit(t, d)
  <2>1. call' = call /\ call[t] = Idle /\ granted' = [granted EXCEPT ![t] = granted[t] \ {d}]
    BY <1>5 DEF Commit
  <2>2. Becomes(t, call[t])
    BY <2>1 DEF Becomes
  <2>3. CallHolds(t)'
    BY <2>1, IdleHolds
  <2>4. QED
    BY <1>3, <2>1, <2>2, <2>3
<1>6. CASE GrantWrite(t, d)
  <2>1. held[t][d] > 0 /\ call[t] = Idle /\ Idle.step = "idle"
    BY <1>6 DEF GrantWrite, Idle
  <2>2. CASE Grant(t, d) /\ UNCHANGED call
    <3>1. granted' = [granted EXCEPT ![t] = granted[t] \cup {d}] /\ Becomes(t, call[t])
      BY <2>2 DEF Grant, Becomes
    <3>2. CallHolds(t)'
      BY <2>1, <2>2, IdleHolds
    <3>3. QED
      BY <1>3, <2>1, <3>1, <3>2
  <2>3. ASSUME UNCHANGED granted, NEW c, call' = [call EXCEPT ![t] = c], c.doc = d,
               \/ c.step = "lock"
               \/ c.step = "reopen" /\ document[d].flags # "ExplicitRead"
        PROVE  SharingInv'
    <3>1. Becomes(t, c) /\ granted' = [granted EXCEPT ![t] = granted[t]]
      BY <1>2, <2>3, CallReturns
    <3>2. CallHolds(t)'
      BY <1>1, <2>1, <2>3, <3>1 DEF CallHolds, Becomes, Holding, Reopening, Forking
    <3>3. QED
      BY <1>3, <2>1, <2>3, <3>1, <3>2
  <2>4. \/ Grant(t, d) /\ UNCHANGED call
        \/ /\ UNCHANGED granted
           /\ \E c : /\ call' = [call EXCEPT ![t] = c] /\ c.doc = d
                     /\ \/ c.step = "lock"
                        \/ c.step = "reopen" /\ document[d].flags # "ExplicitRead"
    <3>1. /\ [Idle EXCEPT !.step = "lock", !.doc = d, !.branch = BranchOf(d)].doc = d
          /\ [Idle EXCEPT !.step = "lock", !.doc = d, !.branch = BranchOf(d)].step = "lock"
          /\ [Idle EXCEPT !.step = "reopen", !.doc = d].doc = d
          /\ [Idle EXCEPT !.step = "reopen", !.doc = d].step = "reopen"
      BY DEF Idle
    <3>2. QED
      BY <1>6, <3>1, Zenon DEF GrantWrite
  <2>5. QED
    BY <2>2, <2>3, <2>4
<1>7. CASE Fork(t, d)
  <2>1. /\ held[t][d] > 0 /\ call[t] = Idle /\ Idle.step = "idle" /\ UNCHANGED granted
        /\ document[d].flags # "ExplicitRead"
    BY <1>7 DEF Fork, Idle
  <2>2. PICK c : call' = [call EXCEPT ![t] = c] /\ c.doc = d /\ c.step = "forkLock"
    <3> DEFINE c == [Idle EXCEPT !.step = "forkLock", !.doc = d, !.branch = nextBranchId,
                                 !.page = revisionPage[document[d].allocator]]
    <3>1. call' = [call EXCEPT ![t] = c]
      BY <1>7 DEF Fork
    <3>2. c.doc = d /\ c.step = "forkLock"
      BY DEF Idle
    <3>3. QED
      BY <3>1, <3>2, Zenon
  <2>3. Becomes(t, c) /\ granted' = [granted EXCEPT ![t] = granted[t]]
    BY <1>2, <2>1, <2>2, CallReturns
  <2>4. CallHolds(t)'
    BY <1>1, <2>1, <2>2, <2>3 DEF CallHolds, Becomes, Holding, Reopening, Forking
  <2>5. QED
    BY <1>3, <2>1, <2>2, <2>3, <2>4
<1>8. CASE ReleaseBegin(t, d)
  <2>1. /\ held[t][d] > 0 /\ (call[t] = Idle \/ call[t].step = "discard") /\ Idle.step = "idle"
        /\ granted' = [granted EXCEPT ![t] = granted[t] \ {d}]
    BY <1>8 DEF ReleaseBegin, Idle
  <2>2. PICK c : call' = [call EXCEPT ![t] = c] /\ c.doc = d /\ c.step = "release"
    <3> DEFINE c == [Idle EXCEPT !.step = "release", !.doc = d]
    <3>1. call' = [call EXCEPT ![t] = c]
      BY <1>8 DEF ReleaseBegin
    <3>2. c.doc = d /\ c.step = "release"
      BY DEF Idle
    <3>3. QED
      BY <3>1, <3>2, Zenon
  <2>3. Becomes(t, c)
    BY <2>2, CallReturns
  <2>4. CallHolds(t)'
    BY <1>1, <1>2, <2>1, <2>2, <2>3 DEF CallHolds, Becomes, Holding, Reopening, Forking
  <2>5. QED
    BY <1>3, <2>1, <2>2, <2>3, <2>4
<1>9. QED
  BY <1>4, <1>5, <1>6, <1>7, <1>8 DEF UseDocument

LEMMA SharingQuietOpen ==
  ASSUME CountingInv, CountingInv', SharingInv, NEW t \in Threads,
         \/ CreateBranch(t)
         \/ \E b \in Branch, flags \in OpenFlags : OpenWriteBegin(t, b, flags)
  PROVE  SharingInv'
<1>1. UNCHANGED <<held, document, reusable, revisionPage, granted>> /\ call[t] = Idle
  BY DEF CreateBranch, OpenWriteBegin, documents, threads
<1>2. /\ CallHolds(t) /\ granted = [u \in Threads |-> granted[u]] /\ Idle.step = "idle"
  BY DEF SharingInv, Idle
<1>3. granted' = [granted EXCEPT ![t] = granted[t]]
  BY <1>1, <1>2
<1>4. CASE CreateBranch(t)
  <2>1. UNCHANGED <<call, branchManager>> /\ Becomes(t, call[t])
    BY <1>4 DEF CreateBranch, threads, mutexes, Becomes
  <2>2. CallHolds(t)'
    BY <1>1, <2>1, IdleHolds
  <2>3. QED
    BY <1>1, <1>3, <2>1, <2>2, SharingLeft
<1>5. ASSUME NEW b \in Branch, NEW flags \in OpenFlags, OpenWriteBegin(t, b, flags)
      PROVE  SharingInv'
  <2>1. PICK c : call' = [call EXCEPT ![t] = c] /\ c.step = "openWrite" /\ c.flags = flags
    <3> DEFINE c == [Idle EXCEPT !.step = "openWrite", !.branch = b, !.flags = flags]
    <3>1. call' = [call EXCEPT ![t] = c]
      BY <1>5 DEF OpenWriteBegin
    <3>2. c.step = "openWrite" /\ c.flags = flags
      BY DEF Idle
    <3>3. QED
      BY <3>1, <3>2, Zenon
  <2>2. Becomes(t, c) /\ branchManager = NoThread /\ branchManager' = t
        /\ flags \in {"Write", "ResetRevision"}
    BY <1>5, <2>1, CallReturns DEF OpenWriteBegin
  <2>3. CallHolds(t)'
    BY <2>1, <2>2 DEF CallHolds, Becomes, Holding, Reopening, Forking
  <2>4. QED
    BY <1>1, <1>2, <1>3, <2>1, <2>2, <2>3, SharingLeft
<1>6. QED
  BY <1>4, <1>5

LEMMA SharingIncrement ==
  ASSUME CountingInv, CountingInv', SharingInv, NEW t \in Threads, IncrementRefCount(t)
  PROVE  SharingInv'
<1> DEFINE d == call[t].doc
<1>1. /\ Referenced /\ Allocated /\ CallHolds(t) /\ GrantHeld(t)
      /\ granted \in [Threads -> SUBSET Document] /\ HeldType /\ DocumentType
  BY ReferencedAlive DEF SharingInv, CountingInv, Types
<1>2. /\ call[t].step = "opened" /\ d \in Alive /\ d \in Document
      /\ UNCHANGED <<reusable, revisionPage, granted, branchManager>>
  BY DEF IncrementRefCount, Alive, mutexes
<1>3. /\ \A e \in Document : document'[e].flags = document[e].flags
                             /\ document'[e].allocator = document[e].allocator
      /\ held' = [held EXCEPT ![t][d] = @ + 1]
  BY <1>1, <1>2 DEF IncrementRefCount, DocumentType
<1>4. /\ \A u \in Threads \ {t} : held'[u] = held[u]
      /\ held'[t][d] > 0 /\ \A e \in Document \ {d} : held'[t][e] = held[t][e]
      /\ \A e \in Document : held[t][e] > 0 => held'[t][e] > 0
  <2>1. held[t] \in [Document -> 0 .. MaxHeld] /\ MaxHeld \in Nat
    BY <1>1, Finite DEF HeldType
  <2>2. held'[t] = [held[t] EXCEPT ![d] = @ + 1] /\ \A u \in Threads \ {t} : held'[u] = held[u]
    BY <1>1, <1>3 DEF HeldType
  <2>3. QED
    BY <1>2, <2>1, <2>2
<1>5. PICK c : /\ Becomes(t, c)
               /\ c.step = "idle" \/ (c.step = "lock" /\ c.doc = d)
  <2>1. Idle.step = "idle"
    BY DEF Idle
  <2>2. CASE Return(t)
    BY <2>1, <2>2, CallReturns DEF Return
  <2>3. CASE call' = [call EXCEPT ![t].step = "lock", ![t].branch = BranchOf(d)]
    <3> DEFINE c == [step |-> "lock", doc |-> d, branch |-> BranchOf(d), page |-> call[t].page,
                     flags |-> call[t].flags]
    <3>1. Becomes(t, c)
      BY <2>3, CallMoves
    <3>2. c.step = "lock" /\ c.doc = d
      OBVIOUS
    <3>3. QED
      BY <3>1, <3>2, Zenon
  <2>4. QED
    BY <2>2, <2>3 DEF IncrementRefCount
<1>6. /\ call'[t] = c /\ \A u \in Threads \ {t} : call'[u] = call[u]
      /\ Alive' = Alive
  BY <1>3, <1>5 DEF Becomes, Alive
<1>7. CallHolds(t)'
  BY <1>2, <1>4, <1>5, <1>6 DEF CallHolds, Holding, Reopening, Forking
<1>8. GrantHeld(t)'
  <2>1. \A e \in granted[t] : UsedBy(t, e) => e = d \/ held[t][e] > 0
    BY <1>2 DEF UsedBy
  <2>2. \A e \in granted[t] : e \in Document /\ held'[t][e] > 0
    BY <1>1, <1>4, <2>1 DEF GrantHeld, UsedBy
  <2>3. QED
    BY <1>1, <1>2, <1>6, <2>2 DEF GrantHeld, UsedBy
<1>9. \A e \in Alive : UsedBy(t, e)' => UsedBy(t, e) \/ document[e].flags = "ExplicitRead"
  BY <1>2, <1>4, <1>5, <1>6 DEF UsedBy, Alive
<1>10. \A a \in Allocator : revisionPage'[a] # NullPage => \E e \in Document : document'[e].allocator = a
  BY <1>1, <1>2, <1>3 DEF Allocated
<1>11. \A e \in Alive : document'[e] # Unused
  BY <1>3 DEF Alive, Unused
<1>12. NoDocument \in Document \cup {NoDocument} /\ t \in Threads \cup {NoThread}
  OBVIOUS
<1>13. /\ \A u \in Threads \ {t} :
           call'[u] = call[u] /\ held'[u] = held[u] /\ granted'[u] = granted[u]
       /\ \A b \in Branch : reusable'[b] \in {reusable[b], NoDocument}
       /\ granted' \in [Threads -> SUBSET Document] /\ branchManager' = branchManager
  BY <1>1, <1>2, <1>4, <1>6
<1>14. QED
  BY <1>3, <1>7, <1>8, <1>9, <1>10, <1>11, <1>12, <1>13, SharingKept

\* Fewer documents than numbers leave an allocator.
LEMMA AllocatorLeft ==
  ASSUME NEW d \in FreeNumbers
  PROVE  Min(FreeAllocators) \in FreeAllocators
<1> DEFINE image == {document[e].allocator : e \in Alive}
           f == [e \in Alive |-> document[e].allocator]
<1>1. /\ IsFiniteSet(Document) /\ Alive \subseteq Document \ {d} /\ d \in Document
  BY Finite DEF FreeNumbers, Alive
<1>2. /\ IsFiniteSet(Document \ {d}) /\ Cardinality(Document \ {d}) = Cardinality(Document) - 1
      /\ Cardinality(Document) \in Nat
  BY <1>1, FS_RemoveElement, FS_CardinalityType
<1>3. /\ IsFiniteSet(Alive) /\ Cardinality(Alive) <= Cardinality(Document \ {d})
      /\ Cardinality(Alive) \in Nat
  BY <1>1, <1>2, FS_Subset, FS_CardinalityType
<1>4. IsFiniteSet(image) /\ Cardinality(image) <= Cardinality(Alive) /\ Cardinality(image) \in Nat
  <2>1. f \in Surjection(Alive, image)
    BY DEF Surjection
  <2>2. QED
    BY <1>3, <2>1, FS_Surjection, FS_CardinalityType
<1>5. FreeAllocators # {}
  <2>1. SUFFICES ASSUME FreeAllocators = {} PROVE FALSE
    OBVIOUS
  <2>2. Document \in SUBSET image
    BY <2>1 DEF FreeAllocators, Allocator
  <2>3. Cardinality(Document) <= Cardinality(image)
    BY <1>4, <2>2, FS_Subset
  <2>4. QED
    BY <1>2, <1>3, <1>4, <2>3
<1>6. FreeAllocators \in SUBSET Document
  BY DEF FreeAllocators, Allocator
<1>7. QED
  BY <1>5, <1>6, MinChooses

LEMMA SharingRelease ==
  ASSUME CountingInv, CountingInv', SharingInv, NEW t \in Threads, ReleaseDocument(t)
  PROVE  SharingInv'
<1> DEFINE d == call[t].doc
<1>1. /\ Referenced /\ Allocated /\ CallHolds(t) /\ GrantHeld(t)
      /\ granted = [u \in Threads |-> granted[u]] /\ HeldType /\ DocumentType
      /\ granted \in [Threads -> SUBSET Document]
  BY ReferencedAlive DEF SharingInv, CountingInv, Types
<1>2. /\ call[t].step = "release" /\ d \in Document /\ held[t][d] > 0 /\ d \notin granted[t]
      /\ UNCHANGED <<branchManager, reusable>>
  BY <1>1 DEF ReleaseDocument, CallHolds, Holding
<1>3. \A e \in granted[t] : e # d /\ e \in Document /\ held[t][e] > 0
  BY <1>1, <1>2 DEF GrantHeld, UsedBy
<1>4. ASSUME NEW n \in 0 .. MaxHeld, held' = [held EXCEPT ![t][d] = n], Return(t), UNCHANGED granted,
             \A e \in Document \ {d} : document'[e] = document[e],
             \/ /\ document'[d].flags = document[d].flags
                /\ document'[d].allocator = document[d].allocator
             \/ document'[d] = Unused,
             \A a \in Allocator : revisionPage'[a] # NullPage =>
               \E e \in Document : document'[e].allocator = a
      PROVE  SharingInv'
  <2>1. /\ \A u \in Threads \ {t} : held'[u] = held[u]
        /\ \A e \in Document \ {d} : held'[t][e] = held[t][e]
    BY <1>1, <1>4 DEF HeldType
  <2>2. call'[t] = Idle /\ Idle.step = "idle" /\ \A u \in Threads \ {t} : call'[u] = call[u]
    BY <1>4, CallReturns, ZenonT(60) DEF Return, Becomes, Idle
  <2>3. CallHolds(t)'
    BY <2>2, IdleHolds
  <2>4. GrantHeld(t)'
    BY <1>1, <1>3, <1>4, <2>1 DEF GrantHeld, UsedBy, Alive
  <2>5. \A e \in Alive : UsedBy(t, e)' => UsedBy(t, e) \/ document[e].flags = "ExplicitRead"
    BY <1>2, <2>1, <2>2 DEF UsedBy, Alive
  <2>6. NoDocument \in Document \cup {NoDocument} /\ t \in Threads \cup {NoThread}
    OBVIOUS
  <2>7. /\ \A u \in Threads \ {t} :
             call'[u] = call[u] /\ held'[u] = held[u] /\ granted'[u] = granted[u]
        /\ \A b \in Branch : reusable'[b] \in {reusable[b], NoDocument}
        /\ granted' \in [Threads -> SUBSET Document] /\ branchManager' = branchManager
    BY <1>1, <1>2, <1>4, <2>1, <2>2
  <2>8. /\ \A e \in Document : \/ /\ document'[e].flags = document[e].flags
                                  /\ document'[e].allocator = document[e].allocator
                               \/ document'[e] = Unused
        /\ \A e \in Alive : document'[e] = Unused => e = d
    BY <1>4 DEF Alive, Unused
  <2>9. QED
    BY <1>2, <1>4, <2>3, <2>4, <2>5, <2>6, <2>7, <2>8, SharingKept
<1>5. held[t][d] \in 0 .. MaxHeld /\ held[t][d] - 1 \in 0 .. MaxHeld /\ 0 \in 0 .. MaxHeld
  <2>1. held[t][d] \in 0 .. MaxHeld
    BY <1>1, <1>2 DEF HeldType
  <2>2. MaxHeld \in Nat /\ held[t][d] > 0
    BY <1>2, Finite
  <2>3. QED
    BY <2>1, <2>2
<1>6. CASE /\ document' = [document EXCEPT ![d].refCount = @ - 1]
           /\ held' = [held EXCEPT ![t][d] = @ - 1]
           /\ Return(t) /\ UNCHANGED <<revisionPage, granted>>
  <2>1. /\ \A e \in Document \ {d} : document'[e] = document[e]
        /\ document'[d].flags = document[d].flags
        /\ \A e \in Document : document'[e].allocator = document[e].allocator
    BY <1>1, <1>2, <1>6 DEF DocumentType
  <2>2. PICK n \in 0 .. MaxHeld : held' = [held EXCEPT ![t][d] = n]
    <3>1. held' = [held EXCEPT ![t][d] = held[t][d] - 1]
      BY <1>6
    <3>2. QED
      BY <1>5, <3>1, Zenon
  <2>3. \A a \in Allocator : revisionPage'[a] # NullPage =>
          \E e \in Document : document'[e].allocator = a
    BY <1>1, <1>6, <2>1 DEF Allocated
  <2>4. Return(t) /\ UNCHANGED granted
    BY <1>6
  <2>5. QED
    BY <1>2, <1>4, <2>1, <2>2, <2>3, <2>4
<1>7. CASE /\ SetDocuments([document EXCEPT ![d] = Unused], revisionPage)
           /\ held' = [held EXCEPT ![t][d] = 0] /\ Return(t) /\ UNCHANGED granted
  <2>1. document' = [document EXCEPT ![d] = Unused]
    BY <1>7 DEF SetDocuments
  <2>2. \A a \in Allocator : revisionPage'[a] # NullPage =>
          \E e \in Document : document'[e].allocator = a
    BY <1>7 DEF SetDocuments
  <2>3. document'[d] = Unused /\ \A e \in Document \ {d} : document'[e] = document[e]
    BY <1>1, <1>2, <2>1 DEF DocumentType
  <2>4. QED
    BY <1>4, <1>5, <1>7, <2>2, <2>3
<1>8. CASE UNCHANGED <<document, revisionPage, held, granted, call>>
  <2>1. Becomes(t, call[t]) /\ granted' = [granted EXCEPT ![t] = granted[t]]
    BY <1>1, <1>8 DEF Becomes
  <2>2. CallHolds(t)'
    BY <1>1, <1>2, <1>8 DEF CallHolds, Alive
  <2>3. QED
    BY <1>1, <1>2, <1>8, <2>1, <2>2, SharingLeft
<1>9. QED
  BY <1>6, <1>7, <1>8 DEF ReleaseDocument, threads

LEMMA SharingCollect ==
  ASSUME CountingInv, CountingInv', SharingInv, Collect
  PROVE  SharingInv'
<1> DEFINE collected == {b \in branchMap : Collectable(b)}
           deleted == {reusable[b] : b \in collected}
<1>1. /\ ReusedRead /\ granted \in [Threads -> SUBSET Document] /\ branchMap \subseteq Branch
  BY DEF SharingInv, CountingInv, Types, BranchType
<1>2. /\ document' = [d \in Document |-> IF d \in deleted THEN Unused ELSE document[d]]
      /\ \A a \in Allocator : revisionPage'[a] # NullPage =>
           \E e \in Document : document'[e].allocator = a
      /\ reusable' = [b \in Branch |-> IF b \in collected THEN NoDocument ELSE reusable[b]]
      /\ UNCHANGED <<branchManager, held, granted, call>>
  BY DEF Collect, SetDocuments, mutexes, threads
<1>3. \A d \in deleted : document[d].flags = "ExplicitRead"
  BY <1>1 DEF ReusedRead, Collectable
<1>4. /\ \A d \in Document : document'[d] = document[d] \/ document'[d] = Unused
      /\ \A d \in Alive : document'[d] = Unused => document[d].flags = "ExplicitRead"
  BY <1>2, <1>3 DEF Alive, Unused
<1>5. /\ NoDocument \in Document \cup {NoDocument}
      /\ NoThread \in Threads \cup {NoThread} /\ NoThread \notin Threads
  BY NoThreadAssumption
<1>6. \A b \in Branch : reusable'[b] \in {reusable[b], NoDocument}
  BY <1>2
<1>7. QED
  BY <1>1, <1>2, <1>4, <1>5, <1>6, SharingKept

LEMMA SharingOpenWrite ==
  ASSUME CountingInv, CountingInv', SharingInv, NEW t \in Threads, OpenWrite(t)
  PROVE  SharingInv'
<1>1. /\ Referenced /\ Allocated /\ CallHolds(t) /\ GrantHeld(t) /\ DocumentType
      /\ granted \in [Threads -> SUBSET Document]
  BY ReferencedAlive DEF SharingInv, CountingInv, Types
<1>2. PICK d \in FreeNumbers, a \in FreeAllocators :
        /\ document' = [document EXCEPT ![d] =
                         [flags |-> call[t].flags, allocator |-> a, refCount |-> 0]]
        /\ \A c \in Allocator : revisionPage'[c] # NullPage =>
             \E e \in Document : document'[e].allocator = c
        /\ granted' = [granted EXCEPT ![t] = @ \cup {d}]
        /\ call' = [call EXCEPT ![t] =
             [Idle EXCEPT !.step = "opened", !.doc = d, !.flags = call[t].flags]]
  <2>1. PICK p \in FreePages, d \in FreeNumbers, a \in FreeAllocators :
          /\ SetDocuments([document EXCEPT ![d] =
                             [flags |-> call[t].flags, allocator |-> a, refCount |-> 0]],
                          [revisionPage EXCEPT ![a] = p])
          /\ granted' = [granted EXCEPT ![t] = @ \cup {d}]
          /\ call' = [call EXCEPT ![t] =
               [Idle EXCEPT !.step = "opened", !.doc = d, !.flags = call[t].flags]]
    BY Zenon DEF OpenWrite
  <2>2. document' = [document EXCEPT ![d] =
          [flags |-> call[t].flags, allocator |-> a, refCount |-> 0]]
    BY <2>1, Zenon DEF SetDocuments
  <2>3. \A c \in Allocator : revisionPage'[c] # NullPage =>
          \E e \in Document : document'[e].allocator = c
    BY <2>1, <2>2 DEF SetDocuments
  <2>4. QED
    BY <2>1, <2>2, <2>3, Zenon
<1>3. /\ call[t].step = "openWrite" /\ call[t].flags \in {"Write", "ResetRevision"}
      /\ branchManager = t /\ UNCHANGED <<held, reusable>>
  BY <1>1 DEF OpenWrite, CallHolds
<1>4. d \in Document /\ d \notin Alive /\ a \in Allocator
  BY DEF FreeNumbers, FreeAllocators
<1>5. /\ document'[d].flags = call[t].flags /\ document'[d].allocator = a
      /\ \A e \in Document \ {d} : document'[e] = document[e]
  BY <1>1, <1>2, <1>4 DEF DocumentType
<1>6. /\ call'[t].step = "opened" /\ call'[t].doc = d /\ call'[t].flags = call[t].flags
      /\ \A u \in Threads \ {t} : call'[u] = call[u]
  <2> DEFINE c == [Idle EXCEPT !.step = "opened", !.doc = d, !.flags = call[t].flags]
  <2>1. Becomes(t, c)
    BY <1>2, CallReturns
  <2>2. c.step = "opened" /\ c.doc = d /\ c.flags = call[t].flags
    BY DEF Idle
  <2>3. QED
    BY <2>1, <2>2 DEF Becomes
<1>7. CallHolds(t)'
  BY <1>3, <1>5, <1>6 DEF CallHolds, Holding, Reopening, Forking
<1>8. /\ granted' \in [Threads -> SUBSET Document] /\ granted'[t] = granted[t] \cup {d}
      /\ \A u \in Threads \ {t} : granted'[u] = granted[u]
  BY <1>1, <1>2, <1>4
<1>9. GrantHeld(t)'
  <2>1. \A e \in granted[t] : held[t][e] > 0 /\ e \in Alive /\ e # d /\ held[t][e] # 0
    BY <1>1, <1>3, <1>4 DEF GrantHeld, UsedBy
  <2>2. \A e \in granted[t] : e \in Alive'
    BY <1>5, <2>1 DEF Alive
  <2>3. d \in Alive' /\ document'[d].flags # "ExplicitRead"
    BY <1>3, <1>4, <1>5 DEF Alive
  <2>4. QED
    BY <1>3, <1>6, <1>8, <2>1, <2>2, <2>3 DEF GrantHeld, UsedBy
<1>10. /\ \A e \in Alive : UsedBy(t, e)' => UsedBy(t, e)
       /\ \A e \in Alive : document'[e] # Unused
  <2>1. \A e \in Alive : e # d /\ e \in Document
    BY <1>4 DEF Alive
  <2>2. QED
    BY <1>3, <1>5, <1>6, <2>1 DEF UsedBy, Alive, Unused
<1>11. /\ document'[d].flags # "none"
       /\ \A e \in Alive : document[e].allocator # a
  BY <1>3, <1>5 DEF FreeAllocators
<1>12. d \in Document \cup {NoDocument} /\ t \in Threads \cup {NoThread}
  BY <1>4
<1>13. QED
  BY <1>2, <1>3, <1>4, <1>5, <1>6, <1>7, <1>8, <1>9, <1>10, <1>11, <1>12, SharingKept

InstanciatedType == instanciated \in [Branch -> SUBSET Document]

LEMMA SharingOpenRead ==
  ASSUME CountingInv, CountingInv', SharingInv, InstanciatedType, NEW t \in Threads,
         NEW b \in Branch, NEW asked \in Page, NEW flags \in OpenFlags, OpenRead(t, b, asked, flags)
  PROVE  SharingInv'
<1> DEFINE p == LookupRevision(asked, flags)
<1>1. /\ Referenced /\ Allocated /\ ReusedRead /\ CallHolds(t) /\ GrantHeld(t)
      /\ DocumentType /\ ReusableType /\ instanciated[b] \subseteq Document
      /\ granted \in [Threads -> SUBSET Document] /\ granted = [u \in Threads |-> granted[u]]
      /\ NoDocument \notin Document
  BY ReferencedAlive, Finite DEF SharingInv, CountingInv, Types, InstanciatedType
<1>2. /\ call[t] = Idle /\ Idle.step = "idle" /\ UNCHANGED <<branchManager, held, granted>>
  BY DEF OpenRead, mutexes, Idle
<1>3. PICK d \in Document :
        /\ call' = [call EXCEPT ![t] = [Idle EXCEPT !.step = "opened", !.doc = d, !.flags = flags]]
        /\ \/ ReusableFor(b, p, flags) /\ d = reusable[b] /\ UNCHANGED documents
           \/ /\ FreeNumbers # {} /\ d = Min(FreeNumbers)
              /\ \E a \in Allocator :
                   /\ IF Followed(b, p, flags) # {}
                      THEN \E e \in Followed(b, p, flags) : a = document[e].allocator
                      ELSE a = Min(FreeAllocators)
                   /\ InstanciateDocument(b, p, d, a, flags)
  BY Zenon DEF OpenRead
<1>4. PICK c : Becomes(t, c) /\ c.step = "opened" /\ c.doc = d /\ c.flags = flags
  <2> DEFINE c == [Idle EXCEPT !.step = "opened", !.doc = d, !.flags = flags]
  <2>1. Becomes(t, c)
    BY <1>3, CallReturns
  <2>2. c.step = "opened" /\ c.doc = d /\ c.flags = flags
    BY DEF Idle
  <2>3. QED
    BY <2>1, <2>2, Zenon
<1>5. flags # "none"
  BY UsesAssumption DEF AllFlags
<1>6. CASE ReusableFor(b, p, flags) /\ d = reusable[b] /\ UNCHANGED documents
  <2>1. /\ document[d].flags = flags /\ document[d].flags = "ExplicitRead"
        /\ UNCHANGED <<document, reusable, revisionPage>>
    BY <1>1, <1>6 DEF ReusableFor, ReusedRead, documents
  <2>2. CallHolds(t)'
    BY <1>4, <2>1 DEF CallHolds, Becomes, Holding, Reopening, Forking
  <2>3. granted' = [granted EXCEPT ![t] = granted[t]]
    BY <1>1, <1>2
  <2>4. QED
    BY <1>2, <1>4, <2>1, <2>2, <2>3, SharingLeft
<1>7. CASE /\ FreeNumbers # {} /\ d = Min(FreeNumbers)
           /\ \E a \in Allocator :
                /\ IF Followed(b, p, flags) # {}
                   THEN \E e \in Followed(b, p, flags) : a = document[e].allocator
                   ELSE a = Min(FreeAllocators)
                /\ InstanciateDocument(b, p, d, a, flags)
  <2>1. PICK a \in Allocator :
          /\ IF Followed(b, p, flags) # {}
             THEN \E e \in Followed(b, p, flags) : a = document[e].allocator
             ELSE a = Min(FreeAllocators)
          /\ InstanciateDocument(b, p, d, a, flags)
    BY <1>7
  <2>2. d \in FreeNumbers /\ d \notin Alive
    <3>1. FreeNumbers \in SUBSET Document
      BY DEF FreeNumbers
    <3>2. d \in FreeNumbers
      BY <1>7, <3>1, MinChooses
    <3>3. QED
      BY <3>2 DEF FreeNumbers
  <2>3. \A e \in Alive : document[e].allocator = a =>
          document[e].flags = "FollowBranch" /\ flags = "FollowBranch"
    <3>1. CASE Followed(b, p, flags) # {}
      <4>1. PICK e \in Followed(b, p, flags) : a = document[e].allocator
        BY <2>1, <3>1
      <4>2. e \in Alive /\ document[e].flags = "FollowBranch" /\ flags = "FollowBranch"
        BY <1>1, <4>1 DEF Followed, Alive
      <4>3. QED
        BY <1>1, <4>1, <4>2 DEF Allocated
    <3>2. CASE ~(Followed(b, p, flags) # {})
      BY <2>1, <2>2, <3>2, AllocatorLeft DEF FreeAllocators
    <3>3. QED
      BY <3>1, <3>2
  <2> DEFINE kept == SetsReusable(b, p, flags)
             deleted == IF kept /\ Collectable(b) THEN {reusable[b]} ELSE {}
             next == [e \in Document |->
               IF e = d THEN [flags |-> flags, allocator |-> a, refCount |-> IF kept THEN 1 ELSE 0]
               ELSE IF e \in deleted THEN Unused
               ELSE document[e]]
  <2>4. /\ SetDocuments(next, [revisionPage EXCEPT ![a] = IF a \in FreeAllocators THEN p ELSE @])
        /\ reusable' = [reusable EXCEPT ![b] = IF kept THEN d ELSE @]
    BY <2>1 DEF InstanciateDocument
  <2>5. /\ document' = next
        /\ \A e \in Allocator : revisionPage'[e] # NullPage =>
             \E f \in Document : document'[f].allocator = e
    BY <2>4 DEF SetDocuments
  <2>6. /\ document'[d].flags = flags /\ document'[d].allocator = a
        /\ \A e \in Document \ {d} :
             document'[e] = document[e] \/ (e \in deleted /\ document'[e] = Unused)
    BY <2>5
  <2>7. \A e \in deleted : document[e].flags = "ExplicitRead"
    BY <1>1 DEF ReusedRead, Collectable
  <2>8. /\ \A e \in Document \ {d} :
             \/ document'[e].flags = document[e].flags /\ document'[e].allocator = document[e].allocator
             \/ document'[e] = Unused
        /\ \A e \in Alive : document'[e] = Unused => document[e].flags = "ExplicitRead"
    BY <2>2, <2>6, <2>7 DEF Alive, Unused
  <2>9. \A x \in Branch : \/ reusable'[x] \in {reusable[x], NoDocument}
                          \/ reusable'[x] = d /\ document'[d].flags = "ExplicitRead"
    BY <1>1, <2>4, <2>6 DEF SetsReusable, ReusableType
  <2>10. CallHolds(t)'
    BY <1>4, <2>6 DEF CallHolds, Becomes, Holding, Reopening, Forking
  <2>11. GrantHeld(t)'
    <3>1. \A e \in granted[t] : e \in Document /\ held[t][e] > 0 /\ held[t][e] # 0
      BY <1>1, <1>2 DEF GrantHeld, UsedBy, Referenced
    <3>2. Referenced'
      BY ReferencedAfter
    <3>3. QED
      BY <1>2, <3>1, <3>2 DEF GrantHeld, UsedBy, Referenced
  <2>12. \A e \in Alive : UsedBy(t, e)' => UsedBy(t, e)
    BY <1>2, <1>4, <2>2 DEF UsedBy, Becomes
  <2>13. \A u \in Threads \ {t} :
           call'[u] = call[u] /\ held'[u] = held[u] /\ granted'[u] = granted[u]
    BY <1>2, <1>4 DEF Becomes
  <2>14. /\ d \in Document \cup {NoDocument} /\ t \in Threads \cup {NoThread}
         /\ branchManager' = branchManager /\ granted' \in [Threads -> SUBSET Document]
         /\ document'[d].flags # "none" /\ document'[d].allocator \in Allocator
    BY <1>1, <1>2, <1>5, <2>6
  <2>15. \A e \in Alive : document[e].allocator = document'[d].allocator =>
           document[e].flags = "FollowBranch" /\ document'[d].flags = "FollowBranch"
    BY <2>3, <2>6
  <2> HIDE DEF next, deleted, kept
  <2>16. QED
    BY <2>2, <2>5, <2>8, <2>9, <2>10, <2>11, <2>12, <2>13, <2>14, <2>15, SharingKept
<1>8. QED
  BY <1>3, <1>6, <1>7

LEMMA InstanciatedKept ==
  ASSUME CountingInv, SharingInv, InstanciatedType, Next
  PROVE  InstanciatedType'
<1>1. \A b \in Branch : instanciated[b] \in SUBSET Document
  BY DEF InstanciatedType
<1>2. ASSUME UNCHANGED instanciated PROVE InstanciatedType'
  BY <1>2 DEF InstanciatedType
<1>3. CASE Collect
  BY <1>1, <1>3 DEF Collect, InstanciatedType
<1>4. ASSUME NEW t \in Threads, OpenWrite(t) PROVE InstanciatedType'
  <2>1. PICK d \in FreeNumbers :
          instanciated' = [instanciated EXCEPT ![call[t].branch] = @ \cup {d}]
    BY <1>4 DEF OpenWrite
  <2>2. d \in Document
    BY DEF FreeNumbers
  <2>3. QED
    BY <2>1, <2>2 DEF InstanciatedType
<1>5. ASSUME NEW t \in Threads, ForkReference(t) PROVE InstanciatedType'
  <2>1. call[t].doc \in Document
    BY <1>5 DEF ForkReference, SharingInv, CallHolds, Holding, Forking
  <2>2. CASE UNCHANGED instanciated
    BY <1>2, <2>2
  <2>3. ASSUME NEW b, NEW c,
               instanciated' = [[instanciated EXCEPT ![b] = @ \ {call[t].doc}]
                                EXCEPT ![c] = @ \cup {call[t].doc}]
        PROVE  InstanciatedType'
    <3>1. [instanciated EXCEPT ![b] = @ \ {call[t].doc}] \in [Branch -> SUBSET Document]
      BY DEF InstanciatedType
    <3>2. QED
      BY <2>1, <2>3, <3>1 DEF InstanciatedType
  <2>4. QED
    BY <1>5, <2>2, <2>3 DEF ForkReference
<1>6. ASSUME NEW t \in Threads, ReleaseDocument(t) PROVE InstanciatedType'
  BY <1>6, ZenonT(60) DEF ReleaseDocument, InstanciatedType
<1>7. ASSUME NEW t \in Threads, NEW b \in Branch, NEW asked \in Page, NEW flags \in OpenFlags,
             OpenRead(t, b, asked, flags)
      PROVE  InstanciatedType'
  <2>1. PICK d \in Document, a \in Allocator :
          \/ UNCHANGED documents
          \/ InstanciateDocument(b, LookupRevision(asked, flags), d, a, flags)
    <3>1. 1 \in Allocator \/ Document = {}
      BY <1>7 DEF Allocator, Document, BoundsAssumption
    <3>2. QED
      BY <1>7, <3>1 DEF OpenRead
  <2>2. QED
    BY <1>2, <2>1 DEF documents, InstanciateDocument, InstanciatedType
<1>8. ASSUME NEW t \in Threads,
             \/ OpenWriteThrows(t) \/ IncrementRefCount(t) \/ IncrementRefCountOfFreed(t)
             \/ LockWrite(t) \/ ReopenBegin(t) \/ ReopenLock(t) \/ ReopenSwitch(t)
             \/ ForkRevision(t) \/ ForkSwitch(t) \/ CreateBranch(t)
             \/ \E b \in Branch, flags \in OpenFlags : OpenWriteBegin(t, b, flags)
             \/ \E d \in Document : UseDocument(t, d)
      PROVE  InstanciatedType'
  <2>1. UNCHANGED instanciated
    BY <1>8, Zenon DEF OpenWriteThrows, IncrementRefCount, IncrementRefCountOfFreed, LockWrite, ReopenBegin,
         ReopenLock, ReopenSwitch, ForkRevision, ForkSwitch, CreateBranch, OpenWriteBegin,
         UseDocument, GrantWrite, Edit, Commit, Fork, ScheduleRemoval, ReleaseBegin, documents
  <2>2. QED
    BY <1>2, <2>1
<1>9. QED
  BY <1>3, <1>4, <1>5, <1>6, <1>7, <1>8 DEF Next, Proceed, Open

LEMMA SharingNext ==
  CountingInv /\ CountingInv' /\ SharingInv /\ InstanciatedType /\ [Next]_vars =>
    SharingInv' /\ InstanciatedType'
<1> SUFFICES ASSUME CountingInv, CountingInv', SharingInv, InstanciatedType, [Next]_vars
             PROVE  SharingInv' /\ InstanciatedType'
  OBVIOUS
<1>1. ASSUME Collect PROVE SharingInv'
  BY <1>1, SharingCollect
<1>2. ASSUME NEW t \in Threads, Proceed(t) PROVE SharingInv'
  BY <1>2, SharingOpenWrite, SharingIncrement, SharingRelease, SharingProceed DEF Proceed
<1>3. ASSUME NEW t \in Threads, Open(t) PROVE SharingInv'
  BY <1>3, SharingQuietOpen, SharingOpenRead DEF Open
<1>4. ASSUME NEW t \in Threads, NEW d \in Document, UseDocument(t, d) PROVE SharingInv'
  BY <1>4, SharingUse
<1>5. CASE UNCHANGED vars
  <2>1. UNCHANGED <<held, document, reusable, granted, call, branchManager, revisionPage, instanciated>>
    BY <1>5 DEF vars, threads, documents, mutexes
  <2>2. UNCHANGED Alive /\ \A t \in Threads, d \in Document : UsedBy(t, d)' = UsedBy(t, d)
    BY <2>1 DEF Alive, UsedBy
  <2>3. Alone' /\ Allocated' /\ ReusedRead' /\ InstanciatedType'
    BY <2>1, <2>2 DEF SharingInv, Alone, Allocated, ReusedRead, InstanciatedType, UsedBy, Alive
  <2>4. \A t \in Threads : CallHolds(t)' /\ GrantHeld(t)'
    BY <2>1 DEF SharingInv, CallHolds, GrantHeld, UsedBy, Alive
  <2>5. QED
    BY <2>1, <2>3, <2>4 DEF SharingInv
<1>6. CASE Next
  BY <1>1, <1>2, <1>3, <1>4, <1>6, InstanciatedKept DEF Next
<1>7. QED
  BY <1>5, <1>6

LEMMA SharingInit == Init => SharingInv /\ InstanciatedType
<1> SUFFICES ASSUME Init PROVE SharingInv /\ InstanciatedType
  OBVIOUS
<1>1. /\ Alive = {} /\ \A t \in Threads : call[t] = Idle /\ Idle.step = "idle" /\ granted[t] = {}
      /\ granted \in [Threads -> SUBSET Document] /\ InstanciatedType
  BY DEF Init, Alive, Unused, Idle, InstanciatedType
<1>2. Alone /\ Allocated /\ ReusedRead
  BY <1>1 DEF Init, Alone, Allocated, ReusedRead, Unused
<1>3. \A t \in Threads : CallHolds(t) /\ GrantHeld(t)
  BY <1>1 DEF CallHolds, GrantHeld, Holding, Reopening, Forking
<1>4. QED
  BY <1>1, <1>2, <1>3 DEF SharingInv

\* Whatever the threads open, fork and release, a document that is not opened
\* with ExplicitRead is used by one thread at a time: openDocument() gives it to
\* no second thread, and no reference to it outlives it (document->inherits(),
\* getReusableDocument(), bindDocument()).
THEOREM DocumentsUsedAlone == Spec => []Alone
<1>1. Init => CountingInv /\ SharingInv /\ InstanciatedType
  BY CountingInit, SharingInit
<1>2. CountingInv /\ SharingInv /\ InstanciatedType /\ [Next]_vars =>
        CountingInv' /\ SharingInv' /\ InstanciatedType'
  BY CountingNext, SharingNext
<1>3. SharingInv => Alone
  BY DEF SharingInv
<1>4. QED
  BY <1>1, <1>2, <1>3, PTL DEF Spec
=============================================================================
