---------------------------- MODULE BranchManager ----------------------------
(***************************************************************************)
(* The branches of a persistent store, their revisions and the documents   *)
(* opened on them: PersistentBranchManager and CacheBranchManager, the     *)
(* reopen, fork and commit of PersistentDocumentAllocator, and the         *)
(* reference counts of Document and Store::releaseDocument().              *)
(*                                                                         *)
(* Two kinds of mutexes order the threads: branchManagerMutex, and one     *)
(* branchWriteMutex per branch, which a thread keeps from the moment it    *)
(* gets a writable revision to the commit.  What a call does between two   *)
(* waits is one step.                                                      *)
(*                                                                         *)
(* The contents of a revision are the revision it was copied from and the  *)
(* number of modifications made to it.  The branches carry no flag: the    *)
(* forks and merges that BranchFlags make automatic are left out, as are   *)
(* roles.                                                                  *)
(***************************************************************************)
EXTENDS Integers, Sequences, FiniteSets, FiniteSetsExt

CONSTANTS
  Threads,
  MaxBranches,      \* bound on the branches ever created
  MaxRevisions,     \* bound on the revision pages in use
  MaxDocuments,     \* bound on the documents instanciated
  MaxEdits,         \* bound on the modifications of a revision
  MaxHeld,          \* documents a thread uses at a time
  InitialBranches,  \* branches of the store when it is opened
  OpenFlags,        \* DocumentOpeningFlags the threads use
  Uses              \* other operations the threads use

AllFlags == {"Read", "ExplicitRead", "Write", "AsRevision", "ResetRevision", "FollowBranch"}
AllUses == {"create", "fork", "remove", "collect", "abandon"}

ASSUME BoundsAssumption ==
  /\ {MaxBranches, MaxRevisions, MaxDocuments, MaxEdits, MaxHeld} \subseteq Nat
  /\ InitialBranches \in 1 .. MaxBranches /\ InitialBranches <= MaxRevisions
ASSUME UsesAssumption == OpenFlags \subseteq AllFlags /\ Uses \subseteq AllUses
ASSUME ThreadsAssumption == IsFiniteSet(Threads)

CONSTANTS NoThread
ASSUME NoThreadAssumption == NoThread \notin Threads

VARIABLES
  branchManager,  \* owner of branchManagerMutex
  writeMutex,     \* owner of the branchWriteMutex of each branch
  nextBranchId,   \* SuperBlock: the branches below it have been created
  branchMap,      \* the branches that exist
  dependsOn,      \* the branch each branch was forked from
  scheduled,      \* branches scheduled for removal
  lastRevision,   \* BranchPage: lastRevisionPage
  revision,       \* the revision pages
  instanciated,   \* BranchInfo: instanciatedDocuments
  reusable,       \* BranchInfo: reusableDocument
  document,       \* the documents in memory
  revisionPage,   \* PersistentDocumentAllocator: revisionPageRef
  held,           \* references of each thread on each document
  granted,        \* documents each thread was told it may modify
  call,           \* the call each thread is in
  fault           \* what the process died of

mutexes == <<branchManager, writeMutex>>
branches == <<nextBranchId, branchMap, dependsOn, scheduled>>
revisions == <<lastRevision, revision>>
documents == <<instanciated, reusable, document, revisionPage>>
threads == <<held, granted, call>>
vars == <<mutexes, branches, revisions, documents, threads, fault>>

-----------------------------------------------------------------------------

Branch == 1 .. MaxBranches
NoBranch == 0
Page == 1 .. MaxRevisions
NullPage == 0
Document == 1 .. MaxDocuments
NoDocument == 0
\* An allocator is named by a number: no two in use have the same.
Allocator == Document

NoRevision ==
  [branch |-> NoBranch, id |-> 0, prev |-> NullPage, base |-> NullPage,
   writable |-> FALSE, edits |-> 0]

Unused == [flags |-> "none", allocator |-> NoDocument, refCount |-> 0]

Steps == {"idle", "openWrite", "opened", "lock", "reopen", "reopenLock", "reopenSwitch",
          "forkLock", "forkSwitch", "forkReference", "discard", "release"}

Idle ==
  [step |-> "idle", doc |-> NoDocument, branch |-> NoBranch, page |-> NullPage, flags |-> "none"]

TypeOK ==
  /\ branchManager \in Threads \cup {NoThread}
  /\ writeMutex \in [Branch -> Threads \cup {NoThread}]
  /\ nextBranchId \in 1 .. MaxBranches + 1
  /\ branchMap \subseteq 1 .. nextBranchId - 1
  /\ dependsOn \in [Branch -> Branch \cup {NoBranch}]
  /\ scheduled \subseteq branchMap
  /\ lastRevision \in [Branch -> Page \cup {NullPage}]
  /\ revision \in [Page -> [branch : Branch \cup {NoBranch}, id : 0 .. MaxRevisions,
                            prev : Page \cup {NullPage}, base : Page \cup {NullPage},
                            writable : BOOLEAN, edits : 0 .. MaxEdits]]
  /\ instanciated \in [Branch -> SUBSET Document]
  /\ reusable \in [Branch -> Document \cup {NoDocument}]
  /\ document \in [Document -> [flags : OpenFlags \cup {"none"},
                                allocator : Allocator \cup {NoDocument}, refCount : Nat]]
  /\ revisionPage \in [Allocator -> Page \cup {NullPage}]
  /\ held \in [Threads -> [Document -> 0 .. MaxHeld]]
  /\ granted \in [Threads -> SUBSET Document]
  /\ call \in [Threads -> [step : Steps, doc : Document \cup {NoDocument},
                           branch : Branch \cup {NoBranch}, page : Page \cup {NullPage},
                           flags : OpenFlags \cup {"none"}]]
  /\ fault \in {"none", "freed document", "freed branch", "not referenced"}

\* A store just opened: branch 1, and the others forked from it, each with one
\* committed revision.
Init ==
  /\ branchManager = NoThread
  /\ writeMutex = [b \in Branch |-> NoThread]
  /\ nextBranchId = InitialBranches + 1
  /\ branchMap = 1 .. InitialBranches
  /\ dependsOn = [b \in Branch |-> IF b \in 2 .. InitialBranches THEN 1 ELSE NoBranch]
  /\ scheduled = {}
  /\ lastRevision = [b \in Branch |-> IF b \in branchMap THEN b ELSE NullPage]
  /\ revision = [p \in Page |-> IF p \notin branchMap THEN NoRevision ELSE
       [branch |-> p, id |-> 1, prev |-> NullPage, base |-> dependsOn[p],
        writable |-> FALSE, edits |-> 0]]
  /\ instanciated = [b \in Branch |-> {}]
  /\ reusable = [b \in Branch |-> NoDocument]
  /\ document = [d \in Document |-> Unused]
  /\ revisionPage = [a \in Allocator |-> NullPage]
  /\ held = [t \in Threads |-> [d \in Document |-> 0]]
  /\ granted = [t \in Threads |-> {}]
  /\ call = [t \in Threads |-> Idle]
  /\ fault = "none"

-----------------------------------------------------------------------------
(* Documents, branches and revisions.                                      *)

Alive == {d \in Document : document[d].flags # "none"}

RevisionOf(d) == revision[revisionPage[document[d].allocator]]
BranchOf(d) == RevisionOf(d).branch
IsWritable(d) == RevisionOf(d).writable
IsLockedWrite(t, d) == writeMutex[BranchOf(d)] = t

\* The branch and the branches forked from it, directly or not.
Ancestors(b) ==
  LET ancestors[c \in Branch \cup {NoBranch}] ==
        IF c = NoBranch THEN {} ELSE {c} \cup ancestors[dependsOn[c]]
  IN ancestors[b]

Dependants(b) == {c \in branchMap : b \in Ancestors(c)}

\* The revision pages of a branch, from the last one to the first.
RevisionsFrom(p) ==
  LET from[q \in Page \cup {NullPage}] ==
        IF q = NullPage THEN {} ELSE {q} \cup from[revision[q].prev]
  IN from[p]

LastIsWritable(b) == lastRevision[b] # NullPage /\ revision[lastRevision[b]].writable

FreePages == {p \in Page : revision[p] = NoRevision}
FreeNumbers == {d \in Document : /\ d \notin Alive
                                 /\ \A t \in Threads : call[t].doc # d /\ held[t][d] = 0}
FreeAllocators == Allocator \ {document[d].allocator : d \in Alive}

\* The bound on the revision pages is met before a call that creates one begins:
\* no call is stopped by it in the middle.
Creating == {t \in Threads : call[t].step \in {"openWrite", "reopen", "reopenLock", "forkLock"}}
PageLeft == Cardinality(Creating) < Cardinality(FreePages)

\* The number of references t has.
InUse(t) == MapThenSumSet(LAMBDA d : held[t][d], Document)

Return(t) == call' = [call EXCEPT ![t] = Idle]

-----------------------------------------------------------------------------
(* Branch removal.                                                         *)

\* Mutant: the branches forked from b are not looked at.
IsFreeFromDocumentsAlone(b, registered) == registered[b] = {}

IsFreeFromDocuments(b, registered) == \A c \in Dependants(b) : registered[c] = {}

\* Mutant: the branches that depend on b are left without it.
RemovedBranchesAlone(b, registered) ==
  IF b \in scheduled /\ IsFreeFromDocuments(b, registered) THEN {b} ELSE {}

\* checkBranchRemoval(), and deleteBranch() with the branches that depend on
\* it: what is deleted when the documents of each branch are "registered".  A
\* reusable document is registered: a deleted branch has none.
RemovedBranches(b, registered) ==
  IF /\ b \in scheduled \/ lastRevision[b] = NullPage
     /\ IsFreeFromDocuments(b, registered)
  THEN Dependants(b) ELSE {}

\* Mutant: the identifier of a removed branch stays scheduled.
RemoveBranchesStillScheduled(removed) ==
  LET dropped == UNION {RevisionsFrom(lastRevision[b]) : b \in removed} IN
  /\ branchMap' = branchMap \ removed
  /\ dependsOn' = [b \in Branch |-> IF b \in removed THEN NoBranch ELSE dependsOn[b]]
  /\ lastRevision' = [b \in Branch |-> IF b \in removed THEN NullPage ELSE lastRevision[b]]
  /\ revision' = [p \in Page |-> IF p \in dropped THEN NoRevision ELSE revision[p]]
  /\ UNCHANGED <<nextBranchId, scheduled>>

\* dropRevisions() frees the pages that the chain of revisions reaches.
RemoveBranches(removed) ==
  LET dropped == UNION {RevisionsFrom(lastRevision[b]) : b \in removed} IN
  /\ branchMap' = branchMap \ removed
  /\ scheduled' = scheduled \ removed
  /\ dependsOn' = [b \in Branch |-> IF b \in removed THEN NoBranch ELSE dependsOn[b]]
  /\ lastRevision' = [b \in Branch |-> IF b \in removed THEN NullPage ELSE lastRevision[b]]
  /\ revision' = [p \in Page |-> IF p \in dropped THEN NoRevision ELSE revision[p]]
  /\ UNCHANGED nextBranchId

\* The documents in memory are those of "next"; an allocator goes with the last
\* document bound to it.
SetDocuments(next, position) ==
  /\ document' = next
  /\ revisionPage' = [a \in Allocator |->
       IF \E d \in Document : next[d].allocator = a THEN position[a] ELSE NullPage]

\* PersistentBranchManager::scheduleBranchForRemoval()
ScheduleRemoval(t, d) ==
  /\ "remove" \in Uses
  /\ call[t] = Idle /\ held[t][d] > 0
  /\ branchManager = NoThread
  /\ scheduled' = scheduled \cup {BranchOf(d)}
  /\ UNCHANGED <<mutexes, nextBranchId, branchMap, dependsOn, revisions, documents, threads, fault>>

-----------------------------------------------------------------------------
(* Creating branches and revisions.                                        *)

\* doCreateBranch(), under branchManagerMutex: the branch has no revision yet.
DoCreateBranch(from) ==
  /\ branchManager = NoThread
  /\ nextBranchId <= MaxBranches
  /\ nextBranchId' = nextBranchId + 1
  /\ branchMap' = branchMap \cup {nextBranchId}
  /\ dependsOn' = [dependsOn EXCEPT ![nextBranchId] = from]
  /\ UNCHANGED scheduled

CreateBranch(t) ==
  /\ "create" \in Uses
  /\ call[t] = Idle
  /\ DoCreateBranch(NoBranch)
  /\ UNCHANGED <<mutexes, revisions, documents, threads, fault>>

\* Mutant: a revision that is reset stays writable under the new one.
CreateRevisionStillWritable(b, p, noInherit) ==
  LET last == lastRevision[b] IN
  /\ revision' = [revision EXCEPT ![p] =
       [branch |-> b, id |-> IF last = NullPage THEN 1 ELSE revision[last].id + 1,
        prev |-> last, base |-> IF noInherit THEN NullPage ELSE last,
        writable |-> TRUE, edits |-> 0]]
  /\ lastRevision' = [lastRevision EXCEPT ![b] = p]

\* Mutant: the new revision forgets the one before it.
CreateRevisionUnlinked(b, p, noInherit) ==
  LET last == lastRevision[b] IN
  /\ revision' = [revision EXCEPT ![p] =
       [branch |-> b, id |-> IF last = NullPage THEN 1 ELSE revision[last].id + 1,
        prev |-> NullPage, base |-> IF noInherit THEN NullPage ELSE last,
        writable |-> TRUE, edits |-> 0]]
  /\ lastRevision' = [lastRevision EXCEPT ![b] = p]

\* createRevision() on page p, the last revision not being writable or noInherit
\* making it committed as it is.
CreateRevision(b, p, noInherit) ==
  LET last == lastRevision[b] IN
  /\ revision' = [q \in Page |->
       IF q = p THEN
         [branch |-> b, id |-> IF last = NullPage THEN 1 ELSE revision[last].id + 1,
          prev |-> last, base |-> IF noInherit THEN NullPage ELSE last,
          writable |-> TRUE, edits |-> 0]
       ELSE IF q = last THEN [revision[q] EXCEPT !.writable = FALSE]
       ELSE revision[q]]
  /\ lastRevision' = [lastRevision EXCEPT ![b] = p]

-----------------------------------------------------------------------------
(* Opening documents.                                                      *)

\* openDocument() with Write or ResetRevision takes branchManagerMutex ...
OpenWriteBegin(t, b, flags) ==
  /\ call[t] = Idle /\ InUse(t) < MaxHeld
  /\ branchManager = NoThread /\ b \in branchMap
  /\ flags \in OpenFlags \cap {"Write", "ResetRevision"}
  /\ PageLeft /\ FreeNumbers # {}
  /\ branchManager' = t
  /\ call' = [call EXCEPT ![t] = [Idle EXCEPT !.step = "openWrite", !.branch = b, !.flags = flags]]
  /\ UNCHANGED <<writeMutex, branches, revisions, documents, held, granted, fault>>

\* ... and keeps it while it waits for the branch.
OpenWrite(t) ==
  LET b == call[t].branch
      noInherit == call[t].flags = "ResetRevision"
  IN
  /\ call[t].step = "openWrite"
  /\ writeMutex[b] = NoThread
  /\ LastIsWritable(b) => noInherit
  /\ writeMutex' = [writeMutex EXCEPT ![b] = t]
  /\ branchManager' = NoThread
  /\ \E p \in FreePages, d \in FreeNumbers, a \in FreeAllocators :
       /\ p = Min(FreePages) /\ d = Min(FreeNumbers) /\ a = Min(FreeAllocators)
       /\ CreateRevision(b, p, noInherit)
       /\ SetDocuments([document EXCEPT ![d] =
                          [flags |-> call[t].flags, allocator |-> a, refCount |-> 0]],
                       [revisionPage EXCEPT ![a] = p])
       /\ instanciated' = [instanciated EXCEPT ![b] = @ \cup {d}]
       /\ granted' = [granted EXCEPT ![t] = @ \cup {d}]
       /\ call' = [call EXCEPT ![t] =
            [Idle EXCEPT !.step = "opened", !.doc = d, !.flags = call[t].flags]]
  /\ UNCHANGED <<branches, reusable, held, fault>>

\* createRevision() throws: branchManagerMutex is unlocked on the way out, the
\* mutex of the branch is not.
OpenWriteThrows(t) ==
  LET b == call[t].branch IN
  /\ call[t].step = "openWrite"
  /\ writeMutex[b] = NoThread
  /\ LastIsWritable(b) /\ call[t].flags = "Write"
  /\ writeMutex' = [writeMutex EXCEPT ![b] = t]
  /\ branchManager' = NoThread
  /\ Return(t)
  /\ UNCHANGED <<branches, revisions, documents, held, granted, fault>>

\* lookupRevision(): the last revision or a given one; one that is being written
\* is replaced by the one before it, except for those who ask for it.
LookupRevision(p, flags) ==
  IF revision[p].writable /\ flags \in {"Read", "ExplicitRead"} THEN revision[p].prev ELSE p

\* The documents of branch b whose allocator openDocument() may share.
Followed(b, p, flags) ==
  {d \in instanciated[b] : /\ flags = "FollowBranch" /\ document[d].flags = "FollowBranch"
                           /\ RevisionOf(d).id = revision[p].id}

\* getReusableDocument(), roles aside.
ReusableFor(b, p, flags) ==
  /\ reusable[b] # NoDocument
  /\ RevisionOf(reusable[b]).id = revision[p].id
  /\ document[reusable[b]].flags = flags

\* Mutant: a reusable document that is in use is deleted too.
CollectableInUse(b) == reusable[b] # NoDocument

\* cleanupReusableDocument() may delete the reusable document of b.
Collectable(b) == reusable[b] # NoDocument /\ document[reusable[b]].refCount = 1

\* setReusableDocument() refuses a document older than the one it has, and does
\* away with the one it replaces when nobody uses it.
SetsReusable(b, p, flags) ==
  /\ flags = "ExplicitRead"
  /\ reusable[b] # NoDocument => revision[p].id >= RevisionOf(reusable[b]).id

\* A new document d is instanciated at page p of branch b.
InstanciateDocument(b, p, d, a, flags) ==
  LET kept == SetsReusable(b, p, flags)
      deleted == IF kept /\ Collectable(b) THEN {reusable[b]} ELSE {}
  IN
  /\ SetDocuments([e \in Document |->
         IF e = d THEN [flags |-> flags, allocator |-> a, refCount |-> IF kept THEN 1 ELSE 0]
         ELSE IF e \in deleted THEN Unused
         ELSE document[e]],
       [revisionPage EXCEPT ![a] = IF a \in FreeAllocators THEN p ELSE @])
  /\ instanciated' = [instanciated EXCEPT ![b] = (@ \ deleted) \cup {d}]
  /\ reusable' = [reusable EXCEPT ![b] = IF kept THEN d ELSE @]

\* openDocument() with the other flags, under branchManagerMutex all along.
OpenRead(t, b, asked, flags) ==
  LET p == LookupRevision(asked, flags) IN
  /\ call[t] = Idle /\ InUse(t) < MaxHeld
  /\ branchManager = NoThread /\ b \in branchMap
  /\ flags \in OpenFlags \ {"Write", "ResetRevision"}
  /\ asked \in RevisionsFrom(lastRevision[b])
  /\ flags = "FollowBranch" => asked = lastRevision[b]
  /\ p # NullPage
  /\ \E d \in Document :
       /\ call' = [call EXCEPT ![t] = [Idle EXCEPT !.step = "opened", !.doc = d, !.flags = flags]]
       /\ \/ /\ ReusableFor(b, p, flags)
             /\ d = reusable[b]
             /\ UNCHANGED documents
          \/ /\ ~ReusableFor(b, p, flags)
             /\ FreeNumbers # {} /\ d = Min(FreeNumbers)
             /\ \E a \in Allocator :
                  /\ IF Followed(b, p, flags) # {}
                     THEN \E e \in Followed(b, p, flags) : a = document[e].allocator
                     ELSE a = Min(FreeAllocators)
                  /\ InstanciateDocument(b, p, d, a, flags)
  /\ UNCHANGED <<mutexes, branches, revisions, held, granted, fault>>

\* The caller counts its reference, once openDocument() has returned.  Opening
\* "as-revision" (instructionSetRole) then asks for the lock of a revision that
\* another thread is writing.
IncrementRefCount(t) ==
  LET d == call[t].doc IN
  /\ call[t].step = "opened"
  /\ d \in Alive
  /\ document' = [document EXCEPT ![d].refCount = @ + 1]
  /\ held' = [held EXCEPT ![t][d] = @ + 1]
  /\ IF call[t].flags = "AsRevision" /\ IsWritable(d) /\ ~IsLockedWrite(t, d)
     THEN call' = [call EXCEPT ![t].step = "lock", ![t].branch = BranchOf(d)]
     ELSE Return(t)
  /\ UNCHANGED <<mutexes, branches, revisions, instanciated, reusable, revisionPage, granted, fault>>

IncrementRefCountOfFreed(t) ==
  /\ call[t].step = "opened"
  /\ call[t].doc \notin Alive
  /\ fault' = "freed document"
  /\ UNCHANGED <<mutexes, branches, revisions, documents, threads>>

-----------------------------------------------------------------------------
(* Writing.                                                                *)

Grant(t, d) == granted' = [granted EXCEPT ![t] = @ \cup {d}]

\* xupdateSetDocumentWritable() and grantWrite(XProcessor&): the document is
\* writable and locked, or has to be locked, or to be reopened.
GrantWrite(t, d) ==
  /\ call[t] = Idle /\ held[t][d] > 0 /\ d \notin granted[t]
  /\ \/ /\ IsWritable(d) /\ IsLockedWrite(t, d)
        /\ Grant(t, d)
        /\ UNCHANGED call
     \/ /\ IsWritable(d) /\ ~IsLockedWrite(t, d)
        /\ call' = [call EXCEPT ![t] =
             [Idle EXCEPT !.step = "lock", !.doc = d, !.branch = BranchOf(d)]]
        /\ UNCHANGED granted
     \/ /\ ~IsWritable(d) /\ document[d].flags # "ExplicitRead" /\ PageLeft
        /\ call' = [call EXCEPT ![t] = [Idle EXCEPT !.step = "reopen", !.doc = d]]
        /\ UNCHANGED granted
  /\ UNCHANGED <<mutexes, branches, revisions, documents, held, fault>>

\* Mutant: the revision is not looked at again once the lock is there.
LockWriteUnchecked(t) ==
  /\ call[t].step = "lock"
  /\ writeMutex[call[t].branch] = NoThread
  /\ writeMutex' = [writeMutex EXCEPT ![call[t].branch] = t]
  /\ Grant(t, call[t].doc)
  /\ Return(t)
  /\ UNCHANGED <<branchManager, branches, revisions, documents, held, fault>>

\* PersistentDocument::lockWrite(): a revision committed while the thread was
\* waiting is unlocked.  instructionSetRole() gives the document up then;
\* grantWrite(XProcessor&) does not look.
LockWrite(t) ==
  LET d == call[t].doc
      b == call[t].branch
  IN
  /\ call[t].step = "lock"
  /\ writeMutex[b] = NoThread
  /\ \/ /\ IsWritable(d)
        /\ writeMutex' = [writeMutex EXCEPT ![b] = t]
        /\ Grant(t, d)
        /\ Return(t)
     \/ /\ ~IsWritable(d)
        /\ writeMutex' = [writeMutex EXCEPT ![b] = t, ![BranchOf(d)] = NoThread]
        /\ \/ /\ call[t].flags = "AsRevision"
              /\ call' = [call EXCEPT ![t] = [Idle EXCEPT !.step = "discard", !.doc = d]]
              /\ UNCHANGED granted
           \/ /\ call[t].flags # "AsRevision"
              /\ Grant(t, d)
              /\ Return(t)
  /\ UNCHANGED <<branchManager, branches, revisions, documents, held, fault>>

\* PersistentDocumentAllocator::reopen() takes both mutexes ...
ReopenBegin(t) ==
  /\ call[t].step = "reopen"
  /\ branchManager = NoThread
  /\ branchManager' = t
  /\ call' = [call EXCEPT ![t].step = "reopenLock", ![t].branch = BranchOf(call[t].doc)]
  /\ UNCHANGED <<writeMutex, branches, revisions, documents, held, granted, fault>>

\* Mutant: any revision may be continued.
IsLastRevisionAssumed(d) == TRUE

\* createWritableRevisionJustAfter()
IsLastRevision(d) == RevisionOf(d).id = revision[lastRevision[BranchOf(d)]].id

\* ... and creates a revision if the document is at the last one
\* (createWritableRevisionJustAfter()); it throws otherwise.  An exception of
\* createRevision() leaves both mutexes locked.
ReopenLock(t) ==
  LET d == call[t].doc
      locked == [writeMutex EXCEPT ![call[t].branch] = t]
      b == BranchOf(d)
  IN
  /\ call[t].step = "reopenLock"
  /\ writeMutex[call[t].branch] = NoThread
  /\ \/ /\ IsLastRevision(d) /\ ~LastIsWritable(b)
        /\ \E p \in FreePages :
             /\ p = Min(FreePages)
             /\ CreateRevision(b, p, FALSE)
             /\ call' = [call EXCEPT ![t].step = "reopenSwitch", ![t].page = p]
        /\ writeMutex' = locked
        /\ branchManager' = NoThread
     \/ /\ IsLastRevision(d) /\ LastIsWritable(b)
        /\ writeMutex' = locked
        /\ Return(t)
        /\ UNCHANGED <<branchManager, revisions>>
     \/ /\ ~IsLastRevision(d)
        /\ writeMutex' = [locked EXCEPT ![b] = NoThread]
        /\ branchManager' = NoThread
        /\ Return(t)
        /\ UNCHANGED revisions
  /\ UNCHANGED <<branches, documents, held, granted, fault>>

SwitchRevisionPage(t) ==
  revisionPage' = [revisionPage EXCEPT ![document[call[t].doc].allocator] = call[t].page]

\* Under the lock of the branch only.
ReopenSwitch(t) ==
  /\ call[t].step = "reopenSwitch"
  /\ SwitchRevisionPage(t)
  /\ Grant(t, call[t].doc)
  /\ Return(t)
  /\ UNCHANGED <<mutexes, branches, revisions, instanciated, reusable, document, held, fault>>

\* A modification of the document: nothing checks that it is writable.
Edit(t, d) ==
  LET p == revisionPage[document[d].allocator] IN
  /\ call[t] = Idle /\ d \in granted[t]
  /\ revision[p].edits < MaxEdits
  /\ revision' = [revision EXCEPT ![p].edits = @ + 1]
  /\ UNCHANGED <<mutexes, branches, lastRevision, documents, threads, fault>>

\* Mutant: the lock of the branch is kept.
CommitStillLocked(t, d) ==
  /\ call[t] = Idle /\ held[t][d] > 0
  /\ IsWritable(d) /\ IsLockedWrite(t, d)
  /\ revision' = [revision EXCEPT ![revisionPage[document[d].allocator]].writable = FALSE]
  /\ granted' = [granted EXCEPT ![t] = @ \ {d}]
  /\ UNCHANGED <<mutexes, branches, lastRevision, documents, held, call, fault>>

\* PersistentDocumentAllocator::commit()
Commit(t, d) ==
  /\ call[t] = Idle /\ held[t][d] > 0
  /\ IsWritable(d) /\ IsLockedWrite(t, d)
  /\ revision' = [revision EXCEPT ![revisionPage[document[d].allocator]].writable = FALSE]
  /\ writeMutex' = [writeMutex EXCEPT ![BranchOf(d)] = NoThread]
  /\ granted' = [granted EXCEPT ![t] = @ \ {d}]
  /\ UNCHANGED <<branchManager, branches, lastRevision, documents, held, call, fault>>

-----------------------------------------------------------------------------
(* Forking: PersistentDocument::fork().                                    *)

\* createBranch(); branchManagerMutex is then unlocked.
Fork(t, d) ==
  /\ "fork" \in Uses
  /\ call[t] = Idle /\ held[t][d] > 0
  /\ ~IsWritable(d) /\ document[d].flags # "ExplicitRead" /\ PageLeft
  /\ DoCreateBranch(BranchOf(d))
  /\ call' = [call EXCEPT ![t] =
       [Idle EXCEPT !.step = "forkLock", !.doc = d, !.branch = nextBranchId,
                    !.page = revisionPage[document[d].allocator]]]
  /\ UNCHANGED <<mutexes, revisions, documents, held, granted, fault>>

\* The rest of forkRevision(), under the lock of the new branch.
ForkRevision(t) ==
  LET b == call[t].branch IN
  /\ call[t].step = "forkLock"
  /\ writeMutex[b] = NoThread
  /\ writeMutex' = [writeMutex EXCEPT ![b] = t]
  /\ \E p \in FreePages :
       /\ p = Min(FreePages)
       /\ revision' = [revision EXCEPT ![p] =
            [branch |-> b, id |-> 1, prev |-> NullPage, base |-> call[t].page,
             writable |-> TRUE, edits |-> 0]]
       /\ lastRevision' = [lastRevision EXCEPT ![b] = p]
       /\ call' = [call EXCEPT ![t].step = "forkSwitch", ![t].page = p]
  /\ UNCHANGED <<branchManager, branches, documents, held, granted, fault>>

ForkSwitch(t) ==
  /\ call[t].step = "forkSwitch"
  /\ SwitchRevisionPage(t)
  /\ call' = [call EXCEPT ![t].step = "forkReference"]
  /\ UNCHANGED <<mutexes, branches, revisions, instanciated, reusable, document, held, granted, fault>>

\* updateDocumentReference(): the old branch forgets the document and may be
\* removed, with the new one, before the new one is given the document.
ForkReference(t) ==
  LET d == call[t].doc
      old == dependsOn[call[t].branch]
      registered == [instanciated EXCEPT ![old] = @ \ {d}]
  IN
  /\ call[t].step = "forkReference"
  /\ branchManager = NoThread
  /\ \/ /\ d \notin instanciated[old]
        /\ fault' = "not referenced"
        /\ UNCHANGED <<instanciated, threads>>
     \/ /\ d \in instanciated[old] /\ RemovedBranches(old, registered) # {}
        /\ fault' = "freed branch"
        /\ UNCHANGED <<instanciated, threads>>
     \/ /\ d \in instanciated[old] /\ RemovedBranches(old, registered) = {}
        /\ instanciated' = [registered EXCEPT ![call[t].branch] = @ \cup {d}]
        /\ Grant(t, d)
        /\ Return(t)
        /\ UNCHANGED <<held, fault>>
  /\ UNCHANGED <<mutexes, branches, revisions, reusable, document, revisionPage>>

-----------------------------------------------------------------------------
(* Releasing documents.                                                    *)

\* Store::releaseDocument() first unlocks the branch the thread has locked.
ReleaseBegin(t, d) ==
  /\ call[t] = Idle \/ (call[t].step = "discard" /\ call[t].doc = d)
  /\ held[t][d] > 0
  /\ d \in granted[t] => "abandon" \in Uses
  /\ writeMutex' = IF IsLockedWrite(t, d) THEN [writeMutex EXCEPT ![BranchOf(d)] = NoThread]
                   ELSE writeMutex
  /\ granted' = [granted EXCEPT ![t] = @ \ {d}]
  /\ call' = [call EXCEPT ![t] = [Idle EXCEPT !.step = "release", !.doc = d]]
  /\ UNCHANGED <<branchManager, branches, revisions, documents, held, fault>>

\* The branches whose memory is used by a fork, or by a document other than d.
BranchesInUse(d) ==
  {BranchOf(e) : e \in Alive \ {d}} \cup
  {call[t].branch : t \in {u \in Threads : call[u].step \in {"forkLock", "forkSwitch", "forkReference"}}}

\* The last reference takes the document off its branch, which may be removed,
\* and deletes it.
ReleaseDocument(t) ==
  LET d == call[t].doc
      b == BranchOf(d)
      registered == [instanciated EXCEPT ![b] = @ \ {d}]
  IN
  /\ call[t].step = "release"
  /\ branchManager = NoThread
  /\ \/ /\ document[d].refCount > 1
        /\ document' = [document EXCEPT ![d].refCount = @ - 1]
        /\ held' = [held EXCEPT ![t][d] = @ - 1]
        /\ Return(t)
        /\ UNCHANGED <<writeMutex, branches, revisions, instanciated, revisionPage, granted, fault>>
     \/ /\ document[d].refCount = 1 /\ d \in instanciated[b]
        /\ LET removed == RemovedBranches(b, registered) IN
             /\ RemoveBranches(removed)
             /\ writeMutex' = [c \in Branch |-> IF c \in removed THEN NoThread ELSE writeMutex[c]]
             /\ fault' = IF removed \cap BranchesInUse(d) = {} THEN fault ELSE "freed branch"
        /\ instanciated' = registered
        /\ SetDocuments([document EXCEPT ![d] = Unused], revisionPage)
        /\ held' = [held EXCEPT ![t][d] = 0]
        /\ Return(t)
        /\ UNCHANGED granted
     \/ /\ document[d].refCount = 1 /\ d \notin instanciated[b]
        /\ fault' = "not referenced"
        /\ UNCHANGED <<writeMutex, branches, revisions, instanciated, document, revisionPage, threads>>
  /\ UNCHANGED <<branchManager, reusable>>

\* The garbage collector thread: cleanupReusableDocument() on every branch.
Collect ==
  LET collected == {b \in branchMap : Collectable(b)}
      deleted == {reusable[b] : b \in collected}
  IN
  /\ "collect" \in Uses
  /\ branchManager = NoThread
  /\ collected # {}
  /\ instanciated' = [b \in Branch |-> instanciated[b] \ deleted]
  /\ reusable' = [b \in Branch |-> IF b \in collected THEN NoDocument ELSE reusable[b]]
  /\ SetDocuments([d \in Document |-> IF d \in deleted THEN Unused ELSE document[d]], revisionPage)
  /\ UNCHANGED <<mutexes, branches, revisions, threads, fault>>

-----------------------------------------------------------------------------

\* What a thread does inside a call.
Proceed(t) ==
  \/ OpenWrite(t)
  \/ OpenWriteThrows(t)
  \/ IncrementRefCount(t)
  \/ IncrementRefCountOfFreed(t)
  \/ LockWrite(t)
  \/ ReopenBegin(t)
  \/ ReopenLock(t)
  \/ ReopenSwitch(t)
  \/ ForkRevision(t)
  \/ ForkSwitch(t)
  \/ ForkReference(t)
  \/ ReleaseDocument(t)

\* What it does with a document it has opened.
UseDocument(t, d) ==
  \/ GrantWrite(t, d)
  \/ Edit(t, d)
  \/ Commit(t, d)
  \/ Fork(t, d)
  \/ ScheduleRemoval(t, d)
  \/ ReleaseBegin(t, d)

Open(t) ==
  \/ CreateBranch(t)
  \/ \E b \in Branch, flags \in OpenFlags : OpenWriteBegin(t, b, flags)
  \/ \E b \in Branch, p \in Page, flags \in OpenFlags : OpenRead(t, b, p, flags)

Next ==
  /\ fault = "none"
  /\ \/ \E t \in Threads : Proceed(t) \/ Open(t) \/ \E d \in Document : UseDocument(t, d)
     \/ Collect

Spec == Init /\ [][Next]_vars

\* The threads are scheduled, and one that has been granted a document ends up
\* committing it: what the scripts run by the threads do between the two ends.
Fairness ==
  \A t \in Threads :
    /\ WF_vars(fault = "none" /\ Proceed(t))
    /\ WF_vars(fault = "none" /\ \E d \in granted[t] : Commit(t, d))

FairSpec == Spec /\ Fairness

-----------------------------------------------------------------------------
(* Properties.                                                             *)

\* A branch is one line of revisions, numbered from 1, of which the last one
\* alone may be writable; and a revision page in use belongs to the line of a
\* branch that exists: no revision is forgotten, whoever creates the revisions
\* (createRevision(), forkRevision(), dropRevisions()).
LinearHistory ==
  /\ \A b \in branchMap : \A p \in RevisionsFrom(lastRevision[b]) :
       LET r == revision[p] IN
       /\ r.branch = b
       /\ r.id = IF r.prev = NullPage THEN 1 ELSE revision[r.prev].id + 1
       /\ r.writable => p = lastRevision[b]
  /\ \A p \in Page \ FreePages :
       /\ revision[p].branch \in branchMap
       /\ p \in RevisionsFrom(lastRevision[revision[p].branch])

\* A revision shares the pages of the one it was copied from: as long as it is
\* there, so is the other, committed, and just before it in its branch or in
\* the branch it was forked from (deleteBranch() takes the dependant branches).
BasesKept ==
  \A p \in Page \ FreePages :
    LET r == revision[p]
        base == revision[r.base]
    IN r.base # NullPage =>
         /\ r.base \notin FreePages /\ ~base.writable
         /\ \/ r.base = r.prev
            \/ r.prev = NullPage /\ base.branch = dependsOn[r.branch]

\* A thread that was granted write access to a document holds the lock of the
\* branch of the document, and the revision is writable: what it modifies is
\* seen by no reader and modified by nobody else.  It is the assertion of
\* authorizePageWrite() and commit() on the lock of the branch.
GrantHolds ==
  \A t \in Threads : \A d \in granted[t] : IsLockedWrite(t, d) /\ IsWritable(d)

\* A document moves from a revision only to one that was copied from it: no
\* commit made by another thread in between is ignored, nor lost
\* (createWritableRevisionJustAfter(), forkRevision()).
NoLostUpdate ==
  [][\A a \in Allocator :
       LET p == revisionPage[a]
           q == revisionPage'[a]
       IN NullPage \notin {p, q} /\ p # q => revision'[q].base = p]_vars

\* A document is registered in one branch, its own (or the one it comes from, in
\* the middle of a fork); its revision is there, and so is its branch with all
\* those it was forked from, whatever has been scheduled for removal.
DocumentsKept ==
  \A d \in Alive :
    LET forking == \E t \in Threads : call[t].step = "forkReference" /\ call[t].doc = d
    IN
    /\ revisionPage[document[d].allocator] \notin FreePages
    /\ Ancestors(BranchOf(d)) \subseteq branchMap
    /\ {b \in Branch : d \in instanciated[b]} =
         {IF forking THEN dependsOn[BranchOf(d)] ELSE BranchOf(d)}

\* A document is counted as many times as there are references to it, those of
\* the threads and that of the branch it can be reused from: neither the last
\* release nor the garbage collector deletes a document somebody uses.
ReferencesCounted ==
  \A d \in Document :
    MapThenSumSet(LAMBDA t : held[t][d], Threads) +
      Cardinality({b \in Branch : reusable[b] = d}) <= document[d].refCount

\* The threads that take branchManagerMutex and wait for a branch get it, and
\* release branchManagerMutex: no other thread waits for it forever.
BranchManagerReleased == \A t \in Threads : branchManager = t ~> branchManager # t

\* The committed revisions of a branch, first to last.
CommittedRevisions(b) ==
  LET line[p \in Page \cup {NullPage}] ==
        IF p = NullPage THEN <<>>
        ELSE line[revision[p].prev] \o
             (IF revision[p].writable THEN <<>>
              ELSE <<[page |-> p, base |-> revision[p].base, edits |-> revision[p].edits]>>)
  IN line[lastRevision[b]]

History == INSTANCE RevisionHistory WITH
  history <- [b \in Branch |-> CommittedRevisions(b)],
  Revision <- [page : Page, base : Page \cup {NullPage}, edits : 0 .. MaxEdits]

\* Documents opened, locked, modified, committed, reopened, forked and released
\* by several threads implement the promise on the history of each branch.
HistoryKept == History!Spec

\* openDocument() returns a document that is there, until the caller has counted
\* its reference: the assertion of DocumentRef.
OpenedIsAlive ==
  \A t \in Threads : call[t].step = "opened" => call[t].doc \in Alive

\* A thread that reopens a document does not hold the lock it is going to wait
\* for: assertBranchUnlockedForWrite() in reopen().
ReopensUnlocked ==
  \A t \in Threads : call[t].step = "reopen" => ~IsLockedWrite(t, call[t].doc)

\* A fork ends up with the document registered in a branch that is still there.
ForkedIsKept == fault # "freed branch"

\* No thread waits for a branch locked by a thread that waits for it to release
\* branchManagerMutex.
NoLockCycle ==
  \A t, u \in Threads :
    ~ /\ branchManager = t /\ call[t].step \in {"openWrite", "reopenLock"}
      /\ writeMutex[call[t].branch] = u
      /\ call[u].step \in {"reopen", "forkReference", "release"}
=============================================================================
