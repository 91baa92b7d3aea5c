--------------------------- MODULE BranchWriteProofs ---------------------------
(***************************************************************************)
(* Theorems about BranchManager: who may write, on what, and what becomes  *)
(* of it.  A thread that was granted a document holds the lock of its      *)
(* branch on a writable revision; no update is lost when a document        *)
(* changes revisions; and what is committed stays as it is, so that the    *)
(* branch manager implements RevisionHistory.                              *)
(***************************************************************************)
EXTENDS BranchHistoryProofs, SequenceTheorems

USE BoundsAssumption, UsesAssumption, ThreadsAssumption, NoThreadAssumption

\* A thread uses one document at a time: with two on the same branch, releasing
\* or committing one unlocks the branch of the other.  And no document follows
\* its branch: lookupRevision() gives the revision of a writer to those that do.
AssumedAlone == Assumed /\ MaxHeld <= 1 /\ "FollowBranch" \notin OpenFlags

-----------------------------------------------------------------------------
(* What the calls of a thread may write.                                   *)

OneHeld(u) == \A d, e \in Document : held[u][d] > 0 /\ held[u][e] > 0 => d = e

GrantsHold(u) == \A d \in granted[u] : IsWritable(d) /\ IsLockedWrite(u, d)

Unlocked == {"lock", "release"}

\* What is writable and held is locked, but before lockWrite() returns and once
\* releaseDocument() has unlocked it.
HeldLocked(u) ==
  \A d \in Document :
    held[u][d] > 0 /\ call[u].step \notin Unlocked /\ IsWritable(d) => IsLockedWrite(u, d)

CallWrites(u) ==
  LET d == call[u].doc
      p == call[u].page IN
  /\ call[u].step = "lock" => call[u].flags = "AsRevision"
  /\ call[u].step = "reopenSwitch" =>
       revision[p].writable /\ revision[p].base = PageOf(d) /\ IsLockedWrite(u, d)
  /\ call[u].step = "opened" /\ d \in Alive /\ call[u].flags \in {"Read", "ExplicitRead"} =>
       ~IsWritable(d)
  /\ call[u].step = "opened" /\ call[u].flags \in {"Write", "ResetRevision"} => d \in granted[u]

WriteOf(u) == OneHeld(u) /\ GrantsHold(u) /\ HeldLocked(u) /\ CallWrites(u)

WriteInv == \A u \in Threads : WriteOf(u)

\* The calls that may write nothing yet.
Harmless == Steps \ {"lock", "reopenSwitch", "opened"}

LEMMA HarmlessWrites ==
  ASSUME NEW t \in Threads, call'[t].step \in Harmless
  PROVE  CallWrites(t)'
BY DEF CallWrites, Harmless

\* A thread that opens a document has no other.
LEMMA NoneHeld ==
  ASSUME AssumedAlone, CountingInv, NEW t \in Threads, call[t].step \in {"openWrite", "opened"},
         NEW d \in Document
  PROVE  held[t][d] = 0
<1>1. Using(t) < MaxHeld /\ HeldType
  BY DEF CountingInv, CallSound, Types
<1>2. InUse(t) \in Nat /\ held[t][d] <= InUse(t) /\ InUse(t) = Using(t)
  BY <1>1, HeldWithinUse, InUseMeant DEF Using
<1>3. held[t][d] \in Nat /\ MaxHeld \in Nat /\ MaxHeld <= 1
  BY <1>1, Finite DEF HeldType, AssumedAlone
<1>4. QED
  BY <1>1, <1>2, <1>3

LEMMA UsedOnce ==
  ASSUME AssumedAlone, CountingInv, NEW t \in Threads, OneHeld(t),
         NEW d \in Document, NEW e \in Document, UsedBy(t, d), UsedBy(t, e)
  PROVE  d = e
<1>1. CASE call[t].step = "opened"
  <2>1. held[t][d] = 0 /\ held[t][e] = 0
    BY <1>1, NoneHeld
  <2>2. QED
    BY <2>1 DEF UsedBy
<1>2. CASE call[t].step # "opened"
  BY <1>2 DEF UsedBy, OneHeld
<1>3. QED
  BY <1>1, <1>2

-----------------------------------------------------------------------------
(* What a step leaves of what a thread x does not write.                   *)

\* A revision on a branch that another thread has locked stays writable.
PagesSteady(x) ==
  \A q \in Taken : revision[q].branch \in branchMap' =>
    /\ Kept(q)
    /\ revision[q].writable /\ writeMutex[revision[q].branch] \notin {x, NoThread} =>
         revision'[q].writable

Steady(x, e) ==
  /\ e \in Alive /\ PageOf(e)' = PageOf(e) /\ BranchOf(e)' = BranchOf(e)
  /\ BranchOf(e) \in branchMap'
  /\ IsWritable(e)' => IsWritable(e)
  /\ \/ writeMutex[BranchOf(e)] \in {x, NoThread}
     \/ /\ writeMutex'[BranchOf(e)] = writeMutex[BranchOf(e)]
        /\ IsWritable(e) => IsWritable(e)'

LEMMA DocumentSteady ==
  ASSUME HistoryInv, NEW x, PagesSteady(x), NEW e \in Alive, PageOf(e)' = PageOf(e),
         BranchOf(e) \in branchMap',
         \/ writeMutex'[BranchOf(e)] = writeMutex[BranchOf(e)]
         \/ writeMutex[BranchOf(e)] \in {x, NoThread}
  PROVE  Steady(x, e)
<1> DEFINE q == PageOf(e)
<1>1. q \in Taken /\ revision[q].branch = BranchOf(e) /\ revision[q].writable = IsWritable(e)
  BY DEF HistoryInv, Placed, BranchOf, IsWritable, RevisionOf, PageOf
<1>2. /\ Kept(q)
      /\ IsWritable(e) /\ writeMutex[BranchOf(e)] \notin {x, NoThread} => revision'[q].writable
  BY <1>1 DEF PagesSteady
<1>3. BranchOf(e)' = revision'[q].branch /\ IsWritable(e)' = revision'[q].writable
  BY DEF BranchOf, IsWritable, RevisionOf, PageOf
<1> HIDE DEF q
<1>4. QED
  BY <1>1, <1>2, <1>3 DEF Steady, Kept

\* The steps that leave the revisions, or add one.
LEMMA AllSteady ==
  ASSUME HistoryInv, NEW x, PagesSteady(x), LocksKept(x), branchMap \subseteq branchMap',
         NEW e \in Alive, PageOf(e)' = PageOf(e)
  PROVE  Steady(x, e)
<1>1. PageOf(e) \in Taken /\ revision[PageOf(e)].branch = BranchOf(e)
  BY DEF HistoryInv, Placed, BranchOf, RevisionOf, PageOf
<1>2. BranchOf(e) \in branchMap /\ BranchOf(e) \in Branch
  BY <1>1 DEF HistoryInv, StoreInv, StoreType, Lines, InLine
<1>3. QED
  BY <1>2, DocumentSteady DEF LocksKept

\* A thread that neither opens nor gives up a document in the step, and whose
\* documents the step leaves.
LEMMA WriteKept ==
  ASSUME CountingInv, CountingInv', SharingInv, SharingInv', WriteInv,
         NEW x \in Threads \cup {NoThread}, NEW u \in Threads \ {x},
         \A e \in Document : UsedBy(u, e) /\ e \in Alive' => Steady(x, e),
         held'[u] = held[u], granted'[u] \subseteq granted[u],
         call[u].step \in Unlocked => call'[u].step \in Unlocked
  PROVE  OneHeld(u)' /\ GrantsHold(u)' /\ HeldLocked(u)'
<1>1. /\ u \in Threads /\ u # NoThread /\ u # x /\ OneHeld(u) /\ GrantsHold(u) /\ HeldLocked(u)
      /\ GrantHeld(u) /\ GrantHeld(u)' /\ Referenced' /\ granted \in [Threads -> SUBSET Document]
  BY ReferencedAfter, NoThreadAssumption DEF WriteInv, WriteOf, SharingInv
<1>2. OneHeld(u)'
  BY <1>1 DEF OneHeld
<1>3. ASSUME NEW d \in granted'[u] PROVE IsWritable(d)' /\ IsLockedWrite(u, d)'
  <2>1. d \in Document /\ d \in granted[u] /\ UsedBy(u, d) /\ d \in Alive'
    BY <1>1, <1>3 DEF GrantHeld
  <2>2. Steady(x, d) /\ IsWritable(d) /\ writeMutex[BranchOf(d)] = u
    BY <1>1, <2>1 DEF GrantsHold, IsLockedWrite
  <2>3. IsWritable(d)' /\ writeMutex'[BranchOf(d)'] = u
    BY <1>1, <2>2 DEF Steady
  <2>4. QED
    BY <2>3 DEF IsLockedWrite
<1>4. ASSUME NEW d \in Document, held'[u][d] > 0, call'[u].step \notin Unlocked, IsWritable(d)'
      PROVE  IsLockedWrite(u, d)'
  <2>1. UsedBy(u, d) /\ held[u][d] > 0 /\ d \in Alive'
    BY <1>1, <1>4 DEF UsedBy, Referenced
  <2>2. Steady(x, d) /\ IsWritable(d)
    BY <1>4, <2>1 DEF Steady
  <2>3. writeMutex[BranchOf(d)] = u
    BY <1>1, <1>4, <2>1, <2>2 DEF HeldLocked, IsLockedWrite
  <2>4. writeMutex'[BranchOf(d)'] = u
    BY <1>1, <2>2, <2>3 DEF Steady
  <2>5. QED
    BY <2>4 DEF IsLockedWrite
<1>5. QED
  BY <1>2, <1>3, <1>4 DEF GrantsHold, HeldLocked

LEMMA CallWriteKept ==
  ASSUME CountingInv, SharingInv, SharingInv', CountingInv', HistoryInv, WriteInv,
         NEW x \in Threads \cup {NoThread}, PagesSteady(x), NEW u \in Threads \ {x},
         \A e \in Document : UsedBy(u, e) /\ e \in Alive' => Steady(x, e),
         call'[u] = call[u], held'[u] = held[u], granted'[u] = granted[u]
  PROVE  CallWrites(u)'
<1> DEFINE d == call[u].doc
           p == call[u].page
<1>1. /\ u \in Threads /\ u # NoThread /\ u # x /\ CallWrites(u) /\ CallHolds(u) /\ CallMeant(u)
      /\ CallSound(u) /\ Referenced'
  BY ReferencedAfter, NoThreadAssumption DEF WriteInv, WriteOf, SharingInv, HistoryInv, CountingInv
<1>2. ASSUME call[u].step = "reopenSwitch"
      PROVE  revision'[p].writable /\ revision'[p].base = PageOf(d)' /\ IsLockedWrite(u, d)'
  <2>1. /\ d \in Document /\ UsedBy(u, d) /\ held'[u][d] > 0
        /\ p \in Taken /\ revision[p].branch = BranchOf(d)
        /\ revision[p].writable /\ revision[p].base = PageOf(d) /\ writeMutex[BranchOf(d)] = u
    BY <1>1, <1>2 DEF CallHolds, Holding, Reopening, CallMeant, CallWrites, UsedBy, IsLockedWrite
  <2>2. Steady(x, d)
    BY <1>1, <2>1 DEF Referenced
  <2>3. Kept(p) /\ revision'[p].writable
    BY <1>1, <2>1, <2>2 DEF PagesSteady, Steady
  <2>4. PageOf(d)' = PageOf(d) /\ writeMutex'[BranchOf(d)'] = u
    BY <1>1, <2>1, <2>2 DEF Steady
  <2>5. QED
    BY <2>1, <2>3, <2>4 DEF Kept, IsLockedWrite
<1>3. ASSUME call[u].step = "opened", d \in Alive', call[u].flags \in {"Read", "ExplicitRead"}
      PROVE  ~IsWritable(d)'
  <2>1. d \in Document /\ UsedBy(u, d)
    BY <1>3 DEF UsedBy, Alive
  <2>2. Steady(x, d)
    BY <1>3, <2>1
  <2>3. QED
    BY <1>1, <1>3, <2>2 DEF Steady, CallWrites
<1>4. call'[u].doc = d /\ call'[u].page = p
  OBVIOUS
<1> HIDE DEF d, p
<1>5. QED
  BY <1>1, <1>2, <1>3, <1>4 DEF CallWrites, d, p

\* What a step of t leaves to the others.
LEMMA WriteStep ==
  ASSUME CountingInv, CountingInv', SharingInv, SharingInv', HistoryInv, WriteInv,
         NEW x \in Threads \cup {NoThread}, PagesSteady(x), NEW t \in Threads \cup {NoThread},
         x \in {t, NoThread},
         \A u \in Threads \ {t} : /\ call'[u] = call[u] /\ held'[u] = held[u]
                                  /\ granted'[u] = granted[u],
         \A u \in Threads \ {t}, e \in Document : UsedBy(u, e) /\ e \in Alive' => Steady(x, e),
         t \in Threads => WriteOf(t)'
  PROVE  WriteInv'
<1>1. SUFFICES ASSUME NEW u \in Threads \ {t} PROVE WriteOf(u)'
  BY DEF WriteInv
<1>2. u \in Threads \ {x} /\ u \in Threads
  BY NoThreadAssumption
<1>3. OneHeld(u)' /\ GrantsHold(u)' /\ HeldLocked(u)'
  BY <1>2, WriteKept
<1>4. CallWrites(u)'
  BY <1>2, CallWriteKept
<1>5. QED
  BY <1>3, <1>4 DEF WriteOf

-----------------------------------------------------------------------------
(* The steps that leave what the threads write.                            *)

\* The steps that neither move, open nor count a document, and take free locks
\* only.
LEMMA WriteQuiet ==
  ASSUME CountingInv, CountingInv', SharingInv, SharingInv', HistoryInv, WriteInv,
         PagesSteady(NoThread), LocksKept(NoThread), branchMap \subseteq branchMap',
         UNCHANGED <<revisionPage, held, granted>>,
         \A d \in Document : document'[d].allocator = document[d].allocator,
         Alive' \subseteq Alive,
         NEW t \in Threads, NEW c, Becomes(t, c),
         c = call[t] \/ (call[t].step \notin Unlocked /\ c.step \in Harmless)
  PROVE  WriteInv'
<1>1. /\ t \in Threads \ {NoThread} /\ t \in Threads \cup {NoThread}
      /\ NoThread \in Threads \cup {NoThread}
      /\ call'[t] = c /\ \A u \in Threads \ {t} : call'[u] = call[u]
  BY NoThreadAssumption DEF Becomes
<1>2. \A e \in Alive : Steady(NoThread, e)
  <2>1. SUFFICES ASSUME NEW e \in Alive PROVE Steady(NoThread, e)
    OBVIOUS
  <2>2. e \in Document
    BY DEF Alive
  <2>3. PageOf(e)' = PageOf(e)
    BY <2>2 DEF PageOf
  <2>4. QED
    BY <2>3, AllSteady
<1>3. \A e \in Document : e \in Alive' => Steady(NoThread, e)
  BY <1>2
<1>4. OneHeld(t)' /\ GrantsHold(t)' /\ HeldLocked(t)'
  <2>1. call[t].step \in Unlocked => call'[t].step \in Unlocked
    BY <1>1
  <2>2. held'[t] = held[t] /\ granted'[t] \subseteq granted[t]
    OBVIOUS
  <2>3. QED
    BY <1>1, <1>3, <2>1, <2>2, WriteKept
<1>5. CallWrites(t)'
  <2>1. CASE c = call[t]
    BY <1>1, <1>3, <2>1, CallWriteKept
  <2>2. CASE c.step \in Harmless
    BY <1>1, <2>2, HarmlessWrites
  <2>3. QED
    BY <2>1, <2>2
<1>6. \A u \in Threads \ {t} : /\ call'[u] = call[u] /\ held'[u] = held[u]
                               /\ granted'[u] = granted[u]
  BY <1>1
<1>7. WriteOf(t)'
  BY <1>4, <1>5 DEF WriteOf
<1>8. QED
  BY <1>1, <1>3, <1>6, <1>7, WriteStep

LEMMA RevisionsSteady ==
  ASSUME UNCHANGED revision, NEW x
  PROVE  PagesSteady(x)
BY DEF PagesSteady, Kept

LEMMA WriteLeft ==
  ASSUME CountingInv, CountingInv', SharingInv, SharingInv', HistoryInv, WriteInv,
         NEW t \in Threads,
         \/ OpenWriteThrows(t) \/ IncrementRefCountOfFreed(t) \/ ReopenBegin(t) \/ CreateBranch(t)
         \/ ForkRevision(t)
         \/ \E b \in Branch, flags \in OpenFlags : OpenWriteBegin(t, b, flags)
         \/ \E d \in Document : ScheduleRemoval(t, d) \/ Fork(t, d) \/ Edit(t, d)
  PROVE  WriteInv'
<1>1. /\ UNCHANGED <<revisionPage, held, granted, document>> /\ Alive' = Alive
      /\ branchMap \subseteq branchMap'
  <2>1. UNCHANGED <<revisionPage, held, granted, document>>
    BY ZenonT(60) DEF OpenWriteThrows, IncrementRefCountOfFreed, ReopenBegin, CreateBranch, ForkRevision,
           OpenWriteBegin, ScheduleRemoval, Fork, Edit, documents, threads
  <2>2. branchMap \subseteq branchMap'
    BY Zenon DEF OpenWriteThrows, IncrementRefCountOfFreed, ReopenBegin, CreateBranch, ForkRevision,
           OpenWriteBegin, ScheduleRemoval, Fork, Edit, branches, DoCreateBranch
  <2>3. QED
    BY <2>1, <2>2, SMTT(30) DEF Alive
<1>2. /\ StoreInv /\ StoreType /\ Blank /\ LockType /\ Idle.step = "idle"
      /\ \A d \in Document : GrantHeld(t) /\ (d \in granted[t] => d \in Alive)
      /\ CallMeant(t) /\ Placed
  BY DEF HistoryInv, StoreInv, SharingInv, GrantHeld, Idle
<1>3. LocksKept(NoThread)
  <2>1. \/ writeMutex' = writeMutex
        \/ /\ writeMutex[call[t].branch] = NoThread
           /\ writeMutex' = [writeMutex EXCEPT ![call[t].branch] = t]
    BY ZenonT(60) DEF OpenWriteThrows, IncrementRefCountOfFreed, ReopenBegin, CreateBranch, ForkRevision,
           OpenWriteBegin, ScheduleRemoval, Fork, Edit, mutexes
  <2>2. QED
    BY <1>2, <2>1, SMTT(30) DEF LocksKept, LockType
<1>4. PagesSteady(NoThread)
  <2>1. CASE UNCHANGED revision
    BY <2>1, RevisionsSteady
  <2>2. CASE ForkRevision(t)
    <3>1. PICK p \in FreePages : revision' = [revision EXCEPT ![p] =
             [branch |-> call[t].branch, id |-> 1, prev |-> NullPage, base |-> call[t].page,
              writable |-> TRUE, edits |-> 0]]
      BY <2>2 DEF ForkRevision
    <3>2. p \notin Taken
      BY <1>2, FreeMeans
    <3>3. \A q \in Taken : revision'[q] = revision[q]
      BY <1>2, <3>1, <3>2 DEF StoreType, Taken
    <3>4. QED
      BY <3>3 DEF PagesSteady, Kept
  <2>3. ASSUME NEW d \in Document, Edit(t, d) PROVE PagesSteady(NoThread)
    <3> DEFINE p == PageOf(d)
    <3>1. d \in Alive /\ p \in Taken /\ p \in Page
      BY <1>2, <2>3 DEF Edit, Placed, Taken
    <3>2. revision \in [Page -> RevisionType] /\ revision[p] \in RevisionType
      BY <1>2, <3>1, SMTT(30) DEF StoreType
    <3>3. revision' = [revision EXCEPT ![p] = [revision[p] EXCEPT !.edits = revision[p].edits + 1]]
      BY <2>3, <3>2 DEF Edit, PageOf
    <3> HIDE DEF p
    <3>4. \A q \in Taken : Kept(q) /\ revision'[q].writable = revision[q].writable
      BY <3>1, <3>2, <3>3 DEF Kept, RevisionType, Taken
    <3>5. QED
      BY <3>4, SMTT(30) DEF PagesSteady
  <2>4. QED
    BY <2>1, <2>2, <2>3 DEF OpenWriteThrows, IncrementRefCountOfFreed, ReopenBegin, CreateBranch,
           OpenWriteBegin, ScheduleRemoval, Fork, mutexes, revisions
<1>5. ASSUME NEW c, Becomes(t, c),
             c = call[t] \/ (call[t].step \notin Unlocked /\ c.step \in Harmless)
      PROVE  WriteInv'
  BY <1>1, <1>3, <1>4, <1>5, WriteQuiet
<1>6. CASE call' = call
  <2>1. Becomes(t, call[t])
    BY <1>6 DEF Becomes
  <2>2. QED
    BY <1>5, <2>1
<1>7. CASE call' # call
  <2>1. /\ call[t].step \in {"openWrite", "reopen", "forkLock", "idle"}
        /\ \/ \E c : call' = [call EXCEPT ![t] = c]
                     /\ c.step \in {"idle", "openWrite", "forkLock"}
           \/ call' = [call EXCEPT ![t].step = "reopenLock", ![t].branch = BranchOf(call[t].doc)]
           \/ \E p \in FreePages : call' = [call EXCEPT ![t].step = "forkSwitch", ![t].page = p]
    <3>1. CASE OpenWriteThrows(t)
      BY <1>2, <3>1 DEF OpenWriteThrows, Return
    <3>2. CASE ReopenBegin(t)
      BY <3>2 DEF ReopenBegin
    <3>3. CASE ForkRevision(t)
      BY <3>3 DEF ForkRevision
    <3>4. ASSUME NEW b \in Branch, NEW flags \in OpenFlags, OpenWriteBegin(t, b, flags)
          PROVE  /\ call[t].step = "idle"
                 /\ \E c : call' = [call EXCEPT ![t] = c] /\ c.step = "openWrite"
      <4> DEFINE c == [Idle EXCEPT !.step = "openWrite", !.branch = b, !.flags = flags]
      <4>1. call' = [call EXCEPT ![t] = c] /\ call[t] = Idle
        BY <3>4 DEF OpenWriteBegin
      <4>2. c.step = "openWrite"
        BY DEF Idle
      <4>3. call[t].step = "idle"
        BY <1>2, <4>1
      <4>4. \E e : call' = [call EXCEPT ![t] = e] /\ e.step = "openWrite"
        BY <4>1, <4>2, Zenon
      <4>5. QED
        BY <4>3, <4>4
    <3>5. ASSUME NEW d \in Document, Fork(t, d)
          PROVE  /\ call[t].step = "idle"
                 /\ \E c : call' = [call EXCEPT ![t] = c] /\ c.step = "forkLock"
      <4> DEFINE c == [Idle EXCEPT !.step = "forkLock", !.doc = d, !.branch = nextBranchId,
                                   !.page = revisionPage[document[d].allocator]]
      <4>1. call' = [call EXCEPT ![t] = c] /\ call[t] = Idle
        BY <3>5 DEF Fork
      <4>2. c.step = "forkLock"
        BY DEF Idle
      <4>3. call[t].step = "idle"
        BY <1>2, <4>1
      <4>4. \E e : call' = [call EXCEPT ![t] = e] /\ e.step = "forkLock"
        BY <4>1, <4>2, Zenon
      <4>5. QED
        BY <4>3, <4>4
    <3>6. ~IncrementRefCountOfFreed(t) /\ ~CreateBranch(t)
          /\ \A d \in Document : ~ScheduleRemoval(t, d) /\ ~Edit(t, d)
      BY <1>7 DEF IncrementRefCountOfFreed, CreateBranch, ScheduleRemoval, Edit, threads
    <3>7. QED
      BY <3>1, <3>2, <3>3, <3>4, <3>5, <3>6
  <2>2. PICK c : Becomes(t, c) /\ c.step \in Harmless
    <3>1. {"idle", "openWrite", "forkLock", "reopenLock", "forkSwitch"} \subseteq Harmless
      BY DEF Harmless, Steps
    <3>2. CASE \E c : call' = [call EXCEPT ![t] = c] /\ c.step \in {"idle", "openWrite", "forkLock"}
      BY <3>1, <3>2, CallReturns
    <3>3. CASE call' = [call EXCEPT ![t].step = "reopenLock", ![t].branch = BranchOf(call[t].doc)]
      <4> DEFINE c == [step |-> "reopenLock", doc |-> call[t].doc, branch |-> BranchOf(call[t].doc),
                       page |-> call[t].page, flags |-> call[t].flags]
      <4>1. Becomes(t, c)
        BY <3>3, CallMoves
      <4>2. c.step \in Harmless
        BY <3>1
      <4>3. QED
        BY <4>1, <4>2, Zenon
    <3>4. ASSUME NEW p, call' = [call EXCEPT ![t].step = "forkSwitch", ![t].page = p]
          PROVE  \E c : Becomes(t, c) /\ c.step \in Harmless
      <4> DEFINE c == [step |-> "forkSwitch", doc |-> call[t].doc, branch |-> call[t].branch,
                       page |-> p, flags |-> call[t].flags]
      <4>1. Becomes(t, c)
        BY <3>4, CallMoves
      <4>2. c.step \in Harmless
        BY <3>1
      <4>3. QED
        BY <4>1, <4>2, Zenon
    <3>5. QED
      BY <2>1, <3>2, <3>3, <3>4
  <2>3. call[t].step \notin Unlocked
    BY <2>1 DEF Unlocked
  <2>4. QED
    BY <1>5, <2>2, <2>3
<1>8. QED
  BY <1>6, <1>7

-----------------------------------------------------------------------------
(* The steps that leave the documents at their revisions.                  *)

LEMMA WriteActs ==
  ASSUME CountingInv, CountingInv', SharingInv, SharingInv', HistoryInv, WriteInv,
         NEW t \in Threads, NEW x \in {t, NoThread}, PagesSteady(x), LocksKept(x),
         branchMap \subseteq branchMap', UNCHANGED revisionPage,
         \A d \in Document : document'[d].allocator = document[d].allocator,
         Alive' \subseteq Alive,
         \A u \in Threads \ {t} : /\ call'[u] = call[u] /\ held'[u] = held[u]
                                  /\ granted'[u] = granted[u],
         WriteOf(t)'
  PROVE  WriteInv'
<1>1. \A u \in Threads \ {t}, e \in Document : UsedBy(u, e) /\ e \in Alive' => Steady(x, e)
  <2>1. SUFFICES ASSUME NEW e \in Alive PROVE Steady(x, e)
    OBVIOUS
  <2>2. e \in Document
    BY DEF Alive
  <2>3. PageOf(e)' = PageOf(e)
    BY <2>2 DEF PageOf
  <2>4. QED
    BY <2>3, AllSteady
<1>2. x \in Threads \cup {NoThread} /\ t \in Threads \cup {NoThread}
  OBVIOUS
<1>3. QED
  BY <1>1, <1>2, WriteStep

\* The others, when the revisions stay too.
LEMMA WriteActsOn ==
  ASSUME CountingInv, CountingInv', SharingInv, SharingInv', HistoryInv, WriteInv,
         NEW t \in Threads, LocksKept(NoThread) \/ LocksKept(t),
         UNCHANGED <<branchMap, revision, revisionPage>>,
         \A d \in Document : document'[d].allocator = document[d].allocator,
         Alive' \subseteq Alive,
         NEW c, Becomes(t, c), NEW H, held' = [held EXCEPT ![t] = H],
         NEW G, granted' = [granted EXCEPT ![t] = G],
         WriteOf(t)'
  PROVE  WriteInv'
<1>1. PICK x \in {t, NoThread} : LocksKept(x)
  OBVIOUS
<1>2. PagesSteady(x)
  BY RevisionsSteady
<1>3. \A u \in Threads \ {t} : /\ call'[u] = call[u] /\ held'[u] = held[u]
                               /\ granted'[u] = granted[u]
  BY DEF Becomes, CountingInv, Types, HeldType, SharingInv
<1>4. branchMap \subseteq branchMap' /\ UNCHANGED revisionPage
  OBVIOUS
<1>5. QED
  BY <1>1, <1>2, <1>3, <1>4, WriteActs

LEMMA WriteGrant ==
  ASSUME CountingInv, CountingInv', SharingInv, SharingInv', HistoryInv, WriteInv,
         NEW t \in Threads, NEW d \in Document, GrantWrite(t, d)
  PROVE  WriteInv'
<1>1. /\ UNCHANGED <<branchMap, revision, revisionPage, document, writeMutex, held>> /\ Alive' = Alive
      /\ call[t] = Idle /\ Idle.step = "idle" /\ held[t][d] > 0
  BY DEF GrantWrite, documents, revisions, branches, mutexes, Alive, Idle
<1>2. /\ WriteOf(t) /\ LocksKept(NoThread) /\ held' = [held EXCEPT ![t] = held[t]]
      /\ granted = [u \in Threads |-> granted[u]] /\ held = [u \in Threads |-> held[u]]
  BY <1>1 DEF WriteInv, SharingInv, LocksKept, CountingInv, Types, HeldType
<1>3. \A e : /\ IsWritable(e)' = IsWritable(e)
             /\ IsLockedWrite(t, e)' = IsLockedWrite(t, e)
  BY <1>1 DEF IsWritable, IsLockedWrite, BranchOf, RevisionOf
<1>4. IsWritable(d) => IsLockedWrite(t, d)
  BY <1>1, <1>2 DEF WriteOf, HeldLocked, Unlocked
<1>5. OneHeld(t)'
  BY <1>1, <1>2 DEF WriteOf, OneHeld
<1>6. \A e \in Document : held'[t][e] > 0 /\ IsWritable(e)' => IsLockedWrite(t, e)'
  BY <1>1, <1>2, <1>3 DEF WriteOf, HeldLocked, Unlocked
<1>7. HeldLocked(t)'
  BY <1>6 DEF HeldLocked
<1>8. CASE Grant(t, d) /\ UNCHANGED call /\ IsWritable(d)
  <2>1. granted' = [granted EXCEPT ![t] = granted[t] \cup {d}] /\ Becomes(t, call[t])
    BY <1>8 DEF Grant, Becomes
  <2>2. granted'[t] = granted[t] \cup {d}
    BY <1>2, <2>1
  <2>3. GrantsHold(t)'
    BY <1>2, <1>3, <1>4, <1>8, <2>2 DEF WriteOf, GrantsHold
  <2>4. CallWrites(t)'
    BY <1>1, <1>8 DEF CallWrites
  <2>5. WriteOf(t)'
    BY <1>5, <1>7, <2>3, <2>4 DEF WriteOf
  <2>6. QED
    BY <1>1, <1>2, <2>1, <2>5, WriteActsOn
<1>9. CASE /\ UNCHANGED granted
           /\ call' = [call EXCEPT ![t] = [Idle EXCEPT !.step = "reopen", !.doc = d]]
  <2>1. PICK c : call' = [call EXCEPT ![t] = c] /\ c.step = "reopen"
    <3> DEFINE c == [Idle EXCEPT !.step = "reopen", !.doc = d]
    <3>1. call' = [call EXCEPT ![t] = c]
      BY <1>9
    <3>2. c.step = "reopen"
      BY DEF Idle
    <3>3. QED
      BY <3>1, <3>2, Zenon
  <2>2. Becomes(t, c) /\ call'[t] = c
    BY <2>1, CallReturns DEF Becomes
  <2>3. granted' = [granted EXCEPT ![t] = granted[t]]
    BY <1>2, <1>9
  <2>4. GrantsHold(t)'
    BY <1>2, <1>3, <1>9 DEF WriteOf, GrantsHold
  <2>5. CallWrites(t)'
    BY <2>1, <2>2 DEF CallWrites
  <2>6. WriteOf(t)'
    BY <1>5, <1>7, <2>4, <2>5 DEF WriteOf
  <2>7. QED
    BY <1>1, <1>2, <2>2, <2>3, <2>6, WriteActsOn
<1>10. QED
  BY <1>4, <1>8, <1>9 DEF GrantWrite

LEMMA WriteLock ==
  ASSUME CountingInv, CountingInv', SharingInv, SharingInv', HistoryInv, WriteInv,
         NEW t \in Threads, LockWrite(t)
  PROVE  WriteInv'
<1>0. PICK d, b : d = call[t].doc /\ b = BranchOf(d)
  OBVIOUS
<1>1. /\ UNCHANGED <<branchMap, revision, revisionPage, document, held>> /\ Alive' = Alive
      /\ call[t].step = "lock" /\ d = call[t].doc /\ b = BranchOf(d)
      /\ call[t].branch = b /\ writeMutex[b] = NoThread
  BY <1>0 DEF LockWrite, documents, revisions, branches, Alive, HistoryInv, CallMeant
<1>2. /\ WriteOf(t) /\ LockType /\ call[t].flags = "AsRevision" /\ t # NoThread
      /\ d \in Document /\ held[t][d] > 0 /\ Placed /\ Referenced /\ StoreInv
  BY <1>1, NoThreadAssumption, ReferencedAlive
     DEF WriteInv, WriteOf, CallWrites, HistoryInv, SharingInv, CallHolds, Holding
<1>3. /\ held' = [held EXCEPT ![t] = held[t]] /\ granted = [u \in Threads |-> granted[u]]
      /\ \A e : IsWritable(e)' = IsWritable(e) /\ BranchOf(e)' = BranchOf(e)
  BY <1>1 DEF SharingInv, CountingInv, Types, HeldType, IsWritable, BranchOf, RevisionOf
<1>4. b \in Branch
  <2>1. PageOf(d) \in Taken /\ b = revision[PageOf(d)].branch
    BY <1>1, <1>2 DEF Placed, Referenced, BranchOf, RevisionOf, PageOf
  <2>2. QED
    BY <1>2, <2>1, RevisionFields DEF Taken
<1>5. OneHeld(t)' /\ \A e \in Document : held'[t][e] > 0 => e = d
  BY <1>1, <1>2 DEF WriteOf, OneHeld
<1>6. CASE IsWritable(d) /\ writeMutex' = [writeMutex EXCEPT ![b] = t] /\ Grant(t, d) /\ Return(t)
  <2>1. /\ granted' = [granted EXCEPT ![t] = granted[t] \cup {d}]
        /\ Becomes(t, Idle) /\ call'[t] = Idle /\ Idle.step = "idle"
    BY <1>6, CallReturns DEF Grant, Return, Becomes, Idle
  <2>2. writeMutex'[b] = t /\ \A e \in Branch \ {b} : writeMutex'[e] = writeMutex[e]
    BY <1>2, <1>4, <1>6 DEF LockType
  <2>3. LocksKept(NoThread)
    BY <1>1, <2>2 DEF LocksKept
  <2>4. \A e \in granted[t] : e \in Alive /\ BranchOf(e) \in Branch
    <3>1. SUFFICES ASSUME NEW e \in granted[t] PROVE e \in Alive /\ BranchOf(e) \in Branch
      OBVIOUS
    <3>2. e \in Alive /\ PageOf(e) \in Taken /\ BranchOf(e) = revision[PageOf(e)].branch
      BY <1>2 DEF Placed, SharingInv, GrantHeld, BranchOf, RevisionOf, PageOf
    <3>3. QED
      BY <1>2, <3>2, RevisionFields DEF Taken
  <2>5. GrantsHold(t)'
    <3>1. SUFFICES ASSUME NEW e \in granted[t] \cup {d} PROVE IsWritable(e)' /\ IsLockedWrite(t, e)'
      BY <1>3, <2>1 DEF GrantsHold
    <3>2. CASE e = d
      BY <1>1, <1>3, <1>6, <2>2, <3>2 DEF IsLockedWrite
    <3>3. CASE e \in granted[t]
      <4>1. IsWritable(e) /\ writeMutex[BranchOf(e)] = t
        BY <1>2, <3>3 DEF WriteOf, GrantsHold, IsLockedWrite
      <4>2. BranchOf(e) # b
        BY <1>1, <1>2, <4>1
      <4>3. QED
        BY <1>3, <2>2, <2>4, <3>3, <4>1, <4>2 DEF IsLockedWrite
    <3>4. QED
      BY <3>1, <3>2, <3>3
  <2>6. HeldLocked(t)'
    <3>1. IsLockedWrite(t, d)'
      BY <1>1, <1>3, <2>2 DEF IsLockedWrite
    <3>2. QED
      BY <1>5, <3>1 DEF HeldLocked
  <2>7. CallWrites(t)'
    BY <2>1 DEF CallWrites
  <2>8. WriteOf(t)'
    BY <1>5, <2>5, <2>6, <2>7 DEF WriteOf
  <2>9. QED
    BY <1>1, <1>3, <2>1, <2>3, <2>8, WriteActsOn
<1>7. CASE /\ ~IsWritable(d) /\ UNCHANGED granted
           /\ writeMutex' = [writeMutex EXCEPT ![b] = t, ![BranchOf(d)] = NoThread]
           /\ call' = [call EXCEPT ![t] = [Idle EXCEPT !.step = "discard", !.doc = d]]
  <2>1. PICK c : call' = [call EXCEPT ![t] = c] /\ c.step = "discard"
    <3> DEFINE c == [Idle EXCEPT !.step = "discard", !.doc = d]
    <3>1. call' = [call EXCEPT ![t] = c]
      BY <1>7
    <3>2. c.step = "discard"
      BY DEF Idle
    <3>3. QED
      BY <3>1, <3>2, Zenon
  <2>2. Becomes(t, c) /\ call'[t] = c
    BY <2>1, CallReturns DEF Becomes
  <2>3. granted' = [granted EXCEPT ![t] = granted[t]]
    BY <1>3, <1>7
  <2>4. writeMutex' = writeMutex
    BY <1>1, <1>2, <1>4, <1>7 DEF LockType
  <2>5. LocksKept(NoThread) /\ \A e : IsLockedWrite(t, e)' = IsLockedWrite(t, e)
    BY <1>3, <2>4 DEF LocksKept, IsLockedWrite
  <2>6. GrantsHold(t)'
    BY <1>2, <1>3, <1>7, <2>5 DEF WriteOf, GrantsHold
  <2>7. HeldLocked(t)'
    BY <1>3, <1>5, <1>7 DEF HeldLocked
  <2>8. CallWrites(t)'
    BY <2>1, <2>2 DEF CallWrites
  <2>9. WriteOf(t)'
    BY <1>5, <2>6, <2>7, <2>8 DEF WriteOf
  <2>10. QED
    BY <1>1, <1>3, <2>2, <2>3, <2>5, <2>9, WriteActsOn
<1>8. QED
  BY <1>1, <1>2, <1>6, <1>7 DEF LockWrite

LEMMA WriteIncrement ==
  ASSUME AssumedAlone, CountingInv, CountingInv', SharingInv, SharingInv', HistoryInv, WriteInv,
         NEW t \in Threads, IncrementRefCount(t)
  PROVE  WriteInv'
<1>0. PICK d, flags : d = call[t].doc /\ flags = call[t].flags
  OBVIOUS
<1>1. /\ UNCHANGED <<branchMap, revision, revisionPage, granted, writeMutex>>
      /\ call[t].step = "opened" /\ d = call[t].doc /\ flags = call[t].flags
      /\ d \in Alive /\ d \in Document
      /\ held' = [held EXCEPT ![t][d] = @ + 1]
      /\ document' = [document EXCEPT ![d].refCount = @ + 1]
  BY <1>0 DEF IncrementRefCount, revisions, branches, mutexes, Alive
<1>2. /\ WriteOf(t) /\ HeldType /\ DocumentType /\ CallSound(t) /\ CallHolds(t) /\ Idle.step = "idle"
      /\ granted = [u \in Threads |-> granted[u]] /\ LocksKept(NoThread)
  BY <1>1 DEF WriteInv, CountingInv, Types, SharingInv, Idle, LocksKept
<1>3. /\ \A e \in Document : /\ document'[e].flags = document[e].flags
                             /\ document'[e].allocator = document[e].allocator
      /\ Alive' \subseteq Alive
  BY <1>1, <1>2, SMTT(30) DEF DocumentType, Alive
<1>4. \A e \in Document : /\ IsWritable(e)' = IsWritable(e)
                          /\ IsLockedWrite(t, e)' = IsLockedWrite(t, e)
  BY <1>1, <1>3 DEF IsWritable, IsLockedWrite, BranchOf, RevisionOf
<1>5. PICK H : held' = [held EXCEPT ![t] = H] /\ \A e \in Document : H[e] > 0 => e = d
  <2> DEFINE H == [held[t] EXCEPT ![d] = @ + 1]
  <2>1. \A e \in Document : held[t][e] = 0
    BY <1>1, NoneHeld
  <2>2. held' = [held EXCEPT ![t] = H]
    BY <1>1, <1>2 DEF HeldType
  <2>3. \A e \in Document : e # d => H[e] = 0
    BY <1>2, <2>1 DEF HeldType
  <2>4. \A e \in Document : H[e] > 0 => e = d
    BY <2>3
  <2>5. QED
    BY <2>2, <2>4, Zenon
<1>6. \A e \in Document : held'[t][e] > 0 => e = d
  BY <1>2, <1>5 DEF HeldType
<1>7. OneHeld(t)'
  BY <1>6 DEF OneHeld
<1>8. GrantsHold(t)'
  <2>1. granted[t] \subseteq Document
    BY DEF SharingInv
  <2>2. QED
    BY <1>1, <1>2, <1>4, <2>1 DEF WriteOf, GrantsHold
<1>9. flags = "AsRevision" \/ (IsWritable(d) => IsLockedWrite(t, d))
  <2>1. document[d].flags = flags /\ flags \in OpenFlags
    BY <1>1, <1>2 DEF CallHolds, DocumentType, Alive
  <2>2. flags \in {"Read", "ExplicitRead", "Write", "ResetRevision", "AsRevision"}
    BY <2>1, UsesAssumption DEF AssumedAlone, AllFlags
  <2>3. QED
    BY <1>1, <1>2, <2>2 DEF WriteOf, CallWrites, GrantsHold
<1>10. ASSUME NEW c, Becomes(t, c), HeldLocked(t)', CallWrites(t)'
       PROVE  WriteInv'
  <2>1. WriteOf(t)' /\ granted' = [granted EXCEPT ![t] = granted[t]]
    BY <1>1, <1>2, <1>7, <1>8, <1>10 DEF WriteOf
  <2>2. QED
    BY <1>1, <1>2, <1>3, <1>5, <1>10, <2>1, WriteActsOn
<1>11. CASE Return(t) /\ ~(flags = "AsRevision" /\ IsWritable(d) /\ ~IsLockedWrite(t, d))
  <2>1. Becomes(t, Idle) /\ call'[t] = Idle
    BY <1>11, CallReturns DEF Return, Becomes
  <2>2. HeldLocked(t)'
    BY <1>1, <1>4, <1>6, <1>9, <1>11 DEF HeldLocked
  <2>3. CallWrites(t)'
    BY <1>2, <2>1 DEF CallWrites
  <2>4. QED
    BY <1>10, <2>1, <2>2, <2>3
<1>12. CASE /\ flags = "AsRevision"
            /\ call' = [call EXCEPT ![t].step = "lock", ![t].branch = BranchOf(d)]
  <2>1. PICK c : Becomes(t, c) /\ c.step = "lock" /\ c.flags = "AsRevision"
    <3> DEFINE c == [step |-> "lock", doc |-> call[t].doc, branch |-> BranchOf(d),
                     page |-> call[t].page, flags |-> call[t].flags]
    <3>1. Becomes(t, c)
      BY <1>12, CallMoves
    <3>2. c.step = "lock" /\ c.flags = "AsRevision"
      BY <1>1, <1>12
    <3>3. QED
      BY <3>1, <3>2, Zenon
  <2>2. HeldLocked(t)' /\ CallWrites(t)'
    BY <2>1 DEF HeldLocked, Unlocked, CallWrites, Becomes
  <2>3. QED
    BY <1>10, <2>1, <2>2
<1>13. QED
  BY <1>1, <1>11, <1>12 DEF IncrementRefCount

\* A thread that gives up the document it was granted has no other.
LEMMA GrantsGivenUp ==
  ASSUME AssumedAlone, CountingInv, SharingInv, WriteInv, NEW t \in Threads, NEW d \in Document,
         held[t][d] > 0
  PROVE  granted[t] \ {d} = {}
<1>1. /\ OneHeld(t) /\ GrantHeld(t) /\ granted[t] \subseteq Document /\ UsedBy(t, d)
  BY DEF WriteInv, WriteOf, SharingInv, UsedBy
<1>2. \A e \in granted[t] : e = d
  BY <1>1, UsedOnce DEF GrantHeld
<1>3. QED
  BY <1>2

LEMMA WriteCommit ==
  ASSUME AssumedAlone, CountingInv, CountingInv', SharingInv, SharingInv', HistoryInv, WriteInv,
         NEW t \in Threads, NEW d \in Document, Commit(t, d)
  PROVE  WriteInv'
<1> DEFINE p == PageOf(d)
           b == BranchOf(d)
<1>1. /\ UNCHANGED <<branchMap, revisionPage, document, held, call>> /\ Alive' = Alive
      /\ call[t] = Idle /\ Idle.step = "idle" /\ held[t][d] > 0 /\ writeMutex[b] = t
      /\ writeMutex' = [writeMutex EXCEPT ![b] = NoThread]
      /\ granted' = [granted EXCEPT ![t] = @ \ {d}]
  BY DEF Commit, documents, branches, Alive, Idle, IsLockedWrite
<1>2. /\ WriteOf(t) /\ LockType /\ Referenced /\ Placed /\ StoreType
      /\ granted \in [Threads -> SUBSET Document]
  BY ReferencedAlive DEF WriteInv, HistoryInv, SharingInv, StoreInv
<1>3. /\ p \in Taken /\ p \in Page /\ b = revision[p].branch
      /\ revision \in [Page -> RevisionType] /\ revision[p] \in RevisionType
  BY <1>1, <1>2 DEF Referenced, Placed, Taken, StoreType, BranchOf, RevisionOf, PageOf
<1>4. revision' = [revision EXCEPT ![p] = [revision[p] EXCEPT !.writable = FALSE]]
  BY <1>3 DEF Commit, PageOf
<1>5. PageOf(d)' = p /\ IsWritable(d)' = revision'[p].writable
  BY <1>1 DEF PageOf, IsWritable, RevisionOf
<1> HIDE DEF p, b
<1>6. /\ \A q \in Taken : Kept(q) /\ (q # p => revision'[q] = revision[q])
      /\ ~revision'[p].writable
  BY <1>3, <1>4 DEF Kept, RevisionType, Taken
<1>7. PagesSteady(t)
  BY <1>1, <1>3, <1>6 DEF PagesSteady
<1>8. LocksKept(t)
  BY <1>1, <1>2 DEF LocksKept, LockType
<1>9. granted'[t] = {}
  BY <1>1, <1>2, GrantsGivenUp
<1>10. OneHeld(t)' /\ \A e \in Document : held'[t][e] > 0 => e = d
  BY <1>1, <1>2 DEF WriteOf, OneHeld
<1>11. GrantsHold(t)' /\ HeldLocked(t)' /\ CallWrites(t)'
  BY <1>1, <1>5, <1>6, <1>9, <1>10 DEF GrantsHold, HeldLocked, CallWrites
<1>12. WriteOf(t)'
  BY <1>10, <1>11 DEF WriteOf
<1>13. \A u \in Threads \ {t} : /\ call'[u] = call[u] /\ held'[u] = held[u]
                                /\ granted'[u] = granted[u]
  BY <1>1, <1>2
<1>14. QED
  BY <1>1, <1>7, <1>8, <1>12, <1>13, WriteActs

LEMMA WriteReleaseBegin ==
  ASSUME AssumedAlone, CountingInv, CountingInv', SharingInv, SharingInv', HistoryInv, WriteInv,
         NEW t \in Threads, NEW d \in Document, ReleaseBegin(t, d)
  PROVE  WriteInv'
<1>1. /\ UNCHANGED <<branchMap, revision, revisionPage, document, held>> /\ Alive' = Alive
      /\ held[t][d] > 0 /\ granted' = [granted EXCEPT ![t] = granted[t] \ {d}]
      /\ writeMutex' = IF writeMutex[BranchOf(d)] = t
                       THEN [writeMutex EXCEPT ![BranchOf(d)] = NoThread] ELSE writeMutex
  BY DEF ReleaseBegin, documents, branches, revisions, Alive, IsLockedWrite
<1>2. /\ WriteOf(t) /\ LockType /\ granted \in [Threads -> SUBSET Document]
      /\ held' = [held EXCEPT ![t] = held[t]]
  BY <1>1 DEF WriteInv, HistoryInv, SharingInv, CountingInv, Types, HeldType
<1>3. LocksKept(t)
  BY <1>1, <1>2 DEF LocksKept, LockType
<1>4. PICK c : call' = [call EXCEPT ![t] = c] /\ c.step = "release"
  <2> DEFINE c == [Idle EXCEPT !.step = "release", !.doc = d]
  <2>1. call' = [call EXCEPT ![t] = c]
    BY DEF ReleaseBegin
  <2>2. c.step = "release"
    BY DEF Idle
  <2>3. QED
    BY <2>1, <2>2, Zenon
<1>5. Becomes(t, c) /\ call'[t] = c
  BY <1>4, CallReturns DEF Becomes
<1>6. granted'[t] = {}
  BY <1>1, <1>2, GrantsGivenUp
<1>7. OneHeld(t)' /\ GrantsHold(t)' /\ HeldLocked(t)' /\ CallWrites(t)'
  BY <1>1, <1>2, <1>4, <1>5, <1>6
     DEF WriteOf, OneHeld, GrantsHold, HeldLocked, Unlocked, CallWrites
<1>8. WriteOf(t)'
  BY <1>7 DEF WriteOf
<1>9. QED
  BY <1>1, <1>2, <1>3, <1>5, <1>8, WriteActsOn

-----------------------------------------------------------------------------
(* Reopening and forking.                                                  *)

LEMMA WriteReopenLock ==
  ASSUME CountingInv, CountingInv', SharingInv, SharingInv', HistoryInv, WriteInv,
         NEW t \in Threads, ReopenLock(t)
  PROVE  WriteInv'
<1>0. PICK d, b : d = call[t].doc /\ b = BranchOf(d)
  OBVIOUS
<1>1. /\ UNCHANGED <<nextBranchId, branchMap, dependsOn, revisionPage, document, held, granted>>
      /\ Alive' = Alive /\ call[t].step = "reopenLock" /\ d = call[t].doc /\ b = BranchOf(d)
      /\ call[t].branch = b /\ writeMutex[b] = NoThread
  BY <1>0 DEF ReopenLock, branches, documents, Alive, HistoryInv, CallMeant
<1>2. /\ StoreInv /\ Lines /\ LockType /\ Referenced /\ Placed /\ WriteOf(t)
      /\ branchMap \in SUBSET Branch /\ NullPage \notin Page
      /\ d \in Document /\ held[t][d] > 0
      /\ granted = [u \in Threads |-> granted[u]] /\ held = [u \in Threads |-> held[u]]
  BY <1>1, ReferencedAlive, Numbers
     DEF HistoryInv, SharingInv, StoreInv, StoreType, WriteInv, CallHolds, Holding, Reopening,
         CountingInv, Types, HeldType
<1>3. /\ d \in Alive /\ PageOf(d) \in Taken /\ revision[PageOf(d)].branch = b
      /\ revision[PageOf(d)].id = RevisionOf(d).id
      /\ b \in branchMap /\ b \in Branch /\ lastRevision[b] # NullPage
      /\ lastRevision[b] \in Taken /\ revision[lastRevision[b]].branch = b
  <2>1. d \in Alive /\ PageOf(d) \in Taken /\ revision[PageOf(d)].branch = b
        /\ revision[PageOf(d)].id = RevisionOf(d).id
    BY <1>1, <1>2 DEF Placed, Referenced, BranchOf, RevisionOf, PageOf
  <2>2. QED
    BY <1>2, <2>1 DEF Lines, InLine
<1>4. CASE Return(t) /\ UNCHANGED revisions
  <2>1. /\ Becomes(t, Idle) /\ Idle.step \in Harmless /\ call[t].step \notin Unlocked
        /\ UNCHANGED revision
    BY <1>1, <1>4, CallReturns DEF Return, Idle, Harmless, Steps, Unlocked, revisions
  <2>2. LocksKept(NoThread)
    <3>1. \/ writeMutex' = [writeMutex EXCEPT ![call[t].branch] = t]
          \/ writeMutex' = [[writeMutex EXCEPT ![call[t].branch] = t] EXCEPT ![b] = NoThread]
      BY <1>1 DEF ReopenLock
    <3>2. QED
      BY <1>1, <1>2, <1>3, <3>1 DEF LockType, LocksKept
  <2>3. PagesSteady(NoThread)
    BY <2>1, RevisionsSteady
  <2>4. QED
    BY <1>1, <2>1, <2>2, <2>3, WriteQuiet
<1>5. ASSUME IsLastRevision(d), NEW p \in FreePages, CreateRevision(b, p, FALSE),
             call' = [call EXCEPT ![t].step = "reopenSwitch", ![t].page = p],
             writeMutex' = [writeMutex EXCEPT ![call[t].branch] = t]
      PROVE  WriteInv'
  <2>1. /\ PagesKept /\ p \in Page /\ p \notin Taken
        /\ revision'[p].branch = b /\ revision'[p].base = lastRevision[b]
        /\ \A q \in Page \ {p, lastRevision[b]} : revision'[q] = revision[q]
    <3> DEFINE noInherit == FALSE
    <3>1. b \in branchMap /\ noInherit \in BOOLEAN /\ ~noInherit /\ CreateRevision(b, p, noInherit)
      BY <1>3, <1>5
    <3> HIDE DEF noInherit
    <3>2. QED
      BY <1>1, <1>2, <3>1, CreateRevisionAdds
  <2>2. revision'[p].writable
    BY <1>5, <2>1 DEF CreateRevision
  <2>3. PageOf(d) = lastRevision[b]
    <3>1. revision[PageOf(d)].id = revision[lastRevision[b]].id
      BY <1>1, <1>3, <1>5 DEF IsLastRevision
    <3>2. QED
      BY <1>2, <1>3, <3>1 DEF Lines
  <2>4. writeMutex'[b] = t /\ LocksKept(NoThread)
    BY <1>1, <1>2, <1>3, <1>5 DEF LockType, LocksKept
  <2>5. PagesSteady(NoThread)
    <3>1. SUFFICES ASSUME NEW q \in Taken, revision[q].branch \in branchMap'
                   PROVE  /\ Kept(q)
                          /\ revision[q].writable /\ writeMutex[revision[q].branch] # NoThread =>
                               revision'[q].writable
      BY DEF PagesSteady
    <3>2. Kept(q) /\ q \in Page /\ q # p
      BY <2>1, <3>1 DEF PagesKept, Taken
    <3>3. writeMutex[revision[q].branch] # NoThread => q # lastRevision[b]
      BY <1>1, <1>3
    <3>4. QED
      BY <2>1, <3>2, <3>3
  <2>6. PageOf(d)' = PageOf(d) /\ BranchOf(d)' = b
    <3>1. PageOf(d)' = PageOf(d) /\ BranchOf(d)' = revision'[PageOf(d)].branch
      BY <1>1 DEF PageOf, BranchOf, RevisionOf
    <3>2. Kept(PageOf(d))
      BY <1>1, <1>3, <2>5 DEF PagesSteady
    <3>3. QED
      BY <1>3, <3>1, <3>2 DEF Kept
  <2>7. PICK c : Becomes(t, c) /\ c.step = "reopenSwitch" /\ c.doc = d /\ c.page = p
    <3> DEFINE c == [step |-> "reopenSwitch", doc |-> call[t].doc, branch |-> call[t].branch,
                     page |-> p, flags |-> call[t].flags]
    <3>1. Becomes(t, c)
      BY <1>5, CallMoves
    <3>2. c.step = "reopenSwitch" /\ c.doc = d /\ c.page = p
      BY <1>1
    <3>3. QED
      BY <3>1, <3>2, Zenon
  <2>8. call'[t] = c /\ \A u \in Threads \ {t} : call'[u] = call[u]
    BY <2>7 DEF Becomes
  <2>9. CallWrites(t)'
    BY <2>1, <2>2, <2>3, <2>4, <2>6, <2>7, <2>8 DEF CallWrites, IsLockedWrite
  <2>10. OneHeld(t)' /\ GrantsHold(t)' /\ HeldLocked(t)'
    <3>1. \A e \in Alive : PageOf(e)' = PageOf(e)
      BY <1>1 DEF PageOf
    <3>2. \A e \in Alive : Steady(NoThread, e)
      BY <1>1, <2>4, <2>5, <3>1, AllSteady
    <3>3. \A e \in Document : UsedBy(t, e) /\ e \in Alive' => Steady(NoThread, e)
      BY <1>1, <3>2
    <3>4. /\ t \in Threads \ {NoThread} /\ NoThread \in Threads \cup {NoThread}
          /\ held'[t] = held[t] /\ granted'[t] \subseteq granted[t]
          /\ call[t].step \in Unlocked => call'[t].step \in Unlocked
      BY <1>1, NoThreadAssumption DEF Unlocked
    <3>5. QED
      BY <3>3, <3>4, WriteKept
  <2>11. WriteOf(t)'
    BY <2>9, <2>10 DEF WriteOf
  <2>12. \A u \in Threads \ {t} : /\ call'[u] = call[u] /\ held'[u] = held[u]
                                  /\ granted'[u] = granted[u]
    BY <1>1, <2>8
  <2>13. NoThread \in {t, NoThread} /\ branchMap \subseteq branchMap'
    BY <1>1
  <2>14. QED
    BY <1>1, <2>4, <2>5, <2>11, <2>12, <2>13, WriteActs
<1>6. QED
  BY <1>1, <1>4, <1>5 DEF ReopenLock

\* A document moves to a writable revision of a branch that its thread has locked.
LEMMA WriteSwitch ==
  ASSUME AssumedAlone, CountingInv, CountingInv', SharingInv, SharingInv', HistoryInv, WriteInv,
         NEW t \in Threads, NEW d \in Document, held[t][d] > 0, call[t].step # "opened",
         document[d].flags # "ExplicitRead", NEW p \in Taken,
         revision[p].writable, writeMutex[revision[p].branch] = t,
         revisionPage' = [revisionPage EXCEPT ![document[d].allocator] = p],
         UNCHANGED <<branchMap, revision, document, writeMutex, held>>,
         NEW G \in SUBSET (granted[t] \cup {d}), granted' = [granted EXCEPT ![t] = G],
         NEW c, Becomes(t, c), c.step \in Harmless
  PROVE  WriteInv'
<1> DEFINE a == document[d].allocator
<1>1. /\ Referenced /\ Alone /\ Allocated /\ PositionType /\ WriteOf(t) /\ DocumentType
      /\ \A u \in Threads : GrantHeld(u)
      /\ granted \in [Threads -> SUBSET Document] /\ Alive' = Alive
  BY ReferencedAlive DEF SharingInv, HistoryInv, WriteInv, CountingInv, Types, Alive
<1>2. /\ d \in Alive /\ UsedBy(t, d) /\ a \in Allocator /\ document[d].flags # "FollowBranch"
  <2>1. d \in Alive /\ document[d].flags \in OpenFlags
    BY <1>1 DEF Referenced, DocumentType, Alive
  <2>2. QED
    BY <1>1, <2>1 DEF AssumedAlone, UsedBy, Allocated
<1>3. PageOf(d)' = p /\ \A e \in Alive \ {d} : PageOf(e)' = PageOf(e)
  <2>1. revisionPage'[a] = p /\ \A e \in Allocator \ {a} : revisionPage'[e] = revisionPage[e]
    BY <1>1, <1>2 DEF PositionType
  <2>2. \A e \in Alive \ {d} : document[e].allocator \in Allocator \ {a}
    BY <1>1, <1>2 DEF Allocated
  <2>3. QED
    BY <2>1, <2>2 DEF PageOf
<1> HIDE DEF a
<1>4. IsWritable(d)' /\ IsLockedWrite(t, d)'
  BY <1>3 DEF IsWritable, IsLockedWrite, BranchOf, RevisionOf, PageOf
<1>5. PagesSteady(NoThread) /\ LocksKept(NoThread)
  BY RevisionsSteady DEF LocksKept
<1>6. ASSUME NEW u \in Threads \ {t}, NEW e \in Document, UsedBy(u, e), e \in Alive'
      PROVE  Steady(NoThread, e)
  <2>1. e \in Alive \ {d}
    BY <1>1, <1>2, <1>6 DEF Alone
  <2>2. PageOf(e)' = PageOf(e)
    BY <1>3, <2>1
  <2>3. QED
    BY <1>5, <2>1, <2>2, AllSteady
<1>7. \A e \in Document : held'[t][e] > 0 => e = d
  BY <1>1 DEF WriteOf, OneHeld
<1>8. \A e \in granted'[t] : e = d
  <2>1. \A e \in granted[t] : e \in Document /\ UsedBy(t, e)
    BY <1>1 DEF GrantHeld
  <2>2. \A e \in granted[t] : e = d
    BY <1>1, <2>1 DEF WriteOf, OneHeld, UsedBy
  <2>3. QED
    BY <1>1, <2>2
<1>9. OneHeld(t)' /\ GrantsHold(t)' /\ HeldLocked(t)'
  BY <1>4, <1>7, <1>8 DEF OneHeld, GrantsHold, HeldLocked
<1>10. CallWrites(t)'
  BY HarmlessWrites DEF Becomes
<1>11. WriteOf(t)'
  BY <1>9, <1>10 DEF WriteOf
<1>12. \A u \in Threads \ {t} : /\ call'[u] = call[u] /\ held'[u] = held[u]
                                /\ granted'[u] = granted[u]
  BY <1>1 DEF Becomes
<1>13. QED
  BY <1>5, <1>6, <1>11, <1>12, WriteStep

LEMMA WriteMoves ==
  ASSUME AssumedAlone, CountingInv, CountingInv', SharingInv, SharingInv', HistoryInv, WriteInv,
         NEW t \in Threads, ReopenSwitch(t) \/ ForkSwitch(t)
  PROVE  WriteInv'
<1>0. PICK d, b, p : d = call[t].doc /\ b = call[t].branch /\ p = call[t].page
  OBVIOUS
<1>1. /\ UNCHANGED <<branchMap, revision, document, writeMutex, held>>
      /\ d = call[t].doc /\ b = call[t].branch /\ p = call[t].page
      /\ call[t].step \in {"reopenSwitch", "forkSwitch"}
      /\ revisionPage' = [revisionPage EXCEPT ![document[d].allocator] = p]
  BY <1>0 DEF ReopenSwitch, ForkSwitch, SwitchRevisionPage, branches, revisions, mutexes
<1>2. /\ CallMeant(t) /\ CallHolds(t) /\ WriteOf(t) /\ Lines
      /\ granted = [u \in Threads |-> granted[u]]
      /\ {"idle", "forkReference"} \subseteq Harmless /\ Idle.step = "idle"
  BY DEF HistoryInv, SharingInv, WriteInv, StoreInv, Harmless, Steps, Idle
<1>3. d \in Document /\ held[t][d] > 0 /\ document[d].flags # "ExplicitRead"
  BY <1>1, <1>2 DEF CallHolds, Holding, Reopening, Forking
<1>4. CASE ReopenSwitch(t)
  <2>1. /\ p \in Taken /\ revision[p].branch = BranchOf(d) /\ revision[p].writable
        /\ writeMutex[BranchOf(d)] = t
    BY <1>1, <1>2, <1>4 DEF ReopenSwitch, CallMeant, WriteOf, CallWrites, IsLockedWrite
  <2>2. granted' = [granted EXCEPT ![t] = granted[t] \cup {d}] /\ Becomes(t, Idle)
    BY <1>1, <1>4, CallReturns DEF ReopenSwitch, Grant, Return
  <2>3. granted[t] \cup {d} \in SUBSET (granted[t] \cup {d}) /\ call[t].step # "opened"
    BY <1>1
  <2>4. QED
    BY <1>1, <1>2, <1>3, <2>1, <2>2, <2>3, WriteSwitch
<1>5. CASE ForkSwitch(t)
  <2>1. /\ call[t].step = "forkSwitch" /\ UNCHANGED granted
        /\ call' = [call EXCEPT ![t].step = "forkReference"]
    BY <1>5 DEF ForkSwitch
  <2>2. /\ b \in Branch /\ p = lastRevision[b] /\ p # NullPage /\ revision[p].writable
        /\ writeMutex[b] = t
    BY <1>1, <1>2, <2>1, ForkingUses DEF CallMeant, Forked, Forking
  <2>3. p \in Taken /\ revision[p].branch = b
    BY <1>2, <2>2 DEF Lines
  <2>4. PICK c : Becomes(t, c) /\ c.step = "forkReference"
    <3> DEFINE c == [step |-> "forkReference", doc |-> call[t].doc, branch |-> call[t].branch,
                     page |-> call[t].page, flags |-> call[t].flags]
    <3>1. Becomes(t, c)
      BY <2>1, CallMoves
    <3>2. c.step = "forkReference"
      OBVIOUS
    <3>3. QED
      BY <3>1, <3>2, Zenon
  <2>5. /\ granted' = [granted EXCEPT ![t] = granted[t]] /\ call[t].step # "opened"
        /\ granted[t] \in SUBSET (granted[t] \cup {d})
    BY <1>2, <2>1
  <2>6. QED
    BY <1>1, <1>2, <1>3, <2>2, <2>3, <2>4, <2>5, WriteSwitch
<1>6. QED
  BY <1>4, <1>5

LEMMA WriteForkReference ==
  ASSUME AssumedAlone, CountingInv, CountingInv', SharingInv, SharingInv', HistoryInv, WriteInv,
         NEW t \in Threads, ForkReference(t)
  PROVE  WriteInv'
<1>0. PICK d : d = call[t].doc
  OBVIOUS
<1>1. /\ UNCHANGED <<branchMap, revision, revisionPage, document, writeMutex, held>> /\ Alive' = Alive
      /\ call[t].step = "forkReference" /\ d = call[t].doc
  BY <1>0 DEF ForkReference, branches, revisions, mutexes, threads, Alive
<1>2. /\ PagesSteady(NoThread) /\ LocksKept(NoThread) /\ held' = [held EXCEPT ![t] = held[t]]
      /\ granted = [u \in Threads |-> granted[u]]
  BY <1>1, RevisionsSteady DEF LocksKept, CountingInv, Types, HeldType, SharingInv
<1>3. CASE UNCHANGED threads
  <2>1. UNCHANGED <<call, granted>> /\ Becomes(t, call[t])
    BY <1>3 DEF threads, Becomes
  <2>2. QED
    BY <1>1, <1>2, <2>1, WriteQuiet
<1>4. CASE Grant(t, d) /\ Return(t)
  <2>1. /\ granted' = [granted EXCEPT ![t] = granted[t] \cup {d}]
        /\ Becomes(t, Idle) /\ call'[t] = Idle /\ Idle.step = "idle"
    BY <1>4, CallReturns DEF Grant, Return, Becomes, Idle
  <2>2. /\ WriteOf(t) /\ CallMeant(t) /\ held[t][d] > 0 /\ d \in Document
    BY <1>1 DEF WriteInv, HistoryInv, SharingInv, CallHolds, Holding, Forking
  <2>3. IsWritable(d) /\ IsLockedWrite(t, d)
    <3>1. BranchOf(d) = call[t].branch /\ PageOf(d) = lastRevision[call[t].branch]
      BY <1>1, ForkingUses DEF Forking
    <3>2. revision[lastRevision[call[t].branch]].writable /\ writeMutex[call[t].branch] = t
      BY <1>1, <2>2 DEF CallMeant, Forked
    <3>3. QED
      BY <3>1, <3>2 DEF IsWritable, IsLockedWrite, RevisionOf, PageOf
  <2>4. \A e : IsWritable(e)' = IsWritable(e) /\ IsLockedWrite(t, e)' = IsLockedWrite(t, e)
    BY <1>1 DEF IsWritable, IsLockedWrite, BranchOf, RevisionOf
  <2>5. OneHeld(t)' /\ \A e \in Document : held'[t][e] > 0 => e = d
    BY <1>1, <2>2 DEF WriteOf, OneHeld
  <2>6. granted'[t] = granted[t] \cup {d}
    BY <1>2, <2>1
  <2>7. GrantsHold(t)'
    BY <2>2, <2>3, <2>4, <2>6 DEF WriteOf, GrantsHold
  <2>8. HeldLocked(t)' /\ CallWrites(t)'
    BY <2>1, <2>3, <2>4, <2>5 DEF HeldLocked, CallWrites
  <2>9. WriteOf(t)'
    BY <2>5, <2>7, <2>8 DEF WriteOf
  <2>10. QED
    BY <1>1, <1>2, <2>1, <2>9, WriteActsOn
<1>5. QED
  BY <1>1, <1>3, <1>4 DEF ForkReference

-----------------------------------------------------------------------------
(* Opening documents.                                                      *)

\* A thread that is about to open a document has none.
LEMMA NothingUsed ==
  ASSUME AssumedAlone, CountingInv, SharingInv, NEW t \in Threads, InUse(t) < MaxHeld,
         call[t].step # "opened"
  PROVE  (\A e \in Document : held[t][e] = 0) /\ granted[t] = {}
<1>1. HeldType /\ GrantHeld(t) /\ granted[t] \subseteq Document
  BY DEF CountingInv, Types, SharingInv
<1>2. \A e \in Document : InUse(t) \in Nat /\ held[t][e] <= InUse(t)
  BY <1>1, HeldWithinUse
<1>3. \A e \in Document : held[t][e] = 0
  BY <1>1, <1>2, Finite, SMTT(30) DEF HeldType, AssumedAlone
<1>4. \A e \in granted[t] : FALSE
  BY <1>1, <1>3 DEF GrantHeld, UsedBy
<1>5. QED
  BY <1>3, <1>4

LEMMA WriteOpening ==
  ASSUME AssumedAlone, CountingInv, CountingInv', SharingInv, SharingInv', HistoryInv, WriteInv,
         NEW t \in Threads, InUse(t) < MaxHeld, call[t].step # "opened",
         PagesSteady(NoThread), LocksKept(NoThread), branchMap \subseteq branchMap',
         UNCHANGED held, \A u \in Threads \ {t} : granted'[u] = granted[u],
         NEW c, Becomes(t, c),
         \A u \in Threads \ {t}, e \in Document :
           UsedBy(u, e) /\ e \in Alive' => e \in Alive /\ PageOf(e)' = PageOf(e),
         GrantsHold(t)', CallWrites(t)'
  PROVE  WriteInv'
<1>1. \A u \in Threads \ {t}, e \in Document : UsedBy(u, e) /\ e \in Alive' => Steady(NoThread, e)
  BY AllSteady
<1>2. \A e \in Document : held'[t][e] = 0
  BY NothingUsed
<1>3. OneHeld(t)' /\ HeldLocked(t)'
  BY <1>2 DEF OneHeld, HeldLocked
<1>4. WriteOf(t)'
  BY <1>3 DEF WriteOf
<1>5. /\ \A u \in Threads \ {t} : /\ call'[u] = call[u] /\ held'[u] = held[u]
                                  /\ granted'[u] = granted[u]
      /\ NoThread \in Threads \cup {NoThread} /\ t \in Threads \cup {NoThread}
      /\ NoThread \in {t, NoThread}
  BY DEF Becomes
<1>6. QED
  BY <1>1, <1>4, <1>5, WriteStep

LEMMA WriteOpenWrite ==
  ASSUME AssumedAlone, CountingInv, CountingInv', SharingInv, SharingInv', HistoryInv, WriteInv,
         NEW t \in Threads, OpenWrite(t)
  PROVE  WriteInv'
<1>0. PICK b, flags : b = call[t].branch /\ flags = call[t].flags
  OBVIOUS
<1> DEFINE noInherit == call[t].flags = "ResetRevision"
<1>1. /\ b = call[t].branch /\ flags = call[t].flags /\ call[t].step = "openWrite"
      /\ writeMutex[b] = NoThread /\ writeMutex' = [writeMutex EXCEPT ![b] = t]
      /\ UNCHANGED <<nextBranchId, branchMap, dependsOn, held>>
  BY <1>0 DEF OpenWrite, branches
<1>2. PICK p \in FreePages, d \in FreeNumbers, a \in FreeAllocators :
        /\ CreateRevision(b, p, noInherit)
        /\ SetDocuments([document EXCEPT ![d] = [flags |-> flags, allocator |-> a, refCount |-> 0]],
                        [revisionPage EXCEPT ![a] = p])
        /\ granted' = [granted EXCEPT ![t] = @ \cup {d}]
        /\ call' = [call EXCEPT ![t] = [Idle EXCEPT !.step = "opened", !.doc = d, !.flags = flags]]
  BY <1>0, Zenon DEF OpenWrite
<1> HIDE DEF noInherit
<1>3. /\ StoreInv /\ LockType /\ PositionType /\ Allocated /\ Lines /\ DocumentType
      /\ branchMap \in SUBSET Branch
      /\ granted \in [Threads -> SUBSET Document]
      /\ CallMeant(t) /\ CallHolds(t) /\ CallSound(t)
  BY DEF HistoryInv, SharingInv, CountingInv, Types, StoreInv, StoreType
<1>4. flags \in {"Write", "ResetRevision"} /\ b \in branchMap /\ b \in Branch
  BY <1>1, <1>3 DEF CallMeant, CallHolds
<1>5. InUse(t) < MaxHeld /\ call[t].step # "opened"
  BY <1>1, <1>3, InUseMeant DEF CallSound, Using
<1>6. /\ PagesKept /\ p \in Page /\ p \notin Taken /\ revision'[p].branch = b
      /\ \A q \in Page \ {p, lastRevision[b]} : revision'[q] = revision[q]
  <2>1. noInherit \in BOOLEAN
    BY DEF noInherit
  <2>2. QED
    BY <1>1, <1>2, <1>3, <1>4, <2>1, CreateRevisionAdds
<1>7. revision'[p].writable
  BY <1>2, <1>6 DEF CreateRevision
<1>8. d \in Document /\ d \notin Alive /\ a \in Allocator /\ \A e \in Alive : document[e].allocator # a
  BY DEF FreeNumbers, FreeAllocators
<1>9. /\ document'[d].flags = flags /\ document'[d].allocator = a /\ revisionPage'[a] = p
      /\ \A e \in Document \ {d} : document'[e] = document[e]
      /\ \A e \in Alive : revisionPage'[document[e].allocator] = revisionPage[document[e].allocator]
  <2> DEFINE next == [document EXCEPT ![d] = [flags |-> flags, allocator |-> a, refCount |-> 0]]
             position == [revisionPage EXCEPT ![a] = p]
  <2>1. /\ position \in [Allocator -> Page \cup {NullPage}] /\ position[a] = p
        /\ \A e \in Allocator \ {a} : position[e] = revisionPage[e]
    BY <1>3, <1>6, <1>8 DEF PositionType
  <2>2. /\ next[d].flags = flags /\ next[d].allocator = a
        /\ \A e \in Document \ {d} : next[e] = document[e]
    BY <1>3, <1>8 DEF DocumentType
  <2>3. SetDocuments(next, position)
    BY <1>2
  <2> HIDE DEF next, position
  <2>4. /\ document' = next
        /\ \A e \in Document : next[e].allocator \in Allocator =>
             revisionPage'[next[e].allocator] = position[next[e].allocator]
    BY <2>1, <2>3, PositionSet
  <2>5. \A e \in Alive : e \in Document /\ e # d /\ document[e].allocator \in Allocator \ {a}
    BY <1>3, <1>8 DEF Allocated, Alive
  <2>6. \A e \in Alive : revisionPage'[document[e].allocator] = revisionPage[document[e].allocator]
    BY <2>1, <2>2, <2>4, <2>5
  <2>7. QED
    BY <1>8, <2>1, <2>2, <2>4, <2>6
<1>10. PICK c : Becomes(t, c) /\ c.step = "opened" /\ c.doc = d /\ c.flags = flags
  <2> DEFINE c == [Idle EXCEPT !.step = "opened", !.doc = d, !.flags = flags]
  <2>1. Becomes(t, c)
    BY <1>2, CallReturns
  <2>2. c.step = "opened" /\ c.doc = d /\ c.flags = flags
    BY DEF Idle
  <2>3. QED
    BY <2>1, <2>2, Zenon
<1>11. writeMutex'[b] = t /\ LocksKept(NoThread)
  BY <1>1, <1>3, <1>4 DEF LockType, LocksKept
<1>12. PagesSteady(NoThread)
  <2>1. SUFFICES ASSUME NEW q \in Taken, revision[q].branch \in branchMap'
                 PROVE  /\ Kept(q)
                        /\ revision[q].writable /\ writeMutex[revision[q].branch] # NoThread =>
                             revision'[q].writable
    BY DEF PagesSteady
  <2>2. Kept(q) /\ q \in Page /\ q # p
    BY <1>6, <2>1 DEF PagesKept, Taken
  <2>3. writeMutex[revision[q].branch] # NoThread => q # lastRevision[b]
    BY <1>1, <1>3, <1>4, <2>2, Numbers DEF Lines
  <2>4. QED
    BY <1>6, <2>2, <2>3
<1>13. IsWritable(d)' /\ IsLockedWrite(t, d)'
  <2>1. revisionPage'[document'[d].allocator] = p
    BY <1>9
  <2>2. QED
    BY <1>6, <1>7, <1>11, <2>1 DEF IsWritable, IsLockedWrite, BranchOf, RevisionOf
<1>14. granted'[t] = {d} /\ \A u \in Threads \ {t} : granted'[u] = granted[u]
  BY <1>2, <1>3, <1>5, NothingUsed
<1>15. GrantsHold(t)'
  BY <1>13, <1>14 DEF GrantsHold
<1>16. CallWrites(t)'
  BY <1>4, <1>10, <1>14 DEF CallWrites, Becomes
<1>17. ASSUME NEW u \in Threads \ {t}, NEW e \in Document, UsedBy(u, e), e \in Alive'
       PROVE  e \in Alive /\ PageOf(e)' = PageOf(e)
  <2>1. e # d
    BY <1>17 DEF UsedBy, FreeNumbers
  <2>2. document'[e] = document[e] /\ e \in Alive
    BY <1>9, <1>17, <2>1 DEF Alive
  <2>3. QED
    BY <1>9, <2>2 DEF PageOf
<1>18. branchMap \subseteq branchMap' /\ UNCHANGED held
  BY <1>1
<1>19. QED
  BY <1>5, <1>10, <1>11, <1>12, <1>14, <1>15, <1>16, <1>17, <1>18, WriteOpening

\* What is opened for reading is not writable.
LEMMA WriteOpenRead ==
  ASSUME AssumedAlone, CountingInv, CountingInv', SharingInv, SharingInv', HistoryInv, WriteInv,
         NEW t \in Threads, NEW b \in Branch, NEW asked \in Page, NEW flags \in OpenFlags,
         OpenRead(t, b, asked, flags)
  PROVE  WriteInv'
<1>1. PICK p : p = LookupRevision(asked, flags)
  OBVIOUS
<1>2. /\ call[t] = Idle /\ Idle.step = "idle" /\ InUse(t) < MaxHeld /\ p # NullPage
      /\ asked \in RevisionsFrom(lastRevision[b])
      /\ UNCHANGED <<branchMap, revision, writeMutex, held, granted>>
      /\ flags \notin {"Write", "ResetRevision"}
  BY <1>1 DEF OpenRead, mutexes, branches, revisions, Idle
<1>3. PICK d \in Document :
        /\ call' = [call EXCEPT ![t] = [Idle EXCEPT !.step = "opened", !.doc = d, !.flags = flags]]
        /\ \/ UNCHANGED documents /\ d = reusable[b] /\ ReusableFor(b, p, flags)
           \/ /\ FreeNumbers # {} /\ d = Min(FreeNumbers)
              /\ \E a \in Allocator :
                   /\ IF Followed(b, p, flags) # {}
                      THEN \E e \in Followed(b, p, flags) : a = document[e].allocator
                      ELSE a = Min(FreeAllocators)
                   /\ InstanciateDocument(b, p, d, a, flags)
  BY <1>1, Zenon DEF OpenRead
<1>4. PICK c : Becomes(t, c) /\ c.step = "opened" /\ c.doc = d /\ c.flags = flags
  <2> DEFINE c == [Idle EXCEPT !.step = "opened", !.doc = d, !.flags = flags]
  <2>1. Becomes(t, c)
    BY <1>3, CallReturns
  <2>2. c.step = "opened" /\ c.doc = d /\ c.flags = flags
    BY DEF Idle
  <2>3. QED
    BY <2>1, <2>2, Zenon
<1>5. /\ p \in Taken /\ p \in Page
      /\ flags \in {"Read", "ExplicitRead"} => ~revision[p].writable
  BY <1>1, <1>2, RevisionLooked DEF HistoryInv
<1>6. PagesSteady(NoThread) /\ LocksKept(NoThread) /\ branchMap \subseteq branchMap'
  BY <1>2, RevisionsSteady DEF LocksKept
<1>7. GrantsHold(t)' /\ call[t].step # "opened"
  BY <1>2, NothingUsed DEF GrantsHold
<1>8. ASSUME flags \in {"Read", "ExplicitRead"} /\ d \in Alive' => ~IsWritable(d)',
             \A u \in Threads \ {t}, e \in Document :
               UsedBy(u, e) /\ e \in Alive' => e \in Alive /\ PageOf(e)' = PageOf(e)
      PROVE  WriteInv'
  <2>1. CallWrites(t)'
    BY <1>2, <1>4, <1>8 DEF CallWrites, Becomes
  <2>2. UNCHANGED held /\ \A u \in Threads \ {t} : granted'[u] = granted[u]
    BY <1>2
  <2>3. QED
    BY <1>2, <1>4, <1>6, <1>7, <1>8, <2>1, <2>2, WriteOpening
<1>9. CASE UNCHANGED documents /\ d = reusable[b] /\ ReusableFor(b, p, flags)
  <2>1. UNCHANGED <<document, revisionPage>> /\ Alive' = Alive /\ d # NoDocument
    BY <1>9 DEF documents, Alive, ReusableFor
  <2>2. document[d].flags = "ExplicitRead"
    BY <1>9, <2>1 DEF SharingInv, ReusedRead
  <2>3. d \in Alive => ~IsWritable(d)
    BY <2>2 DEF HistoryInv, ReadOnly
  <2>4. IsWritable(d)' = IsWritable(d) /\ \A e : PageOf(e)' = PageOf(e)
    BY <1>2, <2>1 DEF IsWritable, RevisionOf, PageOf
  <2>5. QED
    BY <1>8, <2>1, <2>3, <2>4
<1>10. ASSUME FreeNumbers # {}, d = Min(FreeNumbers), NEW a \in Allocator,
              IF Followed(b, p, flags) # {}
                THEN \E e \in Followed(b, p, flags) : a = document[e].allocator
                ELSE a = Min(FreeAllocators),
              InstanciateDocument(b, p, d, a, flags)
       PROVE  WriteInv'
  <2> DEFINE kept == SetsReusable(b, p, flags)
             deleted == IF kept /\ Collectable(b) THEN {reusable[b]} ELSE {}
             next == [e \in Document |->
               IF e = d THEN [flags |-> flags, allocator |-> a, refCount |-> IF kept THEN 1 ELSE 0]
               ELSE IF e \in deleted THEN Unused
               ELSE document[e]]
             position == [revisionPage EXCEPT ![a] = IF a \in FreeAllocators THEN p ELSE @]
  <2>1. SetDocuments(next, position)
    BY <1>10 DEF InstanciateDocument
  <2>2. d \in FreeNumbers /\ d \notin Alive
    <3>1. FreeNumbers \in SUBSET Document
      BY DEF FreeNumbers
    <3>2. d \in FreeNumbers
      BY <1>10, <3>1, MinChooses
    <3>3. QED
      BY <3>2 DEF FreeNumbers
  <2>3. a \in FreeAllocators /\ \A e \in Alive : document[e].allocator # a
    <3>1. Followed(b, p, flags) = {}
      BY DEF Followed, AssumedAlone
    <3>2. QED
      BY <1>10, <2>2, <3>1, AllocatorLeft DEF FreeAllocators
  <2>4. /\ next[d].flags = flags /\ next[d].allocator = a
        /\ \A e \in Document \ {d} : next[e] = Unused \/ next[e] = document[e]
    OBVIOUS
  <2>5. /\ position \in [Allocator -> Page \cup {NullPage}] /\ position[a] = p
        /\ \A e \in Alive : document[e].allocator \in Allocator
                            /\ position[document[e].allocator] = revisionPage[document[e].allocator]
    BY <1>5, <2>3 DEF HistoryInv, PositionType, SharingInv, Allocated
  <2> HIDE DEF next, position, deleted, kept
  <2>6. /\ document' = next
        /\ \A e \in Document : next[e].allocator \in Allocator =>
             revisionPage'[next[e].allocator] = position[next[e].allocator]
    BY <2>1, <2>5, PositionSet
  <2>7. IsWritable(d)' = revision[p].writable
    BY <1>2, <2>4, <2>5, <2>6 DEF IsWritable, RevisionOf
  <2>8. ASSUME NEW e \in Alive' \ {d} PROVE e \in Alive /\ PageOf(e)' = PageOf(e)
    <3>1. e \in Document /\ document'[e] = document[e] /\ e \in Alive
      BY <2>4, <2>6, <2>8 DEF Alive, Unused
    <3>2. QED
      BY <2>5, <2>6, <3>1 DEF PageOf
  <2>9. \A u \in Threads : ~UsedBy(u, d)
    BY <2>2 DEF UsedBy, FreeNumbers
  <2>10. QED
    BY <1>5, <1>8, <2>7, <2>8, <2>9
<1>11. QED
  BY <1>3, <1>9, <1>10

-----------------------------------------------------------------------------
(* Collecting and releasing documents.                                     *)

LEMMA WriteCollect ==
  ASSUME CountingInv, CountingInv', SharingInv, SharingInv', HistoryInv, WriteInv, Collect
  PROVE  WriteInv'
<1>1. PICK deleted :
        SetDocuments([d \in Document |-> IF d \in deleted THEN Unused ELSE document[d]], revisionPage)
  BY DEF Collect
<1>2. UNCHANGED <<branchMap, revision, writeMutex, held, granted, call>>
  BY DEF Collect, branches, revisions, mutexes, threads
<1>3. /\ revisionPage \in [Allocator -> Page \cup {NullPage}] /\ Allocated
  BY DEF HistoryInv, PositionType, SharingInv
<1>4. /\ document' = [d \in Document |-> IF d \in deleted THEN Unused ELSE document[d]]
      /\ \A d \in Document : document'[d].allocator \in Allocator =>
           revisionPage'[document'[d].allocator] = revisionPage[document'[d].allocator]
  BY <1>1, <1>3, PositionSet
<1>5. ASSUME NEW e \in Alive' PROVE Steady(NoThread, e)
  <2>1. e \in Document /\ document'[e] = document[e] /\ e \in Alive
    BY <1>4, <1>5 DEF Alive, Unused
  <2>2. PageOf(e)' = PageOf(e)
    BY <1>3, <1>4, <2>1 DEF PageOf, Allocated
  <2>3. PagesSteady(NoThread) /\ LocksKept(NoThread) /\ branchMap \subseteq branchMap'
    BY <1>2, RevisionsSteady DEF LocksKept
  <2>4. QED
    BY <2>1, <2>2, <2>3, AllSteady
<1>6. /\ PagesSteady(NoThread) /\ NoThread \in Threads \cup {NoThread} /\ NoThread \notin Threads
      /\ \A u \in Threads \ {NoThread} : /\ call'[u] = call[u] /\ held'[u] = held[u]
                                         /\ granted'[u] = granted[u]
      /\ NoThread \in {NoThread, NoThread}
  BY <1>2, RevisionsSteady, NoThreadAssumption
<1>7. \A u \in Threads \ {NoThread}, e \in Document : UsedBy(u, e) /\ e \in Alive' => Steady(NoThread, e)
  BY <1>5
<1>8. QED
  BY <1>6, <1>7, WriteStep


\* A thread that has released its document has none left.
LEMMA NothingLeft ==
  ASSUME CountingInv, SharingInv, WriteInv, NEW t \in Threads, NEW d \in Document,
         call[t].step = "release", call[t].doc = d, NEW H, held' = [held EXCEPT ![t] = H],
         H[d] = 0, \A e \in Document \ {d} : H[e] = held[t][e], UNCHANGED granted, Return(t)
  PROVE  WriteOf(t)'
<1>1. /\ CallHolds(t) /\ GrantHeld(t) /\ OneHeld(t) /\ HeldType /\ Referenced
      /\ granted \in [Threads -> SUBSET Document] /\ Idle.step = "idle" /\ Becomes(t, Idle)
  BY CallReturns, ReferencedAlive
     DEF SharingInv, WriteInv, WriteOf, CountingInv, Types, Idle, Return
<1>2. held[t][d] > 0 /\ d \notin granted[t]
  BY <1>1 DEF CallHolds, Holding
<1>3. \A e \in granted[t] : FALSE
  BY <1>1, <1>2 DEF GrantHeld, UsedBy, OneHeld
<1>4. \A e \in Document : held'[t][e] = 0
  <2>1. SUFFICES ASSUME NEW e \in Document PROVE H[e] = 0
    BY <1>1 DEF HeldType
  <2>2. held[t][e] \in Nat
    BY <1>1 DEF Referenced
  <2>3. e = d \/ ~(held[t][e] > 0)
    BY <1>1, <1>2 DEF OneHeld
  <2>4. QED
    BY <2>2, <2>3
<1>5. OneHeld(t)' /\ GrantsHold(t)' /\ HeldLocked(t)' /\ CallWrites(t)'
  BY <1>1, <1>3, <1>4 DEF OneHeld, GrantsHold, HeldLocked, CallWrites, Becomes
<1>6. QED
  BY <1>5 DEF WriteOf

LEMMA WriteUnchanged ==
  ASSUME CountingInv, CountingInv', SharingInv, SharingInv', HistoryInv, WriteInv, NEW t \in Threads,
         UNCHANGED <<writeMutex, branchMap, revision, revisionPage, document, held, granted, call>>
  PROVE  WriteInv'
<1>1. /\ PagesSteady(NoThread) /\ LocksKept(NoThread) /\ Alive' = Alive /\ Becomes(t, call[t])
      /\ branchMap \subseteq branchMap'
  BY RevisionsSteady DEF LocksKept, Alive, Becomes
<1>2. QED
  BY <1>1, WriteQuiet

LEMMA WriteRelease ==
  ASSUME AssumedAlone, CountingInv, CountingInv', SharingInv, SharingInv', HistoryInv, WriteInv,
         NEW t \in Threads, ReleaseDocument(t)
  PROVE  WriteInv'
<1>0. PICK d, b, registered : /\ d = call[t].doc /\ b = BranchOf(d)
                              /\ registered = [instanciated EXCEPT ![b] = @ \ {d}]
  OBVIOUS
<1>1. PICK removed : /\ removed = RemovedBranches(b, registered)
                     /\ removed = RemovedBranches(BranchOf(d), RegisteredWithout(d))
  BY <1>0 DEF RegisteredWithout
<1>2. /\ call[t].step = "release" /\ call[t].doc = d
      /\ \/ /\ document' = [document EXCEPT ![d].refCount = @ - 1] /\ Return(t)
            /\ held' = [held EXCEPT ![t][d] = @ - 1]
            /\ UNCHANGED <<writeMutex, branches, revisions, revisionPage, granted>>
         \/ /\ RemoveBranches(removed)
            /\ writeMutex' = [c \in Branch |-> IF c \in removed THEN NoThread ELSE writeMutex[c]]
            /\ SetDocuments([document EXCEPT ![d] = Unused], revisionPage)
            /\ held' = [held EXCEPT ![t][d] = 0]
            /\ Return(t) /\ UNCHANGED granted
         \/ UNCHANGED <<writeMutex, branches, revisions, document, revisionPage, threads>>
  BY <1>0, <1>1 DEF ReleaseDocument
<1>3. /\ StoreInv /\ Lines /\ LockType /\ Placed /\ Allocated /\ HeldType /\ DocumentType
      /\ revisionPage \in [Allocator -> Page \cup {NullPage}]
      /\ branchMap \in SUBSET Branch /\ Referenced /\ CallHolds(t)
      /\ granted = [u \in Threads |-> granted[u]]
  BY ReferencedAlive
     DEF HistoryInv, StoreInv, StoreType, PositionType, SharingInv, CountingInv, Types
<1>4. d \in Document /\ d \in Alive /\ held[t][d] = 1
  <2>1. d \in Document /\ held[t][d] > 0 /\ held[t][d] \in 0 .. MaxHeld
    BY <1>2, <1>3 DEF CallHolds, Holding, HeldType
  <2>2. MaxHeld \in Nat /\ MaxHeld <= 1
    BY Finite DEF AssumedAlone
  <2>3. QED
    BY <1>3, <2>1, <2>2 DEF Referenced
<1>5. ASSUME held' = [held EXCEPT ![t][d] = 0] PROVE
        \E H : /\ held' = [held EXCEPT ![t] = H] /\ H[d] = 0
               /\ \A e \in Document \ {d} : H[e] = held[t][e]
  <2> DEFINE H == [held[t] EXCEPT ![d] = 0]
  <2>1. held' = [held EXCEPT ![t] = H] /\ H[d] = 0 /\ \A e \in Document \ {d} : H[e] = held[t][e]
    BY <1>3, <1>4, <1>5 DEF HeldType
  <2>2. QED
    BY <2>1, Zenon
<1>6. CASE UNCHANGED <<writeMutex, branches, revisions, document, revisionPage, threads>>
  <2>1. UNCHANGED <<writeMutex, branchMap, revision, revisionPage, document, held, granted, call>>
    BY <1>6 DEF branches, revisions, threads
  <2>2. QED
    BY <2>1, WriteUnchanged
<1>7. CASE /\ document' = [document EXCEPT ![d].refCount = @ - 1] /\ Return(t)
           /\ held' = [held EXCEPT ![t][d] = @ - 1]
           /\ UNCHANGED <<writeMutex, branches, revisions, revisionPage, granted>>
  <2>1. held' = [held EXCEPT ![t][d] = 0]
    BY <1>3, <1>4, <1>7 DEF HeldType
  <2>2. PICK H : /\ held' = [held EXCEPT ![t] = H] /\ H[d] = 0
                 /\ \A e \in Document \ {d} : H[e] = held[t][e]
    BY <1>5, <2>1
  <2>3. WriteOf(t)'
    BY <1>2, <1>4, <1>7, <2>2, NothingLeft
  <2>4. /\ UNCHANGED <<branchMap, revision, revisionPage>> /\ LocksKept(NoThread)
        /\ Becomes(t, Idle) /\ granted' = [granted EXCEPT ![t] = granted[t]]
    BY <1>3, <1>7, CallReturns DEF branches, revisions, LocksKept, Return
  <2>5. /\ \A e \in Document : /\ document'[e].flags = document[e].flags
                               /\ document'[e].allocator = document[e].allocator
        /\ Alive' \subseteq Alive
    BY <1>3, <1>7 DEF DocumentType, Alive
  <2>6. QED
    BY <2>2, <2>3, <2>4, <2>5, WriteActsOn
<1>8. CASE /\ RemoveBranches(removed)
           /\ writeMutex' = [c \in Branch |-> IF c \in removed THEN NoThread ELSE writeMutex[c]]
           /\ SetDocuments([document EXCEPT ![d] = Unused], revisionPage)
           /\ held' = [held EXCEPT ![t][d] = 0]
           /\ Return(t) /\ UNCHANGED granted
  <2>1. /\ removed \in SUBSET branchMap
        /\ \A c \in branchMap : dependsOn[c] \in removed => c \in removed
        /\ \A e \in Alive \ {d} : BranchOf(e) \notin removed
    <3>1. removed \in SUBSET branchMap
      BY <1>1, <1>2, RemovedUnused
    <3>2. \A c \in branchMap : dependsOn[c] \in removed => c \in removed
      BY <1>1, <1>2, RemovedUnused
    <3>3. \A e \in Alive \ {d} : BranchOf(e) \notin removed
      BY <1>1, <1>2, RemovedUnused
    <3>4. QED
      BY <3>1, <3>2, <3>3
  <2>2. /\ PagesKept /\ branchMap' = branchMap \ removed
        /\ \A q \in Taken' : q \in Taken /\ revision'[q] = revision[q]
    BY <1>3, <1>8, <2>1, BranchesRemoved
  <2>3. /\ document' = [document EXCEPT ![d] = Unused]
        /\ \A e \in Document : document'[e].allocator \in Allocator =>
             revisionPage'[document'[e].allocator] = revisionPage[document'[e].allocator]
    BY <1>3, <1>8, PositionSet
  <2>4. PagesSteady(NoThread)
    BY <2>2 DEF PagesSteady, PagesKept
  <2>5. ASSUME NEW e \in Alive' PROVE Steady(NoThread, e)
    <3>1. e \in Alive \ {d} /\ e \in Document /\ document'[e] = document[e]
      BY <1>3, <1>4, <2>3, <2>5 DEF DocumentType, Alive, Unused
    <3>2. PageOf(e)' = PageOf(e)
      BY <1>3, <2>3, <3>1 DEF PageOf, Allocated
    <3>3. BranchOf(e) \in branchMap /\ BranchOf(e) \notin removed
      BY <1>3, <2>1, <3>1 DEF Placed, Lines, InLine, BranchOf, RevisionOf, PageOf
    <3>4. BranchOf(e) \in branchMap' /\ writeMutex'[BranchOf(e)] = writeMutex[BranchOf(e)]
      BY <1>3, <1>8, <2>2, <3>3
    <3>5. QED
      BY <2>4, <3>1, <3>2, <3>4, DocumentSteady
  <2>6. PICK H : /\ held' = [held EXCEPT ![t] = H] /\ H[d] = 0
                 /\ \A e \in Document \ {d} : H[e] = held[t][e]
    BY <1>5, <1>8
  <2>7. WriteOf(t)'
    BY <1>2, <1>4, <1>8, <2>6, NothingLeft
  <2>8. \A u \in Threads \ {t} : /\ call'[u] = call[u] /\ held'[u] = held[u]
                                 /\ granted'[u] = granted[u]
    BY <1>3, <1>8, <2>6, CallReturns DEF Return, Becomes, HeldType
  <2>9. /\ NoThread \in Threads \cup {NoThread} /\ t \in Threads \cup {NoThread}
        /\ NoThread \in {t, NoThread}
    OBVIOUS
  <2>10. \A u \in Threads \ {t}, e \in Document : UsedBy(u, e) /\ e \in Alive' => Steady(NoThread, e)
    BY <2>5
  <2>11. QED
    BY <2>4, <2>7, <2>8, <2>9, <2>10, WriteStep
<1>9. QED
  BY <1>2, <1>6, <1>7, <1>8


-----------------------------------------------------------------------------

LEMMA WriteInit == Init => WriteInv
<1> SUFFICES ASSUME Init, NEW u \in Threads PROVE WriteOf(u)
  BY DEF WriteInv
<1>1. /\ call[u] = Idle /\ Idle.step = "idle" /\ granted[u] = {}
      /\ \A d \in Document : held[u][d] = 0
  BY DEF Init, Idle
<1>2. QED
  BY <1>1 DEF WriteOf, OneHeld, GrantsHold, HeldLocked, CallWrites

LEMMA WriteNext ==
  ASSUME AssumedAlone, CountingInv, CountingInv', SharingInv, SharingInv', HistoryInv, WriteInv,
         [Next]_vars
  PROVE  WriteInv'
<1>1. ASSUME Collect PROVE WriteInv'
  BY <1>1, WriteCollect
<1>2. ASSUME NEW t \in Threads, Proceed(t) PROVE WriteInv'
  BY <1>2, WriteOpenWrite, WriteIncrement, WriteLock, WriteReopenLock, WriteMoves,
     WriteForkReference, WriteRelease, WriteLeft DEF Proceed
<1>3. ASSUME NEW t \in Threads, Open(t) PROVE WriteInv'
  BY <1>3, WriteLeft, WriteOpenRead DEF Open
<1>4. ASSUME NEW t \in Threads, NEW d \in Document, UseDocument(t, d) PROVE WriteInv'
  BY <1>4, WriteGrant, WriteCommit, WriteReleaseBegin, WriteLeft DEF UseDocument
<1>5. CASE UNCHANGED vars
  <2>1. UNCHANGED <<writeMutex, branchMap, revision, revisionPage, document, held, granted, call>>
    BY <1>5 DEF vars, mutexes, branches, revisions, documents, threads
  <2>2. ASSUME NEW t \in Threads PROVE WriteInv'
    BY <2>1, WriteUnchanged
  <2>3. Threads = {} => WriteInv'
    BY DEF WriteInv
  <2>4. QED
    BY <2>2, <2>3
<1>6. CASE Next
  BY <1>1, <1>2, <1>3, <1>4, <1>6 DEF Next
<1>7. QED
  BY <1>5, <1>6

StoreOfWritersInv == StoreOfBranchesInv /\ WriteInv

LEMMA StoreOfWriters ==
  ASSUME AssumedAlone
  PROVE  Spec => []StoreOfWritersInv
<1>1. Init => StoreOfWritersInv
  BY CountingInit, SharingInit, HistoryInit, WriteInit DEF StoreOfWritersInv, StoreOfBranchesInv
<1>2. StoreOfWritersInv /\ [Next]_vars => StoreOfWritersInv'
  <2>1. SUFFICES ASSUME CountingInv, SharingInv, HistoryInv, WriteInv, [Next]_vars
                 PROVE  CountingInv' /\ SharingInv' /\ HistoryInv' /\ WriteInv'
    BY DEF StoreOfWritersInv, StoreOfBranchesInv
  <2>2. CountingInv'
    BY <2>1, CountingNext
  <2>3. SharingInv' /\ InstanciatedType'
    BY <2>1, <2>2, SharingNext DEF HistoryInv
  <2>4. HistoryInv'
    BY <2>1, <2>2, <2>3, HistoryNext DEF AssumedAlone
  <2>5. WriteInv'
    BY <2>1, <2>2, <2>3, WriteNext
  <2>6. QED
    BY <2>2, <2>3, <2>4, <2>5
<1>3. QED
  BY <1>1, <1>2, PTL DEF Spec

\* Who was granted a document, by openDocument(), lockWrite(), reopen() or fork(),
\* may write it: the revision is writable, and the branch is locked by the thread
\* and stays so until it commits or releases the document, whatever the other
\* threads open, reopen, commit, fork and remove.  It is what commit() and
\* authorizePageWrite() assert.
THEOREM GrantedMayWrite == AssumedAlone => (Spec => []GrantHolds)
<1> SUFFICES ASSUME AssumedAlone PROVE Spec => []GrantHolds
  OBVIOUS
<1>1. Spec => []StoreOfWritersInv
  BY StoreOfWriters
<1>2. StoreOfWritersInv => GrantHolds
  BY DEF StoreOfWritersInv, WriteInv, WriteOf, GrantsHold, GrantHolds
<1>3. QED
  BY <1>1, <1>2, PTL

-----------------------------------------------------------------------------
(* Where the documents move.                                               *)

UpdateKept(a) ==
  LET p == revisionPage[a]
      q == revisionPage'[a]
  IN NullPage \notin {p, q} /\ p # q => revision'[q].base = p

\* A document that is opened is at no revision before.
LEMMA PositionsKept ==
  ASSUME NEW next, NEW position, SetDocuments(next, position),
         \A a \in Allocator : position[a] = revisionPage[a] \/ revisionPage[a] = NullPage
  PROVE  \A a \in Allocator : UpdateKept(a)
<1>1. \A a \in Allocator : revisionPage'[a] \in {position[a], NullPage}
  BY DEF SetDocuments
<1>2. QED
  BY <1>1 DEF UpdateKept

LEMMA FreeNowhere ==
  ASSUME SharingInv, NEW a \in FreeAllocators
  PROVE  revisionPage[a] = NullPage
<1>1. /\ a \in Allocator /\ \A d \in Alive : document[d].allocator # a
      /\ \A d \in Document \ Alive : document[d].allocator # a
      /\ (revisionPage[a] # NullPage => \E d \in Document : document[d].allocator = a)
  BY Finite DEF FreeAllocators, SharingInv, Allocated, Allocator
<1>2. QED
  BY <1>1

LEMMA SwitchKept ==
  ASSUME HistoryInv, NEW d, NEW p, revisionPage' = [revisionPage EXCEPT ![document[d].allocator] = p],
         UNCHANGED revision, revision[p].base = PageOf(d)
  PROVE  \A a \in Allocator : UpdateKept(a)
BY DEF HistoryInv, PositionType, UpdateKept, PageOf

LEMMA OpenWriteKept ==
  ASSUME SharingInv, HistoryInv, NEW t \in Threads, OpenWrite(t)
  PROVE  \A a \in Allocator : UpdateKept(a)
<1>1. PICK p \in FreePages, d \in FreeNumbers, f \in FreeAllocators :
        SetDocuments([document EXCEPT ![d] = [flags |-> call[t].flags, allocator |-> f, refCount |-> 0]],
                     [revisionPage EXCEPT ![f] = p])
  BY Zenon DEF OpenWrite
<1> DEFINE next == [document EXCEPT ![d] = [flags |-> call[t].flags, allocator |-> f, refCount |-> 0]]
           position == [revisionPage EXCEPT ![f] = p]
<1>2. \A a \in Allocator : position[a] = revisionPage[a] \/ revisionPage[a] = NullPage
  BY FreeNowhere DEF HistoryInv, PositionType
<1>3. SetDocuments(next, position)
  BY <1>1
<1> HIDE DEF next, position
<1>4. QED
  BY <1>2, <1>3, PositionsKept

LEMMA OpenReadKept ==
  ASSUME SharingInv, HistoryInv, NEW t \in Threads, NEW b \in Branch, NEW asked \in Page,
         NEW flags \in OpenFlags, OpenRead(t, b, asked, flags)
  PROVE  \A a \in Allocator : UpdateKept(a)
<1>1. PICK p, d, f : UNCHANGED documents \/ InstanciateDocument(b, p, d, f, flags)
  BY Zenon DEF OpenRead
<1>2. CASE UNCHANGED documents
  BY <1>2 DEF documents, UpdateKept
<1>3. CASE InstanciateDocument(b, p, d, f, flags)
  <2>1. PICK next : SetDocuments(next,
                      [revisionPage EXCEPT ![f] = IF f \in FreeAllocators THEN p ELSE @])
    BY <1>3, Zenon DEF InstanciateDocument
  <2> DEFINE position == [revisionPage EXCEPT ![f] = IF f \in FreeAllocators THEN p ELSE @]
  <2>2. \A a \in Allocator : position[a] = revisionPage[a] \/ revisionPage[a] = NullPage
    BY FreeNowhere DEF HistoryInv, PositionType
  <2>3. SetDocuments(next, position)
    BY <2>1
  <2> HIDE DEF position
  <2>4. QED
    BY <2>2, <2>3, PositionsKept
<1>4. QED
  BY <1>1, <1>2, <1>3

LEMMA DeleteKept ==
  ASSUME Collect \/ \E t \in Threads : ReleaseDocument(t)
  PROVE  \A a \in Allocator : UpdateKept(a)
<1>1. PICK next : UNCHANGED revisionPage \/ SetDocuments(next, revisionPage)
  BY Zenon DEF Collect, ReleaseDocument
<1>2. CASE UNCHANGED revisionPage
  BY <1>2 DEF UpdateKept
<1>3. CASE SetDocuments(next, revisionPage)
  BY <1>3, PositionsKept
<1>4. QED
  BY <1>1, <1>2, <1>3

LEMMA MoveKept ==
  ASSUME SharingInv, HistoryInv, WriteInv, NEW t \in Threads, ReopenSwitch(t) \/ ForkSwitch(t)
  PROVE  \A a \in Allocator : UpdateKept(a)
<1>1. /\ CallMeant(t) /\ CallWrites(t) /\ UNCHANGED revision
      /\ call[t].step \in {"reopenSwitch", "forkSwitch"}
      /\ revisionPage' = [revisionPage EXCEPT ![document[call[t].doc].allocator] = call[t].page]
  BY DEF ReopenSwitch, ForkSwitch, SwitchRevisionPage, revisions, HistoryInv, WriteInv, WriteOf
<1>2. revision[call[t].page].base = PageOf(call[t].doc)
  BY <1>1 DEF CallMeant, CallWrites
<1>3. QED
  BY <1>1, <1>2, SwitchKept

LEMMA UpdatesKept ==
  ASSUME SharingInv, HistoryInv, WriteInv, [Next]_vars
  PROVE  \A a \in Allocator : UpdateKept(a)
<1>1. CASE UNCHANGED revisionPage
  BY <1>1 DEF UpdateKept
<1>2. ASSUME NEW t \in Threads, Proceed(t) PROVE \A a \in Allocator : UpdateKept(a)
  <2>1. \/ OpenWrite(t) \/ ReopenSwitch(t) \/ ForkSwitch(t) \/ ReleaseDocument(t)
        \/ UNCHANGED revisionPage
    BY <1>2 DEF Proceed, OpenWriteThrows, IncrementRefCount, IncrementRefCountOfFreed, LockWrite,
                ReopenBegin, ReopenLock, ForkRevision, ForkReference, documents
  <2>2. QED
    BY <1>1, <2>1, OpenWriteKept, MoveKept, DeleteKept, SMTT(30)
<1>3. ASSUME NEW t \in Threads, Open(t) PROVE \A a \in Allocator : UpdateKept(a)
  <2>1. \/ \E b \in Branch, p \in Page, flags \in OpenFlags : OpenRead(t, b, p, flags)
        \/ UNCHANGED revisionPage
    BY <1>3 DEF Open, CreateBranch, OpenWriteBegin, documents
  <2>2. QED
    BY <1>1, <2>1, OpenReadKept
<1>4. ASSUME NEW t \in Threads, NEW d \in Document, UseDocument(t, d)
      PROVE  \A a \in Allocator : UpdateKept(a)
  <2>1. UNCHANGED revisionPage
    BY <1>4 DEF UseDocument, GrantWrite, Edit, Commit, Fork, ScheduleRemoval, ReleaseBegin, documents
  <2>2. QED
    BY <1>1, <2>1
<1>5. CASE UNCHANGED vars
  BY <1>1, <1>5 DEF vars, documents
<1>6. CASE Next
  BY <1>2, <1>3, <1>4, <1>6, DeleteKept DEF Next
<1>7. QED
  BY <1>5, <1>6

\* A document moves, in reopen() and fork(), to a revision copied from the one it
\* was at: createRevision() and forkRevision() chose the base before the document
\* is switched, and nobody commits to the branch in between.
THEOREM NoUpdateIsLost == AssumedAlone => (Spec => NoLostUpdate)
<1> SUFFICES ASSUME AssumedAlone PROVE Spec => NoLostUpdate
  OBVIOUS
<1>1. Spec => []StoreOfWritersInv
  BY StoreOfWriters
<1>2. StoreOfWritersInv /\ [Next]_vars =>
        [\A a \in Allocator :
           LET p == revisionPage[a]
               q == revisionPage'[a]
           IN NullPage \notin {p, q} /\ p # q => revision'[q].base = p]_vars
  BY UpdatesKept DEF StoreOfWritersInv, StoreOfBranchesInv, UpdateKept
<1>3. QED
  BY <1>1, <1>2, PTL DEF Spec, NoLostUpdate

-----------------------------------------------------------------------------
(* The history of the branches: the committed revisions of a line.         *)

\* What a revision adds to the history of its branch, once committed.
Entry(rev, p) == [page |-> p, base |-> rev[p].base, edits |-> rev[p].edits]

Last(rev, p) == IF rev[p].writable THEN <<>> ELSE <<Entry(rev, p)>>

\* The history that ends at each page, for the revisions in the pages.
IsHistory(rev, h) ==
  h = [p \in Page \cup {NullPage} |->
         IF p = NullPage THEN <<>> ELSE h[rev[p].prev] \o Last(rev, p)]

HistoryTo(rev) == CHOOSE h : IsHistory(rev, h)

LEMMA CommittedMeant ==
  \A b : CommittedRevisions(b) = HistoryTo(revision)[lastRevision[b]]
<1> DEFINE Unfolded(h) == [p \in Page \cup {NullPage} |->
             IF p = NullPage THEN <<>>
             ELSE h[revision[p].prev] \o
                  (IF revision[p].writable THEN <<>>
                   ELSE <<[page |-> p, base |-> revision[p].base, edits |-> revision[p].edits]>>)]
<1>1. \A h : IsHistory(revision, h) <=> h = Unfolded(h)
  BY Zenon DEF IsHistory, Last, Entry
<1>2. (CHOOSE h : IsHistory(revision, h)) = CHOOSE h : h = Unfolded(h)
  BY <1>1
<1>3. QED
  BY <1>2 DEF CommittedRevisions, HistoryTo

LEMMA CommittedMeantNext ==
  \A b : CommittedRevisions(b)' = HistoryTo(revision')[lastRevision'[b]]
<1> DEFINE Unfolded(h) == [p \in Page \cup {NullPage} |->
             IF p = NullPage THEN <<>>
             ELSE h[revision'[p].prev] \o
                  (IF revision'[p].writable THEN <<>>
                   ELSE <<[page |-> p, base |-> revision'[p].base, edits |-> revision'[p].edits]>>)]
<1>1. \A h : IsHistory(revision', h) <=> h = Unfolded(h)
  BY Zenon DEF IsHistory, Last, Entry
<1>2. (CHOOSE h : IsHistory(revision', h)) = CHOOSE h : h = Unfolded(h)
  BY <1>1
<1>3. QED
  BY <1>2 DEF CommittedRevisions, HistoryTo

Recorded == [page : Page, base : Page \cup {NullPage}, edits : 0 .. MaxEdits]

\* The revisions of lines whose numbers grow, up to the number of pages.
Lined(rev) ==
  /\ rev \in [Page -> RevisionType]
  /\ \A p \in Page : /\ rev[p].id \in 0 .. MaxRevisions /\ rev[p].edits \in 0 .. MaxEdits
                     /\ rev[p].prev # NullPage => rev[p].id = rev[rev[p].prev].id + 1

LEMMA LinedEntries ==
  ASSUME NEW rev, Lined(rev), NEW p \in Page
  PROVE  /\ Entry(rev, p) \in Recorded /\ Last(rev, p) \in Seq(Recorded)
         /\ rev[p].prev \in Page \cup {NullPage}
         /\ rev[p].writable => Last(rev, p) = <<>>
         /\ ~rev[p].writable => Last(rev, p) = <<Entry(rev, p)>>
<1>1. /\ rev[p].base \in Page \cup {NullPage} /\ rev[p].edits \in 0 .. MaxEdits
      /\ rev[p].prev \in Page \cup {NullPage}
  BY DEF Lined, RevisionType
<1>2. Entry(rev, p) \in Recorded
  BY <1>1 DEF Entry, Recorded
<1>3. QED
  BY <1>1, <1>2 DEF Last

\* There is a history to each page.
LEMMA HistoryUnfolds ==
  ASSUME NEW rev, Lined(rev)
  PROVE  /\ HistoryTo(rev) \in [Page \cup {NullPage} -> Seq(Recorded)]
         /\ HistoryTo(rev)[NullPage] = <<>>
         /\ \A p \in Page : HistoryTo(rev)[p] = HistoryTo(rev)[rev[p].prev] \o Last(rev, p)
<1> DEFINE All == [Page \cup {NullPage} -> Seq(Recorded)]
           To(h, n) == /\ h \in All /\ h[NullPage] = <<>>
                       /\ \A p \in Page : rev[p].id <= n => h[p] = h[rev[p].prev] \o Last(rev, p)
           Without == {n \in Nat : ~ \E h : To(h, n)}
<1>0. /\ NullPage \notin Page /\ MaxRevisions \in Nat
      /\ \A p \in Page : rev[p].id \in Nat /\ rev[p].id <= MaxRevisions
      /\ \A p \in Page : rev[p].prev # NullPage =>
            rev[p].prev \in Page /\ rev[p].id = rev[rev[p].prev].id + 1
      /\ \A p \in Page : Last(rev, p) \in Seq(Recorded) /\ rev[p].prev \in Page \cup {NullPage}
  BY Numbers, LinedEntries, SMTT(30) DEF BoundsAssumption, Lined
<1>1. Without = {}
  <2>1. SUFFICES ASSUME Without # {} PROVE FALSE
    OBVIOUS
  <2>2. PICK n \in Without : \A m \in Without : n <= m
    BY <2>1, LeastNumber
  <2>3. n \in Nat /\ ~ \E h : To(h, n)
    OBVIOUS
  <2>4. n # 0
    <3>1. SUFFICES ASSUME n = 0 PROVE \E h : To(h, n)
      BY <2>3
    <3> DEFINE h == [p \in Page \cup {NullPage} |-> IF p = NullPage THEN <<>> ELSE Last(rev, p)]
    <3>2. h \in All /\ h[NullPage] = <<>> /\ \A p \in Page : h[p] = Last(rev, p)
      BY <1>0
    <3>3. ASSUME NEW p \in Page, rev[p].id <= n
          PROVE  h[p] = h[rev[p].prev] \o Last(rev, p)
      <4>1. rev[p].prev = NullPage
        BY <1>0, <3>1, <3>3, SMTT(30)
      <4>2. <<>> \o Last(rev, p) = Last(rev, p)
        BY <1>0
      <4> HIDE DEF h
      <4>3. QED
        BY <3>2, <4>1, <4>2
    <3> HIDE DEF h
    <3>4. QED
      BY <3>2, <3>3
  <2>5. PICK h : To(h, n - 1)
    <3>1. n - 1 \in Nat /\ ~(n <= n - 1)
      BY <2>3, <2>4
    <3>2. QED
      BY <2>2, <3>1
  <2> DEFINE g == [p \in Page \cup {NullPage} |->
                     IF p # NullPage /\ rev[p].id = n THEN h[rev[p].prev] \o Last(rev, p) ELSE h[p]]
  <2>6. \A p \in Page : h[rev[p].prev] \o Last(rev, p) \in Seq(Recorded)
    BY <1>0, <2>5, SMTT(30)
  <2>7. /\ g \in All /\ g[NullPage] = h[NullPage]
        /\ \A p \in Page : rev[p].id = n => g[p] = h[rev[p].prev] \o Last(rev, p)
        /\ \A p \in Page : rev[p].id # n => g[p] = h[p]
    BY <1>0, <2>5, <2>6
  <2> HIDE DEF g
  <2>8. ASSUME NEW p \in Page, rev[p].id <= n
        PROVE  g[p] = g[rev[p].prev] \o Last(rev, p)
    <3>1. g[rev[p].prev] = h[rev[p].prev]
      <4>1. CASE rev[p].prev = NullPage
        BY <2>7, <4>1
      <4>2. CASE rev[p].prev # NullPage
        <5>1. rev[p].prev \in Page /\ rev[rev[p].prev].id # n
          BY <1>0, <2>3, <2>8, <4>2, SMTT(30)
        <5>2. QED
          BY <2>7, <5>1
      <4>3. QED
        BY <4>1, <4>2
    <3>2. CASE rev[p].id = n
      BY <2>7, <3>1, <3>2, SMTT(30)
    <3>3. CASE rev[p].id # n
      <4>1. rev[p].id <= n - 1
        BY <1>0, <2>3, <2>8, <3>3, SMTT(30)
      <4>2. QED
        BY <2>5, <2>7, <3>1, <3>3, <4>1
    <3>4. QED
      BY <3>2, <3>3
  <2>9. To(g, n)
    BY <2>5, <2>7, <2>8
  <2>10. QED
    BY <2>3, <2>9
<1>2. PICK h : To(h, MaxRevisions)
  BY <1>0, <1>1
<1>3. IsHistory(rev, h)
  <2>1. \A p \in Page \cup {NullPage} :
          h[p] = IF p = NullPage THEN <<>> ELSE h[rev[p].prev] \o Last(rev, p)
    BY <1>0, <1>2
  <2>2. h = [p \in Page \cup {NullPage} |->
               IF p = NullPage THEN <<>> ELSE h[rev[p].prev] \o Last(rev, p)]
    BY <1>2, <2>1, Zenon
  <2>3. QED
    BY <2>2, Zenon DEF IsHistory
<1>4. IsHistory(rev, HistoryTo(rev))
  BY <1>3 DEF HistoryTo
<1> DEFINE c == HistoryTo(rev)
<1>5. c = [p \in Page \cup {NullPage} |->
             IF p = NullPage THEN <<>> ELSE c[rev[p].prev] \o Last(rev, p)]
  BY <1>4, Zenon DEF IsHistory
<1> HIDE DEF c
<1>6. /\ c[NullPage] = <<>> /\ DOMAIN c = Page \cup {NullPage}
      /\ \A p \in Page : c[p] = c[rev[p].prev] \o Last(rev, p)
      /\ c = [p \in Page \cup {NullPage} |-> c[p]]
  BY <1>0, <1>5, Zenon
<1>7. \A p \in Page : c[p] \in Seq(Recorded)
  <2> DEFINE Bad == {n \in Nat : \E p \in Page : rev[p].id = n /\ c[p] \notin Seq(Recorded)}
  <2>1. SUFFICES ASSUME Bad # {} PROVE FALSE
    BY <1>0
  <2>2. PICK n \in Bad : \A m \in Bad : n <= m
    BY <2>1, LeastNumber
  <2>3. PICK p \in Page : rev[p].id = n /\ c[p] \notin Seq(Recorded) /\ n \in Nat
    OBVIOUS
  <2>4. c[rev[p].prev] \in Seq(Recorded)
    <3>1. CASE rev[p].prev = NullPage
      BY <1>6, <3>1
    <3>2. CASE rev[p].prev # NullPage
      <4>1. rev[p].prev \in Page /\ n = rev[rev[p].prev].id + 1 /\ rev[rev[p].prev].id \in Nat
        BY <1>0, <2>3, <3>2
      <4>2. rev[rev[p].prev].id \notin Bad
        <5>1. ~(n <= rev[rev[p].prev].id)
          BY <2>3, <4>1, SMTT(30)
        <5>2. QED
          BY <2>2, <5>1
      <4>3. QED
        BY <4>1, <4>2
    <3>3. QED
      BY <3>1, <3>2
  <2>5. \A s, u \in Seq(Recorded) : s \o u \in Seq(Recorded)
    OBVIOUS
  <2>6. c[p] = c[rev[p].prev] \o Last(rev, p) /\ Last(rev, p) \in Seq(Recorded)
    BY <1>0, <1>6
  <2>7. QED
    BY <2>3, <2>4, <2>5, <2>6
<1>8. c \in [Page \cup {NullPage} -> Seq(Recorded)]
  <2>1. \A p \in Page \cup {NullPage} : c[p] \in Seq(Recorded)
    <3>1. <<>> \in Seq(Recorded)
      OBVIOUS
    <3>2. QED
      BY <1>6, <1>7, <3>1
  <2> DEFINE S == Seq(Recorded)
             D == Page \cup {NullPage}
  <2>2. c = [p \in D |-> c[p]] /\ \A p \in D : c[p] \in S
    BY <1>6, <2>1, Zenon
  <2> HIDE DEF S, D
  <2>3. c \in [D -> S]
    BY <2>2
  <2>4. QED
    BY <2>3 DEF S, D
<1>9. QED
  BY <1>6, <1>8 DEF c

\* Revisions that did not change, nor those before them, have the history they had.
LEMMA SameHistory ==
  ASSUME NEW rev, Lined(rev), NEW new, Lined(new), NEW Good \in SUBSET Page,
         \A q \in Good : /\ new[q].prev = rev[q].prev /\ Last(new, q) = Last(rev, q)
                         /\ rev[q].prev # NullPage => rev[q].prev \in Good
  PROVE  \A q \in Good : HistoryTo(new)[q] = HistoryTo(rev)[q]
<1> DEFINE Bad == {n \in Nat : \E q \in Good : rev[q].id = n /\ HistoryTo(new)[q] # HistoryTo(rev)[q]}
<1>1. \A q \in Good : /\ rev[q].id \in Nat
                      /\ rev[q].prev # NullPage => rev[q].id = rev[rev[q].prev].id + 1
  BY DEF Lined
<1>2. SUFFICES ASSUME Bad # {} PROVE FALSE
  BY <1>1
<1>3. PICK n \in Bad : \A m \in Bad : n <= m
  BY <1>2, LeastNumber
<1>4. PICK q \in Good : rev[q].id = n /\ HistoryTo(new)[q] # HistoryTo(rev)[q] /\ n \in Nat
  OBVIOUS
<1>5. HistoryTo(new)[rev[q].prev] = HistoryTo(rev)[rev[q].prev]
  <2>1. CASE rev[q].prev = NullPage
    BY <2>1, HistoryUnfolds
  <2>2. CASE rev[q].prev # NullPage
    <3>1. rev[q].prev \in Good /\ n = rev[rev[q].prev].id + 1 /\ rev[rev[q].prev].id \in Nat
      BY <1>1, <1>4, <2>2
    <3>2. rev[rev[q].prev].id \notin Bad
      <4>1. ~(n <= rev[rev[q].prev].id)
        BY <1>4, <3>1
      <4>2. QED
        BY <1>3, <4>1
    <3>3. QED
      BY <3>1, <3>2
  <2>3. QED
    BY <2>1, <2>2
<1>6. /\ HistoryTo(new)[q] = HistoryTo(new)[new[q].prev] \o Last(new, q)
      /\ HistoryTo(rev)[q] = HistoryTo(rev)[rev[q].prev] \o Last(rev, q)
  BY HistoryUnfolds
<1>7. QED
  BY <1>4, <1>5, <1>6, Zenon

PagesIn(h) == {h[i].page : i \in DOMAIN h}

LEMMA Appended ==
  ASSUME NEW S, NEW s \in Seq(S), NEW x \in S
  PROVE  /\ Append(s, x) \in Seq(S) /\ Append(s, x) # <<>>
         /\ Len(Append(s, x)) = Len(s) + 1 /\ Append(s, x)[Len(s) + 1] = x
         /\ \A i \in 1 .. Len(s) : Append(s, x)[i] = s[i]
OBVIOUS

\* A revision adds its page to the history, at the end, once committed.
LEMMA HistoryGrows ==
  ASSUME NEW rev, Lined(rev), NEW p \in Page
  PROVE  LET h == HistoryTo(rev)[p]
             before == HistoryTo(rev)[rev[p].prev] IN
         /\ h \in Seq(Recorded) /\ before \in Seq(Recorded)
         /\ rev[p].writable => h = before
         /\ ~rev[p].writable => /\ h = Append(before, Entry(rev, p)) /\ h # <<>>
                                /\ h[Len(h)].page = p
                                /\ PagesIn(h) = PagesIn(before) \cup {p}
<1> DEFINE h == HistoryTo(rev)[p]
           before == HistoryTo(rev)[rev[p].prev]
           e == Entry(rev, p)
<1>1. /\ h \in Seq(Recorded) /\ before \in Seq(Recorded) /\ e \in Recorded /\ e.page = p
      /\ h = before \o Last(rev, p)
      /\ rev[p].writable => Last(rev, p) = <<>>
      /\ ~rev[p].writable => Last(rev, p) = <<e>>
  <2>1. e \in Recorded /\ e.page = p /\ rev[p].prev \in Page \cup {NullPage}
    BY LinedEntries DEF Entry
  <2>2. QED
    BY <2>1, LinedEntries, HistoryUnfolds
<1> HIDE DEF h, before, e
<1>2. rev[p].writable => h = before
  BY <1>1
<1>3. ASSUME ~rev[p].writable
      PROVE  /\ h = Append(before, e) /\ h # <<>> /\ h[Len(h)].page = p
             /\ PagesIn(h) = PagesIn(before) \cup {p}
  <2>1. h = Append(before, e)
    <3>1. h = before \o <<e>>
      BY <1>1, <1>3
    <3>2. QED
      BY <1>1, <3>1, AppendIsConcat
  <2>2. /\ Len(h) = Len(before) + 1 /\ h[Len(h)] = e /\ Len(before) \in Nat
        /\ (\A i \in 1 .. Len(before) : h[i] = before[i]) /\ h # <<>>
    <3>1. /\ Len(h) = Len(before) + 1 /\ h[Len(before) + 1] = e
          /\ (\A i \in 1 .. Len(before) : h[i] = before[i]) /\ h # <<>>
      BY <1>1, <2>1, Appended
    <3>2. Len(before) \in Nat
      BY <1>1
    <3>3. QED
      BY <3>1, <3>2
  <2>3. DOMAIN h = 1 .. Len(h) /\ DOMAIN before = 1 .. Len(before)
    BY <1>1
  <2>4. DOMAIN h = DOMAIN before \cup {Len(h)}
    BY <2>2, <2>3
  <2>5. PagesIn(h) = PagesIn(before) \cup {p}
    <3>1. \A i \in DOMAIN before : h[i] = before[i]
      BY <2>2, <2>3, Zenon
    <3>2. h[Len(h)].page = p
      BY <1>1, <2>2
    <3>3. ASSUME NEW i \in DOMAIN h
          PROVE  h[i].page \in PagesIn(before) \cup {p}
      <4>1. CASE i = Len(h)
        BY <3>2, <4>1
      <4>2. CASE i \in DOMAIN before
        BY <3>1, <4>2, Zenon DEF PagesIn
      <4>3. QED
        BY <2>4, <4>1, <4>2, Zenon
    <3>4. ASSUME NEW i \in DOMAIN before
          PROVE  before[i].page \in PagesIn(h)
      BY <2>4, <3>1, Zenon DEF PagesIn
    <3>5. p \in PagesIn(h)
      <4>1. Len(h) \in DOMAIN h
        BY <2>4
      <4>2. QED
        BY <3>2, <4>1 DEF PagesIn
    <3>6. PagesIn(h) \subseteq PagesIn(before) \cup {p}
      BY <3>3, Zenon DEF PagesIn
    <3>7. PagesIn(before) \subseteq PagesIn(h)
      BY <3>4, Zenon DEF PagesIn
    <3>8. QED
      BY <3>5, <3>6, <3>7
  <2>6. QED
    BY <1>1, <2>1, <2>2, <2>5
<1>4. QED
  BY <1>1, <1>2, <1>3 DEF h, before, e

LEMMA RevisionsLined == StoreInv /\ TypeOK => Lined(revision)
<1> SUFFICES ASSUME StoreInv, TypeOK PROVE Lined(revision)
  OBVIOUS
<1>1. \A p \in Page : revision[p].id \in 0 .. MaxRevisions /\ revision[p].edits \in 0 .. MaxEdits
  BY DEF TypeOK
<1>2. \A p \in Page : revision[p].prev # NullPage => revision[p].id = revision[revision[p].prev].id + 1
  <2>1. \A p \in Page \ Taken : revision[p].prev = NullPage
    BY DEF StoreInv, Blank, NoRevision
  <2>2. QED
    BY <2>1 DEF StoreInv, Lines, InLine
<1>3. QED
  BY <1>1, <1>2 DEF Lined, StoreInv, StoreType

LEMMA RevisionsLinedNext == StoreInv' /\ TypeOK' => Lined(revision')
<1>1. Lined(revision)' <=> Lined(revision')
  BY DEF Lined
<1>2. QED
  BY <1>1, RevisionsLined, PTL

\* The history to a revision names the committed revisions up to it.
LEMMA HistoryPages ==
  ASSUME StoreInv, TypeOK
  PROVE  \A p \in Taken :
           PagesIn(HistoryTo(revision)[p]) =
             {q \in Taken : /\ revision[q].branch = revision[p].branch
                            /\ revision[q].id <= revision[p].id /\ ~revision[q].writable}
<1> DEFINE Upto(p) == {q \in Taken : /\ revision[q].branch = revision[p].branch
                                     /\ revision[q].id <= revision[p].id /\ ~revision[q].writable}
           h == HistoryTo(revision)
           Bad == {n \in Nat : \E p \in Taken : revision[p].id = n /\ PagesIn(h[p]) # Upto(p)}
<1>1. Lined(revision) /\ Lines /\ \A p \in Taken : InLine(p) /\ p \in Page /\ revision[p].id \in Nat
  BY RevisionsLined, RevisionFields DEF StoreInv, Lines, Taken
<1>2. SUFFICES ASSUME Bad # {} PROVE FALSE
  BY <1>1
<1>3. PICK n \in Bad : \A m \in Bad : n <= m
  BY <1>2, LeastNumber
<1>4. PICK p \in Taken : revision[p].id = n /\ PagesIn(h[p]) # Upto(p) /\ n \in Nat
  OBVIOUS
<1> DEFINE Itself == {q \in {p} : ~revision[q].writable}
<1>5. PagesIn(h[p]) = PagesIn(h[revision[p].prev]) \cup Itself
  <2>1. /\ revision[p].writable => h[p] = h[revision[p].prev]
        /\ ~revision[p].writable => PagesIn(h[p]) = PagesIn(h[revision[p].prev]) \cup {p}
    <3>1. p \in Page /\ Lined(revision)
      BY <1>1
    <3> HIDE DEF Bad
    <3>2. QED
      BY <3>1, HistoryGrows
  <2>2. QED
    BY <2>1
<1>6. \A q \in Taken : revision[q].branch = revision[p].branch /\ revision[q].id = n => q = p
  BY <1>1, <1>4 DEF Lines
<1>7. CASE revision[p].prev = NullPage
  <2>1. h[NullPage] = <<>> /\ PagesIn(h[NullPage]) = {}
    <3>1. h[NullPage] = <<>>
      BY <1>1, HistoryUnfolds
    <3>2. DOMAIN h[NullPage] = {}
      BY <3>1
    <3>3. QED
      BY <3>1, <3>2 DEF PagesIn
  <2>2. n = 1 /\ \A q \in Taken : revision[q].id \in Nat /\ revision[q].id > 0
    BY <1>1, <1>4, <1>7 DEF InLine
  <2>3. \A q \in Taken : revision[q].id <= n => revision[q].id = n
    BY <2>2
  <2>4. Upto(p) = Itself
    BY <1>4, <1>6, <2>2, <2>3
  <2>5. QED
    BY <1>4, <1>5, <1>7, <2>1, <2>4
<1>8. CASE revision[p].prev # NullPage
  <2> DEFINE r == revision[p].prev
  <2>1. r \in Taken /\ revision[r].branch = revision[p].branch /\ n = revision[r].id + 1
        /\ revision[r].id \in Nat
    BY <1>1, <1>4, <1>8 DEF InLine
  <2>2. revision[r].id \notin Bad
    <3>1. ~(n <= revision[r].id)
      BY <2>1
    <3>2. QED
      BY <1>3, <3>1
  <2>3. PagesIn(h[r]) = Upto(r)
    BY <2>1, <2>2
  <2>4. \A q \in Taken : revision[q].id <= n <=> revision[q].id <= revision[r].id \/ revision[q].id = n
    BY <1>1, <2>1
  <2>5. Upto(p) = Upto(r) \cup Itself
    <3>1. ~(revision[p].id <= revision[r].id) /\ revision[p].id = n /\ n <= n
      BY <1>4, <2>1
    <3> HIDE DEF r, Bad
    <3>2. \A q \in Taken : q \in Upto(p) <=> q \in Upto(r) \/ q \in Itself
      BY <1>4, <1>6, <2>1, <2>4, <3>1
    <3>3. QED
      BY <3>2
  <2>6. QED
    BY <1>4, <1>5, <2>3, <2>5
<1>9. QED
  BY <1>7, <1>8

-----------------------------------------------------------------------------
(* What a step does to the history.                                        *)

\* What is committed is not modified.
EntriesKept ==
  \A q \in Taken : revision[q].branch \in branchMap' =>
    Kept(q) /\ (~revision[q].writable => revision'[q].edits = revision[q].edits)

\* A step commits the last revision of a branch.
CommitsLast(b) ==
  LET last == lastRevision[b] IN
  last # NullPage /\ revision[last].writable /\ ~revision'[last].writable

\* A revision is added after the last one of its branch.
LastsFollow ==
  \A b \in branchMap \cap branchMap' :
    LET last == lastRevision'[b] IN
    \/ last = lastRevision[b]
    \/ last # NullPage /\ revision'[last].writable /\ revision'[last].prev = lastRevision[b]

HistoryOf(b) == HistoryTo(revision)[lastRevision[b]]

LEMMA HistoryFollows ==
  ASSUME StoreInv, StoreInv', Lined(revision), Lined(revision'), EntriesKept, LastsFollow,
         NEW b \in branchMap \cap branchMap'
  PROVE  LET next == HistoryTo(revision')[lastRevision'[b]]
             last == lastRevision[b] IN
         /\ ~CommitsLast(b) => next = HistoryOf(b)
         /\ CommitsLast(b) => next = Append(HistoryOf(b), Entry(revision', last))
<1> DEFINE h == HistoryTo(revision)
           g == HistoryTo(revision')
           last == lastRevision[b]
           Good == {q \in Taken : revision[q].branch = b /\ (q = last => ~CommitsLast(b))}
<1>1. /\ last \in Page \cup {NullPage} /\ NullPage \notin Page /\ b \in Branch
      /\ Lines /\ \A q \in Taken : InLine(q) /\ q \in Page /\ revision[q].id \in Nat
      /\ last # NullPage => last \in Taken /\ revision[last].branch = b
      /\ lastRevision'[b] \in Page \cup {NullPage}
  <2>1. b \in Branch /\ Lines /\ \A q \in Taken : InLine(q) /\ q \in Page /\ revision[q].id \in Nat
    BY RevisionFields DEF StoreInv, StoreType, Lines, Taken
  <2>2. last \in Page \cup {NullPage} /\ lastRevision'[b] \in Page \cup {NullPage}
    BY <2>1 DEF StoreInv, StoreType
  <2>3. last # NullPage => last \in Taken /\ revision[last].branch = b
    BY <2>1 DEF Lines
  <2>4. QED
    BY <2>1, <2>2, <2>3, Numbers
<1>2. ASSUME NEW q \in Taken, revision[q].branch = b
      PROVE  /\ Kept(q) /\ q \in Page
             /\ ~revision[q].writable => revision'[q].edits = revision[q].edits
             /\ revision[q].writable => q = last
             /\ revision[q].prev # NullPage =>
                  /\ revision[q].prev \in Taken /\ revision[revision[q].prev].branch = b
                  /\ revision[q].prev # last
  <2>1. Kept(q) /\ (~revision[q].writable => revision'[q].edits = revision[q].edits)
    BY <1>2 DEF EntriesKept
  <2>2. InLine(q) /\ q \in Page /\ last # NullPage /\ revision[last].id \in Nat
    BY <1>1, <1>2 DEF InLine
  <2>3. revision[q].writable => q = last
    BY <1>2, <2>2 DEF InLine
  <2>4. ASSUME revision[q].prev # NullPage
        PROVE  /\ revision[q].prev \in Taken /\ revision[revision[q].prev].branch = b
               /\ revision[q].prev # last
    <3>1. /\ revision[q].prev \in Taken /\ revision[revision[q].prev].branch = b
          /\ revision[q].id = revision[revision[q].prev].id + 1
          /\ revision[q].id <= revision[last].id
      BY <1>2, <2>2, <2>4 DEF InLine
    <3>2. revision[revision[q].prev].id \in Nat
      BY <1>1, <3>1
    <3>3. revision[q].prev # last
      BY <2>2, <3>1, <3>2
    <3>4. QED
      BY <3>1, <3>3
  <2>5. QED
    BY <2>1, <2>2, <2>3, <2>4
<1>3. \A q \in Good : g[q] = h[q]
  <2>1. ASSUME NEW q \in Good
        PROVE  /\ revision'[q].prev = revision[q].prev
               /\ Last(revision', q) = Last(revision, q)
               /\ revision[q].prev # NullPage => revision[q].prev \in Good
    <3>1. /\ Kept(q) /\ q \in Taken /\ revision[q].branch = b
          /\ ~revision[q].writable => revision'[q].edits = revision[q].edits
          /\ revision[q].writable => revision'[q].writable
          /\ revision[q].prev # NullPage => revision[q].prev \in Good
      BY <1>1, <1>2, <2>1 DEF CommitsLast
    <3>2. revision'[q].writable <=> revision[q].writable
      BY <3>1 DEF Kept
    <3>3. CASE revision[q].writable
      BY <3>1, <3>2, <3>3 DEF Last, Kept
    <3>4. CASE ~revision[q].writable
      <4>1. Entry(revision', q) = Entry(revision, q)
        BY <3>1, <3>4 DEF Entry, Kept
      <4>2. QED
        BY <3>1, <3>2, <3>4, <4>1 DEF Last, Kept
    <3>5. QED
      BY <3>3, <3>4
  <2>2. Good \in SUBSET Page
    BY <1>1
  <2> HIDE DEF Good
  <2>3. QED
    BY <2>1, <2>2, SameHistory
<1>4. g[NullPage] = <<>> /\ h[NullPage] = <<>>
  BY HistoryUnfolds
<1>5. ~CommitsLast(b) => g[last] = h[last]
  BY <1>1, <1>3, <1>4, SMTT(30)
<1>6. CommitsLast(b) => g[last] = Append(h[last], Entry(revision', last))
  <2>1. SUFFICES ASSUME CommitsLast(b)
                 PROVE  g[last] = Append(h[last], Entry(revision', last))
    OBVIOUS
  <2>2. /\ last \in Page /\ last \in Taken /\ revision[last].branch = b
        /\ revision[last].writable /\ ~revision'[last].writable
    BY <1>1, <2>1 DEF CommitsLast
  <2>3. revision'[last].prev = revision[last].prev
    BY <1>2, <2>2 DEF Kept
  <2>4. g[revision[last].prev] = h[revision[last].prev]
    BY <1>2, <1>3, <1>4, <2>2
  <2>5. h[last] = h[revision[last].prev]
    BY <2>2, HistoryGrows
  <2>6. g[last] = Append(g[revision'[last].prev], Entry(revision', last))
    BY <2>2, HistoryGrows
  <2>7. QED
    BY <2>3, <2>4, <2>5, <2>6
<1>7. g[lastRevision'[b]] = g[last]
  <2>1. CASE lastRevision'[b] = last
    BY <2>1
  <2>2. CASE lastRevision'[b] # last
    <3>1. /\ lastRevision'[b] \in Page /\ revision'[lastRevision'[b]].writable
          /\ revision'[lastRevision'[b]].prev = last
      BY <1>1, <2>2 DEF LastsFollow
    <3>2. QED
      BY <3>1, HistoryGrows
  <2>3. QED
    BY <2>1, <2>2
<1>8. QED
  BY <1>5, <1>6, <1>7 DEF HistoryOf

\* The histories of the branches, in the terms of RevisionHistory.
LEMMA HistoriesMeant ==
  \E H, G :
    /\ H = [b \in Branch |-> CommittedRevisions(b)] /\ G = [b \in Branch |-> CommittedRevisions(b)]'
    /\ \A b \in Branch : H[b] = HistoryOf(b) /\ G[b] = HistoryTo(revision')[lastRevision'[b]]
    /\ DOMAIN H = Branch /\ DOMAIN G = Branch
    /\ H = [b \in Branch |-> H[b]] /\ G = [b \in Branch |-> G[b]]
<1>1. PICK H, G : /\ H = [b \in Branch |-> CommittedRevisions(b)]
                  /\ G = [b \in Branch |-> CommittedRevisions(b)']
  OBVIOUS
<1>2. \A b \in Branch : H[b] = HistoryOf(b)
  BY <1>1, CommittedMeant DEF HistoryOf
<1>3. \A b \in Branch : G[b] = HistoryTo(revision')[lastRevision'[b]]
  BY <1>1, CommittedMeantNext
<1>4. /\ DOMAIN H = Branch /\ DOMAIN G = Branch
      /\ H = [b \in Branch |-> H[b]] /\ G = [b \in Branch |-> G[b]]
  BY <1>1
<1>5. QED
  BY <1>1, <1>2, <1>3, <1>4

HistoriesStep == [History!Next]_<<branchMap, [b \in Branch |-> CommittedRevisions(b)]>>

\* What has been committed, of all the branches.
LEMMA CommittedPages ==
  ASSUME StoreInv, TypeOK
  PROVE  UNION {PagesIn(HistoryOf(b)) : b \in branchMap} = {q \in Taken : ~revision[q].writable}
<1>1. Lined(revision) /\ \A q \in Taken : InLine(q) /\ q \in Page
  BY RevisionsLined DEF StoreInv, Lines, Taken
<1>2. \A b \in branchMap :
        lastRevision[b] # NullPage => lastRevision[b] \in Taken /\ revision[lastRevision[b]].branch = b
  <2>1. branchMap \subseteq Branch /\ Lines
    BY DEF StoreInv, StoreType
  <2>2. QED
    BY <2>1 DEF Lines
<1>3. ASSUME NEW b \in branchMap, NEW q \in PagesIn(HistoryOf(b))
      PROVE  q \in Taken /\ ~revision[q].writable
  <2>1. CASE lastRevision[b] = NullPage
    <3>1. HistoryOf(b) = <<>>
      BY <1>1, <2>1, HistoryUnfolds DEF HistoryOf
    <3>2. DOMAIN HistoryOf(b) = {}
      BY <3>1
    <3>3. QED
      BY <3>2 DEF PagesIn
  <2>2. CASE lastRevision[b] # NullPage
    BY <1>2, <1>3, <2>2, HistoryPages DEF HistoryOf
  <2>3. QED
    BY <2>1, <2>2
<1>4. ASSUME NEW q \in Taken, ~revision[q].writable
      PROVE  \E b \in branchMap : q \in PagesIn(HistoryOf(b))
  <2> DEFINE b == revision[q].branch
             last == lastRevision[b]
  <2>1. b \in branchMap /\ last # NullPage /\ revision[q].id <= revision[last].id
    BY <1>1 DEF InLine
  <2>2. last \in Taken /\ revision[last].branch = b
    BY <1>2, <2>1
  <2>3. PagesIn(HistoryTo(revision)[last]) =
          {p \in Taken : /\ revision[p].branch = revision[last].branch
                         /\ revision[p].id <= revision[last].id /\ ~revision[p].writable}
    BY <2>2, HistoryPages
  <2>4. q \in PagesIn(HistoryOf(b))
    BY <1>4, <2>1, <2>2, <2>3 DEF HistoryOf
  <2>5. QED
    BY <2>1, <2>4
<1>5. QED
  BY <1>3, <1>4

\* The revision that a step commits.
LEMMA NewEntry ==
  ASSUME StoreInv, StoreInv', TypeOK, TypeOK', EntriesKept,
         NEW b \in branchMap \cap branchMap', CommitsLast(b)
  PROVE  LET r == Entry(revision', lastRevision[b])
             h == HistoryOf(b)
             committed == UNION {PagesIn(HistoryOf(c)) : c \in branchMap} IN
         /\ r \in Recorded /\ h \in Seq(Recorded) /\ r.page \notin committed
         /\ r.base \in {NullPage} \cup (IF h = <<>> THEN committed ELSE {h[Len(h)].page})
<1> DEFINE last == lastRevision[b]
           r == Entry(revision', last)
           h == HistoryOf(b)
           prev == revision[last].prev
           committed == UNION {PagesIn(HistoryOf(c)) : c \in branchMap}
<1>1. committed = {q \in Taken : ~revision[q].writable}
  BY CommittedPages
<1>2. /\ Lined(revision) /\ Lined(revision') /\ b \in Branch
      /\ last \in Taken /\ last \in Page /\ revision[last].branch = b /\ revision[last].writable
  <2>1. b \in Branch /\ last # NullPage /\ revision[last].writable
    BY DEF CommitsLast, StoreInv, StoreType
  <2>2. last \in Taken /\ revision[last].branch = b
    BY <2>1 DEF StoreInv, Lines
  <2>3. QED
    BY <2>1, <2>2, RevisionsLined, RevisionsLinedNext DEF Taken
<1>3. Kept(last) /\ InLine(last) /\ HasBase(last)
  BY <1>2 DEF EntriesKept, StoreInv, Lines
<1>4. r \in Recorded /\ r.page = last /\ r.base = revision[last].base
  <2>1. r \in Recorded
    BY <1>2, LinedEntries
  <2>2. QED
    BY <1>3, <2>1 DEF Entry, Kept
<1>5. h = HistoryTo(revision)[prev] /\ h \in Seq(Recorded)
  BY <1>2, HistoryGrows DEF HistoryOf
<1>6. prev # NullPage => prev \in Taken /\ prev \in Page /\ ~revision[prev].writable
  <2>1. SUFFICES ASSUME prev # NullPage
                 PROVE  prev \in Taken /\ prev \in Page /\ ~revision[prev].writable
    OBVIOUS
  <2>2. prev \in Taken /\ revision[prev].branch = b /\ revision[last].id = revision[prev].id + 1
    BY <1>2, <1>3, <2>1 DEF InLine
  <2>3. prev \in Page /\ revision[prev].id \in Nat /\ InLine(prev)
    BY <2>2, RevisionFields DEF Taken, StoreInv, Lines
  <2>4. prev # last
    BY <2>2, <2>3
  <2>5. QED
    BY <2>2, <2>3, <2>4 DEF InLine
<1>7. prev = NullPage => h = <<>>
  BY <1>2, <1>5, HistoryUnfolds
<1>8. prev # NullPage => h # <<>> /\ h[Len(h)].page = prev
  BY <1>2, <1>5, <1>6, HistoryGrows
<1>9. /\ revision[last].base # NullPage =>
           /\ revision[last].base \in committed
           /\ revision[last].base = prev \/ prev = NullPage
  BY <1>1, <1>3 DEF HasBase
<1>10. last \notin committed
  BY <1>1, <1>2
<1>11. r.base \in {NullPage} \cup (IF h = <<>> THEN committed ELSE {h[Len(h)].page})
  <2> HIDE DEF committed, h, r, last, prev
  <2>1. QED
    BY <1>4, <1>7, <1>8, <1>9
<1>12. r.page \notin committed
  <2> HIDE DEF committed, r, last
  <2>1. QED
    BY <1>4, <1>10
<1>13. QED
  BY <1>4, <1>5, <1>11, <1>12, Zenon

\* A branch without revisions has no history.
LEMMA NoHistory ==
  ASSUME StoreInv, StoreInv', TypeOK, TypeOK', NEW b \in Branch
  PROVE  /\ lastRevision[b] = NullPage => HistoryOf(b) = <<>>
         /\ lastRevision'[b] = NullPage => HistoryTo(revision')[lastRevision'[b]] = <<>>
         /\ b \notin branchMap => lastRevision[b] = NullPage
         /\ b \notin branchMap' => lastRevision'[b] = NullPage
<1>1. Lined(revision) /\ Lined(revision')
  BY RevisionsLined, RevisionsLinedNext
<1>2. b \notin branchMap => lastRevision[b] = NullPage
  BY DEF StoreInv, Lines, InLine
<1>3. b \notin branchMap' => lastRevision'[b] = NullPage
  BY DEF StoreInv, Lines, InLine
<1>4. QED
  BY <1>1, <1>2, <1>3, HistoryUnfolds DEF HistoryOf

\* A step that may commit the last revision of one branch.
LEMMA CommitAppends ==
  ASSUME StoreInv, StoreInv', TypeOK, TypeOK', EntriesKept, LastsFollow,
         branchMap' = branchMap, NEW b \in Branch,
         \A c \in branchMap : CommitsLast(c) => c = b
  PROVE  HistoriesStep
<1>1. PICK H, G :
        /\ H = [c \in Branch |-> CommittedRevisions(c)] /\ G = [c \in Branch |-> CommittedRevisions(c)]'
        /\ \A c \in Branch : H[c] = HistoryOf(c) /\ G[c] = HistoryTo(revision')[lastRevision'[c]]
        /\ DOMAIN H = Branch /\ DOMAIN G = Branch
        /\ H = [c \in Branch |-> H[c]] /\ G = [c \in Branch |-> G[c]]
  BY HistoriesMeant
<1>2. Lined(revision) /\ Lined(revision') /\ branchMap \subseteq Branch
  BY RevisionsLined, RevisionsLinedNext DEF StoreInv, StoreType
<1>3. \A c \in Branch : (c \in branchMap => ~CommitsLast(c)) => G[c] = H[c]
  <2>1. ASSUME NEW c \in Branch, c \in branchMap => ~CommitsLast(c)
        PROVE  G[c] = H[c]
    <3>1. CASE c \in branchMap
      BY <1>1, <1>2, <2>1, <3>1, HistoryFollows
    <3>2. CASE c \notin branchMap
      BY <1>1, <3>2, NoHistory
    <3>3. QED
      BY <3>1, <3>2
  <2>2. QED
    BY <2>1
<1>4. CASE b \in branchMap /\ CommitsLast(b)
  <2> DEFINE r == Entry(revision', lastRevision[b])
             committed == UNION {PagesIn(HistoryOf(c)) : c \in branchMap}
  <2>1. /\ r \in Recorded /\ H[b] \in Seq(Recorded) /\ r.page \notin committed
        /\ r.base \in {NullPage} \cup (IF H[b] = <<>> THEN committed ELSE {H[b][Len(H[b])].page})
    <3>1. b \in branchMap \cap branchMap' /\ H[b] = HistoryOf(b)
      BY <1>1, <1>4
    <3>2. LET h == HistoryOf(b) IN
          /\ r \in Recorded /\ h \in Seq(Recorded) /\ r.page \notin committed
          /\ r.base \in {NullPage} \cup (IF h = <<>> THEN committed ELSE {h[Len(h)].page})
      BY <1>4, <3>1, NewEntry, Zenon
    <3>3. QED
      BY <3>1, <3>2, Zenon
  <2>2. G[b] = Append(H[b], r)
    BY <1>1, <1>2, <1>4, HistoryFollows
  <2>3. \A c \in Branch : c # b => G[c] = H[c]
    BY <1>3
  <2> HIDE DEF r
  <2>4. G = [H EXCEPT ![b] = Append(H[b], r)]
    BY <1>1, <2>2, <2>3
  <2>5. Len(G[b]) = Len(H[b]) + 1 /\ G[b][Len(H[b]) + 1] = r
    BY <2>1, <2>2, Appended
  <2>6. committed = UNION {{H[c][i].page : i \in DOMAIN H[c]} : c \in branchMap}
    BY <1>1, <1>2 DEF PagesIn
  <2> HIDE DEF committed
  <2>7. /\ b \in branchMap /\ UNCHANGED branchMap /\ Len(G[b]) = Len(H[b]) + 1
        /\ G[b][Len(H[b]) + 1] \in Recorded /\ G[b][Len(H[b]) + 1].page \notin committed
        /\ G[b][Len(H[b]) + 1].base \in
             {NullPage} \cup (IF H[b] = <<>> THEN committed ELSE {H[b][Len(H[b])].page})
        /\ G = [H EXCEPT ![b] = Append(H[b], G[b][Len(H[b]) + 1])]
    BY <1>4, <2>1, <2>4, <2>5
  <2>8. History!AppendRevision(b)
    <3>1. H = [c \in Branch |-> CommittedRevisions(c)] /\ G = [c \in Branch |-> CommittedRevisions(c)]'
      BY <1>1
    <3>2. History!Committed = committed
      BY <2>6, <3>1 DEF History!Committed
    <3>3. QED
      BY <2>7, <3>1, <3>2, Zenon DEF History!AppendRevision, Recorded
  <2>9. QED
    BY <2>8 DEF HistoriesStep, History!Next
<1>5. CASE ~(b \in branchMap /\ CommitsLast(b))
  <2>1. G = H
    BY <1>1, <1>3, <1>5
  <2>2. UNCHANGED <<branchMap, [c \in Branch |-> CommittedRevisions(c)]>>
    BY <1>1, <2>1
  <2>3. QED
    BY <2>2 DEF HistoriesStep
<1>6. QED
  BY <1>4, <1>5

\* The histories of the branches that a step leaves as they are.
LEMMA HistoriesSame ==
  ASSUME UNCHANGED <<branchMap, revisions>>
  PROVE  HistoriesStep
<1>1. PICK H, G :
        /\ H = [c \in Branch |-> CommittedRevisions(c)] /\ G = [c \in Branch |-> CommittedRevisions(c)]'
        /\ \A c \in Branch : H[c] = HistoryOf(c) /\ G[c] = HistoryTo(revision')[lastRevision'[c]]
        /\ DOMAIN H = Branch /\ DOMAIN G = Branch
        /\ H = [c \in Branch |-> H[c]] /\ G = [c \in Branch |-> G[c]]
  BY HistoriesMeant
<1>2. G = H
  BY <1>1 DEF revisions, HistoryOf
<1>3. UNCHANGED <<branchMap, [c \in Branch |-> CommittedRevisions(c)]>>
  BY <1>1, <1>2
<1>4. QED
  BY <1>3 DEF HistoriesStep

LEMMA BranchCreates ==
  ASSUME NEW n \in Branch, n \notin branchMap, branchMap' = branchMap \cup {n}, UNCHANGED revisions
  PROVE  HistoriesStep
<1>1. PICK H, G :
        /\ H = [c \in Branch |-> CommittedRevisions(c)] /\ G = [c \in Branch |-> CommittedRevisions(c)]'
        /\ \A c \in Branch : H[c] = HistoryOf(c) /\ G[c] = HistoryTo(revision')[lastRevision'[c]]
        /\ DOMAIN H = Branch /\ DOMAIN G = Branch
        /\ H = [c \in Branch |-> H[c]] /\ G = [c \in Branch |-> G[c]]
  BY HistoriesMeant
<1>2. G = H
  BY <1>1 DEF revisions, HistoryOf
<1>3. UNCHANGED [c \in Branch |-> CommittedRevisions(c)]
  BY <1>1, <1>2
<1>4. History!Create(n)
  BY <1>3 DEF History!Create
<1>5. QED
  BY <1>4 DEF HistoriesStep, History!Next

LEMMA BranchesRemove ==
  ASSUME StoreInv, TypeOK, TypeOK', NEW removed \in SUBSET branchMap, RemoveBranches(removed),
         \A c \in branchMap : dependsOn[c] \in removed => c \in removed
  PROVE  HistoriesStep
<1>1. PICK H, G :
        /\ H = [c \in Branch |-> CommittedRevisions(c)] /\ G = [c \in Branch |-> CommittedRevisions(c)]'
        /\ \A c \in Branch : H[c] = HistoryOf(c) /\ G[c] = HistoryTo(revision')[lastRevision'[c]]
        /\ DOMAIN H = Branch /\ DOMAIN G = Branch
        /\ H = [c \in Branch |-> H[c]] /\ G = [c \in Branch |-> G[c]]
  BY HistoriesMeant
<1>2. /\ StoreInv' /\ PagesKept /\ branchMap' = branchMap \ removed
      /\ \A c \in branchMap \ removed : lastRevision'[c] = lastRevision[c]
      /\ \A q \in Taken' : q \in Taken /\ revision'[q] = revision[q]
      /\ \A c \in removed : lastRevision'[c] = NullPage
      /\ branchMap \subseteq Branch
  <2>1. branchMap \subseteq Branch
    BY DEF StoreInv, StoreType
  <2>2. \A c \in removed : lastRevision'[c] = NullPage
    BY <2>1 DEF RemoveBranches
  <2>3. QED
    BY <2>1, <2>2, BranchesRemoved
<1>3. Lined(revision) /\ Lined(revision')
  BY <1>2, RevisionsLined, RevisionsLinedNext
<1>4. EntriesKept /\ LastsFollow
  <2>1. EntriesKept
    BY <1>2 DEF EntriesKept, PagesKept
  <2>2. LastsFollow
    BY <1>2 DEF LastsFollow
  <2>3. QED
    BY <2>1, <2>2
<1>5. \A c \in branchMap \ removed : ~CommitsLast(c)
  <2>1. SUFFICES ASSUME NEW c \in branchMap \ removed, lastRevision[c] # NullPage
                 PROVE  revision'[lastRevision[c]] = revision[lastRevision[c]]
    BY DEF CommitsLast
  <2>2. lastRevision'[c] \in Taken'
    <3>1. c \in Branch /\ lastRevision'[c] # NullPage /\ Lines'
      BY <1>2, <2>1 DEF StoreInv
    <3>2. QED
      BY <3>1 DEF Lines
  <2>3. QED
    BY <1>2, <2>1, <2>2
<1>6. \A c \in Branch : G[c] = IF c \in removed THEN <<>> ELSE H[c]
  <2>1. ASSUME NEW c \in removed PROVE G[c] = <<>>
    BY <1>1, <1>2, <1>3, <2>1, HistoryUnfolds
  <2>2. ASSUME NEW c \in branchMap \ removed PROVE G[c] = H[c]
    BY <1>1, <1>2, <1>3, <1>4, <1>5, <2>2, HistoryFollows
  <2>3. ASSUME NEW c \in Branch \ branchMap PROVE G[c] = H[c]
    BY <1>1, <1>2, <2>3, NoHistory
  <2>4. QED
    BY <2>1, <2>2, <2>3
<1>7. CASE removed = {}
  <2>1. G = H /\ branchMap' = branchMap
    BY <1>1, <1>2, <1>6, <1>7
  <2>2. UNCHANGED <<branchMap, [c \in Branch |-> CommittedRevisions(c)]>>
    BY <1>1, <2>1
  <2>3. QED
    BY <2>2 DEF HistoriesStep
<1>8. CASE removed # {}
  <2>1. G = [c \in Branch |-> IF c \in removed THEN <<>> ELSE H[c]]
    BY <1>1, <1>6
  <2>2. History!Remove(removed)
    <3>1. H = [c \in Branch |-> CommittedRevisions(c)] /\ G = [c \in Branch |-> CommittedRevisions(c)]'
      BY <1>1
    <3>2. removed \subseteq branchMap /\ branchMap' = branchMap \ removed
      BY <1>2
    <3>3. QED
      BY <1>8, <2>1, <3>1, <3>2, Zenon DEF History!Remove
  <2>3. QED
    BY <2>2 DEF HistoriesStep, History!Next
<1>9. QED
  BY <1>7, <1>8

\* A revision is created at the end of a branch, and commits the one before it
\* when that one was writable (it is reset).
LEMMA CreateAppends ==
  ASSUME StoreInv, StoreInv', TypeOK, TypeOK', NEW p \in FreePages, NEW b \in branchMap,
         NEW noInherit \in BOOLEAN, CreateRevision(b, p, noInherit),
         UNCHANGED <<nextBranchId, branchMap, dependsOn>>
  PROVE  HistoriesStep
<1>1. /\ PagesKept /\ p \in Page /\ p \notin Taken /\ revision'[p].prev = lastRevision[b]
      /\ lastRevision'[b] = p /\ \A c \in Branch \ {b} : lastRevision'[c] = lastRevision[c]
      /\ \A q \in Page \ {p, lastRevision[b]} : revision'[q] = revision[q]
  BY CreateRevisionAdds
<1>2. PICK last : last = lastRevision[b]
  OBVIOUS
<1>3. /\ b \in Branch /\ branchMap \subseteq Branch /\ p # NullPage
      /\ last # NullPage => last \in Taken
      /\ \A c \in Branch : lastRevision[c] # NullPage =>
           lastRevision[c] \in Taken /\ revision[lastRevision[c]].branch = c
  BY <1>1, <1>2, Numbers DEF StoreInv, StoreType, Lines
<1>4. revision'[p].writable
  BY <1>1 DEF CreateRevision
<1>5. \A q \in Taken : revision'[q].edits = revision[q].edits
  <2>1. SUFFICES ASSUME NEW q \in Taken PROVE revision'[q].edits = revision[q].edits
    OBVIOUS
  <2>2. q \in Page /\ q # p /\ revision[q] \in RevisionType
    BY <1>1, RevisionFields DEF Taken
  <2>3. revision'[q] = revision[q] \/ revision'[q] = [revision[q] EXCEPT !.writable = FALSE]
    BY <2>2 DEF CreateRevision
  <2>4. QED
    BY <2>2, <2>3 DEF RevisionType
<1>6. EntriesKept
  BY <1>5, <1>1 DEF EntriesKept, PagesKept
<1>7. LastsFollow
  <2>1. ASSUME NEW c \in branchMap, c # b PROVE lastRevision'[c] = lastRevision[c]
    BY <1>1, <1>3, <2>1
  <2>2. QED
    BY <1>1, <1>3, <1>4, <2>1 DEF LastsFollow
<1>8. \A c \in branchMap : CommitsLast(c) => c = b
  <2>1. SUFFICES ASSUME NEW c \in branchMap, CommitsLast(c), c # b PROVE FALSE
    OBVIOUS
  <2>2. lastRevision[c] \in Taken /\ revision[lastRevision[c]].branch = c
    BY <1>3, <2>1 DEF CommitsLast
  <2>3. lastRevision[c] \in Page /\ lastRevision[c] # p
    BY <1>1, <2>2 DEF Taken
  <2>4. lastRevision[c] # lastRevision[b]
    BY <1>2, <1>3, <2>1, <2>2 DEF CommitsLast
  <2>5. revision'[lastRevision[c]] = revision[lastRevision[c]]
    BY <1>1, <2>3, <2>4
  <2>6. QED
    BY <2>1, <2>5 DEF CommitsLast
<1>9. QED
  BY <1>3, <1>6, <1>7, <1>8, CommitAppends

\* The steps that change one revision, which is not a committed one.
LEMMA RevisionChanges ==
  ASSUME StoreInv, StoreInv', TypeOK, TypeOK', branchMap' = branchMap, NEW p \in Page,
         \A q \in Taken \ {p} : revision'[q] = revision[q],
         p \in Taken => Kept(p) /\ revision[p].writable, LastsFollow,
         NEW b \in Branch, p \in Taken => revision[p].branch = b
  PROVE  HistoriesStep
<1>1. EntriesKept
  BY DEF EntriesKept, Kept
<1>2. \A c \in branchMap : CommitsLast(c) => c = b
  <2>1. SUFFICES ASSUME NEW c \in branchMap, CommitsLast(c) PROVE c = b
    OBVIOUS
  <2>2. c \in Branch /\ lastRevision[c] # NullPage
    BY <2>1 DEF CommitsLast, StoreInv, StoreType
  <2>3. lastRevision[c] \in Taken /\ revision[lastRevision[c]].branch = c
    BY <2>2 DEF StoreInv, Lines
  <2>4. lastRevision[c] = p
    BY <2>1, <2>3 DEF CommitsLast
  <2>5. QED
    BY <2>3, <2>4
<1>3. QED
  BY <1>1, <1>2, CommitAppends

\* A thread uses a document that is at a revision of a branch.
LEMMA DocumentPlaced ==
  ASSUME CountingInv, HistoryInv, NEW t \in Threads, NEW d \in Document, held[t][d] > 0
  PROVE  /\ d \in Alive /\ PageOf(d) \in Taken /\ PageOf(d) \in Page
         /\ BranchOf(d) \in branchMap /\ BranchOf(d) \in Branch
         /\ revision[PageOf(d)].branch = BranchOf(d)
         /\ revision[PageOf(d)].writable = IsWritable(d)
         /\ revision[PageOf(d)] \in RevisionType
<1>1. d \in Alive /\ PageOf(d) \in Taken
  BY ReferencedAlive DEF Referenced, HistoryInv, Placed
<1>2. /\ revision[PageOf(d)].branch = BranchOf(d)
      /\ revision[PageOf(d)].writable = IsWritable(d)
  BY DEF BranchOf, IsWritable, RevisionOf, PageOf
<1>3. PageOf(d) \in Page /\ revision[PageOf(d)] \in RevisionType
  BY <1>1 DEF Taken, HistoryInv, StoreInv, StoreType
<1>4. BranchOf(d) \in branchMap /\ BranchOf(d) \in Branch
  BY <1>1, <1>2 DEF HistoryInv, StoreInv, StoreType, Lines, InLine
<1>5. QED
  BY <1>1, <1>2, <1>3, <1>4

LEMMA EditAppends ==
  ASSUME CountingInv, SharingInv, HistoryInv, HistoryInv', WriteInv, TypeOK, TypeOK',
         NEW t \in Threads, NEW d \in Document, Edit(t, d)
  PROVE  HistoriesStep
<1>1. PICK p : p = PageOf(d)
  OBVIOUS
<1>2. /\ d \in granted[t] /\ call[t] = Idle /\ Idle.step = "idle"
      /\ revision' = [revision EXCEPT ![p].edits = @ + 1]
      /\ UNCHANGED <<lastRevision, branchMap>>
  BY <1>1 DEF Edit, PageOf, branches, Idle
<1>3. held[t][d] > 0
  BY <1>2 DEF SharingInv, GrantHeld, UsedBy
<1>4. revision[p].writable
  BY <1>1, <1>2, <1>3, DocumentPlaced DEF WriteInv, WriteOf, GrantsHold
<1>5. /\ p \in Taken /\ p \in Page /\ revision[p].branch = BranchOf(d) /\ BranchOf(d) \in Branch
      /\ revision[p] \in RevisionType /\ revision \in [Page -> RevisionType]
  BY <1>1, <1>3, DocumentPlaced DEF HistoryInv, StoreInv, StoreType
<1>6. revision'[p] = [revision[p] EXCEPT !.edits = @ + 1] /\ \A q \in Page \ {p} : revision'[q] = revision[q]
  BY <1>2, <1>5
<1>7. Kept(p)
  BY <1>5, <1>6 DEF Kept, RevisionType
<1>8. LastsFollow
  BY <1>2 DEF LastsFollow
<1>9. \A q \in Taken \ {p} : revision'[q] = revision[q]
  BY <1>6 DEF Taken
<1>10. StoreInv /\ StoreInv' /\ branchMap' = branchMap
  BY <1>2 DEF HistoryInv
<1>11. QED
  BY <1>4, <1>5, <1>7, <1>8, <1>9, <1>10, RevisionChanges

LEMMA CommitOfRevision ==
  ASSUME CountingInv, HistoryInv, HistoryInv', TypeOK, TypeOK',
         NEW t \in Threads, NEW d \in Document, Commit(t, d)
  PROVE  HistoriesStep
<1>1. PICK p : p = PageOf(d)
  OBVIOUS
<1>2. /\ held[t][d] > 0 /\ IsWritable(d)
      /\ revision' = [revision EXCEPT ![p].writable = FALSE]
      /\ UNCHANGED <<lastRevision, branchMap>>
  BY <1>1 DEF Commit, PageOf, branches
<1>3. /\ p \in Taken /\ p \in Page /\ revision[p].branch = BranchOf(d) /\ BranchOf(d) \in Branch
      /\ revision[p] \in RevisionType /\ revision \in [Page -> RevisionType] /\ revision[p].writable
  BY <1>1, <1>2, DocumentPlaced DEF HistoryInv, StoreInv, StoreType
<1>4. revision'[p] = [revision[p] EXCEPT !.writable = FALSE] /\ \A q \in Page \ {p} : revision'[q] = revision[q]
  BY <1>2, <1>3
<1>5. Kept(p)
  BY <1>3, <1>4 DEF Kept, RevisionType
<1>6. LastsFollow
  BY <1>2 DEF LastsFollow
<1>7. \A q \in Taken \ {p} : revision'[q] = revision[q]
  BY <1>4 DEF Taken
<1>8. StoreInv /\ StoreInv' /\ branchMap' = branchMap
  BY <1>2 DEF HistoryInv
<1>9. QED
  BY <1>3, <1>5, <1>6, <1>7, <1>8, RevisionChanges

LEMMA ForkAppends ==
  ASSUME CountingInv, SharingInv, HistoryInv, HistoryInv', TypeOK, TypeOK',
         NEW t \in Threads, ForkRevision(t)
  PROVE  HistoriesStep
<1>1. PICK b, p : /\ b = call[t].branch /\ p \in FreePages
                  /\ revision' = [revision EXCEPT ![p] =
                       [branch |-> b, id |-> 1, prev |-> NullPage, base |-> call[t].page,
                        writable |-> TRUE, edits |-> 0]]
                  /\ lastRevision' = [lastRevision EXCEPT ![b] = p]
  BY DEF ForkRevision
<1>2. /\ UNCHANGED branchMap /\ call[t].step = "forkLock" /\ StoreInv /\ StoreInv' /\ CallMeant(t)
      /\ revision \in [Page -> RevisionType] /\ lastRevision \in [Branch -> Page \cup {NullPage}]
  BY DEF ForkRevision, branches, HistoryInv, StoreInv, StoreType
<1>3. b \in Branch /\ lastRevision[b] = NullPage
  BY <1>1, <1>2, ForkingUses DEF CallMeant, Forking
<1>4. p \in Page /\ p \notin Taken /\ p # NullPage
  BY <1>1, <1>2, FreeMeans, Numbers DEF StoreInv
<1>5. \A q \in Page \ {p} : revision'[q] = revision[q]
  BY <1>1, <1>2
<1>6. revision'[p].prev = NullPage /\ revision'[p].writable
  BY <1>1, <1>2, <1>4
<1>7. LastsFollow
  BY <1>1, <1>2, <1>3, <1>4, <1>6 DEF LastsFollow
<1>8. \A q \in Taken \ {p} : revision'[q] = revision[q]
  BY <1>5 DEF Taken
<1>9. QED
  BY <1>2, <1>3, <1>4, <1>7, <1>8, RevisionChanges

LEMMA OpenWriteAppends ==
  ASSUME HistoryInv, HistoryInv', TypeOK, TypeOK', NEW t \in Threads, OpenWrite(t)
  PROVE  HistoriesStep
<1>1. PICK b, noInherit : b = call[t].branch /\ noInherit = (call[t].flags = "ResetRevision")
  OBVIOUS
<1>2. PICK p \in FreePages : CreateRevision(b, p, noInherit)
  BY <1>1, Zenon DEF OpenWrite
<1>3. /\ UNCHANGED <<nextBranchId, branchMap, dependsOn>> /\ call[t].step = "openWrite"
      /\ CallMeant(t) /\ StoreInv /\ StoreInv'
  BY DEF OpenWrite, branches, HistoryInv
<1>4. b \in branchMap /\ noInherit \in BOOLEAN
  BY <1>1, <1>3 DEF CallMeant
<1>5. QED
  BY <1>2, <1>3, <1>4, CreateAppends

LEMMA ReopenLockAppends ==
  ASSUME CountingInv, SharingInv, HistoryInv, HistoryInv', TypeOK, TypeOK',
         NEW t \in Threads, ReopenLock(t)
  PROVE  HistoriesStep
<1>1. PICK d, b, noInherit : d = call[t].doc /\ b = BranchOf(d) /\ noInherit = FALSE
  OBVIOUS
<1>2. /\ UNCHANGED <<nextBranchId, branchMap, dependsOn>> /\ call[t].step = "reopenLock"
      /\ StoreInv /\ StoreInv' /\ CallHolds(t)
      /\ UNCHANGED revisions \/ \E p \in FreePages : CreateRevision(b, p, noInherit)
  BY <1>1 DEF ReopenLock, branches, HistoryInv, SharingInv
<1>3. b \in branchMap
  <2>1. d \in Document /\ held[t][d] > 0
    BY <1>1, <1>2 DEF CallHolds, Holding, Reopening
  <2>2. QED
    BY <1>1, <2>1, DocumentPlaced
<1>4. CASE UNCHANGED revisions
  BY <1>2, <1>4, HistoriesSame
<1>5. ASSUME NEW p \in FreePages, CreateRevision(b, p, noInherit) PROVE HistoriesStep
  BY <1>1, <1>2, <1>3, <1>5, CreateAppends
<1>6. QED
  BY <1>2, <1>4, <1>5

LEMMA BranchOfDocument ==
  ASSUME CountingInv, HistoryInv, NEW t \in Threads,
         CreateBranch(t) \/ \E d \in Document : Fork(t, d)
  PROVE  HistoriesStep
<1>1. PICK from : DoCreateBranch(from) /\ UNCHANGED revisions /\ from \in branchMap \cup {NoBranch}
  <2>1. ASSUME NEW d \in Document, Fork(t, d)
        PROVE  DoCreateBranch(BranchOf(d)) /\ UNCHANGED revisions /\ BranchOf(d) \in branchMap
    <3>1. DoCreateBranch(BranchOf(d)) /\ UNCHANGED revisions /\ held[t][d] > 0
      BY <2>1 DEF Fork
    <3>2. QED
      BY <3>1, DocumentPlaced
  <2>2. CreateBranch(t) => DoCreateBranch(NoBranch) /\ UNCHANGED revisions
    BY DEF CreateBranch
  <2>3. QED
    BY <2>1, <2>2
<1>2. /\ branchMap' = branchMap \cup {nextBranchId} /\ nextBranchId \in Branch
      /\ nextBranchId \notin branchMap
  BY <1>1, BranchAdded DEF HistoryInv
<1>3. QED
  BY <1>1, <1>2, BranchCreates

LEMMA ReleaseRemoves ==
  ASSUME CountingInv, SharingInv, HistoryInv, TypeOK, TypeOK', NEW t \in Threads, ReleaseDocument(t)
  PROVE  HistoriesStep
<1>1. PICK d, b, registered, removed :
        /\ d = call[t].doc /\ b = BranchOf(d)
        /\ registered = [instanciated EXCEPT ![b] = @ \ {d}]
        /\ removed = RemovedBranches(b, registered)
        /\ removed = RemovedBranches(BranchOf(d), RegisteredWithout(d))
  BY DEF RegisteredWithout
<1>2. /\ call[t].step = "release"
      /\ UNCHANGED <<branches, revisions>> \/ RemoveBranches(removed)
  BY <1>1 DEF ReleaseDocument
<1>3. CASE UNCHANGED <<branches, revisions>>
  BY <1>3, HistoriesSame DEF branches
<1>4. CASE RemoveBranches(removed)
  <2>1. removed \in SUBSET branchMap
    BY <1>1, <1>2, RemovedUnused
  <2>2. \A c \in branchMap : dependsOn[c] \in removed => c \in removed
    BY <1>1, <1>2, RemovedUnused
  <2>3. StoreInv
    BY DEF HistoryInv
  <2>4. QED
    BY <1>4, <2>1, <2>2, <2>3, BranchesRemove
<1>5. QED
  BY <1>2, <1>3, <1>4

LEMMA HistoriesNext ==
  ASSUME CountingInv, SharingInv, HistoryInv, HistoryInv', WriteInv, TypeOK, TypeOK', [Next]_vars
  PROVE  HistoriesStep
<1>1. ASSUME UNCHANGED <<branchMap, revisions>> PROVE HistoriesStep
  BY <1>1, HistoriesSame
<1>2. ASSUME NEW t \in Threads, Proceed(t) PROVE HistoriesStep
  <2>1. \/ OpenWrite(t) \/ ReopenLock(t) \/ ForkRevision(t) \/ ReleaseDocument(t)
        \/ UNCHANGED <<branchMap, revisions>>
    BY <1>2 DEF Proceed, OpenWriteThrows, IncrementRefCount, IncrementRefCountOfFreed, LockWrite,
                ReopenBegin, ReopenSwitch, ForkSwitch, ForkReference, branches
  <2>2. QED
    BY <1>1, <2>1, OpenWriteAppends, ReopenLockAppends, ForkAppends, ReleaseRemoves, SMTT(30)
<1>3. ASSUME NEW t \in Threads, Open(t) PROVE HistoriesStep
  <2>1. \A b \in Branch, flags \in OpenFlags :
          OpenWriteBegin(t, b, flags) => UNCHANGED <<branchMap, revisions>>
    BY DEF OpenWriteBegin, branches
  <2>2. \A b \in Branch, p \in Page, flags \in OpenFlags :
          OpenRead(t, b, p, flags) => UNCHANGED <<branchMap, revisions>>
    BY DEF OpenRead, branches
  <2>3. CreateBranch(t) \/ UNCHANGED <<branchMap, revisions>>
    BY <1>3, <2>1, <2>2, Zenon DEF Open
  <2>4. QED
    BY <1>1, <2>3, BranchOfDocument
<1>4. ASSUME NEW t \in Threads, NEW d \in Document, UseDocument(t, d) PROVE HistoriesStep
  <2>1. Edit(t, d) \/ Commit(t, d) \/ Fork(t, d) \/ UNCHANGED <<branchMap, revisions>>
    BY <1>4 DEF UseDocument, GrantWrite, ScheduleRemoval, ReleaseBegin, branches
  <2>2. QED
    BY <1>1, <2>1, EditAppends, CommitOfRevision, BranchOfDocument, SMTT(30)
<1>5. CASE Collect
  BY <1>1, <1>5 DEF Collect, branches
<1>6. CASE UNCHANGED vars
  BY <1>1, <1>6 DEF vars, branches
<1>7. CASE Next
  BY <1>2, <1>3, <1>4, <1>5, <1>7 DEF Next
<1>8. QED
  BY <1>6, <1>7

LEMMA HistoriesInit ==
  ASSUME StoreInv, TypeOK
  PROVE  History!Init
<1>1. PICK H : /\ H = [b \in Branch |-> CommittedRevisions(b)]
               /\ \A b \in Branch : H[b] = HistoryOf(b)
               /\ H = [b \in Branch |-> H[b]]
  BY HistoriesMeant
<1>2. \A b \in Branch : H[b] \in Seq(Recorded)
  BY <1>1, RevisionsLined, HistoryUnfolds DEF HistoryOf, StoreInv, StoreType
<1>3. H \in [Branch -> Seq(Recorded)]
  <2> DEFINE S == Seq(Recorded)
  <2>1. \A b \in Branch : H[b] \in S
    BY <1>2
  <2> HIDE DEF S
  <2>2. H \in [Branch -> S]
    BY <1>1, <2>1
  <2>3. QED
    BY <2>2 DEF S
<1>4. branchMap \subseteq Branch
  BY DEF StoreInv, StoreType
<1>5. QED
  BY <1>1, <1>3, <1>4, Zenon DEF History!Init, Recorded

\* What has been committed is never modified, nor removed but with its branch, and
\* is added to at its end only, one revision at a time: documents opened, locked,
\* modified, committed, reopened, forked, released and collected by any number of
\* threads keep the promise of RevisionHistory on the history of each branch.
THEOREM CommittedForGood == AssumedAlone => (Spec => HistoryKept)
<1> SUFFICES ASSUME AssumedAlone PROVE Spec => HistoryKept
  OBVIOUS
<1>1. Spec => []StoreOfWritersInv
  BY StoreOfWriters
<1>2. Spec => []TypeOK
  BY EveryNumberInItsRange DEF AssumedAlone
<1>3. StoreOfWritersInv /\ TypeOK => History!Init
  BY HistoriesInit DEF StoreOfWritersInv, StoreOfBranchesInv, HistoryInv
<1>4. StoreOfWritersInv /\ StoreOfWritersInv' /\ TypeOK /\ TypeOK' /\ [Next]_vars =>
        [History!Next]_<<branchMap, [b \in Branch |-> CommittedRevisions(b)]>>
  BY HistoriesNext DEF StoreOfWritersInv, StoreOfBranchesInv, HistoriesStep
<1>5. QED
  BY <1>1, <1>2, <1>3, <1>4, PTL DEF Spec, HistoryKept, History!Spec
=============================================================================
