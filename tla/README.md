# A verification development for Xemeiah

Xemeiah is an XML database with an XSLT, XPath and XUpdate processor, written in
C++. Its persistent store is a file of pages holding *branches*: each branch is a
line of *revisions* of one document; a revision shares with the one it was copied
from the pages it did not modify (copy-on-write). Several threads (web server
sessions, scripts, services) open, modify, commit, fork, merge and drop documents
of one store at the same time.

This directory holds TLA+ models of the core of that program, the TLC
configurations that check them, and proofs that TLAPS checks. Paths below are
relative to the sources of the repository.

## 1. The system

| Part | State | Operations | Interacts with |
|---|---|---|---|
| Page store (`src/persistence/persistentstore*.cpp`) | SuperBlock (`noMansLand`, `nbFreePages`), FreePageHeader (three kinds of page lists) | `getFreePagePtr`, `getFreePageList`, `freePages`, `freePageList`, `format`, `open`, `check` | allocators of revisions, branch manager |
| Document allocator (`persistentdocumentallocator*.cpp`) | revision page, private free list, indirection tree, page-info cache, writable-page cache, mapped areas | `authorizePageWrite`, steal (copy) a page, `reopen`, `fork`, `commit`, `drop`, `merge` | page store, branch manager |
| Branch manager (`persistentbranchmanager*.cpp`, `cachebranchmanager*.cpp`) | branches, their dependencies, last revision, documents in memory, reusable document, `branchManagerMutex`, one write mutex per branch | create, fork, schedule for removal, delete; `openDocument`, `releaseDocument`, garbage collector thread | documents, page store |
| Documents (`kern/document.cpp`, `kern/store.cpp`, `persistentdocument.cpp`) | reference count, bound allocator | `grantWrite`, `lockWrite`, `reopen`, `fork`, `commit`, `merge`, `releaseDocument` | branch manager |
| Segment allocator (`kern/documentallocator*`) | free segment lists by size | allocate, free, coalesce | document allocator |
| Journal and merge (`kern/journaleddocument.cpp`) | list of journal items of a revision | append, apply on another branch | documents |
| Keys and namespaces (`kern/keycache.cpp`, `persistentstore-keys.cpp`) | key pages, in-memory maps | add, look up, load | page store |
| DOM structures (`dom/`) | children, attributes, skip-list maps, blobs | insert, delete, look up | segment allocator |
| Services and sessions (`kern/servicemanager.cpp`, `webserver/`) | service states, threads, sessions | start, stop, restart, expire | documents |
| Processors (`xpath/`, `xsl/`, `xprocessor/`, `xupdate/`, `xemprocessor/`, `exslt/`, `nodeflow/`) | environment stack of one thread | interpret stylesheets and scripts | documents, branch manager |
| Readers and writers (`io/`, `parser/`, `dom/toxml.cpp`) | state and buffers of the parser, stack of readers, prefixes in scope | `parse`, SAX events, `toXML`, `serializeText` | documents |
| Network store, JNI, Java, extensions | sockets, external libraries | | |

What is hard, and what each part must keep:

* **Page store.** The counters are updated under one mutex and the lists under
  another; lists fill up and empty at boundaries; every revision keeps a private
  list. A page must never be handed out twice, nor lost, and the counter must agree
  with the lists.
* **Branch manager and documents.** Two kinds of mutexes are taken in two orders;
  a document is opened under one lock and referenced after; a thread that waited
  for a branch must look again at what it waited for; removal is decided from the
  documents registered on a branch *and* on the branches forked from it. Histories
  must stay linear, committed revisions immutable, updates must not be lost, and
  what is in use must not be removed.
* **Indirection.** Caches make stale pages visible; a page must be copied
  before a revision writes it.
* **Journal, segments, keys, DOM.** Sequential invariants on linked structures,
  kept by long sequences of calls.
* **Services, sessions.** Start, stop and expiry race.
* **Paths, files.** Sequential, over unbounded inputs: each shortcut of the code must give what the
  plain definition does, on every document.

`PROJECT.json` has the list of the hazards with the line where each bites and the
properties that would catch it, or a note on why no run shows it.

## 2. The plan

| Step | Modules | State |
|---|---|---|
| 1. Page allocation and what it promises | `PageStore`, `PageOwnership`; `PageStoreProofs` | checked and proved |
| 2. Branches, locks, documents, and the promise on histories | `BranchManager`, `RevisionHistory`; `BranchManagerProofs`, `BranchHistoryProofs`, `BranchWriteProofs` | checked; counts, histories, documents, writing and the refinement proved |
| 3. The tree of a revision, stealing, caches, over an abstract copy-on-write map; the check command | `Indirection`, `StoreCheck`, `CowMap` | checked |
| 4. The structures inside a document | `SegmentAllocator`, `SKMap`, `Blob`, `DocumentIndex`, `JournaledDocument`, composed by `MCDocument` | checked |
| 5. What surrounds documents | `NamespaceAlias`, `Env`, `Keys`, `Services`, `Sessions`, `XPathAxes`, `XPathParser` and `XPathExpressions`, `XmlParser` and `XmlDocument` (over `XmlNodes`), composed by `MCRuntime`; `NamesProofs`, `ServicesProofs`, `SessionsProofs` | checked; four theorems |
| 6. Left | proofs about `Indirection`, `SegmentAllocator` and `Env`; the recovery of a store | |

`BranchManager` uses pages without `PageStore` (a revision page is a number);
`PageStore` uses "writers" in place of the threads of `BranchManager`: `GrantHolds`
is what makes a writer the only thread working on its branch. `Indirection` takes a
document allocator for granted that no other thread shares while it writes, for the
same reason. The parts of `MCDocument`, and those of `MCRuntime`, share no state in the
program either: those modules start one of them, chosen by the variable `part`.

## 3. `PageStore` and `PageOwnership`

A page is its index in the file. A `PageList` is the set of pages it lists: the
order of a list and of the chain of lists is left open, so that the properties do
not depend on it. `MaxNumber` is `PageList::maxNumber` (2 here; any positive number
in the proofs), `PageLimit` bounds the file. `owned[w]` are the pages the revisions
of the branch of writer `w` consist of.

| Action | Code |
|---|---|
| `GetFreePagePtr` | `PersistentStore::getFreePagePtr()`, from the store's own list, refilled by `getFreePageList()` |
| `TakePrivateList`, `DecrementFreePagesCount`, `GetPrivatePage` | `PersistentDocumentAllocator::__getFreePagePtr()`, cut where the header mutex is released |
| `CommitFlush` | `flushFreePageList()` of `commit()` |
| `Drop` | `dropAllPages()` of all the revisions of the branch |
| `FreePagesCount`, `FreePagesPush`, `FreeNoPages` | `freePages()`: the counter, then the lists; with no page at all |

What a call does under `freePageHeaderMutex` is one step; the private list needs no
mutex, as only the writer of the branch touches it. The number of free pages is
updated under another mutex, hence in steps of its own. `FreeNoPages` is a real
outcome: `AssertBug` is compiled out of the default build (`include/Xemeiah/log.h:78-82`).
Left out: the attic (only `check` fills it, and `getFreePageList()` does not read it),
the mapping of pages in memory, crashes.

`PageOwnership` is the promise: a page is unborn, free, or held by one writer, and
changes hands only by an operation of that writer. `OwnershipKept` states that
`PageStore` implements it, through `OwnerOf`.

Run `page_store` (2 writers, lists of 2 pages, pages up to number 7; 300 466 states):
lists are created, emptied, refilled, overflow in the middle of a commit and are
pushed while another thread takes them.

| Property | Meaning |
|---|---|
| `NoSharedPage` | a page is free once, or in the hands of one writer, in one of its sets |
| `NoPageLost` | every page below `noMansLand` is somewhere |
| `ListsFull` | the assertions "Non full page" and "Out of bounds" hold |
| `FreeCountExact` | `nbFreePages` is the size of the lists and of what is in transit |
| `OwnershipKept` | refinement of `PageOwnership` |

`PagesProvided`, which no run checks, is violated by the same configuration: `commit()`
flushes a private list whose pages have all been handed out, and `freePages()` asserts
that it is given pages.

## 4. `BranchManager` and `RevisionHistory`

A step is what a call does between two waits: on `branchManagerMutex`, on the mutex of
a branch, or on the caller. `call[t]` is the call thread `t` is in. A revision page is a
record; its contents are the revision it was copied from (`base`) and the number
of modifications (`edits`). A document has opening flags, a reference count and an
allocator; an allocator points to a revision page; documents opened with
`FollowBranch` share theirs.

| Actions | Code |
|---|---|
| `CreateBranch` | `createBranch()`, `doCreateBranch()` |
| `OpenWriteBegin`, `OpenWrite`, `OpenWriteThrows` | `openDocument()` with Write or ResetRevision: it waits for the branch with `branchManagerMutex` locked; `createRevision()` may throw |
| `OpenRead` | `openDocument()` with Read, ExplicitRead, AsRevision, FollowBranch; sharing of a reusable document or of an allocator |
| `IncrementRefCount`, `IncrementRefCountOfFreed` | the caller counts its reference (`instructionSetRole()`), if the document is still there |
| `GrantWrite`, `LockWrite` | `xupdateSetDocumentWritable()`, `grantWrite()`, `lockWrite()` |
| `ReopenBegin`, `ReopenLock`, `ReopenSwitch` | `reopen()`, `createWritableRevisionJustAfter()` |
| `Edit`, `Commit` | `authorizePageWrite()` callers, `commit()` |
| `Fork`, `ForkRevision`, `ForkSwitch`, `ForkReference` | `PersistentDocument::fork()`, `forkRevision()`, `updateDocumentReference()` |
| `ReleaseBegin`, `ReleaseDocument` | `Store::releaseDocument()`, `CacheBranchManager::releaseDocument()`, `checkBranchRemoval()`, `deleteBranch()`, `dropRevisions()` |
| `ScheduleRemoval` | `scheduleBranchForRemoval()` |
| `Collect` | `garbageCollectorThread()`, `cleanupReusableDocument()` |

When `lockWrite()` finds a revision committed meanwhile, `instructionSetRole()` gives the
document up and opens it for reading: the model releases it, and the thread then
opens what it likes, that revision included. A `fault` is where the process would use
freed memory; nothing happens after it.

Left out: branch names and flags (`BranchFlags` makes forks and merges automatic),
roles, the `ReuseWrite` and `UnManaged` openings, `merge()` (its journal is in
`JournaledDocument`), `drop()` of single revisions (a `Bug()` in the code), `~DocumentRef` and its automatic commit (C++ users only), and the unlocked
accesses to `branchMap`.

`RevisionHistory` is the promise: a branch is a sequence of committed revisions that
grows at its end, each copied from the one before (or from the branch it was forked
from), and disappears only as a whole. `HistoryKept` maps the pages and the `prev`
pointers to these sequences; a revision being written is not in them. Run `branches`
checks it.

| Property | Meaning |
|---|---|
| `LinearHistory` | consecutive numbers, only the last revision writable, no revision page forgotten |
| `BasesKept` | what a revision was copied from is there and committed |
| `GrantHolds` | who was granted write access has the lock of the branch and a writable revision |
| `NoLostUpdate` | a document only moves to a revision copied from the one it shows |
| `DocumentsKept` | a document is registered on its branch, and its revision and all the branches it depends on are there |
| `ReferencesCounted` | a referenced document is not deleted; the run has no FollowBranch with forks, the theorem (section 9) has all the flags and uses |
| `BranchManagerReleased` | a thread that holds `branchManagerMutex` releases it |
| `HistoryKept` | refinement of `RevisionHistory` |

All runs have two threads (interchangeable: a symmetry set, except for liveness): each of
the races needs two actors. The bounds are as small as lets the case of the run happen:

| Run | What happens in it |
|---|---|
| `writers` | one branch, 4 revisions, 2 documents, one reference per thread; all managed modes but FollowBranch; documents abandoned, reusable documents collected. Three more revisions than the first one: enough for an update that came too late and for a revision reset over an abandoned one |
| `branches` | 3 branches of which the first two exist, 4 revisions; AsRevision, of any revision of a branch, and ExplicitRead, whose documents are shared by two threads and collected; forks of forks, reopening of a fork, waiting for a fork being written, removal at any time |
| `progress` | liveness, with 4 revisions; documents of all the flags that wait, and those of FollowBranch, which share one allocator |

Bounds on revision pages are met before a call begins (`PageLeft`), so that no thread is
stopped by a bound in the middle of a call. Deadlock checking is off: once the bounds are
met, or after a fault, nothing more happens.

Fairness (`FairSpec`): a thread inside a call goes on when it can (the scheduler), and a
thread that was granted a document commits it (scripts and sessions end). Weak
fairness is enough, as only the thread itself can disable its step for good; no
thread abandons a document in `progress`.

### What the code does not keep

The passing runs choose operations (`OpenFlags`, `Uses`, `MaxHeld`) so that the following do
not come in the way; the choice is part of what they show. TLC finds each of them with the
property, and the constants, given (2 threads, `MaxEdits = 0`, other constants as in
`MCWriters.cfg`):

| Property | `OpenFlags`, `Uses` | What happens |
|---|---|---|
| `LinearHistory` | `{"Read", "Write"}`, `{"fork"}`, 2 branches | `forkRevision()` works without `branchManagerMutex` after `createBranch()` published the branch: the new branch is opened for writing before its first revision is made, and has two revisions 1 |
| `NoLockCycle` | the same | a fork holds the new branch when it waits for `branchManagerMutex`, which an opening for writing of that branch holds while it waits for the branch |
| `ForkedIsKept` | `{"Read"}`, `{"fork", "remove"}`, 2 branches | a document forked from a branch scheduled for removal loses both branches |
| `GrantHolds` | `{"Read", "Write"}`, `{}`, `MaxHeld = 2` | releasing a document unlocks the branch of another one of the same thread |
| `ReopensUnlocked` | `{"Read", "Write"}`, `{"abandon"}` | an opening that throws leaves its branch locked |
| `OpenedIsAlive` | `{"ExplicitRead"}`, `{"collect"}` | a reusable document is deleted between `openDocument()` and `incrementRefCount()` |

With FollowBranch, a thread that waited for the lock of a revision committed meanwhile is told
that it may write (`grantWrite()` does not look at what `lockWrite()` found): `GrantHolds` fails
with `OpenFlags = {"FollowBranch"}`. A branch scheduled for removal stays when its last document
is one of a branch forked from it, since `releaseDocument()` looks at the branch of that
document only. `DocumentsKept` is not claimed for documents that share an allocator: one
forks, the others move with it, unregistered.

## 5. `Indirection`, `StoreCheck` and `CowMap`

A revision maps relative pages to absolute ones by a tree: a root, levels of indirection
pages, tables of page info. A new revision inherits the root of the previous one, marked
*stolen*; a page reached through a stolen pointer is copied before it changes. Absolute pages
have contents (`page`), revisions are records (`revision`), and `allocator[a]` is the state of
one `PersistentDocumentAllocator`: its revision, its mapped areas, its writable-page cache,
its page-info cache. Functions such as `WriteFromRoot(s, p)` or `AuthorizePageWrite(s, p)`
take and give back the pages, the revision and the allocator a call works on (`State(a)`).

| Action | Code |
|---|---|
| `CreateBranch`, `OpenWrite` | `formatHeadRevisionPage()`, `createRevision()`, `inheritRevisionPage()` |
| `OpenRead`, `Close` | an allocator made for a revision, and deleted |
| `Reopen`, `Fork` | `PersistentDocumentAllocator::reopen()`, `fork()`: the revision changes and the mapping stays |
| `ReadPage` | `getSegmentPage()`: the area is mapped when first used |
| `Write` | `authorizePageWrite()`, and the write that follows |
| `Allocate` | `getFreeRelativePages()`, with the growth of the tree |
| `Commit`, `Housewife`, `DropBranch` | `commit()`, the unmapping of old areas, `dropAllPages()` |

`CowMap` is the promise: each revision has a content of its own, a new one starts with the
content of its base, only the writable one changes, and a committed one keeps its content until
its branch is dropped. `CopyOnWrite` states that `Indirection` implements it, the content of
a revision being what its tree leads to.

`StoreCheck` is `PersistentStore::checkAllContents()`, which a user may call at any time: it walks the
revisions of every branch, references each page that their trees lead to in a table of all pages, and
each relative page in a table that a forked branch gets a copy of, cut after the revision it was
forked from. `CheckPasses` says that it never complains: no page is owned twice, or referenced as two
different things; every page that is not free is owned; a revision counts the pages that it owns; and a
relative page that it did not write is the one of the last revision that did. Absent from the model: the
attic and the statistics.

| Property | Meaning |
|---|---|
| `MappingTrue` | what an area maps is what the tree of the allocator's revision leads to |
| `CheckPasses` | the check of the store finds no error |
| `CopyOnWrite` | refinement of `CowMap` |
| `CommittedKept` | a committed revision keeps its tree |

Run `indirection`: two allocators, two branches, three revisions, five relative pages in trees
of tables of 2 and nodes of 2 (so that the fifth page needs a third level), areas of three
pages, allocations of two pages, which meet the end of an area. Which page is written makes no
difference to the code beyond its position: page 0, stolen by every revision, is the one.
`PageInfoCaching = FALSE` is the page-info cache flushed as its interface says; run
`page_info_cache` has it as built, and finds that a committed revision changes
(`CommittedKept`).

## 6. Inside a document: `MCDocument`

| Module | Models | State | Bounds, and what they let happen |
|---|---|---|---|
| `SegmentAllocator` | `DocumentAllocator` with the page allocation of persistent and of volatile documents | free segments with their links by level and by page, the heads of the lists, what is allocated | pages of 3 units in areas of 3 pages, at most 5 pages, sizes 1 and 4: splits, coalescing on both sides, at page and area ends, segments over a page |
| `SKMap` | `SKMapRef::iterator`, `SKMultiMapRef::multi_iterator`, the element and integer maps over them | items with their levels and links, lists of values | 3 hashes, 3 levels, lists of 2 values, 3 values: an item before the head, the head erased, a list that fills, is emptied at either end |
| `Blob` | `BlobRef` | pieces by their offset, the size | units of 2 bytes, pieces of at most 4, blobs of at most 5: a write inside a unit, across pieces, after the end |
| `DocumentIndex` | `DomEvents`, `MetaIndexer`, the maps of `key()` and `id()`, the instructions of XUpdate and the node flow that change a document | the children, names and attribute of elements, the map each holds for the index, what the node flow writes | 4 elements under the root, 3 values of which two have one hash, five indexes: scopes inside one another, elements removed with their children, values that change |
| `JournaledDocument` | `ElementRef` links, the id index, `JournaledDocument` | the tree of a base and of its fork, the journal of the fork | 3 changes, of which at most one of the base: an insertion next to one that was inserted, or next to one that is deleted |

The segments of `SegmentAllocator` are those of the caller's choice: any allocated one may be
freed. `SKMap` takes the level of a new item as any (the code draws it at random). A history
variable holds what a map (`content`) or a blob (`written`) should give back. In
`JournaledDocument`, the changes that the journal does not carry are named by `Edits`; with the
constant used, an element may be moved, which only `TreeConsistent` speaks of. `Setups` of
`DocumentIndex` says which index is declared (what it matches, its scope, its order, if it is built on an empty
document) and what is done to the document before and after: what an index keeps up with depends on it, see below.

The check command also looks inside documents: the marks of segments in their pages, the lists of free
segments, the elements, items, lists and pieces (`persistentdocumentallocator-check.cpp`). What it verifies
of each structure is part of the properties of that structure (`Marked`, `HolesOf`,
`FirstFreeSegmentChecked`; `MarkedOnce`; `EndChecked`; `ElementsChecked`).

| Property | Meaning |
|---|---|
| `Identified` | every unit is allocated, free or lost at the end of an area, once |
| `FreeListsExact` | both lists of free segments, by level and by page, hold what they should, in order, linked back |
| `MapsKept` | each level of a skip list is ordered and complete; a map gives what was put in it and keeps no other segment |
| `BlobsKept` | pieces follow each other up to one end; each byte read is the last one written |
| `IndexExact` | an index finds, for each value and scope, the elements that match and have it; its maps have no other entry, and none is missing when it is taken out; siblings are in the order it asks for |
| `TreeConsistent` | father, child and sibling links and the id index make one tree |
| `MergedAsForked` | replaying the journal of a fork on its unchanged base gives the tree of the fork |

Run `fork_ids` finds two elements with one id after a fork (`IdentifiersUnique`). Not in a run:
`FilesRead` is violated by reading a short file into a blob that holds a longer piece
(`allowWritePiece()` returns the length of the rest of the piece, whatever was asked;
`dom/blobref.h:82` says `which shall not be more than count`), and `MergedWhateverWasDone` by
each of the `Edits`: an attribute set before its element is inserted, the removal of an element
the fork created, the removal of an attribute and the move of an element are not carried.

`IndexExact` fails with other `Setups`:

| Index | Edits | What happens |
|---|---|---|
| matches `a` | `"attribute"` | the attribute that gives the value is not in the pattern, so that its change is not told |
| matches `a` | `"insert"` | `xupdate:insert-before` and `insert-after` never send `CreateElement` |
| matches `a[@k]` | `"attribute"` | the element is put in by its attribute and by its end, and taken out once |
| matches `a[@k]`, built late | `"remove"` | it was put in once, and is taken out twice: `Hash is not part of the SKMultiMap` |
| matches `@k`, built late | none | building looks at elements only |
| any | `"remove attribute"`, `"update attribute"` | `deleteAttr()` and `setString()` send no event |
| matches `@k`, with an order | `"attribute"` | the value that becomes the greatest in the middle ends in `Bug("This is fatal ...")` |
| any, with an order, built late | none | building does not sort |
| of `key()` | any | the map is built at the first use and never again |

An element without a scope is ignored when it comes (`Silently ignoring`), and its removal is a `Bug()`.

## 7. Around documents: `MCRuntime`

| Module | Models | A step is |
|---|---|---|
| `NamespaceAlias` | the scopes of prefixes: both maps, the declarations of each level, `setNamespacePrefix()`, `push()`, `pop()` | a call |
| `Env` | the levels of a processor: variables, documents and allocators bound at the current level or the one behind, `popEnv()` | a call |
| `Keys` | `KeyCache` over the pages of the file, `addKeyInStore()`, `addNamespaceInStore()`, loading | a write to the file, or to the cache |
| `Services` | one service, its threads, its start, stop and restart, the manager that stops everything | what a thread does between two waits |
| `Sessions` | the session manager: requests, events, the collector, the end of the service | what a thread does between two waits for a mutex |
| `XPathAxes` | location paths: axes, node tests, predicates, the order of results, compiled steps; the matching of patterns | an element is added at the end of a document |
| `XPathParser`, `XPathExpressions` | the tokens of expressions, their precedence, the steps they are made, with predicates, calls and flags; attribute value templates | an expression is enclosed in a larger one |
| `XmlParser`, `XmlDocument` | the parser, its readers and entities, the SAX handler that makes a document, the writer of XML with its encodings | a node is added at the end of a document |

* `NamespaceAlias`: `outer` records the maps at each `push()`. `Redeclares` is TRUE when a prefix
  may be set to a namespace that has one at that level. Three prefixes, of which the default
  one, two namespaces, three levels, three declarations.
* `Env`: pointers are given again as soon as they are free, so that a stale one would be
  noticed. Levels 2 and 3 with those behind, three variables, two documents, allocators that
  are too old after one level.
* `Keys`: a crash, possible at any step, keeps the file and loses the rest; loading reads the
  file as `loadKeysFromStore()`. Pages of two slots, three names, three pages.
* `Services`: three threads, of the roles the code gives them; `Faults = {}`: what
  happens with `"hasty"` (a thread ends before those it started are in the map), `"fails"` (the
  start method throws) and `"early"` (the manager stops services while one starts) is in
  section 8.
* `Sessions`: two requests, two sessions, whose ids are numbers since the map is in their order. When
  an event is broadcast, the sessions that subscribed to it are chosen first; the thread waits for each of them
  in turn, with the manager locked, and for no other. Subscriptions that change while it goes through the
  sessions make no other choice possible. `Faults` is empty in `runtime`: the service does not stop, nor
  a session expire, while it is being bound, and no request calls the manager while it has its session
  locked. The code has no such guard, and the run `session_locks` takes this one away; see section 8.
* `XPathAxes` is checked against a definition: on each document that can be built, each axis, test
  and list of predicates of the constants is evaluated as the code does and as XPath defines it, as one
  step, after `//`, and from several nodes at once. Five elements of two names, some with an
  attribute, make nephews on both sides; seven lists of predicates of paths, four of patterns, have
  positions, `last()`, tests, and one after the other.
* `XPathExpressions` is checked by its inverse too: an expression is the tree of what it means; it is
  written by the grammar of XPath 1.0, with parentheses where the grammar needs them, with spaces
  everywhere and with as few as can be, and what `XPathParser` reads must mean the same. A piece of a
  name counts as one character, so that signs, dashes and names that are operators are in it. Three
  families: every binary operator twice, on either side, with unary minus; twelve first steps
  (names, one of which is `div`, `*`, `@id`, `$v`, `/`, `text()`, `{a}`, ...) with two of an operator,
  a predicate, a step, a call around them; templates of up to five segments. Sums, products and `//`
  have one form (`Same`), which does not look at rounding nor at a division by zero. `MaxPredicates` is
  3 and `MaxFuncCallArgs` 4 (4 and 8 in the code), so that the limits are met.
* `XmlDocument` is checked by its inverse: on each document, what the writer writes is given to the
  parser, in three ways of writing and of reading; and a second printer, which writes as a person
  may (`Styles`: quotes, spaces, CDATA, entities, declarations last), is read. A character is a
  string, and so is a name that the code spells out. One family of documents has three elements
  out of nine, which declare, hide or give again prefixes; the other has four nodes, with texts,
  CDATA, comments and instructions.

| Property | Meaning |
|---|---|
| `OuterScopesKept` | leaving a level gives the maps as they were when it was entered |
| `LevelsKept` | each variable is the newest binding of its highest level, and leads to those it hides; a document is there as long as its level, in an allocator that is |
| `KeysKept` | a name and the id given for it are one another's, in the file and in memory, through crashes |
| `PathsSelect` | a path selects the nodes it means, each once, in document order |
| `ExpressionsRead` | an expression is read as it was meant, and the steps whose predicates need positions are known |
| `PatternsMatch` | a node matches a pattern when, from some node above it, the pattern selects it |
| `ReadsBack` | what is written for a document is read as that document |
| `ReadAsMeant` | a file is read as the document it means |
| `StoppedIsQuiet` | a stopped service has no thread, registered or about to be |
| `StopCompletes` | what stops ends up stopped, and the manager's wait ends |
| `SessionsKept` | a session in the map or in the hands of a request is not deleted |
| `ManagerReleased` | who locks the session manager unlocks it |

Fairness. `Services`: threads run, and the function of a thread returns once the service stops
(an accept thread looks every second, a request ends); a thread may start others as long as it
has not seen the stop. `Sessions`: a thread whose next step is possible takes it, a wait for
news times out, a request ends. Weak fairness is enough for both: the step stays possible until
it is taken, except for the lock of a session (`setLastAccessTime`, `enqueueEvent`): another may take it, but
only a request that has the session already, which then calls the manager no more and ends, so that
the lock is free for good after a while. No step frees a thread from a session that another keeps locked: with
`"write"` it waits forever. When another part runs, services and sessions stay in their first states, where
none of these steps is possible: fairness asks nothing of them.

## 8. What the code does not keep, around documents

Run `session_locks` (`Sessions` with `Faults = {"write"}`): a request that has written its session, and so holds its
mutex until it ends, triggers an event; another has the manager locked, in `getSession()` or `enqueueEvent()`,
and waits for that session. Neither goes on, nor does any request that needs the manager: `ManagerReleased` fails.

Run `outer_scopes` (`Redeclares = TRUE`): in `<r xmlns:a="1"><y xmlns:b="2" xmlns:a="2"/><a:z/></r>`
the prefix of `a:z` is left with namespace 2. Run `key_threads` (two threads): two names get one
id, or a name is lost.

Found with the constants given (in a copy of `MCRuntime` with other `Faults` of services or sessions):

| `Faults` | Property | What happens |
|---|---|---|
| `"hasty"` | `StoppedIsQuiet` | the stop thread sees an empty map between the end of a thread and the first instructions of one it started |
| `"fails"` | `StoppedIsQuiet` | `startService()` sets the state to stopped while the threads that the start method made run |
| `"early"` | `StopCompletes` | a service that is starting, or about to be started again, is running when the manager has told the others to stop: it waits forever |
| `"stop"` | `SessionsKept` | `getSession()` returns a session without a reference, and the collector of a stopping service deletes it before it is bound |
| `"throw"` | `ManagerReleased` | `enqueueEvent()` throws with the session locked |

XPath, left out of what `PathsSelect` and `PatternsMatch` say:

* `ancestor::node()` does not find the root from its children; a pattern `//x[n]` matches no child
  of the root (`FromTheRoot`).
* With `"count(b)"` among the lists of predicates both properties fail: a number made by an addition
  or a function is a position, and the step is not tagged so (`tagStepPredicatesFlags()`, whose comment
  says `Enforce position flag if the function is a math function`, `xpathparser.cpp:1285`).
* Seen while reading: `or` is evaluated as its negation in `matches()` (`xpath-matches.cpp:334-350`);
  a `Bug(".")` left at the start of `doParseAVT()` refuses templates that start with `{f`.

XPath, left out of what `ExpressionsRead` says by `Misread` and `TemplateMisread`, each of which TLC finds
when it is taken out of them:

* Precedence (`to respect operators precedence`, `xpathparser.cpp:312`): `a * b mod c` and `a div b mod c` are
  `a * (b mod c)` and `a div (b mod c)`; `a = b != c` and `a < b > c` are grouped on the right; `|` binds less
  than `+`, `-`, `*` and unary minus.
* Unary minus: `a[1] - 1` is refused (`]` is tested as a symbol before, `[` is among the unary contexts);
  `-//a` loses the root; a minus is not unary after another one, `!=`, `or`, `and`.
* `*` after a comparison, `and`, `div`, `mod` or a unary minus is a product, unless `[` follows.
* The names `or`, `and`, `div`, `mod`: as elements after an operator, or after `/` or `,` before `-` or `*`.
* Spaces that XPath does not need: before `-` after a text, `/`, `,`, `|` or `}`; between `-` and `/`; between an
  operator name and a text.
* `(x)//b` is read as `(x)/b`, `(x)->f()` is refused; after `{x}`, `/b` starts at the root.
* The last predicate of the limit is refused; so is `concat()` with 8, 15, 22 ... arguments; a predicate
  `count(b)` is not tagged; `local-name() = 'x'` becomes the node itself, which is not false as a value.
* Templates: of more than 8 segments, the first are lost (a `currentStep` declared again inside the loop); an
  expression cannot hold braces, of a text or of an indirection.

XML, left out of what `ReadsBack` and `ReadAsMeant` say:

* A comment comes back with a space added at each end (`Way` says so with `padded`).
* Of a run of three `-` in a comment, or three `]` at the end of a CDATA section, one is lost; a text
  with `]]>` that is written as CDATA, in two sections, comes back without `]]`.
* An attribute whose namespace was last declared as the default one is written without a prefix, and a
  name whose last prefix is hidden is written with it (`KeyCache::getKey()`): `Writable` excludes both.
* Carriage returns are dropped from texts; a name keeps the low byte of its characters; a tabulation or
  a line end is refused just after the name of an attribute; declarations of a DOCTYPE are only read with
  white space between them.
* Indentation adds a line end after a comment in the middle of a text.

Seen while reading, without a model: `Env::getBehindEntry()` copies the allocator the head entry
restores, so that an allocator set aside may be left undeleted (contrary to `env.h:193`); a
document that fails to parse stays in `documentMap`; a document with an URI bound at two levels
is erased twice from it; `ElementMultiMapRef::deleteAttribute()` leaks its lists of values;
`quickMerge()` is not implemented; `ArrayMap::put()` reallocates under readers;
`HashBucket::clear()` leaves dangling heads; the upload loop of
`webserver/querydocument-parsecontents.cpp:35` counts down past zero when a piece is longer than
asked; `createSession()` accepts the id 0; the `create` argument of `keycache.h:185` is ignored.

## 9. Proofs

Each theorem holds for every value of the constants that the named assumptions of the modules
allow. Each rests on an inductive invariant, which TLC checked before it was proved; its proof
has one lemma per action, or per group of actions that change the same variables, and under
it one step per part of the invariant.

| Module | Theorem | Inductive invariant | For every |
|---|---|---|---|
| `PageStoreProofs` | `TypeCorrect`: `Spec => []TypeOK` | `TypeOK` | set of writers, positive `MaxNumber`, `PageLimit` |
| | `NoPageShared`: `Spec => []NoSharedPage` | `SharingInv` | the same |
| | `NoPageForgotten`: `Spec => []NoPageLost` | `PlacesInv` | the same |
| | `AllocatorKeepsPromise`: `Spec => OwnershipKept` | `PlacesInv` | the same |
| | `ListsAsFullAsTaken`: `Spec => []ListsFull` | `FullInv` | the same |
| | `FreePagesCounted`: `Spec => []FreeCountExact` | `CountInv` | finite set of writers |
| `BranchManagerProofs` | `EveryReferenceCounted`: `Spec => []ReferencesCounted` | `CountingInv` | finite set of threads, all bounds, all `OpenFlags` and `Uses` |
| | `DocumentsUsedAlone`: `Spec => []Alone` | `SharingInv` | the same |
| `BranchHistoryProofs` | `EveryBranchOneLine`: `Spec => []LinearHistory` | `HistoryInv` | the same, if `Assumed` |
| | `NoRevisionWithoutBase`: `Spec => []BasesKept` | `HistoryInv` | the same, if `Assumed` |
| | `NoDocumentOffItsBranch`: `Spec => []DocumentsKept` | `HistoryInv` | the same, if `Assumed` |
| | `EveryNumberInItsRange`: `Spec => []TypeOK` | `RangesInv` | the same, if `Assumed` |
| `BranchWriteProofs` | `GrantedMayWrite`: `Spec => []GrantHolds` | `WriteInv` | the same, if `AssumedAlone` |
| | `NoUpdateIsLost`: `Spec => NoLostUpdate` | `WriteInv` | the same, if `AssumedAlone` |
| | `CommittedForGood`: `Spec => HistoryKept` | `WriteInv`, `RangesInv` | the same, if `AssumedAlone` |
| `ServicesProofs` | `StoppedServiceQuiet`: `Spec => []StoppedIsQuiet` | `ServiceInv` | set of threads, without the faults `"hasty"` and `"fails"` |
| `SessionsProofs` | `NoSessionInUseDeleted`: `Spec => []SessionsKept` | `SessionInv` | finite set of requests, set of ids, without the fault `"stop"` |
| `NamesProofs` | `OuterScopesAlwaysKept`: `Spec => []OuterScopesKept` if `Redeclares = FALSE` | `AliasInvariant` | prefixes, namespaces, depth, number of declarations |
| | `NamesKeepIds`: `Store!Spec => []Store!KeysKept` | `KeysInv` | set of names, size of a page, number of pages, if `OneCaller` |

**Pages.** `NoSharedPage` is not inductive. `SharingInv` adds to it that every page that is free or
held is below `noMansLand` (`PagesBorn`: otherwise a list just created could hold a page
in use), and that a batch or a rest is not empty only while its writer is freeing pages
(`BatchWhenFreeing`: otherwise an allocation could overlap them). `PlacesInv` adds `NoPageLost`: with
both, every page born has exactly one owner, which is what `OwnerOf` chooses, so that each step of `PageStore`
is seen by `PageOwnership` as the step of the owner that changes, or as a stutter. `FullInv` says which lists
may be short; `CountInv` says that the counter is what the lists hold, corrected by what each
writer has taken or is to push and not yet counted.

**Sums.** The last one and `ReferencesCounted` are about a sum over threads, which the community modules
define by recursion on a finite set. `SetSums` shows what such a sum is without induction
over the set: the number of units that the terms are made of solves the recursive equation, and of
two solutions the smallest set on which they differ, which exists because the natural numbers are
well-founded, would not be one (`SumIsUnits`); a sum changes by what its changed term does (`SumChange`).

**References.** `CountingInv` adds to `ReferencesCounted` that a deleted document has no count, that who is
opening a document may hold one more, and that who is releasing one holds it. That a reusable document is
deleted only when the branch is alone to reference it, then that it is in no thread's hands, is a
consequence of the sum.

**Histories.** Three invariants rest on each other. `CountingInv` says that what a thread references is alive.
`SharingInv` says who uses which document: one thread alone unless it was opened with `ExplicitRead`
(`Alone`), one document per allocator unless it follows its branch (`Allocated`), and what each call in
progress holds (`CallHolds`). `HistoryInv` then says what the store of branches is, `StoreInv`: the branches
are a forest (`Forest`), the revisions of one are its line, ended by `lastRevision` (`Lines`), each with its
base (`HasBase`); and where the documents are: on a revision that is there (`Placed`), counted by
their branch or, at the last step of a fork, by the branch they leave (`Registered`). `CallMeant` carries what
a fork has set up from one of its steps to the next; `Guarded` says that a document found on a
branch that is being forked is in the hands of a thread that waits for the lock of that branch. Removal
is the hard step: a branch is deleted with all those forked from it, and `checkBranchForRemoval()` only looks
at the documents each of them counts; that no revision left behind has its base there, that no call in progress
works there, and that no document does, follows from the three (`RemovedUnused`).
`LinearHistory` and `DocumentsKept` follow chains (`prev`, `dependsOn`) by recursive functions; that a chain
is what is reached, and that it ends, comes from the least rank at which it would fail
(`ChainUnfolds`, `ChainClosed`, `RevisionsOfBranch`, `AncestorsThere`).

`RangesInv` is what is left of `TypeOK`: the ranges of the identifiers and of what calls wait for, and that what is
scheduled for removal exists. The numbers of the revisions need no bound of their own: those of a branch are the
numbers from 1 to the last, each on its page (`NumbersBounded`), so that none passes the number of pages.

`Assumed` is that while documents are forked (`"fork" \in Uses`) none is opened with `Write`, `ResetRevision`
or `FollowBranch`. Both parts are needed: section 4 gives the run in which a branch being forked is opened for writing
and gets two revisions 1, and the documents that follow the allocator of a forked one move unregistered.
The run `branches` satisfies it with forks, the run `writers` without.

**Writing.** `WriteInv` rests on the three invariants above. `GrantHolds` is not inductive, because `grantWrite()` gives
a writable document to who has locked its branch, and unlocking looks at the branch alone: it must be
known of every document a thread holds that, if its revision is writable, the thread has the lock
(`HeldLocked`), except before `lockWrite()` returns and after `releaseDocument()` has unlocked. `CallWrites` says
what a call in progress may count on: in the middle of `reopen()`, that the lock is held and the new revision has
the one of the document as its base, so that no commit comes between; after `openDocument()`, that what was
opened for reading is not writable. What a step leaves of the documents of the other threads is stated once (`Steady`,
`PagesSteady`): they stay where they are, a revision on a branch that another thread has locked stays
writable, and a lock is only taken when it is free and only given back by who has it.
`NoUpdateIsLost` follows: a document that moves has its base from `CallWrites`, or from what a fork has set up.

`AssumedAlone` adds to `Assumed` that a thread uses one document at a time (`MaxHeld <= 1`) and that none is opened with
`FollowBranch`. Both are needed, as section 4 shows: releasing or committing one of two documents on a branch unlocks it for
the other, and a document that follows its branch is at the revision another thread is writing.
The runs `writers` and `branches` satisfy it.

**The promise of the branch manager.** `CommittedForGood` is that `BranchManager` implements `RevisionHistory`. The
history of a branch is computed from its last revision by the recursive `CommittedRevisions`. No induction over
the line is needed: since the numbers decrease along `prev` and are bounded (`RangesInv`), the recursive equation
has a solution up to each number, hence one for all (`HistoryUnfolds`); two stores in which a revision and those
before it are the same have the same history of it (`SameHistory`); and the pages of a history are those of the
committed revisions up to it (`HistoryPages`), which is what says that a new revision is on a page that no
branch has committed, and its base on one that some branch has (`NewEntry`). A step then
only has to be shown to keep what is committed (`EntriesKept`), to add a revision after the last one or none
(`LastsFollow`), and to commit the last revision of one branch at most: the history is then left alone or appended
to (`HistoryFollows`, `CommitAppends`). The removal of branches and their creation are the other two
steps of the promise. `AssumedAlone` is needed for `Edit`, which modifies whatever revision the
document is at: that it is not committed is `GrantHolds`. The run has no edits, the theorem any number of them.

**Services.** `ServiceInv` says what each state of the service and of the script that starts and stops it means for
the threads (`StartMeant`, `StopMeant`), and that a thread that starts others stays until they are
in the map (`ParentsKept`). The two faults excluded are those that section 8 shows to break the property; the
manager may stop the service while it starts (`"early"`).

**Sessions.** `SessionInv` gives each step of a request the references it has on its session (`RequestsMeant`) and says that
a session is counted as many times (`Counted`). The fault excluded breaks the property.

**Scopes.** `OuterScopesKept` speaks of the current level and is not inductive, since `pop()` makes an outer level
the current one. `AliasInvariant` says of every level that undoing the declarations from it up
gives the maps recorded when it was entered, and that declarations are in the order of their
levels; the oldest declaration of a prefix at a level is the one that knows what to restore,
which is why the proof needs the least element of a set of positions.

**Names and ids.** `KeysKept` speaks of what reading the file would find, and is not inductive. `KeysInv` says what
the file is made of: a page is linked to pages made after it, so that the list ends and no page is on it twice
(`ListIncreasing`); the slots in use come first in the list and their ids are their positions
(`Filled`), two slots have different names (`Distinct`), and a name is in the cache if a slot has it, or is about to
be (`Cached`), and only then (`Stored`). `Reached` says of the call in progress which page of the list it has come to and what its next
writes rely on; a crash forgets it, at any of its steps, and leaves a page out of the list or a slot without a
name, which the invariant allows. `NthPage` is a recursive function: a list that
satisfies its equation is its value because two such lists would differ on a first page (`ListFound`), so that each
write only has to be shown to give such a list. `OneCaller` is that a single thread numbers names, as the comments of the
code want it; without it the run `key_threads` shows the property false. `MCRuntime` checks `KeysKept` on one list at a time.

## 10. What is only model-checked

The other properties, and the refinement `CopyOnWrite`. Liveness (`BranchManagerReleased`,
`StopCompletes`, `ManagerReleased`) is out of the prover's reach and stays with TLC, and so do the
functions defined by recursion over lists or trees (`SKMap`, `Blob`, `DocumentIndex`, `JournaledDocument`, `XPathAxes`,
`XPathParser`, `XPathExpressions`, `XmlParser`, `XmlDocument`), whose results for
every input would need induction over data.

Three more invariants stay with TLC. `MappingTrue` and `CopyOnWrite`: which offsets a page of indirection covers is a power of the number of its
records, and the provers know nothing of exponents nor enough of quotients to relate two levels. `Identified`
and `FreeListsExact` of the segments: what a page holds is found by walking its segments by their sizes, so that each of
their steps is an induction. `VariablesRestored`: what a scope removes is a `SelectSeq`, defined by recursion.

## 11. Not modelled

* Crashes in the page store: after a crash, pages of an uncommitted revision stay taken, and the code
  that would drop it at the next opening is compiled out (`persistentstore.cpp:397`); the attic, also
  where the check command looks at it, its statistics and its dumps.
* The threads of one document: the table of areas is reallocated under readers
  (`persistentdocumentallocator-map.cpp:61`), `branchMap` is read without its mutex
  (`cachebranchmanager.cpp:83`). A torn read has no outcome to enumerate.
* The segments of attributes, events of documents, indexes by other values than an attribute, compression
  of blobs, the deletion of whole maps.
* Registration of services, several services at once; HTTP and uploads. A handler of events that is called at
  once (`processEvent()`) runs with the manager locked: that it may throw is modelled, what it does is not.
* XPath beyond the reading of expressions and location paths: what functions, comparisons and unions give,
  number formats, the steps as they are stored; the namespace axis and `processing-instruction('x')`.
* XML beyond documents: DOCTYPE with SYSTEM or PUBLIC, parameter entities, attribute lists, HTML output,
  texts that are next to each other, the exceptions of `xml:space` and `xsl:text`, a character across
  two windows of a reader.
* XSLT and EXSLT: interpreters of large standards, of which only the environment and the paths
  are modelled; of XUpdate, texts, the choice of nodes, and the renaming of nodes, which is not implemented; the network store; Java, JNI and the extensions, around external libraries.

## 12. Files

* `PageStore.tla`, `PageOwnership.tla`, `MCPageStore.tla`, `PageStoreProofs.tla`,
  `SetSums.tla`
* `BranchManager.tla`, `RevisionHistory.tla`, `MCBranchManager.tla`, `BranchManagerProofs.tla`,
  `BranchHistoryProofs.tla`, `BranchWriteProofs.tla`
* `Indirection.tla`, `StoreCheck.tla`, `CowMap.tla`, `MCIndirection.tla`
* `SegmentAllocator.tla`, `SKMap.tla`, `Blob.tla`, `DocumentIndex.tla`,
  `JournaledDocument.tla`, `MCDocument.tla`
* `NamespaceAlias.tla`, `Env.tla`, `Keys.tla`, `NamesProofs.tla`, `Services.tla`,
  `ServicesProofs.tla`, `Sessions.tla`, `SessionsProofs.tla`, `XPathAxes.tla`, `XPathParser.tla`, `XPathExpressions.tla`, `XmlNodes.tla`, `XmlParser.tla`, `XmlDocument.tla`, `MCRuntime.tla`
* `MC*.cfg`: one per run; `PROJECT.json` says which, with the definitions altered to
  show that each property can fail, and the source lines of every definition.

To check a run: `tlc -config MCWriters.cfg MCBranchManager`; the proofs: `tlapm PageStoreProofs.tla`.
