------------------------------- MODULE MCDocument -------------------------------
(******************************************************************************)
(* The parts of a document that do not share state, checked side by side: the *)
(* segment allocator, the maps, the blobs, the indexes, and the trees with    *)
(* their journals.  A behaviour is one of one part; the variables of the      *)
(* others are idle.                                                           *)
(******************************************************************************)
EXTENDS Naturals, FiniteSets, Sequences

VARIABLES
    part,                                      \* the part that runs
    coalesces, document, allocated, lost,      \* of SegmentAllocator
    single, map, content,                      \* of SKMap
    blob, written, thrown,                     \* of Blob
    setup, declared, indexed, current, open, inserted,    \* of DocumentIndex
    doc, nextElementId, forked, edits, uncarried, merged  \* of JournaledDocument

segmentVars == <<coalesces, document, allocated, lost>>
mapVars == <<single, map, content>>
blobVars == <<blob, written, thrown>>
indexVars == <<setup, declared, indexed, current, open, inserted>>
journalVars == <<doc, nextElementId, forked, edits, uncarried, merged>>
vars == <<part, segmentVars, mapVars, blobVars, indexVars, journalVars>>

(* A page of 3 units and areas of 3 pages: coalescing meets both boundaries,   *)
(* and a segment of 4 units takes more than a page.                            *)
Segments == INSTANCE SegmentAllocator WITH
    PageUnits <- 3, AreaPages <- 3, MinimumNumber <- 2, LevelNumber <- 3, HeadUnits <- 1,
    Sizes <- {1, 4}, MaxPages <- 5

(* Three hashes, so that an item goes before, between and after the others;    *)
(* lists of 2 values, so that one fills, and three of the values.              *)
Maps == INSTANCE SKMap WITH
    MaxLevel <- 3, maxNumber <- 2, Hashes <- 1 .. 3, Values <- {11, 12}, MaxValues <- 3

(* Units of 2 bytes and segments of at most 2 units: writes end inside a unit, *)
(* at its end, in the next piece and after it.                                 *)
BlobPieces == INSTANCE Blob WITH
    Blobs <- {"source", "target"}, Unit <- 2, SegmentSizeMax <- 4, MaxSize <- 5, MaxWrite <- 2,
    Bytes <- {1, 2}, Garbage <- 0

(* Three changes: an insertion next to an element that was inserted itself, or *)
(* next to one that is deleted after.                                          *)
Journals == INSTANCE JournaledDocument WITH
    MaxElements <- 6, IdBlock <- 4, Contents <- {1, 2}, MaxEdits <- 3,
    MaxBaseEdits <- 1, Edits <- {"move"}

(* What a declared index keeps up with: elements that are appended and removed, *)
(* before it if it matches elements, and changes of an attribute if it matches  *)
(* that. An index of an attribute, or with an order, is declared first. What    *)
(* key() builds is for a document that does not change any more.                *)
Index(kind, match, scope, orderby, early, before, after) ==
    [kind |-> kind, match |-> match, scope |-> scope, orderby |-> orderby, early |-> early,
     before |-> before, after |-> after]
Indexes == INSTANCE DocumentIndex WITH
    doc <- indexed, MaxElements <- 4, MaxValue <- 3,
    Setups <- LET Grow == {"append", "remove"}
                  Build == {"append", "attribute", "insert"}
                  All == Grow \cup Build \cup {"remove attribute", "update attribute"}
              IN  {Index("index", "a", "/", TRUE, TRUE, {}, Grow),
                   Index("index", "a", "ancestor::s", FALSE, FALSE, Build, Grow),
                   Index("index", "@k", "ancestor::s", FALSE, TRUE, {}, Build),
                   Index("index", "a[@k]", "ancestor::s", FALSE, TRUE, {}, Grow),
                   Index("key", "a", "/", FALSE, FALSE, All, {})}

IdleSegments == coalesces = 0 /\ document = 0 /\ allocated = 0 /\ lost = 0
IdleMaps == single = 0 /\ map = 0 /\ content = 0
IdleBlobs == blob = 0 /\ written = 0 /\ thrown = 0
IdleIndexes == /\ setup = 0 /\ declared = 0 /\ indexed = 0
               /\ current = 0 /\ open = 0 /\ inserted = 0
IdleJournals == /\ doc = 0 /\ nextElementId = 0 /\ forked = 0
                /\ edits = 0 /\ uncarried = 0 /\ merged = 0

Init ==
    /\ part \in {"segments", "maps", "blobs", "indexes", "journals"}
    /\ IF part = "segments" THEN Segments!Init ELSE IdleSegments
    /\ IF part = "maps" THEN Maps!Init ELSE IdleMaps
    /\ IF part = "blobs" THEN BlobPieces!Init ELSE IdleBlobs
    /\ IF part = "indexes" THEN Indexes!Init ELSE IdleIndexes
    /\ IF part = "journals" THEN Journals!Init ELSE IdleJournals

Next ==
    /\ UNCHANGED part
    /\ \/ part = "segments" /\ Segments!Next
          /\ UNCHANGED <<mapVars, blobVars, indexVars, journalVars>>
       \/ part = "maps" /\ Maps!Next
          /\ UNCHANGED <<segmentVars, blobVars, indexVars, journalVars>>
       \/ part = "blobs" /\ BlobPieces!Next
          /\ UNCHANGED <<segmentVars, mapVars, indexVars, journalVars>>
       \/ part = "indexes" /\ Indexes!Next
          /\ UNCHANGED <<segmentVars, mapVars, blobVars, journalVars>>
       \/ part = "journals" /\ Journals!Next
          /\ UNCHANGED <<segmentVars, mapVars, blobVars, indexVars>>

Spec == Init /\ [][Next]_vars

--------------------------------------------------------------------------------
(* The properties of each part.                                                *)

(* The state of every part has its type.                                       *)
TypeOK ==
    /\ part = "segments" => Segments!TypeOK
    /\ part = "maps" => Maps!TypeOK
    /\ part = "blobs" => BlobPieces!TypeOK
    /\ part = "indexes" => Indexes!TypeOK
    /\ part = "journals" => Journals!TypeOK

(* Every unit of the document is allocated, free, or lost at the end of an     *)
(* area: none twice, none forgotten (documentallocator.cpp).                   *)
Identified == part = "segments" => Segments!Identified

(* The lists of free segments by level and by page, linked, hold each free    *)
(* segment once, at its place (unmarkSegmentAsFree, coalesceFreeSegment).      *)
FreeListsExact == part = "segments" => Segments!LevelsExact /\ Segments!PageListsExact

(* Every level of a skip list is ordered and complete (SKMapRef::iterator);    *)
(* a map gives what was put in it, in order, and keeps no other segment        *)
(* (SKMultiMapRef::multi_iterator).                                            *)
MapsKept == part = "maps" => Maps!SkipListOrdered /\ Maps!ContentKept

(* The pieces of a blob tile it, one ends it (BlobRef::check), and reading     *)
(* them gives the bytes that were written (BlobRef::writePiece).               *)
BlobsKept == part = "blobs" => BlobPieces!PiecesTile /\ BlobPieces!ReadsWhatWasWritten

(* A file is read in a blob whatever the blob holds (allowWritePiece).         *)
FilesRead == part = "blobs" => BlobPieces!FilesRead

(* An index finds what it should, and nothing else, in its order              *)
(* (XemProcessor::domMetaIndexerTrigger, XPath::evalFunctionKeyBuild).         *)
IndexExact == part = "indexes" => Indexes!IndexExact /\ Indexes!SiblingsSorted

(* The links of the elements make one tree (elementref.cpp).                   *)
TreeConsistent == part = "journals" => Journals!TreeConsistent

(* Merging a fork gives its tree (JournaledDocument::applyJournal).            *)
MergedAsForked == part = "journals" => Journals!MergedAsForked

(* Elements keep ids of their own through forks and merges (superblock.h).     *)
IdentifiersUnique == part = "journals" => Journals!IdentifiersUnique
================================================================================
