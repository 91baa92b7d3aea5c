SPECIFICATION Spec
INVARIANTS
    TypeOK
    Identified
    FreeListsExact
    MapsKept
    BlobsKept
    IndexExact
    TreeConsistent
    MergedAsForked
\* The bounds stop the growth of every part.
CHECK_DEADLOCK FALSE
