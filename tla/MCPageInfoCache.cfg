SPECIFICATION Spec
CONSTANTS
    Allocators = {a1, a2}
    AbsolutePages <- MCPages
    MaxRevision = 3
    Branches = {b1, b2}
    MaxRelative = 5
    WrittenPages = {0}
    AllocationSizes = {2}
    AreaPages = 3
    PageInfoNumber = 2
    IndirectionNumber = 2
    PageInfoCaching = TRUE
PROPERTY CommittedKept
SYMMETRY Symmetry
CHECK_DEADLOCK FALSE
