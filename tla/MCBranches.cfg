CONSTANTS
  NoThread = NoThread
  Threads = {t1, t2}
  MaxBranches = 3
  MaxRevisions = 4
  MaxDocuments = 2
  MaxEdits = 0
  MaxHeld = 1
  InitialBranches = 2
  OpenFlags = {"AsRevision", "ExplicitRead"}
  Uses = {"create", "fork", "remove", "collect"}
CHECK_DEADLOCK FALSE
SYMMETRY Symmetry
SPECIFICATION Spec
INVARIANTS TypeOK BasesKept DocumentsKept ReferencesCounted
PROPERTIES HistoryKept
