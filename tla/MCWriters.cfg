CONSTANTS
  NoThread = NoThread
  Threads = {t1, t2}
  MaxBranches = 1
  MaxRevisions = 4
  MaxDocuments = 2
  MaxEdits = 1
  MaxHeld = 1
  InitialBranches = 1
  OpenFlags = {"Read", "ExplicitRead", "Write", "AsRevision", "ResetRevision"}
  Uses = {"abandon", "collect"}
CHECK_DEADLOCK FALSE
SYMMETRY Symmetry
SPECIFICATION Spec
INVARIANTS LinearHistory GrantHolds
PROPERTIES NoLostUpdate
