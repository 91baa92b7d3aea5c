CONSTANTS
  NoThread = NoThread
  Threads = {t1, t2}
  MaxBranches = 1
  MaxRevisions = 4
  MaxDocuments = 3
  MaxEdits = 0
  MaxHeld = 1
  InitialBranches = 1
  OpenFlags = {"Read", "Write", "AsRevision", "ResetRevision", "FollowBranch"}
  Uses = {}
CHECK_DEADLOCK FALSE
SPECIFICATION FairSpec
PROPERTIES BranchManagerReleased
