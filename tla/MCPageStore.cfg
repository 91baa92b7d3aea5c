CONSTANTS
  Writers = {w1, w2}
  MaxNumber = 2
  PageLimit = 7
SYMMETRY Symmetry
SPECIFICATION Spec
CHECK_DEADLOCK FALSE
INVARIANTS TypeOK NoSharedPage NoPageLost ListsFull FreeCountExact
PROPERTY OwnershipKept
