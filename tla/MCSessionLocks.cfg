CONSTANTS
    Requests = {r1, r2}
    Ids = {1, 2}
    NoOne = NoOne
    Faults = {"write"}
SPECIFICATION Spec
PROPERTY ManagerReleased
CHECK_DEADLOCK FALSE
