SPECIFICATION Spec
CONSTANTS
    Objs <- Distinct
    Refused <- LongName
    Processes = {"p"}
    None = None
    Idle = Idle
    MaxChanges = 5
    MaxFaults = 2
CHECK_DEADLOCK FALSE
INVARIANTS
    TypeOK
    ChildrenAreGuarded
PROPERTIES
    LiveKeepsChildren
    EventuallySettled
