SPECIFICATION Spec
CONSTANTS
    Objs <- Joined
    Refused = {}
    Processes = {"p"}
    None = None
    Idle = Idle
    MaxChanges = 3
    MaxFaults = 0
CHECK_DEADLOCK FALSE
PROPERTIES
    LiveKeepsChildren
