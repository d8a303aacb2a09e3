\* Three agents, two crashes.
CONSTANTS
    Agents = {a1, a2, a3}
    Minute = 3
    MaxCrashes = 2
    None = None
SPECIFICATION Spec
PROPERTY WaitersMoveOn
CHECK_DEADLOCK FALSE
