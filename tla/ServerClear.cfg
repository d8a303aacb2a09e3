\* Is ClearAuthAndACLs called only when no thread is active?
CONSTANTS
    Conns = {c1, c2, c3}
    Hosts = {h1, h2}
    Multi = {h2}
    MaxProcesses = 1
    MaxTries = 0
    Old = 1
    MaxClock = 2
    MaxPolicy = 1
    None = None
SPECIFICATION Spec
INVARIANT NoSessionWithoutACLs
CHECK_DEADLOCK FALSE
