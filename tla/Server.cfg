\* Three connections at a time from two hosts, one of them in allowallconnects;
\* two sessions at a time, one reload, and time for an entry to grow too old.
CONSTANTS
    Conns = {c1, c2, c3}
    Hosts = {h1, h2}
    Multi = {h2}
    MaxProcesses = 1
    MaxTries = 0
    Old = 1
    MaxClock = 2
    MaxPolicy = 1
    None = None
SPECIFICATION Spec
INVARIANTS TypeOK ActiveThreadsCounts SessionKeepsPolicy NoStaleEntry OneConnectionPerHost
PROPERTY Stops
CHECK_DEADLOCK FALSE
