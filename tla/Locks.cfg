\* Two agents, a files promise p1 and an edit_line promise p2 inside or beside
\* it up to the first use of a gap; with p1 alone every gap is used as often as
\* the bounds allow.  TypeOK is proved.
CONSTANTS
    Pids = {a1, a2}
    Promises = {p1, p2}
    Ignoring = {p2}
    Minute = 1
    IfElapsed = 1
    ExpireAfter = 0
    Horizon = 1
    Epoch = 1
    MaxClock = 3
    None = None
SYMMETRY Symmetry
CONSTRAINT NestedUntilGap
SPECIFICATION Spec
INVARIANTS LockExclusive LockNamesItsHolder NeverStopsItself IfElapsedKept
PROPERTIES KillsOnlyExpired YieldsOwnLock ImplementsPromiseLock
CHECK_DEADLOCK FALSE
