\* The scheduling thread and one worker; every descriptor is beyond the first
\* table.  Returns says more than that nothing blocks for ever.
CONSTANTS
    Main = Main
    Workers = {w1}
    Pids = {p1, p2}
    Fds = {1, 2, 3, 4}
    FirstMax = 1
    Grow = 1
    None = None
SPECIFICATION FairSpec
CONSTRAINT BeforeEnd
INVARIANTS TypeOK SignalsOwnChild ChildrenWaitedFor
PROPERTY Returns
CHECK_DEADLOCK FALSE
