CONSTANTS
    Main = Main
    Workers = {w1, w2}
    lastseen = lastseen
    locks = locks
    LockDb = locks
    MaxWait = 2
    None = None
CONSTANT DbOrder <- TwoDbs
SPECIFICATION FairSpec
CHECK_DEADLOCK FALSE
INVARIANT TypeOK EnvOpenForUsers CleanupBeforeSweep QuietAtExit
PROPERTY SweepEnds
