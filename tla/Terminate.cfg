\* One killer; the pid is given out three times.  KillTypeOK is proved.
CONSTANTS
    Killers = {k1}
    MaxPid = 3
    MaxPolls = 2
SPECIFICATION FairKillSpec
INVARIANTS HitsOnlyTarget NotLeftStopped TrueMeansSignalled
PROPERTY KillReturns
CHECK_DEADLOCK FALSE
