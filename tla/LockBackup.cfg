\* Two agents, two boots, two writes to the database.
CONSTANTS
    Pids = {a1, a2}
    Inodes <- MCInodes
    Chunks <- MCChunks
    MaxVersion = 3
    MaxBoot = 2
    None = None
SYMMETRY Symmetry
SPECIFICATION Spec
INVARIANTS BackupComplete RestoreKeepsLocks
CHECK_DEADLOCK FALSE
