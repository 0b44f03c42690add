SPECIFICATION FairSpec
CONSTANTS
    issue = issue
    refresh = refresh
    receive = receive
    Ops <- ThreeOps
    AutoSaved <- Triggering
    Exclusive <- Mutable
    MaxSeq = 4
    MaxSaves = 3
    Features = {"reload", "reopen", "new", "backup", "iofail"}
CHECK_DEADLOCK FALSE
INVARIANTS TypeOK FlushIsDurable
PROPERTIES ImplementsWriteBackStore AutoSaveComesBack
