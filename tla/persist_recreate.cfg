SPECIFICATION Spec
CONSTANTS
    issue = issue
    refresh = refresh
    receive = receive
    Ops <- ThreeOps
    AutoSaved <- Triggering
    Exclusive <- Mutable
    MaxSeq = 4
    MaxSaves = 3
    Features = {"recreate"}
CHECK_DEADLOCK FALSE
INVARIANTS FlushIsDurable
