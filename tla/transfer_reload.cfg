SPECIFICATION Spec
CONSTANTS
    r1 = r1
    r2 = r2
    Recipients <- One
    MaxEndpoint = 2
    Donations <- AgreedOnly
    ZeroConf = FALSE
    NoAssetOnly <- AnyCall
    OnlyExpired = FALSE
    Faults = {"loss", "reload", "rejectlist", "resend"}
CHECK_DEADLOCK FALSE
INVARIANTS BroadcastNeedsEveryAck
