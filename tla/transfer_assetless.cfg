SPECIFICATION FairSpec
CONSTANTS
    r1 = r1
    r2 = r2
    Recipients <- One
    MaxEndpoint = 2
    Donations <- AgreedOnly
    ZeroConf = TRUE
    NoAssetOnly <- AssetLess
    OnlyExpired = TRUE
    Faults = {"loss", "evict", "fee"}
CHECK_DEADLOCK FALSE
INVARIANTS FailedReceiverNeverAccepted SettledSenderLosesNoRecipient
PROPERTIES MinedReachesEveryRecipient SenderResolves
