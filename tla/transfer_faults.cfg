SPECIFICATION Spec
CONSTANTS
    r1 = r1
    r2 = r2
    Recipients <- Two
    MaxEndpoint = 1
    Donations <- AnyDonation
    ZeroConf = FALSE
    NoAssetOnly <- AnyCall
    OnlyExpired = FALSE
    Faults = {"loss", "fee", "conflict", "resend"}
CHECK_DEADLOCK FALSE
INVARIANTS TypeOK DonationRowMeansBroadcast FailedNeverBroadcast
PROPERTIES StatusOnlyAdvances ImplementsAtomicPayment
SYMMETRY RecipientSymmetry
