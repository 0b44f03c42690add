SPECIFICATION FairSpec
CONSTANTS
    d = d
    c = c
    p = p
    i = i
    s = s
    r = r
    o = o
    issue = issue
    Funding <- TheDeposit
    Creates <- TheCreate
    Payments <- ThePayment
    Colored <- AllColored
    Made <- Outputs
    SkipSync <- NotSkipped
    Inflations <- TheInflation
    Sends <- TheSend
    Receives <- TheReceive
    OthersInflations <- TheOther
    Issue = issue
    IssuedTokens = 2
    IssuedRights = 2
    MaxAmount = 1
    Lists <- SomeLists
CHECK_DEADLOCK FALSE
INVARIANTS TypeOK PublicMovesAllocations OwnedWithinKnown OwnedWithinIssued
PROPERTIES RetryFindsAllowedInputs SendBeginEnds
