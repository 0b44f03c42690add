SPECIFICATION Spec
CONSTANTS
    d = d
    c = c
    p = p
    i = i
    s = s
    r = r
    o = o
    issue = issue
    Funding <- TheDeposit
    Creates <- TheCreate
    Payments <- ThePayment
    Colored <- AllColored
    Made <- Outputs
    SkipSync <- NotSkipped
    Inflations <- TheInflation
    Sends <- TheSend
    Receives <- TheReceive
    OthersInflations <- Nobody
    Issue = issue
    IssuedTokens = 1
    IssuedRights = 1
    MaxAmount = 1
    Lists <- NoLists
CHECK_DEADLOCK FALSE
INVARIANTS KnownWithinMax
