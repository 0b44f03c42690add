SPECIFICATION Spec
CONSTANTS
    u1 = u1
    u2 = u2
    issue = issue
    blind = blind
    witness = witness
    s1 = s1
    s2 = s2
    Utxos <- OneUtxo
    Issues <- OneIssue
    Blind <- OneBlind
    Witness <- OneWitness
    Sends <- TwoSends
    AssetOf <- ByKind
    MaxAmount = 2
    InvoiceAmounts = {0}
    MaxAllocations = 2
    FeeInputs = FALSE
    Interleaved = FALSE
CHECK_DEADLOCK FALSE
INVARIANTS TypeOK NothingIsBurned SettledIsOwned SpendableIsSelectable SendsTakeDisjointAllocations
SYMMETRY SendSymmetry
