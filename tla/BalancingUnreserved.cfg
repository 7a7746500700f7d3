SPECIFICATION BSpec
CONSTANTS
    ShieldedTokens = {"z"}
    UnshieldedTokens = {"n", "u"}
    Night = "n"
    Nights = {1, 2}
    InitialCoins <- MCCoins
    Cap <- MCCap
    Payments <- MCPayments
    Requests <- MCRequests
    Prices = {1, 2}
    HostRules = {"balanceAlone", "importIdle"}
    DustRounds = 8
    MaxTransactions = 2
    Originals <- MCOriginals
    Segments = {0, 1, 2}
    MaxApprovals = 1
CHECK_DEADLOCK FALSE
INVARIANTS SubmittedInputsArePending
