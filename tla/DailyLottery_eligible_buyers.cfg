SPECIFICATION Spec
CONSTANTS
    Wallets = {w1, w2}
    NoWallet = NoWallet
    TicketPrice = 5
    ServiceChargeBps = 3000
    MaxWinnersCap = 2
    BuyStart = 1
    BuyWindow = 1
    UploadWindow = 1
    RemediationWindow = 2
    MaxParticipants = 2
    WinnersPerPage = 2
    U32Max = 2
    MaxTickets = 3
    VaultRent = 1
    MaxBatch = 2
    Horizon = 7
    Never = 8
SYMMETRY WalletSymmetry
INVARIANTS
    EveryBuyerEligible
CHECK_DEADLOCK FALSE
