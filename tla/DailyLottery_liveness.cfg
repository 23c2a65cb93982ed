SPECIFICATION FairSpec
CONSTANTS
    Wallets = {w1, w2, w3}
    NoWallet = NoWallet
    TicketPrice = 1
    ServiceChargeBps = 9999
    MaxWinnersCap = 2
    BuyStart = 1
    BuyWindow = 1
    UploadWindow = 1
    RemediationWindow = 1
    MaxParticipants = 3
    WinnersPerPage = 2
    U32Max = 3
    MaxTickets = 3
    VaultRent = 1
    MaxBatch = 2
    Horizon = 5
    Never = 6
PROPERTIES
    Resolves
    VestedArePaid
    RefundsComplete
CHECK_DEADLOCK FALSE
