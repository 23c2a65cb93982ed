SPECIFICATION Spec
CONSTANTS
    Wallets = {w1, w2, w3}
    NoWallet = NoWallet
    TicketPrice = 5
    ServiceChargeBps = 3000
    MaxWinnersCap = 2
    BuyStart = 1
    BuyWindow = 1
    UploadWindow = 2
    RemediationWindow = 1
    MaxParticipants = 3
    WinnersPerPage = 2
    U32Max = 3
    MaxTickets = 3
    VaultRent = 1
    MaxBatch = 2
    Horizon = 6
    Never = 7
SYMMETRY WalletSymmetry
INVARIANTS
    TypeOK
    NobodyBlocked
    Solvent
    PaidExactly
    AuthorityPaidLast
PROPERTIES
    OutcomeIsFinal
    ImplementsEscrow
CHECK_DEADLOCK FALSE
