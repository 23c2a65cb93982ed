SPECIFICATION Spec
CONSTANTS
    Wallets = {w1, w2, w3}
    NoWallet = NoWallet
    TicketPrice = 5
    ServiceChargeBps = 3000
    MaxWinnersCap = 2
    BuyStart = 1
    BuyWindow = 1
    UploadWindow = 2
    RemediationWindow = 1
    MaxParticipants = 3
    WinnersPerPage = 1
    U32Max = 3
    MaxTickets = 4
    VaultRent = 1
    MaxBatch = 0
    Horizon = 5
    Never = 6
SYMMETRY WalletSymmetry
INVARIANTS
    NoAttestedRevealOmitted
    SelectionSound
    WinnerCountIsPlurality
PROPERTIES
    EligibilityFrozen
CHECK_DEADLOCK FALSE
