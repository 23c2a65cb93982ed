SPECIFICATION FairSpec
CONSTANTS
    Candidates = {w1, w2}
    Base = 2
    KeyLen = 2
    NumberOfWinners = 2
    TotalPayout = 8
    ServiceFeeBps = 3000
    ActiveStart = 1
    ActiveWindow = 1
    UploadWindow = 1
    RemediationWindow = 2
    MaxParticipants = 2
    MaxReveals = 2
    U32Max = 4
    VaultRent = 1
    MaxBatch = 2
    MaxIdle = 1
    Horizon = 8
PROPERTIES
    Settles
CHECK_DEADLOCK FALSE
