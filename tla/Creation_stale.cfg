SPECIFICATION CreationSpec
CONSTANTS
    Programs = {p1, p2}
    NoProgram = NoProgram
    Series = {s1}
    Hashes = {h1}
    Creators = {w1, w2}
    Authority = Authority
    Guardian = Guardian
    ActivationDelay = 1
    MaxIndex = 2
    MaxRecords = 2
    MaxInstances = 2
    Horizon = 3
    Fees = {f1, f2}
    FeeUpdates = TRUE
    DayLength = 2
    NoStart = NoStart
    NoQuote = NoQuote
    MaxSigned = 1
SYMMETRY CreationSymmetry
CHECK_DEADLOCK FALSE
INVARIANTS
    CreationTypeOK
    InventoryComplete
    OpenedWhileActive
    OneOpeningPerDay
PROPERTIES
    QuotedTermsHonoured
