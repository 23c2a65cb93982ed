SPECIFICATION Spec
CONSTANTS
    Programs = {p1, p2}
    NoProgram = NoProgram
    Series = {s1}
    Hashes = {h1, h2}
    Creators = {c1, c2}
    Authority = Authority
    Guardian = Guardian
    ActivationDelay = 1
    MaxIndex = 1
    MaxRecords = 4
    MaxInstances = 2
    Horizon = 3
SYMMETRY Symmetry
INVARIANTS
    TypeOK
    ActiveIsAudited
    TrailTellsAll
    NoticeGiven
    SuccessorsEnd
    OnePerBusinessKey
PROPERTIES
    DiscontinuedForGood
CHECK_DEADLOCK FALSE
