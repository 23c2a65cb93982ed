SPECIFICATION Spec
CONSTANTS
    c1 = c1
    c2 = c2
    c3 = c3
    Candidates = {c1, c2, c3}
    Order <- ThreeInOrder
    MaxWanted = 3
    Base = 2
    KeyLen = 3
INVARIANTS
    SelectionTypeOK
    RankKept
    WinnersAreSmallest
    NeverStuck
CHECK_DEADLOCK FALSE
