SPECIFICATION ElectionSpec
CONSTANTS
    Voters = {v1, v2, v3}
    MaxWeight = 2
    MaxWinners = 3
    Never = 4
SYMMETRY VoterSymmetry
INVARIANTS
    ElectsPlurality
CHECK_DEADLOCK FALSE
