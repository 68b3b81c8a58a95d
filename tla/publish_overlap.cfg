SPECIFICATION Spec
CONSTANTS
    N = 3
    Publishes = {1, 2, 3}
    Overwrites = {1, 2, 3}
    Procs = {p1, p2}
    Edits = {}
SYMMETRY Symmetry
PROPERTY LaterAlwaysWins
CHECK_DEADLOCK FALSE
