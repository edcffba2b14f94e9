CONSTANTS
    Calls = {a, b}
    Machines = {m1}
    MaxConns = 2
    MaxKeys = 2
SPECIFICATION Spec
SYMMETRY Symmetry
INVARIANTS
    RememberedIsRegistered
    NoCorpse
    PairingSurvives
CHECK_DEADLOCK FALSE
