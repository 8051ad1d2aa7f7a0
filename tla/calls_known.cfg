SPECIFICATION Spec
CONSTANTS
    Calls = {b1, k1, k2}
    Broadcasts = {b1}
    Concurrency = 2
    MAX_RETRIES = 3
INVARIANTS SentIsNotAnError
SYMMETRY ReadSymmetry
CHECK_DEADLOCK FALSE
