SPECIFICATION Spec
CONSTANTS
    Handlers = {h1, h2}
    Operations = {"create", "derive", "restore", "switch"}
    Seeds = {s1, s2}
    Passwords = {pw1}
    Indices = {1}
    MAX_WALLETS = 2
    MaxIds = 3
    WorkerMayStop = FALSE
    NoSeed = NoSeed
    NoPassword = NoPassword
    NoRecord = NoRecord
SYMMETRY Symmetry
INVARIANTS WalletsWithinLimit PhrasesMatch
