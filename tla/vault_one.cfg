SPECIFICATION Spec
CONSTANTS
    Handlers = {h1}
    Operations = {"create", "unlock", "derive", "restore", "reveal", "list", "switch", "rename", "remove"}
    Seeds = {s1, s2}
    Passwords = {pw1, pw2}
    Indices = {1}
    MAX_WALLETS = 2
    MaxIds = 3
    WorkerMayStop = TRUE
    NoSeed = NoSeed
    NoPassword = NoPassword
    NoRecord = NoRecord
SYMMETRY Symmetry
INVARIANTS TypeOK RemovedStaysRemoved OpensWithAgreedPassword
PROPERTIES KeepsShelf
