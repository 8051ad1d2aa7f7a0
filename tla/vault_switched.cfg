SPECIFICATION Spec
CONSTANTS
    Handlers = {h1, h2}
    Operations = {"create", "unlock", "switch"}
    Seeds = {s1}
    Passwords = {pw1}
    Indices = {1}
    MAX_WALLETS = 2
    MaxIds = 2
    WorkerMayStop = FALSE
    NoSeed = NoSeed
    NoPassword = NoPassword
    NoRecord = NoRecord
INVARIANTS OpenWalletIsActive
