SPECIFICATION Spec
CONSTANTS
    r1 = r1  r2 = r2  r3 = r3
    o1 = o1
    p1 = p1  p2 = p2
    Requests = {r1}
    Origins = {o1}
    Params = {p1, p2}
    Wallets = {w1}
    Fees = {f1, f2}
    Decisions = {d1, d2}
    Ask <- AskSend
    MAX_PENDING_PER_ORIGIN = 3
    MaxNonce = 1
    WindowIdMayBeMissing = FALSE
    WorkerMayStop = TRUE
    NoWallet = NoWallet
    NoFee = NoFee
    NoDecision = NoDecision
SYMMETRY SendSymmetry
INVARIANTS TypeOK WaitingIsQueued SignedFeeWasShown OkMeansAtNode
PROPERTIES NoSignatureAfterDecision
