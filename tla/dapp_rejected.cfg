SPECIFICATION Spec
CONSTANTS
    r1 = r1  r2 = r2  r3 = r3
    o1 = o1
    p1 = p1  p2 = p2
    Requests = {r1}
    Origins = {o1}
    Params = {p1, p2}
    Wallets = {w1}
    Fees = {f1}
    Decisions = {d1}
    Ask <- AskSend
    MAX_PENDING_PER_ORIGIN = 3
    MaxNonce = 0
    WindowIdMayBeMissing = FALSE
    WorkerMayStop = FALSE
    NoWallet = NoWallet
    NoFee = NoFee
    NoDecision = NoDecision
PROPERTIES RejectedIsNotSigned
