SPECIFICATION Spec
CONSTANTS
    Contexts = {popup, worker}
    Screens = {popup}
    Requests = {r1}
    Kinds = {"read", "explain", "broadcast", "chat"}
    RETRY_ATTEMPTS = 1
    MaxWrites = 2
    MaxVersion = 2
    Unknown = Unknown
    NoDecision = NoDecision
PROPERTIES NoAttemptAfterWithdrawal
