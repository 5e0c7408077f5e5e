SPECIFICATION Spec
CONSTANTS
    Requests = {r1, r2}
    Emails = {a, b}
    Garbage = Garbage
    None = None
    Outcomes = {"confirmed", "unconfirmed", "rejected"}
    ConsumerLoss = TRUE
    MaxFaults = 2
CHECK_DEADLOCK FALSE
INVARIANTS
    TypeOK
    NoEventLost
    OneAccountPerEmail
    AttemptsWereFailures
PROPERTIES
    EveryEventSettles
