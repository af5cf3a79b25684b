\* One notification of an endpoint that schedules no flush.
CONSTANTS
    Rows = {n1}
    Users = {u1}
    Recipient <- MCRecipient
    Flushers = {f1}
    Retrier = retrier
    MaxRetry = 2
    BatchLimit = 2
    Unflushed = {n1}
    Withdrawing = {}
    MaxCrashes = 0
    MaxPushes = 1
    NoBatch = NoBatch
SPECIFICATION Spec
PROPERTY PendingIsTried
\* Every row can be settled, every account withdrawn.
CHECK_DEADLOCK FALSE
