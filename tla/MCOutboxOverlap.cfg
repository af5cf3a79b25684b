\* Two background flushes and the retry overlap, with a crash, withdrawals and calls that raise.
CONSTANTS
    Rows = {n1, n2}
    Users = {u1, u2}
    Recipient <- MCRecipient
    Flushers = {f1, f2}
    Retrier = retrier
    MaxRetry = 2
    BatchLimit = 2
    Unflushed = {n1}
    Withdrawing = {u1}
    MaxCrashes = 1
    MaxPushes = 1
    NoBatch = NoBatch
SPECIFICATION Spec
INVARIANTS
    TypeOK
    RetriesBounded
    SentWasPushed
PROPERTIES
    SentIsNotPushedAgain
    FailureIsSettled
    ImplementsNotificationLife
\* Every row can be settled, every account withdrawn.
CHECK_DEADLOCK FALSE
