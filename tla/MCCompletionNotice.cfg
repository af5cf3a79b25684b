CONSTANTS
    Users = {u1, u2}
    Proposals = {p1}
    Fees = {f1}
    AlarmUsers = {u1, u2}
    Reporters = {u1, u2}
    NoUser = NoUser
    NoFee = NoFee
SPECIFICATION Spec
INVARIANT CompletionNoticeMeansBothConfirmed
CHECK_DEADLOCK FALSE
