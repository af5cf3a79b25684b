\* Both parties confirm at once.
CONSTANTS
    Users = {u1, u2}
    Proposals = {p1}
    Fees = {f1}
    AlarmUsers = {}
    Reporters = {}
    Threads = {t1, t2}
    Impatient = {}
    NoUser = NoUser
    NoFee = NoFee
    NoRequest = NoRequest
    NoProposal = NoProposal
SPECIFICATION SessionSpec
INVARIANT BothConfirmedCompletes
\* Everything can be closed and everybody withdrawn.
CHECK_DEADLOCK FALSE
