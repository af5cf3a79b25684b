\* The orderer accepts two offers at once.
CONSTANTS
    Users = {u1, u2, u3}
    Proposals = {p1}
    Fees = {f1}
    AlarmUsers = {}
    Reporters = {}
    Threads = {t1, t2}
    Impatient = {u1, u2, u3}
    NoUser = NoUser
    NoFee = NoFee
    NoRequest = NoRequest
    NoProposal = NoProposal
SPECIFICATION SessionSpec
INVARIANT SingleExecution
\* Everything can be closed and everybody withdrawn.
CHECK_DEADLOCK FALSE
