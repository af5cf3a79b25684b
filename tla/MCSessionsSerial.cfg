\* One thread; two proposals, each user orderer and runner at once, one uses the alarm.
CONSTANTS
    Users = {u1, u2}
    Proposals = {p1, p2}
    Fees = {f1, f2}
    AlarmUsers = {u1}
    Reporters = {u2}
    Threads = {t1}
    Impatient = {u1}
    NoUser = NoUser
    NoFee = NoFee
    NoRequest = NoRequest
    NoProposal = NoProposal
SPECIFICATION SessionSpec
SYMMETRY Symmetry
INVARIANTS
    SessionTypeOK
    LevelCountsCompletions
    PaidAsPosted
PROPERTY SerialSpec
CONSTRAINT FewNotifications
\* Everything can be closed and everybody withdrawn.
CHECK_DEADLOCK FALSE
