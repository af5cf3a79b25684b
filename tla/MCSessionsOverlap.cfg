\* All requests, two at a time: one account waits for its answers, two repeat themselves.
CONSTANTS
    Users = {u1, u2, u3}
    Proposals = {p1}
    Fees = {f1}
    AlarmUsers = {}
    Reporters = {}
    Threads = {t1, t2}
    Impatient = {u2, u3}
    NoUser = NoUser
    NoFee = NoFee
    NoRequest = NoRequest
    NoProposal = NoProposal
SPECIFICATION SessionSpec
SYMMETRY Symmetry
INVARIANTS
    LevelAtLeastCompletions
    CompletedMeansBothConfirmed
    DisputeHasEvidence
    PublicMeansPaid
    SingleActiveExecution
\* Everything can be closed and everybody withdrawn.
CHECK_DEADLOCK FALSE
