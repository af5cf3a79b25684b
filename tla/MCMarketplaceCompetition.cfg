\* One proposal, three users: runners compete for it, everybody uses the alarm.
CONSTANTS
    Users = {u1, u2, u3}
    Proposals = {p1}
    Fees = {f1}
    AlarmUsers = {u1, u2, u3}
    Reporters = {u1, u2, u3}
    NoUser = NoUser
    NoFee = NoFee
SPECIFICATION Spec
SYMMETRY Symmetry
INVARIANTS
    TypeOK
    SingleExecution
    StatusesAgree
    OffersWaitOnlyWhenOffered
    WithdrawnIsInert
    EvidencePerDispute
    ReportedIffAccepted
    ConfirmationsAgree
    ExecutionCanFinish
    ProgressNoticesTruthful
PROPERTIES
    MatchIsFinal
    OnlyDocumentedTransitions
    ImplementsExecutionLife
\* Everything can be closed and everybody withdrawn.
CHECK_DEADLOCK FALSE
