\* One phone, whose requests overlap or wait for each other.
CONSTANTS
    Phones = {p1}
    Sessions = {s1, s2}
    MaxAttempts = 2
    TestCodeAllowed = TRUE
    MaxCodes = 3
    MaxOverlapCodes = 2
    MaxRows = 1
    MaxAccounts = 2
    MaxCrashes = 1
    NoPhone = NoPhone
    NoRequest = NoRequest
SPECIFICATION Spec
SYMMETRY Symmetry
INVARIANTS
    TypeOK
    OneAccountPerPhone
    WithdrawnLeavesNothing
    PatientGuessesBounded
    LiveCodeIsTried
    CodesMatchAccounts
\* The bounds on codes and accounts can be used up.
CHECK_DEADLOCK FALSE
