\* One phone whose requests overlap, and the limit of the code: five attempts.
CONSTANTS
    Phones = {p1}
    Sessions = {s1, s2}
    MaxAttempts = 5
    TestCodeAllowed = FALSE
    MaxCodes = 1
    MaxOverlapCodes = 1
    MaxRows = 1
    MaxAccounts = 1
    MaxCrashes = 0
    NoPhone = NoPhone
    NoRequest = NoRequest
SPECIFICATION Spec
SYMMETRY Symmetry
INVARIANT
    GuessesBounded
\* The bounds on codes and accounts can be used up.
CHECK_DEADLOCK FALSE
