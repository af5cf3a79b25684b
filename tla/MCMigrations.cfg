SPECIFICATION Spec
CONSTANTS
    Histories <- MCHistories
    Writes <- MCWrites
    MaxCrashes = 1
    MaxServed = 1
INVARIANTS
    TypeOK
    HeadServesTheModels
    MissionFactsSurvive
PROPERTIES
    OnlyKnownScriptsStop
    DeploymentsReachTheHead
CHECK_DEADLOCK FALSE
