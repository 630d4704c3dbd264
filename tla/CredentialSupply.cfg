\* Three configurations of two cohorts: own call, calls path and ladder, seeded hash.
CONSTANTS
    Worker = {1, 2}
    Cohort = {1, 2}
    Hash = {1}
    CohortOf <- MCCohortOf
    HashOf <- MCHashOf
    PerCred = 1
    Value = {1}
    MaxGen = 1
    Conf <- MCConf
    CallsTries = 2
    LegacyTries = 2
    MaxCaptchas = 1
SPECIFICATION FairSpec
INVARIANT FetchIsOwn LockoutRespected GoneIsNoticed
PROPERTY ImplementsCredentials
CHECK_DEADLOCK FALSE
