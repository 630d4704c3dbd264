\* Two workers of one cohort, two sets of credentials, two generations.
CONSTANTS
    Worker = {1, 2}
    Cohort = {1}
    Hash = {1}
    CohortOf <- MCCohortOf
    HashOf <- MCHashOf
    PerCred = 2
    Value = {1, 2}
    MaxGen = 2
SPECIFICATION FairSpec
INVARIANT HoldingsCovered RejectedNotReused
PROPERTY StaleLeaseHarmless NobodyStuck
CHECK_DEADLOCK FALSE
