CONSTANTS
    c1 = c1
    c2 = c2
    Clerks = {c1, c2}
    Scenarios <- MCScenarios
    MaxOrgs = 2
SPECIFICATION FairSpec
INVARIANTS OnlyFirstApplies StepAgrees
PROPERTIES RegistrationEnds SiteGetsPinned
CHECK_DEADLOCK FALSE
