\* Two guardians of whom the first is managed, two jobs of one slot, a pool of one. Guardians may
\* all rest: deadlock is no error.
CONSTANTS
    Clerks = {c1}
    Scenarios <- MCScenarios
    j1 = j1
    j2 = j2
    Jobs = {j1, j2}
    MaxGuardians = 2
    Slots = 1
    Parallel = 1
    PoolSize = 1
SPECIFICATION FairSpec
INVARIANTS TypeOK RoundsKeepApart
PROPERTIES OfferedInGoodStanding StaysOffDuty BusyComesFree EveryCandidateAsked
CHECK_DEADLOCK FALSE
