\* Repeated dispatch requests and no-shows beside other requests: what they read is stale
\* when they write. Early release with the client's approval; a job may stop for good, so deadlock is no error.
CONSTANTS
    MaxRows = 3
    Requested = 1
    Parallel = 2
    MaxOffers = 3
    MaxReplacementOffers = 1
    MaxEvents = 2
    Dispatchers = {d1}
    Clerks = {c1, c2}
    Requests = {"dispatch", "noShow"}
    AllowsEarlyRelease = TRUE
    ClientApproves = TRUE
    MayCrash = FALSE
SPECIFICATION Spec
SYMMETRY Symmetric
INVARIANT SlotBudget
PROPERTIES SearchNeverStalls AssignmentsMoveAsAllowed
CHECK_DEADLOCK FALSE
