\* Liveness, with crashes between any two steps: a smaller job, early release
\* without the client's approval, and no symmetry.
CONSTANTS
    MaxRows = 2
    Requested = 2
    Parallel = 2
    MaxOffers = 2
    MaxReplacementOffers = 1
    MaxEvents = 2
    Dispatchers = {d1}
    Clerks = {c1}
    Requests = {"dispatch", "cancel", "noShow"}
    AllowsEarlyRelease = TRUE
    ClientApproves = FALSE
    MayCrash = TRUE
SPECIFICATION FairSpec
PROPERTY SearchEnds
CHECK_DEADLOCK FALSE
