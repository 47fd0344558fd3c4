\* Two requests at the same time, early release with the client's approval; no-shows
\* and repeated dispatch requests are in JobLifecycle_redispatch.cfg.
CONSTANTS
    MaxRows = 3
    Requested = 2
    Parallel = 2
    MaxOffers = 3
    MaxReplacementOffers = 1
    MaxEvents = 2
    Dispatchers = {d1}
    Clerks = {c1, c2}
    Requests = {}
    AllowsEarlyRelease = TRUE
    ClientApproves = TRUE
    MayCrash = FALSE
SPECIFICATION Spec
SYMMETRY Symmetric
INVARIANTS TypeOK SeekingHasDeparting OrdinaryDoneAtConfirmation
CHECK_DEADLOCK FALSE
