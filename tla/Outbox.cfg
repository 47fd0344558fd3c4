\* Two processes and two events. The bound on events, not the system, ends their chain:
\* deadlock is no error.
CONSTANTS
    Processes = {p1, p2}
    MaxEvents = 2
    Scenarios <- MCScenarios
SPECIFICATION FairSpec
INVARIANTS TypeOK StartedOnce
PROPERTIES DueEventsSettle OffersEnd
CHECK_DEADLOCK FALSE
