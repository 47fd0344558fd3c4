\* One slot, two offers, two sessions, two dispatch workers; no symmetry, for liveness.
CONSTANTS
    Offers = {o1, o2}
    Requested = 1
    Parallel = 2
    Txns = {t1, t2}
    Workers = {w1, w2}
    None = None
SPECIFICATION FairSpec
INVARIANTS TypeOK NoOverstaffing
PROPERTIES ImplementsSlotPool EveryRequestAnswered
CHECK_DEADLOCK FALSE
