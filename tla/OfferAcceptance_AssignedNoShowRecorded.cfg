\* Two slots, three offers, two sessions and one dispatch worker.
CONSTANTS
    Offers = {o1, o2, o3}
    Requested = 2
    Parallel = 3
    Txns = {t1, t2}
    Workers = {w1}
    None = None
SPECIFICATION Spec
CHECK_DEADLOCK FALSE
PROPERTY AssignedNoShowRecorded
