\* A clerk alone, a clerk alone who crashes, and two clerks; two completed assignments, the
\* second of a guardian without a rate. An invoice may come to rest: deadlock is no error.
CONSTANTS
    c1 = c1
    c2 = c2
    Clerks = {c1, c2}
    Offices <- MCOffices
    Payments = {p1}
    Payouts = {k1, k2}
    MaxAssignments = 2
    Unrated = {2}
SPECIFICATION FairSpec
INVARIANTS TypeOK NoPayoutWithoutPayment PaidEarningsAccounted
PROPERTIES PaidIsFinal EarningsMove AccrualFollowsPayment UndisputedGetsIssued
CHECK_DEADLOCK FALSE
