\* Bookings of an evening, two or three guardians one after the other.
CONSTANTS
    Rows = {1, 2, 3}
    Opening = 89
    Horizon = 93
    Windows <- MCWindows
    MinimumBooking = 2
    BillingPolicies <- MCBilling
    PayPolicies <- MCPay
    PricingRules <- MCRules
    NoShowAfter = 1
    NoShowGrace = 1
    EarlyBy = 1
    LateBy = 1
    Lookback = 48
    Timers = {s1, s2}
    Scenarios <- MCScenarios
SPECIFICATION Spec
INVARIANTS TypeOK ChargedAsAgreed PaidAsAgreed AlertedOnce
CHECK_DEADLOCK FALSE
