\* A client who answers a release while the automation approves it.
CONSTANTS
    Rows = {1, 2, 3}
    Opening = 89
    Horizon = 93
    Windows <- MCWindows
    MinimumBooking = 2
    BillingPolicies <- MCBilling
    PayPolicies <- MCPay
    PricingRules <- MCRules
    NoShowAfter = 1
    NoShowGrace = 1
    EarlyBy = 1
    LateBy = 1
    Lookback = 48
    Timers = {s1, s2}
    Scenarios <- MCOverlap
SPECIFICATION Spec
PROPERTY RejectionStands
CHECK_DEADLOCK FALSE
