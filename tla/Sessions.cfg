\* A clock of a tick per cooldown; a lockout after two wrong codes. A deleted account may rest:
\* deadlock is no error.
CONSTANTS
    d1 = d1
    d2 = d2
    Devices = {d1, d2}
    Patient = {d1}
    Cooldown = 1
    Ttl = 2
    Lockout = 3
    MAX_ATTEMPTS = 2
    CacheTtl = 2
    MaxCodes = 2
    MaxTokens = 3
    Scenarios <- MCScenarios
SPECIFICATION FairSpec
INVARIANTS TypeOK SessionsKept
PROPERTIES SignsIn OutdatedGetsDropped
CHECK_DEADLOCK FALSE
