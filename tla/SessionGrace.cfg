SPECIFICATION Spec
CONSTANTS
    Requests = {r1}
    Roles = {admin}
    MaxAge = 60
    Interval = 15
    Grace = 3
    Retry = 3
    Share = 2
    Timeout = 0
    Outages = TRUE
    SingleUse = FALSE
    Horizon = 48
    MaxTokens = 1
    NoCookie = NoCookie
    NoRole = NoRole
SYMMETRY RequestSymmetry
CHECK_DEADLOCK FALSE
INVARIANT GraceKept
