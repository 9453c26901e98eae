SPECIFICATION Spec
CONSTANTS
    Requests = {r1}
    Roles = {admin, user}
    MaxAge = 20
    Interval = 3
    Grace = 3
    Retry = 2
    Share = 2
    Timeout = 0
    Outages = FALSE
    SingleUse = FALSE
    Horizon = 8
    MaxTokens = 1
    NoCookie = NoCookie
    NoRole = NoRole
SYMMETRY RequestSymmetry
CHECK_DEADLOCK FALSE
INVARIANT RoleTakenAway
