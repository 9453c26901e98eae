SPECIFICATION SignInSpec
CONSTANTS
    r1 = r1
    r2 = r2
    member = member
    Requests = {r3}
    Roles = {admin, user}
    MaxAge = 5
    Interval = 1
    Grace = 2
    Retry = 2
    Share = 1
    Timeout = 1
    Outages = TRUE
    SingleUse = TRUE
    Horizon = 5
    MaxTokens = 2
    NoCookie = NoCookie
    NoRole = NoRole
SYMMETRY SignInSymmetry
CHECK_DEADLOCK FALSE
INVARIANTS BothInv RoleAge SharedAnswer SessionEnds
