SPECIFICATION RoundsSpec
CONSTANTS
    p1 = p1
    n1 = n1
    n2 = n2
    Procs = {p1, p2}
    Kinds = {"timer"}
    Nodes = {n1}
    Rules = {r1}
    AutoRules = {r1}
    Bodies = {b1, b2}
    Overrides = {Keep, b1}
    Keep = Keep
    NoRow = NoRow
    None = None
    Api = Api
    Static = Static
    Free = Free
    User = User
    Nil = Nil
    WarnCount = 1
    MaxEvents = 3
CHECK_DEADLOCK FALSE
INVARIANTS BothInv SlotsAgree NamedLockInRound
PROPERTY Converges
