SPECIFICATION Spec
CONSTANTS
    Procs = {p1}
    Kinds = {"timer"}
    Nodes = {n1}
    Rules = {r1}
    AutoRules = {r1}
    Bodies = {b1}
    Overrides = {Keep}
    Keep = Keep
    NoRow = NoRow
    None = None
    Api = Api
    Static = Static
    Free = Free
    User = User
    Nil = Nil
    WarnCount = 3
    MaxEvents = 5
CHECK_DEADLOCK FALSE
INVARIANT WarnedFailuresInARow
