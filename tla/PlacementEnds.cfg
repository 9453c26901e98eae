\* one node, two addresses: moves, late calls and others; two nodes, one address: every transaction ends
CONSTANTS
    n1 = n1  n2 = n2  n3 = n3  a1 = a1  a2 = a2  b1 = b1  b2 = b2  keep = keep
    Nodes = {n1}
    Addrs = {a1, a2}
    BaseAddr = a1
    Bodies = {b1}
    Overrides <- MoveOv
    Keep = keep
    NoBody = NoBody
    NoNode = NoNode
    Lost = Lost
    Faults = {"timeout", "undo", "commit", "crash", "restart", "external"}
    MaxOrphans = 1
    MaxScreenEvents = 4
SPECIFICATION EndsSpec
INVARIANT IInv
PROPERTIES ApiRulesSpared GroupLockReleased ShownNeverOlder CatchesUp
