\* two nodes, one address: the fan-out, its undo and what interrupts them
CONSTANTS
    n1 = n1  n2 = n2  a1 = a1  a2 = a2  b1 = b1  b2 = b2  keep = keep
    Nodes = {n1, n2}
    Addrs = {a1}
    BaseAddr = a1
    Bodies = {b1, b2}
    Overrides <- PauseOv
    Keep = keep
    NoBody = NoBody
    NoNode = NoNode
    Lost = Lost
    Faults = {"timeout", "undo", "commit", "crash"}
    MaxOrphans = 2
SPECIFICATION BothSpec
SYMMETRY NodeSymmetry
INVARIANTS DivergenceAccounted FaultlessAllOrNothing
PROPERTY KeepsPromise
