SPECIFICATION Spec
CONSTANTS
    Clients = {c1}
    Oids = {x, y}
    InitialOids = {x}
    IteratorIncrement = 1
    FreezeThreshold = 1
    MaxOps = 3
INVARIANTS TransferExact
CHECK_DEADLOCK FALSE
