SPECIFICATION Spec
CONSTANTS
    t1 = t1
    t2 = t2
    x = x
    y = y
    z = z
    Threads = {t1, t2}
    Oids = {x, y, z}
    Data = {d1, d2}
    Absent = Absent
    WriteSet <- TwoAndOne
    MaxRevived = 1
INVARIANTS TypeOK FlushNeverThrows BackupsHoldCommitted ForEachIsView SizeIsView
PROPERTY ImplementsMap
SYMMETRY DataSymmetry
