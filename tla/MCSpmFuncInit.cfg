SPECIFICATION Spec
CONSTANTS
    i1 = i1
    i2 = i2
    i3 = i3
    t1 = t1
    t2 = t2
    t3 = t3
    NoIrq = NoIrq
    NoThread = NoThread
    LastPart = 3
    Irqs = {i1, i2, i3}
    Threads = {t1, t2}
    Callees <- MCCallees
    IrqPart <- MCIrqPart
    IrqPrio <- MCIrqPrio
    Disables = {i2}
    InitFails <- MCFails
    MaxNs = 2
    MaxRaises = 3
    MaxIds = 3
SYMMETRY MCSymmetry
INVARIANT FailedIsClosed
