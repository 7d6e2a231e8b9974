SPECIFICATION Spec
CONSTANTS
    c1 = c1
    c2 = c2
    c3 = c3
    n1 = n1
    n2 = n2
    NULL = NULL
    Clients <- ThreeClients
    Names <- TwoNames
    NSlots = 2
SYMMETRY Symmetry
INVARIANTS TypeOK MutexHeld SizeCounts OneSlotEach EmptyToken
PROPERTIES WaitSeesEmpty
CHECK_DEADLOCK FALSE
