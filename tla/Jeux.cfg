SPECIFICATION Spec
CONSTANTS
    c1 = c1
    c2 = c2
    c3 = c3
    v1 = v1
    v2 = v2
    NULL = NULL
    Clients <- TwoClients
    Invs <- TwoInvs
    NSlots = 2
    IdMod = 256
    MaxGames = 1
    MaxDown = 0
SYMMETRY Symmetry
INVARIANTS ListsAreProper RatedOnce
CHECK_DEADLOCK FALSE
