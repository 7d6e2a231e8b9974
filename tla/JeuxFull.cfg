SPECIFICATION Spec
CONSTANTS
    c1 = c1
    c2 = c2
    c3 = c3
    v1 = v1
    v2 = v2
    NULL = NULL
    Clients <- TwoClients
    Invs <- TwoInvs
    NSlots = 1
    IdMod = 256
    MaxGames = 1
    MaxDown = 1
SYMMETRY Symmetry
INVARIANTS ListsAgree OneCloser OneRemover
CHECK_DEADLOCK FALSE
