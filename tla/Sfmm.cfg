SPECIFICATION Spec
CONSTANTS
    Page = 6
    MaxPages = 2
    NQuick = 1
    QuickMax = 2
    WordMod = 1024
    Requests = {24, 32, 72, 104}
    MaxHeld = 4
INVARIANTS TypeOK Tiles ListsHoldFree
PROPERTIES RefinesAllocator FaultsAreStale
CHECK_DEADLOCK FALSE
