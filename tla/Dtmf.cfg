SPECIFICATION Spec
CONSTANTS
    Symbols = {"1", "2", "5"}
    Silence = "-"
    EventLists <- SomeLists
    Length = 7
    Garbage = {0, 2}
    BlockSize = 2
INVARIANTS Synthesized 
