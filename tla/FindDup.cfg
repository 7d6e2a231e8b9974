SPECIFICATION Spec
CONSTANTS
    Listings <- FiveNames
    Contents <- SomeContents
    Crcs = {0, 1, 8}
    IntMod = 16
    Chunk = 4
INVARIANTS TypeOK LinksMarked DuplicatesFound
PROPERTIES Ends
