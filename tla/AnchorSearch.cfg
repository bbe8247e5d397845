SPECIFICATION SearchSpec
CONSTANTS
    P = 7
    N = 4
    K = 2
    Ids = {i1, i2}
    Mask = Mask
    Randoms = {0, 3}
    Systems <- SearchedSystems
INVARIANTS TypeOK SelectorIsRegistered LibraryBatchCloses OnlyHoldersClose
PROPERTIES ImplementsLibrary
CHECK_DEADLOCK FALSE
