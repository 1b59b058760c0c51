CONSTANTS
    n1 = n1
    n2 = n2
    Names = {n1, n2}
    NoName = NoName
    NamePrefix <- NoPrefixes
    MaxDepth = 2
    NumInodes = 3
    NumBlocks = 3
    MetaBlocks = 1
    Dentries = 2
    DirectBlocks = 1
    NumFds = 1
    MaxLink = 2
    MaxCrashes = 1
SPECIFICATION StoresSpec
CONSTRAINT Whole
SYMMETRY NameSymmetry
INVARIANTS
    CrashKeepsEntries
    CrashKeepsBlocks
    CrashSafe
PROPERTIES
    StoresImplementCalls
