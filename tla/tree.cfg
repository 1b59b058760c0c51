CONSTANTS
    n1 = n1
    n2 = n2
    n3 = n3
    Names = {n1, n2}
    NoName = NoName
    NamePrefix <- NoPrefixes
    MaxDepth = 3
    NumInodes = 3
    NumBlocks = 5
    MetaBlocks = 1
    Dentries = 2
    DirectBlocks = 2
    NumFds = 2
    MaxLink = 1
SPECIFICATION Spec
CONSTRAINT Whole
SYMMETRY NameSymmetry
INVARIANTS
    BlocksExact
    FdLive
    NothingCutOff
PROPERTIES
    MoveIsRename
    ResolutionStable
