CONSTANTS
    n1 = n1
    n2 = n2
    n3 = n3
    Names = {n1, n2, n3}
    NoName = NoName
    NamePrefix <- NoPrefixes
    MaxDepth = 2
    NumInodes = 3
    NumBlocks = 3
    MetaBlocks = 1
    Dentries = 2
    DirectBlocks = 1
    NumFds = 1
    MaxLink = 3
SPECIFICATION Spec
CONSTRAINT Whole
SYMMETRY NameSymmetry
INVARIANTS
    TypeOK
    NoDanglingEntry
    LinkCountExact
    BlocksExact
    FdLive
    UniqueNames
    Consistent
PROPERTIES
    LeakOnlyWhenFull
    RemoveUnbinds
    ImplementsNamespace
