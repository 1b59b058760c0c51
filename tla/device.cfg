CONSTANTS
    ByteBits = 2
    BlockBytes = 2
    FbmBlocks = 2
    Inodes = 2
    InodeBytes = 1
    Fds = 1
    FdBytes = 1
    Ids <- FirstAndLast
    Patterns <- ZeroesAndOnes
SPECIFICATION Spec
INVARIANTS
    TypeOK
    MapIsReserved
    FreeCountHonest
    BytesAreBits
PROPERTIES
    IsBlockDevice
    AreTables
