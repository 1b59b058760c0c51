CONSTANTS
    x = x
    y = y
    f1 = f1
    f2 = f2
    File = {f1, f2}
    NumFds = 1
    Closed = Closed
    NumBlocks = 11
    MetaBlocks = 1
    DIRECT_BLOCKS = 1
    INDIRECT_BLOCKS = 2
    BLOCK_SIZE_BYTES = 1
    Byte = {x}
    Stale = Stale
    Buffers <- OneByteOrThree
    Counts = {3}
    Offsets <- AroundTheEnds
    Locations <- LocationsFound
SPECIFICATION Spec
CONSTRAINT Whole
SYMMETRY FileSymmetry
INVARIANTS
    BlocksExact
    FilesSound
    ShortWriteOnlyWhenFull
