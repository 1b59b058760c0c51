CONSTANTS
    x = x
    y = y
    f1 = f1
    f2 = f2
    File = {f1}
    NumFds = 2
    Closed = Closed
    NumBlocks = 8
    MetaBlocks = 1
    DIRECT_BLOCKS = 1
    INDIRECT_BLOCKS = 2
    BLOCK_SIZE_BYTES = 2
    Byte = {x, y}
    Stale = Stale
    Buffers <- ShortAndLong
    Counts = {1, 3}
    Offsets <- AroundTheEnds
    Locations <- LocationsFound
SPECIFICATION Spec
CONSTRAINT Whole
INVARIANTS
    TypeOK
    ReadBack
PROPERTIES
    ImplementsFiles
