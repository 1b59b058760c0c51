CONSTANTS
    n1 = n1
    n2 = n2
    n3 = n3
    Names = {n1, n2}
    NoName = NoName
    NamePrefix <- NoPrefixes
    MaxDepth = 1
    NumInodes = 3
    NumBlocks = 4
    MetaBlocks = 1
    Dentries = 2
    DirectBlocks = 1
    NumFds = 1
    MaxLink = 1
SPECIFICATION Spec
PROPERTIES RemoveClosesDescriptors
