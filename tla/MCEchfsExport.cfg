SPECIFICATION Spec
CONSTANTS
    Blocks = 9
    RESERVED_BLOCKS = 1
    FatPerBlock = 5
    EntriesPerBlock = 2
    DirShare = 4
    bytesperblock = 2
    ChunkWords = 5
    ChunkEntries = 2
    TableSpan = 20
    ImportPaths <- MCRootPaths
    MkdirPaths <- MCMkdirPaths
    Sizes = {0, 2, 3}
INVARIANT ExportFaithful
