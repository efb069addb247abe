CONSTANTS
    f1 = f1  f2 = f2  v1 = v1  v2 = v2
    INODE_TABLE_SIZE = 3
    DATA_BLOCKS = 3
    MAX_OPEN_FILES = 2
    BLOCK_SIZE = 2
    MAX_DIR_ENTRIES = 2
    Name <- TwoNames
    LongName = LongName
    NoName = NoName
    OldNames <- AnyName
    Byte <- NoBytes
    Buffers <- AnyLength
    Garbage = Garbage
    Modes <- FewModes
    SizeMod = 16
    MaxRequest = 2
    Careful = FALSE
    NoFile = NoFile
    Closed = Closed
SPECIFICATION Spec
INVARIANT ReadsWithinFile
