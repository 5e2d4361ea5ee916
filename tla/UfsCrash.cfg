SPECIFICATION Spec
CONSTANTS
    Name = {f, g}
    NoName = NoName
    NoFile = NoFile
    Unsettled = Unsettled
    Uid = {0}
    Perm = {0, 1}
    Byte = {0, 1, 2}
    SECTOR_SIZE = 2
    DIR_SECTOR_SIZE = 64
    UFS_DATA_LBA = 1
    UFS_MAX_ENTRIES = 2
    UFS_DATA_RESERVED_SECTORS = 4
    MOVE_SECTORS = 1
    Offset = {0, 1, 2}
    Buffer <- Buffers
    MaxFaults = 2
    MaxCalls = 6
    PowerLossAt = {"idle", "move", "grow_dir", "grow_sb", "data", "dir", "sb"}
    AtaFailsAt = {}
INVARIANTS
    ContentsSurvive
SYMMETRY NameSymmetry
CHECK_DEADLOCK FALSE
