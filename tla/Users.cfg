CONSTANTS
    MEMFS_INITIAL_CAPACITY = 1
    MEMFS_INITIAL_BUFFER_SIZE = 1
    NoName = NoName
    Junk = Junk
    p1 = p1
    p2 = p2
    a = a
    b = b
    carol = carol
    Procs = {p1, p2}
    THREAD_MAX_FDS = 3
    Names = {a, b, passwd}
    PASSWD_FILE = passwd
    SECTOR_SIZE = 4
    UFS_MAX_ENTRIES = 3
    UFS_DATA_LBA = 5
    UFS_DATA_RESERVED_SECTORS = 5
    FsFiles = 1
    Plain = Plain
    USER_MAX_ACCOUNTS = 4
    Root = root
    User = user
    Logins = {root, user, carol, dave}
    Passwords <- MCPasswords
    hash_password <- MCHash
    UserUid = 1
    NewUids = {2}
    Mixes <- MCMixes
    MaxPowerLosses = 1
SYMMETRY Symmetry
SPECIFICATION Spec
INVARIANT ExtentHoldsFile
INVARIANT NoLeak
INVARIANT MemfsAsWritten
INVARIANT ListNamesEveryFile
INVARIANT AccountsSurvive
PROPERTY FilesChangeByRight
CHECK_DEADLOCK FALSE
