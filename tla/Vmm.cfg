SPECIFICATION Spec
CONSTANTS
    PMM_MAX_FRAMES = 33
    Usable <- UsableFrames
    Reserved = {0, 1, 2, 3, 4, 5, 6}
    MaxRun = 2
    WORD = 512
    PAGE_SIZE = 2
    EHDR_SIZE = 1
    PHENT_SIZE = 1
    ENTRIES = 4
    Tids = {1, 2}
    Program <- Programs
    Demo <- TheDemo
    BootTables <- Tables4
    CodePage = 5
    THREAD_STACK_PAGES = 1
    USER_IMAGE_LINK_BASE = 64
    USER_PROCESS_SLOT_SIZE = 18
    USER_STACK_MAX_SIZE = 6
    StoreOffsets = {16}
    Buffers <- SomeBuffers
    HeapSizes = {13}
    MaxSpawns = 2
    MaxSwitches = 1
INVARIANTS
    BitmapExact
    FramesAccounted
    MemoryPrivate
    OnlyOwnPages
    FreeFramesMapped
    GuardsUnmapped
    RegionsLive
    LoaderStaysInFile
    BuffersAccessible
CHECK_DEADLOCK FALSE
