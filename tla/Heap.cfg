SPECIFICATION Spec
CONSTANTS
    PMM_MAX_FRAMES = 6
    Usable = {0, 1, 2, 4, 5}
    Reserved = {0}
    MaxRun = 2
    HEAP_HEADER_SIZE = 3
    HEAP_ALIGN = 2
    PMM_FRAME_SIZE = 16
    Requests = {1, 4, 13, 20}
    MaxLive = 3
INVARIANTS
    FreeCount
    BitmapExact
    BlocksTile
    AllocationsIntact
PROPERTIES
    FreeMergesNeighbours
