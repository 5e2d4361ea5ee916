SPECIFICATION Spec
CONSTANTS
    Byte = {x, y}
    PIPE_BUF_SIZE = 3
    MaxLen = 4
    MaxEnds = 2
INVARIANTS
    PositionsAgree
PROPERTIES
    ImplementsFifo
