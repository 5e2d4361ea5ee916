SPECIFICATION Spec
CONSTANTS
    Tids = {t0, t1, t2}
    FirstTid = t0
    THREAD_MAX_FDS = 4
    PIPE_MAX = 2
    PIPE_BUF_SIZE = 1
    Lens = {2}
    Closable <- Closed
SYMMETRY Symmetry
INVARIANTS
    RefCounts
    NoLostPipeWakeup
CHECK_DEADLOCK FALSE
