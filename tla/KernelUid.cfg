SPECIFICATION Spec
CONSTANTS
    MaxThreads = 4
    INITIAL_THREAD_CAPACITY = 2
    Quantum = 1
    Uids = {0, 1}
    PROCESS_MAX = 2
    MaxPid = 2
    KBD_BUFFER = 1
    ExitCodes = {0}
    Signals = {9}
PROPERTIES
    ProgramRunsAsSpawner
CHECK_DEADLOCK FALSE
