SPECIFICATION Spec
CONSTANTS
    MaxThreads = 3
    INITIAL_THREAD_CAPACITY = 3
    Quantum = 1
    Uids = {0}
    PROCESS_MAX = 2
    MaxPid = 2
    KBD_BUFFER = 1
    ExitCodes = {0}
    Signals = {9}
INVARIANTS
    ExitLeavesMachineRunning
CHECK_DEADLOCK FALSE
