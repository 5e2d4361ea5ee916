SPECIFICATION FairSpec
CONSTANTS
    MaxThreads = 4
    INITIAL_THREAD_CAPACITY = 2
    Quantum = 1
    Uids = {0}
    PROCESS_MAX = 2
    MaxPid = 3
    KBD_BUFFER = 1
    ExitCodes = {0}
    Signals = {9}
INVARIANTS
    TypeOK
    OneRunning
    OneRecordPerThread
    RecordMatchesThread
    NoLostExit
    NoLostKey
PROPERTIES
    ReadyRuns
    WaitReturns
    SlotFreedOnlyByReap
    ExitStatusFinal
CHECK_DEADLOCK FALSE
