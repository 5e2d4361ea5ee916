SPECIFICATION Spec
CONSTANTS
    MaxThreads = 4
    INITIAL_THREAD_CAPACITY = 2
    Quantum = 1
    Uids = {0}
    Children = 2
PROPERTY CommandReturns
