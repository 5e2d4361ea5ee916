SPECIFICATION KbdSpec
CONSTANTS
    KeyByte = {"a", "A", "hi", "g", "G"}
    Keys = {"a", "g", "f1"}
    Layout <- MCLayout
    KBD_BUFFER_SIZE = 3
INVARIANTS
    KbdTypeOK
PROPERTIES
    ImplementsKeyQueue
