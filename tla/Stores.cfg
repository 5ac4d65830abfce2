CONSTANTS
    Keys = {k1}
    Callers = {c1, c2}
    TTLs = {0, 1, 2, 3}
    Millisecond = 2
    Horizon = 8
SPECIFICATION StoresSpec
PROPERTIES MemoryImplementsSlot RedisImplementsSlot
