SPECIFICATION FairSpec
CONSTANTS
    Outputs = {1, 2}
    Chunks = {1, 2, 3}
    MemLimit = 1
    Settings <- MCSettings
INVARIANTS QueuesConsistent InUseStaysUp NothingLost
PROPERTIES EveryChunkLoaded
CHECK_DEADLOCK FALSE
