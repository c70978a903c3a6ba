SPECIFICATION FairSpec
CONSTANTS
    Inputs = {1, 2}
    Outputs = {1, 2}
    Chunks = {1, 2}
    MaxUp = 1
    Realloc = 2
    MaxContent = 1
    MaxSize = 2
    Settings <- MCSettings
    None = None
INVARIANTS ListsConsistent SizesAccounted MemBounded PluginAgrees
PROPERTIES PausedIsResumed
CHECK_DEADLOCK FALSE
