SPECIFICATION FairSpec
CONSTANTS
    Capacity = 2
    SlotBytes = 2
    RetryLimit = 2
    MaxEntries = 4
    Settings <- MCSettings
INVARIANTS RingAccounted ThreadFollows
PROPERTIES IsQueue EntriesCollected ShutdownCompletes
