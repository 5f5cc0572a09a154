\* FILE_CELL, per-core flush, one thread reading node pages concurrently.
CONSTANTS
    NatEntryPerBlock = 2
    NatBlocks = 2
    NatTreeCnt = 4
    NidListCnt = 1
    JournalEntries = 1
    NumAddrs = 2
    NodeVersionMod = 2
    MaxCheckpoints = 2
    Readers = {t1}
    PerCoreFlush = TRUE
    NONE = NONE
SPECIFICATION Spec
INVARIANT
    CacheCoherent
