\* FILE_CELL with flush_nat_entries_per_core, no concurrent readers.
CONSTANTS
    NatEntryPerBlock = 2
    NatBlocks = 2
    NatTreeCnt = 4
    NidListCnt = 1
    JournalEntries = 1
    NumAddrs = 3
    NodeVersionMod = 2
    MaxCheckpoints = 2
    Readers = {}
    PerCoreFlush = TRUE
    NONE = NONE
SPECIFICATION Spec
INVARIANTS
    TypeOK
    CacheCoherent
    RollbackIntact
    FreeNidIsFree
    NoBugOn
