\* FILE_CELL with the classic flush_nat_entries: one set per shard and NAT block.
CONSTANTS
    NatEntryPerBlock = 2
    NatBlocks = 2
    NatTreeCnt = 4
    NidListCnt = 1
    JournalEntries = 1
    NumAddrs = 4
    NodeVersionMod = 2
    MaxCheckpoints = 2
    Readers = {}
    PerCoreFlush = FALSE
    NONE = NONE
SPECIFICATION Spec
INVARIANT
    RollbackIntact
