\* FILE_CELL with a single file cell (nr_file_cell = 1), classic flush_nat_entries: one nat_entry_set per NAT block.
CONSTANTS
    NatEntryPerBlock = 2
    NatBlocks = 2
    NatTreeCnt = 1
    NidListCnt = 1
    JournalEntries = 1
    NumAddrs = 3
    NodeVersionMod = 2
    MaxCheckpoints = 2
    Readers = {}
    PerCoreFlush = FALSE
    NONE = NONE
SPECIFICATION Spec
INVARIANT
    RollbackIntact
    NoBugOn
