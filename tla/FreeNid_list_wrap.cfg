CONSTANTS
    NatEntryPerBlock = 2
    NatBlocks = 3
    NidListCnt = 2
    MaxNatJentries = 1
    FreeNidCap = 3
    NextScanNid = 4
    CounterBits = 3
    a1 = a1
    a2 = a2
    Allocators <- OneAllocator
    NONE = NONE
SPECIFICATION Spec
INVARIANT ListIdInRange
