CONSTANTS
    NatEntryPerBlock = 2
    NatBlocks = 3
    NidListCnt = 1
    MaxNatJentries = 1
    FreeNidCap = 1
    NextScanNid = 4
    CounterBits = 2
    a1 = a1
    a2 = a2
    Allocators <- OneAllocator
    NONE = NONE
SPECIFICATION CapSpinSpec
PROPERTY AllocNidReturns
