CONSTANTS
    NatEntryPerBlock = 2
    NatBlocks = 4
    NidListCnt = 2
    MaxNatJentries = 1
    FreeNidCap = 2
    NextScanNid = 4
    CounterBits = 2
    a1 = a1
    a2 = a2
    Allocators <- MCAllocators
    NONE = NONE
SPECIFICATION Spec
INVARIANT TypeOK
INVARIANT FreeNidsFree
INVARIANT FcntExact
SYMMETRY Symmetry
