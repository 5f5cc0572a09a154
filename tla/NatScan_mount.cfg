CONSTANTS
    NatEntryPerBlock = 2
    NatBlocks = 4
SPECIFICATION Spec
INVARIANT ScanCoversAll
