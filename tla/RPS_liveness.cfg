\* One writer (checkpoints are serialised) and two readers on two CPUs.
CONSTANTS
    CPUs = {c1, c2}
    Readers = {r1, r2}
    Writers = {w1}
    HighwayBound = 2
SPECIFICATION FairSpec
PROPERTIES WriterProgress ReaderProgress
