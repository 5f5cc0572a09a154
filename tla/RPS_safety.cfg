\* Two readers, two writers contending on two CPUs: the lock invariants.
CONSTANTS
    CPUs = {c1, c2}
    Readers = {r1, r2}
    Writers = {w1, w2}
    HighwayBound = 2
SPECIFICATION Spec
INVARIANTS TypeOK HighwayFrozen ReaderAccounting WriterExclusion
