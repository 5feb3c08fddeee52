SPECIFICATION FairStaticSpec
CONSTANTS
    Shards = {s1, s2}
    Ids = {d1, d2}
    Capacity = 2
    IntLimit = 128
    NoDoc = NoDoc
INVARIANTS HeapExact ExactDump
PROPERTY DumpEnds
