SPECIFICATION Spec
CONSTANTS
    Shards = {s1, s2}
    Ids = {d1, d2}
    Capacity = 1
    IntLimit = 4
    NoDoc = NoDoc
SYMMETRY Symmetric
CHECK_DEADLOCK FALSE
INVARIANTS
    NoneForgotten
    WrittenOnce
    StarvedOnlyByRemoval
    BlockedOnlyByInsertion
