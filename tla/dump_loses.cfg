SPECIFICATION Spec
CONSTANTS
    Shards = {s1}
    Ids = {d1, d2}
    Capacity = 1
    IntLimit = 128
    NoDoc = NoDoc
CHECK_DEADLOCK FALSE
INVARIANT
    CompleteDump
