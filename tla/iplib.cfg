SPECIFICATION Spec
CONSTANTS
    Objects = {o1}
    Threads = {t1, t2}
    Ranges <- MCRanges
    Paths <- MCPaths
    Dict <- MCDict
    Missing = Missing
    Addresses = {0, 1, 2, 3, 4}
    MaxFiles = 2
    MaxLoads = 3
    Module = Module
    None = None
INVARIANTS UnsortedOnlyIfMixed LookupsAreRight OverrunOnlyInGaps
CHECK_DEADLOCK FALSE
