SPECIFICATION Spec
CONSTANTS
    Threads = {t1, t2, t3}
    Methods <- WithOneway
    MinSeq <- MCMinSeq
    MaxSeq = 3
    FirstSeq = 2
    MaxCalls = 3
    Nobody = Nobody
    None = None
INVARIANTS   SomeoneReads
 
CHECK_DEADLOCK FALSE
