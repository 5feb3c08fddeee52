SPECIFICATION FairSpec
CONSTANTS
    Threads = {t1, t2, t3, t4}
    Conds <- MCConds
    NoThread = NoThread
    Values = {v1, v2}
    Capacity = 2
    NoValue = NoValue
INVARIANTS TypeOK GuardsPair NoLostWakeup
PROPERTIES ChannelSpec EventuallySettled
