SPECIFICATION Spec
CONSTANTS
    Threads = {t1, t2, t3}
    Conds <- MCConds
    NoThread = NoThread
    Values = {v1, v2}
    NoValue = NoValue
    MaxLength = 3
INVARIANT ItemsCovered
PROPERTY ChannelSpec
