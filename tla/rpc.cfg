SPECIFICATION Spec
CONSTANTS
    Conns = {c1, c2}
    Kinds = {"cpp", "python"}
    MethodSets <- MCMethodSets
    Keys = {1}
    Works <- MCWorks
    MinInt <- MCMinInt
    MaxInt = 1
    MaxCalls = 2
    Absent = Absent
    Default = Default
    NoCall = NoCall
    NoReply = NoReply
INVARIANTS AnswersOwnCall AnswersAreRight
PROPERTIES ServiceSpec CallsEnd
CHECK_DEADLOCK FALSE
