SPECIFICATION Spec
CONSTANT MaxBreaks = 3
INVARIANTS FlagMeansInstalled BuiltOnOurs
PROPERTY AllBuilt
CHECK_DEADLOCK FALSE
