SPECIFICATION Spec
CONSTANTS
    Ids <- MCIds
    MaxFields = 3
INVARIANTS Framed ReadsWhatWasSent RoundTrip
PROPERTY ReadEnds
CHECK_DEADLOCK FALSE
