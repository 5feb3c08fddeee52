SPECIFICATION FairSpec
CONSTANTS
    Countries = {c1}
    NoField = NoField
    Malformed = Malformed
    Word = 4
    LongWord = 16
    MaxLines = 3
    Dicts <- MCDicts
    Letters = {x, y}
    Delimiter = Delimiter
    Nul = Nul
    MaxText = 5
    MaxBehind = 2
INVARIANTS MissIsRight StaysInTable MalformedIsNowhere FieldsAreRight
PROPERTY SearchEnds
