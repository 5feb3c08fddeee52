SPECIFICATION Spec
CONSTANTS
    Countries = {c1}
    NoField = NoField
    Malformed = Malformed
    Word = 4
    LongWord = 16
    MaxLines = 2
    Dicts <- MCDicts
    Letters = {x}
    Delimiter = Delimiter
    Nul = Nul
    MaxText = 1
    MaxBehind = 1
INVARIANT LookupAnswers
