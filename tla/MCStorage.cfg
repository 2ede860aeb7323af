CONSTANTS
    NumServer = 2
    AllOptions <- MCOptions
    Bases <- MCBases
    Align = 4
    KeyWords = 1
    ValueWords = 1
    MaxRecord = 7
    Free = 0
SPECIFICATION Spec
INVARIANTS
    RegionsApart
    ExitsOnlyIfTooSmall
    RecordsIntact
