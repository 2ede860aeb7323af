CONSTANTS
    Slots = 5
    Keys <- MCKeys
    Values <- MCValues
    Children = {c1, c2}
    Null = Null
SPECIFICATION Spec
PROPERTY ImplementsFunctions
