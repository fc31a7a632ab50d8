SPECIFICATION Spec
CONSTANTS
    Retain = 4
    Limit = 2
    Back = 3
    Lines = 2
    MaxLog = 5
INVARIANT ChatIsCurrent
