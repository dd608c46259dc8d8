CONSTANTS
    i1 = i1
    i2 = i2
    i3 = i3
    Ids = {i1, i2, i3}
    Initial <- MCInitial
    Late <- MCLate
    Queries = 2
SPECIFICATION Spec
INVARIANT TypeOK
INVARIANT ReadyCorrect
CHECK_DEADLOCK FALSE
