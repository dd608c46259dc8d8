CONSTANTS
    r1 = r1
    r2 = r2
    Tgid = 4194303
    SchedId = 1
    Readers = {r1}
    NumWorkers = 2
    Dispatches = 2
    ReadAfterRun = FALSE
SPECIFICATION Spec
INVARIANT NoNullSched
CHECK_DEADLOCK FALSE
