CONSTANTS
    w1 = w1
    w2 = w2
    w3 = w3
    s1 = s1
    s2 = s2
    None = None
    Schedulers = {s1, s2}
    Cycles = 1
    Workers = {w1, w2}
    CL <- CLShared
    Spawn <- SpawnShared
    Join <- JoinShared
    Arg <- ArgShared
    UserBlocking = FALSE
SPECIFICATION Spec
INVARIANT NoDanglingDispatch
CHECK_DEADLOCK FALSE
