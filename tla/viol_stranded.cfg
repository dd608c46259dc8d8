CONSTANTS
    w1 = w1
    w2 = w2
    w3 = w3
    s1 = s1
    s2 = s2
    None = None
    Schedulers = {s1, s2}
    Cycles = 1
    Workers = {w1, w2, w3}
    CL <- CLDisjoint
    Spawn <- SpawnDisjoint
    Join <- JoinDisjoint
    Arg <- ArgDisjoint
    UserBlocking = FALSE
SPECIFICATION Spec
INVARIANT NoStrandedWorker
CHECK_DEADLOCK FALSE
