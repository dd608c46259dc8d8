CONSTANTS
    w1 = w1
    w2 = w2
    w3 = w3
    s1 = s1
    s2 = s2
    None = None
    Workers = {w1, w2, w3}
    Schedulers = {s1, s2}
    CL <- CLDisjoint
    Spawn <- SpawnDisjoint
    Join <- JoinDisjoint
    Arg <- ArgDisjoint
    Cycles = 2
    UserBlocking = TRUE
SPECIFICATION Spec
INVARIANT TypeOK
INVARIANT CooperativeExclusion
INVARIANT WakeObligation
INVARIANT NoDanglingDispatch
PROPERTY DispatchOnlyParked
INVARIANT NoLostUpdate
INVARIANT PrintedTotals
PROPERTY SchedulerResumed
PROPERTY HandoffRefined
CHECK_DEADLOCK FALSE
