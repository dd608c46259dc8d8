CONSTANTS
    p1 = p1
    p2 = p2
    g1 = g1
    g2 = g2
    t1 = t1
    t2 = t2
    None = None
    Procs = {p1, p2}
    Tgids = {g1, g2}
    Threads = {t1, t2}
    Killable = TRUE
SPECIFICATION Spec
INVARIANT TypeOK
CHECK_DEADLOCK FALSE
