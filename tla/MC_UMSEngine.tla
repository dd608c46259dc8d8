--------------------------- MODULE MC_UMSEngine ---------------------------
(* Instances of UMSEngine for TLC.                                         *)
EXTENDS UMSEngine

CONSTANTS w1, w2, w3, s1, s2

\* the example: each scheduler has its own completion list (disjoint ids)
CLDisjoint == [s \in {s1, s2} |-> IF s = s1 THEN <<w1, w2>> ELSE <<w3>>]
\* main() creates the workers of a list, then its scheduler
SpawnDisjoint == <<w1, w2, s1, w3, s2>>
\* id[i*(NUM_WORKER+1)] is the scheduler of loop i, followed by its workers
JoinDisjoint == <<s1, w1, w2, s2, w3>>
\* main() passes the workers of loop i the address of vars[i]
ArgDisjoint == [w \in {w1, w2, w3} |-> IF w = w3 THEN s2 ELSE s1]

\* two schedulers share one completion list (UMSList.c allows it)
CLShared == [s \in {s1, s2} |-> <<w1, w2>>]
SpawnShared == <<w1, w2, s1, s2>>
JoinShared == <<s1, w1, w2, s2>>
\* a program sharing one list between two schedulers, which run its workers
\* in parallel, gives each worker a counter of its own
ArgShared == [w \in {w1, w2} |-> IF w = w1 THEN s1 ELSE s2]
=============================================================================
