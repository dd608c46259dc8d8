---------------------------- MODULE MC_UMSProcess ----------------------------
(* Two runs of a program with two workers each, and two tgids: two runs   *)
(* can be live at once, and a run can reuse the tgid of a finished one.    *)
EXTENDS UMSProcess

CONSTANTS p1, p2, g1, g2, t1, t2
=============================================================================
