----------------------------- MODULE MC_UMSProcFS -----------------------------
(* Two readers of one scheduler with two workers, as in the example.       *)
EXTENDS UMSProcFS

CONSTANTS r1, r2
=============================================================================
