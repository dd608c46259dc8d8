------------------------ MODULE MC_UMSCompletionList ------------------------
(* Two workers added by main with prios 1 and 2, as in the example, and a  *)
(* third added by another thread while the scheduler queries the list.     *)
EXTENDS UMSCompletionList

CONSTANTS i1, i2, i3

MCInitial == <<[id |-> i1, prio |-> 1], [id |-> i2, prio |-> 2]>>

MCLate == <<[id |-> i3, prio |-> 3]>>

=============================================================================
