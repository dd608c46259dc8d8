----------------------------- MODULE UMSHandoff -----------------------------
(***************************************************************************)
(* What the UMS context switch promises, for one process, without the      *)
(* task states, locks and lists that implement it (UMSmain.c:              *)
(* ums_schedule, ums_thread_yield, ums_thread_end).                        *)
(*                                                                         *)
(* Every scheduler holds a token for the CPU it gives its workers.         *)
(* owner[s] = s: the scheduler runs its own policy; owner[s] = w: worker w *)
(* runs on s's behalf and s waits.  A worker is "parked" (not running on   *)
(* anyone's behalf), "running" or "done".                                  *)
(*                                                                         *)
(*  - Hand: a scheduler that holds its token gives it to a parked worker   *)
(*    of its own completion list (ExecuteUmsThread -> ums_schedule).       *)
(*  - Yield: the worker gives it back and parks (UmsThreadYield).          *)
(*  - Finish: the worker gives it back and is done (UMS_WORKER_DONE).      *)
(*                                                                         *)
(* A worker runs for at most one scheduler, and only the worker that holds *)
(* a token returns it.                                                     *)
(***************************************************************************)
CONSTANTS
    Workers,     \* worker threads
    Schedulers,  \* scheduler threads
    Lists        \* Lists[s]: the worker ids of s's completion list

VARIABLES
    owner,       \* owner[s]: s itself, or the worker running for s
    phase        \* phase[w]: "parked", "running" or "done"

avars == <<owner, phase>>

Init ==
    /\ owner = [s \in Schedulers |-> s]
    /\ phase = [w \in Workers |-> "parked"]

\* ums_schedule: the scheduler wakes a parked worker of its list and sleeps
Hand(s, w) ==
    /\ owner[s] = s
    /\ w \in Lists[s]
    /\ phase[w] = "parked"
    /\ owner' = [owner EXCEPT ![s] = w]
    /\ phase' = [phase EXCEPT ![w] = "running"]

\* ums_thread_yield: the running worker wakes its scheduler and sleeps
Yield(s) ==
    /\ owner[s] \in Workers
    /\ owner' = [owner EXCEPT ![s] = s]
    /\ phase' = [phase EXCEPT ![owner[s]] = "parked"]

\* ums_thread_end: the running worker wakes its scheduler and exits
Finish(s) ==
    /\ owner[s] \in Workers
    /\ owner' = [owner EXCEPT ![s] = s]
    /\ phase' = [phase EXCEPT ![owner[s]] = "done"]

\* a token that was handed out comes back, by a yield or an exit
Return(s) == Yield(s) \/ Finish(s)

Next ==
    \/ \E s \in Schedulers, w \in Workers : Hand(s, w)
    \/ \E s \in Schedulers : Return(s)

\* A running worker keeps running until it yields or ends: it is not
\* preempted out of UMS, so each token eventually comes back.
Spec == Init /\ [][Next]_avars /\ \A s \in Schedulers : WF_avars(Return(s))

=============================================================================
