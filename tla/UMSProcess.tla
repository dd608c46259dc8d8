------------------------------ MODULE UMSProcess ------------------------------
(***************************************************************************)
(* The process registry of the UMS kernel module (UMSmain.c): the global   *)
(* list ums_processes of ums_process entries, created by                   *)
(* init_ums_process when a program attaches (UMS_init, run from            *)
(* .init_array), looked up by tgid on every request, and freed by          *)
(* exit_ums_process when the program detaches (UMS_exit, run from          *)
(* .fini_array) or by exit_ums_process_all when the module is unloaded.    *)
(*                                                                         *)
(* Each entry holds the thread list (thread_item per worker) and the       *)
(* scheduler list (sched_item per scheduler) of a process.  The handoff    *)
(* between schedulers and workers is modelled in UMSEngine; here a worker  *)
(* only registers (new_task_management) and ends (ums_thread_end), and a   *)
(* scheduler only registers (new_scheduler_management) and returns.        *)
(*                                                                         *)
(* A process instance p of Procs is one run of a UMS program.  It is given *)
(* a tgid when it starts; the kernel reuses the tgid of a dead process.  A *)
(* process may also die without running UMS_exit (Kill: a signal, or the   *)
(* hang of a stranded worker ended by the user), when Killable.            *)
(*                                                                         *)
(* An entry is identified by the process instance whose init_ums_process   *)
(* allocated it, and a thread_item by the pair <<process, thread>> of the  *)
(* task that registered it.                                                *)
(***************************************************************************)
EXTENDS Naturals, Sequences, FiniteSets, SequencesExt

CONSTANTS
    Procs,      \* runs of a UMS program
    Tgids,      \* the tgids the kernel may hand out
    Threads,    \* the worker threads of one run
    Killable,   \* whether a run may die without UMS_exit
    None

ASSUME /\ None \notin Procs \cup Tgids
       /\ Killable \in BOOLEAN

VARIABLES
    pstate,          \* run of p: "unborn", "live" or "dead"
    tgid,            \* tgid the kernel gave p (None before it starts)
    tpc,             \* tpc[p][t]: worker t of p is "new", "reg" or "done"
    spc,             \* scheduler of p is "new", "reg" or "done"
    ums_processes,   \* the global list, head first (list_add inserts at head)
    items,           \* items[e]: thread_items linked in entry e's thread list
    scheds,          \* scheds[e]: runs whose sched_item is in e's sched list
    leaked,          \* thread_items no pointer reaches any more, tagged by allocation
    loaded           \* the module is loaded

vars == <<pstate, tgid, tpc, spc, ums_processes, items, scheds, leaked, loaded>>

Item == Procs \X Threads

\* new_task_management allocates twice per registration: "early" (line
\* 314, overwritten at line 330) and "linked" (line 330, put in the list)
Alloc == Procs \X Threads \X {"early", "linked"}

(***************************************************************************)
(* UMS_FIND_PROCESS_BY_TGID walks the whole list and keeps the LAST match, *)
(* so with two entries of one tgid it returns the older one (list_add puts *)
(* new entries at the head).                                               *)
(***************************************************************************)
UMS_FIND_PROCESS_BY_TGID(g) ==
    LET i == SelectLastInSeq(ums_processes, LAMBDA e : tgid[e] = g)
    IN  IF i = 0 THEN None ELSE ums_processes[i]

\* The entry every request of a thread of p is served from.
Entry(p) == UMS_FIND_PROCESS_BY_TGID(tgid[p])

-----------------------------------------------------------------------------
(* init_ums_process: allocate an entry with empty lists, insert at head.   *)
init_ums_process(p) ==
    /\ ums_processes' = <<p>> \o ums_processes
    /\ items' = [items EXCEPT ![p] = {}]
    /\ scheds' = [scheds EXCEPT ![p] = {}]

(* A run starts and UMS_init attaches it; the device must exist.  The      *)
(* kernel gives it a tgid no live process holds.                           *)
UMS_init(p) ==
    /\ loaded
    /\ pstate[p] = "unborn"
    /\ \E g \in Tgids :
         /\ \A q \in Procs : pstate[q] = "live" => tgid[q] # g
         /\ tgid' = [tgid EXCEPT ![p] = g]
    /\ pstate' = [pstate EXCEPT ![p] = "live"]
    /\ init_ums_process(p)
    /\ UNCHANGED <<tpc, spc, leaked, loaded>>

\* Mutant: the item's fields are filled the wrong way round.
new_task_managementSwapped(p, t) ==
    /\ pstate[p] = "live"
    /\ tpc[p][t] = "new"
    /\ Entry(p) # None
    /\ items' = [items EXCEPT ![Entry(p)] = @ \cup {<<t, p>>}]
    /\ leaked' = leaked \cup {<<p, t, "early">>}
    /\ tpc' = [tpc EXCEPT ![p][t] = "reg"]
    /\ UNCHANGED <<pstate, tgid, spc, ums_processes, scheds, loaded>>

(* new_task_management: the item kmalloc'ed at the declaration is lost    *)
(* when `item` is assigned a second kmalloc, which is linked into the      *)
(* thread list of the entry found by tgid (the sleep that follows is       *)
(* UMSEngine's).                                                           *)
new_task_management(p, t) ==
    /\ pstate[p] = "live"
    /\ tpc[p][t] = "new"
    /\ Entry(p) # None
    /\ items' = [items EXCEPT ![Entry(p)] = @ \cup {<<p, t>>}]
    /\ leaked' = leaked \cup {<<p, t, "early">>}
    /\ tpc' = [tpc EXCEPT ![p][t] = "reg"]
    /\ UNCHANGED <<pstate, tgid, spc, ums_processes, scheds, loaded>>

(* new_scheduler_management: link a sched_item into the entry's list.      *)
new_scheduler_management(p) ==
    /\ pstate[p] = "live"
    /\ spc[p] = "new"
    /\ Entry(p) # None
    /\ scheds' = [scheds EXCEPT ![Entry(p)] = @ \cup {p}]
    /\ spc' = [spc EXCEPT ![p] = "reg"]
    /\ UNCHANGED <<pstate, tgid, tpc, ums_processes, items, leaked, loaded>>

(* The scheduler's policy loop returns (its sched_item stays linked).      *)
SchedulerReturn(p) ==
    /\ pstate[p] = "live"
    /\ spc[p] = "reg"
    /\ spc' = [spc EXCEPT ![p] = "done"]
    /\ UNCHANGED <<pstate, tgid, tpc, ums_processes, items, scheds, leaked, loaded>>

(* ums_thread_end: unlink and free the item whose task_struct is current.  *)
ums_thread_end(p, t) ==
    /\ pstate[p] = "live"
    /\ tpc[p][t] = "reg"
    /\ Entry(p) # None
    /\ items' = [items EXCEPT ![Entry(p)] = @ \ {<<p, t>>}]
    /\ tpc' = [tpc EXCEPT ![p][t] = "done"]
    /\ UNCHANGED <<pstate, tgid, spc, ums_processes, scheds, leaked, loaded>>

(* free_work_list: frees only the item whose task_struct is current.  It   *)
(* is called from UMS_exit (the main thread) or from rmmod, neither of     *)
(* which is a worker, so it frees no item: the items still linked are      *)
(* lost with the list head.                                                *)
free_work_list(es) ==
    leaked' = leaked \cup {<<i[1], i[2], "linked">> : i \in UNION {items[e] : e \in es}}

(* free_sched_list: free every sched_item (and its worker_info list).     *)
free_sched_list(es) == scheds' = [e \in Procs |-> IF e \in es THEN {} ELSE scheds[e]]

\* Mutant: the entries are freed but list_del is dropped.
exit_ums_processNoUnlink(g) ==
    LET es == {e \in ToSet(ums_processes) : tgid[e] = g}
    IN  /\ free_work_list(es)
        /\ UNCHANGED ums_processes
        /\ free_sched_list(es)
        /\ items' = [e \in Procs |-> IF e \in es THEN {} ELSE items[e]]

(* exit_ums_process: free every entry of the tgid, with its sched list.    *)
exit_ums_process(g) ==
    LET es == {e \in ToSet(ums_processes) : tgid[e] = g}
    IN  /\ free_work_list(es)
        /\ ums_processes' = SelectSeq(ums_processes, LAMBDA e : e \notin es)
        /\ free_sched_list(es)
        /\ items' = [e \in Procs |-> IF e \in es THEN {} ELSE items[e]]

(* main joins every thread, returns, and UMS_exit detaches.                *)
UMS_exit(p) ==
    /\ pstate[p] = "live"
    /\ \A t \in Threads : tpc[p][t] = "done"
    /\ spc[p] = "done"
    /\ exit_ums_process(tgid[p])
    /\ pstate' = [pstate EXCEPT ![p] = "dead"]
    /\ UNCHANGED <<tgid, tpc, spc, loaded>>

(* The run dies without UMS_exit: the kernel frees its tasks, the module   *)
(* keeps its entry.                                                        *)
Kill(p) ==
    /\ Killable
    /\ pstate[p] = "live"
    /\ pstate' = [pstate EXCEPT ![p] = "dead"]
    /\ UNCHANGED <<tgid, tpc, spc, ums_processes, items, scheds, leaked, loaded>>

(* exit_ums_process_all: free every entry, whatever its tgid.              *)
exit_ums_process_all ==
    /\ free_sched_list(ToSet(ums_processes))
    /\ free_work_list(ToSet(ums_processes))
    /\ ums_processes' = <<>>
    /\ items' = [e \in Procs |-> {}]

(* ums_exit: rmmod once no run uses the device.                            *)
ums_exit ==
    /\ loaded
    /\ \A p \in Procs : pstate[p] # "live"
    /\ exit_ums_process_all
    /\ loaded' = FALSE
    /\ UNCHANGED <<pstate, tgid, tpc, spc>>

(* device_ioctl: one request of a thread of a live run.                    *)
device_ioctl(p) ==
    \/ \E t \in Threads : new_task_management(p, t) \/ ums_thread_end(p, t)
    \/ new_scheduler_management(p)
    \/ SchedulerReturn(p)
    \/ UMS_exit(p)

-----------------------------------------------------------------------------
Init ==
    /\ pstate = [p \in Procs |-> "unborn"]
    /\ tgid = [p \in Procs |-> None]
    /\ tpc = [p \in Procs |-> [t \in Threads |-> "new"]]
    /\ spc = [p \in Procs |-> "new"]
    /\ ums_processes = <<>>
    /\ items = [e \in Procs |-> {}]
    /\ scheds = [e \in Procs |-> {}]
    /\ leaked = {}
    /\ loaded = TRUE

Next ==
    \/ \E p \in Procs : UMS_init(p) \/ device_ioctl(p) \/ Kill(p)
    \/ ums_exit

(* Every thread of a run is a runnable task that eventually issues its     *)
(* next request.  That a run reaches UMS_exit is not implied: main joins   *)
(* its threads first, and UMSEngine shows a worker can be stranded.        *)
Fairness == \A p \in Procs : WF_vars(device_ioctl(p))

Spec == Init /\ [][Next]_vars /\ Fairness

-----------------------------------------------------------------------------
TypeOK ==
    /\ pstate \in [Procs -> {"unborn", "live", "dead"}]
    /\ tgid \in [Procs -> Tgids \cup {None}]
    /\ tpc \in [Procs -> [Threads -> {"new", "reg", "done"}]]
    /\ spc \in [Procs -> {"new", "reg", "done"}]
    /\ ums_processes \in Seq(Procs)
    /\ items \in [Procs -> SUBSET Item]
    /\ scheds \in [Procs -> SUBSET Procs]
    /\ leaked \subseteq Alloc
    /\ loaded \in BOOLEAN

(* Isolation: every request of a live run is served from the entry its own *)
(* init_ums_process allocated, never from an entry of an earlier run that  *)
(* had the same tgid (UMS_FIND_PROCESS_BY_TGID after tgid reuse).          *)
Isolation == \A p \in Procs : pstate[p] = "live" => Entry(p) = p

(* NoStaleItem: no thread list the module serves holds a thread_item of a  *)
(* dead task (ums_dequeue_list and ums_schedule dereference               *)
(* item->task_struct of every matching item).                              *)
NoStaleItem ==
    \A p \in Procs : pstate[p] = "live" =>
        \A it \in items[Entry(p)] : pstate[it[1]] = "live"

(* NoLeak: every thread_item allocated by new_task_management is freed by  *)
(* ums_thread_end, or else by exit_ums_process / exit_ums_process_all      *)
(* ("if some memory is left allocated, it is freed", ums_exit).            *)
NoLeak == leaked = {}
=============================================================================
