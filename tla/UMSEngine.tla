----------------------------- MODULE UMSEngine -----------------------------
(***************************************************************************)
(* The context-switch engine of the UMS kernel module (src/src/module/     *)
(* UMSmain.c) for one process, driven by the user-space library           *)
(* (src/src/library/UMSLibrary.c) and the example program               *)
(* (examples/1-n_sched_m_threads/n_sched_m_threads.c).                    *)
(*                                                                         *)
(* Every worker and every scheduler is an OS thread.  A thread's          *)
(* task_struct->state is tstate[t]: "RUNNING" or "INTERRUPTIBLE".          *)
(* put_task_to_sleep() is two steps: set_current_state(TASK_INTERRUPTIBLE) *)
(* and schedule(), which returns once the state is RUNNING again (at once  *)
(* when a wake-up came in between).  wake_up_process(t) succeeds only on   *)
(* an INTERRUPTIBLE task; the code spins on it, so a spin-wake is one step *)
(* enabled exactly when the target is INTERRUPTIBLE.                       *)
(*                                                                         *)
(* Each thread has a pc; each action is one atomic stretch of a handler   *)
(* between two points where another thread can observe or change shared   *)
(* state (a lock release, a wake-up, a sleep).                             *)
(***************************************************************************)
EXTENDS Naturals, Sequences, FiniteSets, SequencesExt

CONSTANTS
    Workers,      \* worker threads (their pthread ids: thread_item.id)
    Schedulers,   \* scheduler threads
    CL,           \* CL[s]: the ids of scheduler s's completion list, in order
    Spawn,        \* the order in which main() creates the threads
    Join,         \* the order in which main() joins them: its array id[]
    Cycles,       \* NUM_CYCLES: the number of yields of foo1()
    UserBlocking, \* whether a worker's own code may sleep interruptibly
    Arg,          \* Arg[w]: the counter vars[i] main() passed to worker w
    None          \* a null pointer / the id -1

ASSUME /\ Workers \cap Schedulers = {}
       /\ CL \in [Schedulers -> Seq(Workers)]
       /\ \A s \in Schedulers : Len(CL[s]) > 0
       /\ Spawn \in Seq(Workers \cup Schedulers)
       /\ ToSet(Spawn) = Workers \cup Schedulers
       /\ Len(Spawn) = Cardinality(Workers \cup Schedulers)
       /\ Join \in Seq(Workers \cup Schedulers)
       /\ ToSet(Join) = Workers \cup Schedulers
       /\ Cycles \in Nat
       /\ UserBlocking \in BOOLEAN
       /\ Arg \in [Workers -> Schedulers]
       /\ None \notin Workers \cup Schedulers

Threads == Workers \cup Schedulers

WorkerPcs == {"unborn", "start", "reg", "reg_sleep", "reg_wait", "user", "inc", "counted",
              "blocked", "printed", "y_wake", "y_sleep", "y_wait", "end_wake", "done"}
SchedPcs  == {"unborn", "wait", "sreg", "deq", "x_lookup", "x_check",
              "x_wake", "x_sleep", "x_wait", "sdone"}

VARIABLES
    pc,              \* program counter of every thread
    tstate,          \* task_struct->state of every thread
    mainPc,          \* index in Spawn of the next thread main() creates
    worker_num,      \* library: workers created by main()
    loaded_num,      \* library: workers that started their wrapper
    yields,          \* foo1's loop counter i
    ums_thread_list, \* process: the workers with a thread_item
    scheduler,       \* thread_item.scheduler: the (last) dispatcher
    ums_sched_list,  \* process: the schedulers with a sched_item
    sCounter,        \* sched_item.counter: number of switches
    sState,          \* sched_item.state: 1 idle, 0 running a worker
    sRunning,        \* sched_item.running: the running worker or None
    wiState,         \* worker_info.state, per scheduler and id
    wiCounter,       \* worker_info.counter, per scheduler and id
    choice_lock,     \* holder of p->choice_lock, or None
    wsched,          \* local `sched` of ums_thread_yield / ums_thread_end
    mem,             \* local `mem` of ums_dequeue_list
    deqIdx,          \* local `i` of ums_dequeue_list
    target,          \* the id the scheduler's policy passed to dispatch
    next,            \* local `next` of ums_schedule
    counter,         \* counter[s]: main's vars[i], named by the scheduler of loop i
    reg,             \* reg[w]: the value of *counter worker w has loaded
    joinIdx,         \* index in Join of the thread main() is joining
    freed,           \* main() has deleted the completion lists
    printed          \* the counter values main() printed, or None

vars == <<pc, tstate, mainPc, worker_num, loaded_num, yields,
          ums_thread_list, scheduler, ums_sched_list, sCounter, sState,
          sRunning, wiState, wiCounter, choice_lock, wsched, mem, deqIdx,
          target, next, counter, reg, joinIdx, freed, printed>>

mvars == <<joinIdx, freed, printed>>

kvars == <<ums_sched_list, sCounter, sState, sRunning, wiState, wiCounter>>

-----------------------------------------------------------------------------
(* Linux task-state primitives.                                            *)

\* set_current_state(TASK_INTERRUPTIBLE), the first half of
\* put_task_to_sleep()
SetInterruptible(t) == tstate' = [tstate EXCEPT ![t] = "INTERRUPTIBLE"]

\* while(!wake_up_process(t)){}: completes once t is INTERRUPTIBLE
SpinWake(t) ==
    /\ tstate[t] = "INTERRUPTIBLE"
    /\ tstate' = [tstate EXCEPT ![t] = "RUNNING"]

\* schedule() in put_task_to_sleep() returns once the task is RUNNING
Woken(t) == tstate[t] = "RUNNING"

Goto(t, l) == pc' = [pc EXCEPT ![t] = l]

\* the ids of CL[s]: ums_create_worker_list makes one worker_info per id
Ids(s) == ToSet(CL[s])

\* UMS_LIST_FIND_BY_ID: the thread_item with this id, or NULL
UMS_LIST_FIND_BY_ID(id) == IF id \in ums_thread_list THEN id ELSE None

\* UMS_LIST_FIND_SCHEDULER: the scheduler field of the caller's thread_item
UMS_LIST_FIND_SCHEDULER(w) == scheduler[w]

\* UMS_FIND_SCHED_ITEM: the sched_item whose task is ts, or NULL (a
\* scheduler's sched_item is named by the scheduler)
UMS_FIND_SCHED_ITEM(ts) == IF ts \in ums_sched_list THEN ts ELSE None

\* FIND_WORKER_BY_UMS_ID: the worker_info of sched_item sc with this ums_id,
\* or NULL (a worker_info is named by its ums_id)
FIND_WORKER_BY_UMS_ID(sc, id) == IF sc # None /\ id \in Ids(sc) THEN id ELSE None

-----------------------------------------------------------------------------
(* main() of the example and the library's Enter* calls.                   *)

\* EnterUmsWorkingMode: worker_num += 1 (no lock: main creates the threads
\* one by one), then pthread_create of WorkingThreadWrapper
EnterUmsWorkingMode(t) ==
    /\ worker_num' = worker_num + 1
    /\ Goto(t, "start")

\* EnterUmsSchedulingMode: pthread_create of SchedulerThreadWrapper
EnterUmsSchedulingMode(t) ==
    /\ Goto(t, "wait")
    /\ UNCHANGED worker_num

\* main() creates the next thread of its loops
Spawn1 ==
    /\ mainPc <= Len(Spawn)
    /\ LET t == Spawn[mainPc] IN
       IF t \in Workers THEN EnterUmsWorkingMode(t) ELSE EnterUmsSchedulingMode(t)
    /\ mainPc' = mainPc + 1
    /\ UNCHANGED <<tstate, loaded_num, yields, ums_thread_list, scheduler,
                   kvars, choice_lock, wsched, mem, deqIdx, target, next,
                   counter, reg, mvars>>

\* mutant of MainJoin: the join returns before the thread has exited
MainJoinNoWait ==
    /\ mainPc > Len(Spawn)
    /\ joinIdx <= Len(Join)
    /\ joinIdx' = joinIdx + 1
    /\ UNCHANGED <<pc, tstate, mainPc, freed, printed, worker_num, loaded_num,
                   yields, ums_thread_list, scheduler, kvars, choice_lock,
                   wsched, mem, deqIdx, target, next, counter, reg>>

\* main(): for each id[i], ums_thread_join -> pthread_join, which returns
\* once that thread has exited (a worker after ums_thread_end, a scheduler
\* after scheduler() has returned)
MainJoin ==
    /\ mainPc > Len(Spawn)
    /\ joinIdx <= Len(Join)
    /\ pc[Join[joinIdx]] \in {"done", "sdone"}
    /\ joinIdx' = joinIdx + 1
    /\ UNCHANGED <<pc, tstate, mainPc, freed, printed, worker_num, loaded_num,
                   yields, ums_thread_list, scheduler, kvars, choice_lock,
                   wsched, mem, deqIdx, target, next, counter, reg>>

\* main(): completion_list_delete of every cs[i], then the final values of
\* vars[] are printed
MainDelete ==
    /\ joinIdx > Len(Join)
    /\ ~freed
    /\ freed' = TRUE
    /\ UNCHANGED <<pc, tstate, mainPc, joinIdx, printed, worker_num, loaded_num,
                   yields, ums_thread_list, scheduler, kvars, choice_lock,
                   wsched, mem, deqIdx, target, next, counter, reg>>

MainPrint ==
    /\ freed
    /\ printed = None
    /\ printed' = counter
    /\ UNCHANGED <<pc, tstate, mainPc, joinIdx, freed, worker_num, loaded_num,
                   yields, ums_thread_list, scheduler, kvars, choice_lock,
                   wsched, mem, deqIdx, target, next, counter, reg>>

-----------------------------------------------------------------------------
(* Worker thread: WorkingThreadWrapper, foo1, and the kernel handlers it   *)
(* reaches (new_task_management, ums_thread_yield, ums_thread_end).        *)

\* what a worker step leaves alone besides its own thread's variables
ovars == <<mainPc, mvars, worker_num, kvars, choice_lock, mem, deqIdx, target, next>>
wvars == <<ovars, counter, reg>>

\* WorkingThreadWrapper: loaded_num += 1 under num_sem
WorkerStart(w) ==
    /\ pc[w] = "start"
    /\ loaded_num' = loaded_num + 1
    /\ Goto(w, "reg")
    /\ UNCHANGED <<tstate, yields, ums_thread_list, scheduler, wsched, wvars>>

\* INTRODUCE_UMS_TASK -> new_task_management: the thread_item is added
\* under the write lock; its scheduler field is left as kmalloc gave it
\* (it is first read after a dispatch has set it)
RegisterTask(w) ==
    /\ pc[w] = "reg"
    /\ ums_thread_list' = ums_thread_list \cup {w}
    /\ Goto(w, "reg_sleep")
    /\ UNCHANGED <<tstate, loaded_num, yields, scheduler, wsched, wvars>>

\* new_task_management: put_task_to_sleep(), first half
RegisterSleep(w) ==
    /\ pc[w] = "reg_sleep"
    /\ SetInterruptible(w)
    /\ Goto(w, "reg_wait")
    /\ UNCHANGED <<loaded_num, yields, ums_thread_list, scheduler, wsched, wvars>>

\* schedule() returns after the first dispatch; the wrapper runs foo1
RegisterResume(w) ==
    /\ pc[w] = "reg_wait"
    /\ Woken(w)
    /\ Goto(w, "user")
    /\ UNCHANGED <<tstate, loaded_num, yields, ums_thread_list, scheduler,
                   wsched, wvars>>

\* mutant of IncLoad: foo1's loop bound off by one (i <= NUM_CYCLES)
IncLoadOffByOne(w) ==
    /\ pc[w] = "user"
    /\ yields[w] <= Cycles
    /\ reg' = [reg EXCEPT ![w] = counter[Arg[w]]]
    /\ Goto(w, "inc")
    /\ UNCHANGED <<tstate, loaded_num, yields, ums_thread_list, scheduler,
                   wsched, ovars, counter>>

\* foo1, one round of for(i < NUM_CYCLES): *counter = *counter + 1 is a
\* load of the shared vars[i] ...
IncLoad(w) ==
    /\ pc[w] = "user"
    /\ yields[w] < Cycles
    /\ reg' = [reg EXCEPT ![w] = counter[Arg[w]]]
    /\ Goto(w, "inc")
    /\ UNCHANGED <<tstate, loaded_num, yields, ums_thread_list, scheduler,
                   wsched, ovars, counter>>

\* ... and a store of the loaded value + 1, with no lock in between (the
\* loaded value is dead afterwards: reg goes back to 0)
IncStore(w) ==
    /\ pc[w] = "inc"
    /\ counter' = [counter EXCEPT ![Arg[w]] = reg[w] + 1]
    /\ reg' = [reg EXCEPT ![w] = 0]
    /\ Goto(w, "counted")
    /\ UNCHANGED <<tstate, loaded_num, yields, ums_thread_list, scheduler,
                   wsched, ovars>>

\* foo1 calls UmsThreadYield -> ums_thread_yield:
\* UMS_LIST_FIND_SCHEDULER reads the caller's thread_item.scheduler
YieldCall(w) ==
    /\ pc[w] = "counted"
    /\ wsched' = [wsched EXCEPT ![w] = UMS_LIST_FIND_SCHEDULER(w)]
    /\ Goto(w, "y_wake")
    /\ UNCHANGED <<tstate, loaded_num, yields, ums_thread_list, scheduler, wvars>>

\* ums_thread_yield: while(!wake_up_process(sched)){}
YieldWake(w) ==
    /\ pc[w] = "y_wake"
    /\ SpinWake(wsched[w])
    /\ Goto(w, "y_sleep")
    /\ UNCHANGED <<loaded_num, yields, ums_thread_list, scheduler, wsched, wvars>>

\* mutant of YieldSleep: schedule() without set_current_state first,
\* so the yielding worker returns at once
YieldSleepNoState(w) ==
    /\ pc[w] = "y_sleep"
    /\ Goto(w, "y_wait")
    /\ UNCHANGED <<tstate, loaded_num, yields, ums_thread_list, scheduler,
                   wsched, wvars>>

\* ums_thread_yield: put_task_to_sleep(), first half
YieldSleep(w) ==
    /\ pc[w] = "y_sleep"
    /\ SetInterruptible(w)
    /\ Goto(w, "y_wait")
    /\ UNCHANGED <<loaded_num, yields, ums_thread_list, scheduler, wsched, wvars>>

\* ums_thread_yield after schedule(): the switch time is charged to the
\* sched_item of `sched`, found again (timing data is not modelled); foo1
\* goes round its loop
YieldResume(w) ==
    /\ pc[w] = "y_wait"
    /\ Woken(w)
    /\ yields' = [yields EXCEPT ![w] = @ + 1]
    /\ Goto(w, "user")
    /\ UNCHANGED <<tstate, loaded_num, ums_thread_list, scheduler, wsched, wvars>>

\* foo1 returns, the wrapper issues UMS_WORKER_DONE -> ums_thread_end:
\* under the write lock the caller's thread_item is unlinked and freed and
\* its scheduler remembered.  (The `!sched` error return is unreachable:
\* a worker only runs user code after a dispatch has set the field.)
ThreadEnd(w) ==
    /\ pc[w] \in {"user", "printed"}
    /\ yields[w] >= Cycles
    /\ wsched' = [wsched EXCEPT ![w] = scheduler[w]]
    /\ ums_thread_list' = ums_thread_list \ {w}
    /\ Goto(w, "end_wake")
    /\ UNCHANGED <<tstate, loaded_num, yields, scheduler, wvars>>

\* mutant of EndWake: the exiting worker forgets to wake its scheduler
EndWakeNoWake(w) ==
    /\ pc[w] = "end_wake"
    /\ Goto(w, "done")
    /\ UNCHANGED <<tstate, loaded_num, yields, ums_thread_list, scheduler,
                   wsched, wvars>>

\* ums_thread_end: while(!wake_up_process(sched)){}; the thread exits
EndWake(w) ==
    /\ pc[w] = "end_wake"
    /\ SpinWake(wsched[w])
    /\ Goto(w, "done")
    /\ UNCHANGED <<loaded_num, yields, ums_thread_list, scheduler, wsched, wvars>>

\* After its loop foo1 prints "going to finish" (line 77): printf to a
\* terminal may block, and the kernel then keeps the worker in
\* TASK_INTERRUPTIBLE until the write can proceed.
UserBlock(w) ==
    /\ UserBlocking
    /\ pc[w] = "user"
    /\ yields[w] >= Cycles
    /\ SetInterruptible(w)
    /\ Goto(w, "blocked")
    /\ UNCHANGED <<loaded_num, yields, ums_thread_list, scheduler, wsched, wvars>>

\* The write proceeds and printf returns to foo1.  A task woken early by
\* someone else keeps waiting in its wait loop, runnable, until then.
UserUnblock(w) ==
    /\ pc[w] = "blocked"
    /\ tstate' = [tstate EXCEPT ![w] = "RUNNING"]
    /\ Goto(w, "printed")
    /\ UNCHANGED <<loaded_num, yields, ums_thread_list, scheduler, wsched, wvars>>

-----------------------------------------------------------------------------
(* Scheduler thread: SchedulerThreadWrapper, the example's scheduler()     *)
(* policy, and the kernel handlers it reaches (new_scheduler_management,   *)
(* ums_dequeue_list, ums_schedule).                                        *)

svars == <<mainPc, mvars, worker_num, loaded_num, yields, wsched, counter, reg>>

\* the state a scheduler returns to at the top of scheduler()'s while(1):
\* DequeueUmsCompletionListItems copies the completion list under cs->sem
\* into the buffer passed to UMS_DEQUEUE, and ums_dequeue_list starts its
\* pass at i = 0
StartDequeue(s) ==
    /\ mem' = [mem EXCEPT ![s] = CL[s]]
    /\ deqIdx' = [deqIdx EXCEPT ![s] = 1]

\* SchedulerThreadWrapper: while (worker_num != loaded_num){}
SchedWait(s) ==
    /\ pc[s] = "wait"
    /\ worker_num = loaded_num
    /\ Goto(s, "sreg")
    /\ UNCHANGED <<tstate, ums_thread_list, scheduler, kvars, choice_lock,
                   mem, deqIdx, target, next, svars>>

\* INTRODUCE_UMS_SCHEDULER -> new_scheduler_management and
\* ums_create_worker_list: a sched_item (counter 0, state 1, running -1)
\* with one worker_info (state 0, counter 0) per id of the list is linked
\* into the process's scheduler list; then scheduler() starts
SchedRegister(s) ==
    /\ pc[s] = "sreg"
    /\ ums_sched_list' = ums_sched_list \cup {s}
    /\ sCounter' = [sCounter EXCEPT ![s] = 0]
    /\ sState' = [sState EXCEPT ![s] = 1]
    /\ sRunning' = [sRunning EXCEPT ![s] = None]
    /\ wiState' = [wiState EXCEPT ![s] = [w \in Workers |-> 0]]
    /\ wiCounter' = [wiCounter EXCEPT ![s] = [w \in Workers |-> 0]]
    /\ StartDequeue(s)
    /\ Goto(s, "deq")
    /\ UNCHANGED <<tstate, ums_thread_list, scheduler, choice_lock, target,
                   next, svars>>

\* ums_dequeue_list, one iteration of the for loop over mem[i]:
\* UMS_LIST_FIND_BY_ID under the read lock; an id without a thread_item,
\* or whose task is not TASK_INTERRUPTIBLE, is overwritten with 0.
\* (The enclosing while(!found && exist) never repeats the pass: every
\* iteration sets found and exist together.)
DequeueScan(s) ==
    /\ pc[s] = "deq"
    /\ deqIdx[s] <= Len(CL[s])
    /\ LET aux == UMS_LIST_FIND_BY_ID(mem[s][deqIdx[s]]) IN
       mem' = [mem EXCEPT ![s][deqIdx[s]] =
                 IF aux # None /\ tstate[aux] = "INTERRUPTIBLE"
                 THEN aux ELSE None]
    /\ deqIdx' = [deqIdx EXCEPT ![s] = @ + 1]
    /\ UNCHANGED <<pc, tstate, ums_thread_list, scheduler, kvars, choice_lock,
                   target, next, svars>>

\* the first surviving entry: scheduler() picks the item of least prio,
\* the first on a tie, and main() gave the j-th id of a list prio j
FirstReady(s) == SelectInSeq(mem[s], LAMBDA id : id # None)

\* copy_to_user of mem; DequeueUmsCompletionListItems builds the ready
\* list from the non-zero slots; scheduler() breaks out of its loop when
\* it is empty and otherwise calls ExecuteUmsThread on the least prio
DequeueReturn(s) ==
    /\ pc[s] = "deq"
    /\ deqIdx[s] > Len(CL[s])
    /\ IF FirstReady(s) = 0
       THEN /\ Goto(s, "sdone")
            /\ UNCHANGED target
       ELSE /\ target' = [target EXCEPT ![s] = mem[s][FirstReady(s)]]
            /\ Goto(s, "x_lookup")
    /\ UNCHANGED <<tstate, ums_thread_list, scheduler, kvars, choice_lock,
                   mem, deqIdx, next, svars>>

\* EXECUTE_UMS_THREAD -> ums_schedule: UMS_LIST_FIND_BY_ID under the read
\* lock yields the thread_item pointer `next`, or NULL
DispatchLookup(s) ==
    /\ pc[s] = "x_lookup"
    /\ next' = [next EXCEPT ![s] = UMS_LIST_FIND_BY_ID(target[s])]
    /\ Goto(s, "x_check")
    /\ UNCHANGED <<tstate, ums_thread_list, scheduler, kvars, choice_lock,
                   mem, deqIdx, target, svars>>

\* ums_schedule under the choice lock, once it dispatches n:
\* next->scheduler = current; the sched_item and worker_info are looked up
\* again, and if(w) its state is 1 and its counter + 1, if(s) the switch
\* counter + 1, state 0 and running = n
RecordDispatch(s, n) ==
    LET sc == UMS_FIND_SCHED_ITEM(s)
        w  == FIND_WORKER_BY_UMS_ID(sc, n)
    IN /\ scheduler' = [scheduler EXCEPT ![n] = s]
       /\ wiState' = IF w = None THEN wiState ELSE [wiState EXCEPT ![sc][w] = 1]
       /\ wiCounter' = IF w = None THEN wiCounter
                       ELSE [wiCounter EXCEPT ![sc][w] = @ + 1]
       /\ sCounter' = IF sc = None THEN sCounter ELSE [sCounter EXCEPT ![sc] = @ + 1]
       /\ sState' = IF sc = None THEN sState ELSE [sState EXCEPT ![sc] = 0]
       /\ sRunning' = IF sc = None THEN sRunning ELSE [sRunning EXCEPT ![sc] = n]

\* mutant of DispatchCheck: the TASK_INTERRUPTIBLE test is dropped
DispatchCheckNoState(s) ==
    /\ pc[s] = "x_check"
    /\ choice_lock = None
    /\ LET n == next[s] IN
       IF n # None
       THEN /\ choice_lock' = s
            /\ RecordDispatch(s, n)
            /\ Goto(s, "x_wake")
            /\ UNCHANGED <<mem, deqIdx>>
       ELSE /\ StartDequeue(s)
            /\ Goto(s, "deq")
            /\ UNCHANGED <<choice_lock, scheduler, sCounter, sState,
                           sRunning, wiState, wiCounter>>
    /\ UNCHANGED <<tstate, ums_thread_list, ums_sched_list, target, next, svars>>

\* ums_schedule under p->choice_lock: if next is non-NULL and its task is
\* TASK_INTERRUPTIBLE, record the dispatch and keep the lock for the
\* wake-up; otherwise unlock and return SUCCESS.  (Both lookups succeed
\* here: a scheduler dispatches after its registration, and scheduler()
\* only ids of its own completion list.)
DispatchCheck(s) ==
    /\ pc[s] = "x_check"
    /\ choice_lock = None
    /\ LET n == next[s] IN
       IF n # None /\ tstate[n] = "INTERRUPTIBLE"
       THEN /\ choice_lock' = s
            /\ RecordDispatch(s, n)
            /\ Goto(s, "x_wake")
            /\ UNCHANGED <<mem, deqIdx>>
       ELSE /\ StartDequeue(s)
            /\ Goto(s, "deq")
            /\ UNCHANGED <<choice_lock, scheduler, sCounter, sState,
                           sRunning, wiState, wiCounter>>
    /\ UNCHANGED <<tstate, ums_thread_list, ums_sched_list, target, next, svars>>

\* ums_schedule: while(!wake_up_process(next->task_struct)){}, then
\* spin_unlock of the choice lock
DispatchWake(s) ==
    /\ pc[s] = "x_wake"
    /\ SpinWake(next[s])
    /\ choice_lock' = None
    /\ Goto(s, "x_sleep")
    /\ UNCHANGED <<ums_thread_list, scheduler, kvars, mem, deqIdx, target,
                   next, svars>>

\* mutant of DispatchSleep: schedule() without set_current_state first,
\* so it returns at once
DispatchSleepNoState(s) ==
    /\ pc[s] = "x_sleep"
    /\ Goto(s, "x_wait")
    /\ UNCHANGED <<tstate, ums_thread_list, scheduler, kvars, choice_lock, mem,
                   deqIdx, target, next, svars>>

\* ums_schedule: put_task_to_sleep(), first half
DispatchSleep(s) ==
    /\ pc[s] = "x_sleep"
    /\ SetInterruptible(s)
    /\ Goto(s, "x_wait")
    /\ UNCHANGED <<ums_thread_list, scheduler, kvars, choice_lock, mem,
                   deqIdx, target, next, svars>>

\* ums_schedule after schedule(): state 1, running -1, worker_info state 0;
\* back in scheduler()'s loop
DispatchResume(s) ==
    /\ pc[s] = "x_wait"
    /\ Woken(s)
    /\ sState' = [sState EXCEPT ![s] = 1]
    /\ sRunning' = [sRunning EXCEPT ![s] = None]
    /\ wiState' = [wiState EXCEPT ![s][next[s]] = 0]
    /\ StartDequeue(s)
    /\ Goto(s, "deq")
    /\ UNCHANGED <<tstate, ums_thread_list, scheduler, ums_sched_list,
                   sCounter, wiCounter, choice_lock, target, next, svars>>

-----------------------------------------------------------------------------

Init ==
    /\ pc = [t \in Threads |-> "unborn"]
    /\ tstate = [t \in Threads |-> "RUNNING"]
    /\ mainPc = 1
    /\ worker_num = 0
    /\ loaded_num = 0
    /\ yields = [w \in Workers |-> 0]
    /\ ums_thread_list = {}
    /\ scheduler = [w \in Workers |-> None]
    /\ ums_sched_list = {}
    /\ sCounter = [s \in Schedulers |-> 0]
    /\ sState = [s \in Schedulers |-> 1]
    /\ sRunning = [s \in Schedulers |-> None]
    /\ wiState = [s \in Schedulers |-> [w \in Workers |-> 0]]
    /\ wiCounter = [s \in Schedulers |-> [w \in Workers |-> 0]]
    /\ choice_lock = None
    /\ wsched = [w \in Workers |-> None]
    /\ mem = [s \in Schedulers |-> CL[s]]
    /\ deqIdx = [s \in Schedulers |-> 1]
    /\ target = [s \in Schedulers |-> None]
    /\ next = [s \in Schedulers |-> None]
    /\ counter = [s \in Schedulers |-> 0]
    /\ reg = [w \in Workers |-> 0]
    /\ joinIdx = 1
    /\ freed = FALSE
    /\ printed = None

\* the steps of worker w that its own thread takes
WorkerStep(w) ==
    \/ WorkerStart(w) \/ RegisterTask(w) \/ RegisterSleep(w)
    \/ RegisterResume(w) \/ IncLoad(w) \/ IncStore(w) \/ YieldCall(w) \/ YieldWake(w) \/ YieldSleep(w)
    \/ YieldResume(w) \/ ThreadEnd(w) \/ EndWake(w)

\* the steps of scheduler s
SchedStep(s) ==
    \/ SchedWait(s) \/ SchedRegister(s) \/ DequeueScan(s) \/ DequeueReturn(s)
    \/ DispatchLookup(s) \/ DispatchCheck(s) \/ DispatchWake(s)
    \/ DispatchSleep(s) \/ DispatchResume(s)

Next ==
    \/ Spawn1 \/ MainJoin \/ MainDelete \/ MainPrint
    \/ \E w \in Workers : WorkerStep(w) \/ UserBlock(w) \/ UserUnblock(w)
    \/ \E s \in Schedulers : SchedStep(s)

\* Every thread is runnable on the Linux scheduler, which eventually runs
\* it: weak fairness per thread.  The event a blocked system call waits
\* for eventually arrives; whether worker code blocks at all is up to it.
Fairness ==
    /\ WF_vars(Spawn1 \/ MainJoin \/ MainDelete \/ MainPrint)
    /\ \A w \in Workers : WF_vars(WorkerStep(w)) /\ WF_vars(UserUnblock(w))
    /\ \A s \in Schedulers : WF_vars(SchedStep(s))

Spec == Init /\ [][Next]_vars /\ Fairness

-----------------------------------------------------------------------------
(* Properties                                                              *)

TypeOK ==
    /\ pc \in [Threads -> WorkerPcs \cup SchedPcs]
    /\ \A w \in Workers : pc[w] \in WorkerPcs
    /\ \A s \in Schedulers : pc[s] \in SchedPcs
    /\ tstate \in [Threads -> {"RUNNING", "INTERRUPTIBLE"}]
    /\ mainPc \in 1..Len(Spawn) + 1
    /\ worker_num \in 0..Cardinality(Workers)
    /\ loaded_num \in 0..worker_num
    /\ yields \in [Workers -> 0..Cycles]
    /\ ums_thread_list \subseteq Workers
    /\ scheduler \in [Workers -> Schedulers \cup {None}]
    /\ ums_sched_list \subseteq Schedulers
    /\ sCounter \in [Schedulers -> Nat]
    /\ sState \in [Schedulers -> {0, 1}]
    /\ sRunning \in [Schedulers -> Workers \cup {None}]
    /\ wiState \in [Schedulers -> [Workers -> {0, 1}]]
    /\ wiCounter \in [Schedulers -> [Workers -> Nat]]
    /\ choice_lock \in Schedulers \cup {None}
    /\ wsched \in [Workers -> Schedulers \cup {None}]
    /\ \A s \in Schedulers : mem[s] \in [1..Len(CL[s]) -> Workers \cup {None}]
    /\ \A s \in Schedulers : deqIdx[s] \in 1..Len(CL[s]) + 1
    /\ target \in [Schedulers -> Workers \cup {None}]
    /\ next \in [Schedulers -> Workers \cup {None}]
    /\ counter \in [Schedulers -> Nat]
    /\ reg \in [Workers -> Nat]
    /\ joinIdx \in 1..Len(Join) + 1
    /\ freed \in BOOLEAN
    /\ printed \in [Schedulers -> Nat] \cup {None}

\* worker w executes its own (user) code on behalf of scheduler s
InUserCode(w, s) ==
    pc[w] \in {"user", "inc", "counted", "blocked", "printed"} /\ scheduler[w] = s

\* scheduler s executes its policy (scheduler() and the parts of
\* ums_schedule before the wake-up)
InPolicy(s) == pc[s] \in {"deq", "x_lookup", "x_check"}

(* Cooperative exclusion, the purpose of the context switch: per scheduler *)
(* at most one worker runs its code, and never while the scheduler itself *)
(* runs its policy.  It depends on ums_schedule putting the scheduler to  *)
(* sleep after waking the worker, and on yield/exit waking the scheduler  *)
(* only after the worker has stopped running user code.                   *)
CooperativeExclusion ==
    \A s \in Schedulers :
        /\ Cardinality({w \in Workers : InUserCode(w, s)}) <= 1
        /\ InPolicy(s) => \A w \in Workers : ~InUserCode(w, s)

\* worker w is bound to wake scheduler s: it runs on s's behalf, or is on
\* its way to the spin-wake in ums_thread_yield / ums_thread_end
OwesWakeup(w, s) ==
    \/ pc[w] \in {"y_wake", "end_wake"} /\ wsched[w] = s
    \/ InUserCode(w, s)
    \/ pc[w] \in {"reg_wait", "y_wait"} /\ Woken(w) /\ scheduler[w] = s

(* No lost wake-up: a scheduler that ums_schedule has put (or is putting) *)
(* to sleep after a dispatch has exactly one worker that will wake it: the *)
(* one it dispatched, through thread_item.scheduler.  None means it sleeps *)
(* forever; two mean a wake-up meant for another dispatch.                *)
WakeObligation ==
    \A s \in Schedulers :
        (pc[s] = "x_sleep" \/ (pc[s] = "x_wait" /\ ~Woken(s)))
            => Cardinality({w \in Workers : OwesWakeup(w, s)}) = 1

(* No use after free in ums_schedule: the thread_item `next` that          *)
(* UMS_LIST_FIND_BY_ID returned, and that is dereferenced after the read  *)
(* lock is dropped (next->task_struct->state under the choice lock), has  *)
(* not been freed by ums_thread_end in between.                           *)
NoDanglingDispatch ==
    \A s \in Schedulers :
        pc[s] = "x_check" /\ next[s] # None => next[s] \in ums_thread_list

\* worker w sleeps at one of the UMS park points
Parked(w) == pc[w] \in {"reg_wait", "y_wait"} /\ tstate[w] = "INTERRUPTIBLE"

(* A dispatch takes a worker only from a UMS park point (registration or  *)
(* yield).  ums_schedule tests TASK_INTERRUPTIBLE, which is also the state *)
(* of a worker sleeping in any system call of its own.                    *)
DispatchOnlyParked ==
    [][\A s \in Schedulers :
          pc[s] = "x_check" /\ pc'[s] = "x_wake" => Parked(next[s])]_vars

(* No stranded worker: a started worker always has a scheduler, among     *)
(* those whose completion list holds it, that has not left its loop; the  *)
(* library's start barrier (worker_num == loaded_num) is there so that a  *)
(* scheduler does not find an empty ready list and exit early.            *)
NoStrandedWorker ==
    \A w \in Workers :
        pc[w] \notin {"unborn", "done"} =>
            \E s \in Schedulers : w \in Ids(s) /\ pc[s] # "sdone"

\* the increments worker w has stored: one per finished round of foo1's
\* loop, and one for the current round once its store is done
Stored(w) ==
    yields[w] + IF pc[w] \in {"counted", "y_wake", "y_sleep", "y_wait"} THEN 1 ELSE 0

(* No lost update of the example's counters: vars[i] always holds every   *)
(* increment stored so far by the workers given &vars[i], so that main()  *)
(* prints Cycles per worker at the end.  foo1 increments without a lock;  *)
(* the count is right only because cooperative scheduling never lets two  *)
(* workers of vars[i] run at once, with one between its load and store.   *)
NoLostUpdate ==
    \A s \in Schedulers :
        counter[s] = MapThenSumSet(Stored, {w \in Workers : Arg[w] = s})

(* What main() prints is the final count: Cycles increments per worker   *)
(* given &vars[i], with none lost and none still to come.                *)
PrintedTotals ==
    printed # None =>
        \A s \in Schedulers :
            printed[s] = Cycles * Cardinality({w \in Workers : Arg[w] = s})

(* A scheduler put to sleep by ums_schedule is eventually resumed.        *)
SchedulerResumed ==
    \A s \in Schedulers : pc[s] = "x_wait" ~> pc[s] = "deq"

-----------------------------------------------------------------------------
(* Refinement of UMSHandoff.                                               *)

\* worker w runs on some scheduler's behalf: from the wake-up of a dispatch
\* (its park point's schedule() returns) until its own wake-up of that
\* scheduler in ums_thread_yield / ums_thread_end
RunsForScheduler(w) ==
    \/ pc[w] \in {"user", "inc", "counted", "blocked", "printed", "y_wake", "end_wake"}
    \/ pc[w] \in {"reg_wait", "y_wait"} /\ Woken(w)

\* scheduler s has handed its CPU to next[s]: from its spin-wake in
\* ums_schedule until a worker's spin-wake makes it RUNNING again
HandedOver(s) == pc[s] = "x_sleep" \/ (pc[s] = "x_wait" /\ ~Woken(s))

Handoff == INSTANCE UMSHandoff WITH
    Lists <- [s \in Schedulers |-> Ids(s)],
    owner <- [s \in Schedulers |-> IF HandedOver(s) THEN next[s] ELSE s],
    phase <- [w \in Workers |-> CASE pc[w] = "done"     -> "done"
                                   [] RunsForScheduler(w) -> "running"
                                   [] OTHER               -> "parked"]

(* The engine implements the token handoff: a dispatch hands a scheduler's *)
(* CPU only to a parked worker of its list that runs for nobody else; the  *)
(* scheduler gets it back only when that same worker yields or ends, in    *)
(* the step that wakes the scheduler; and every handed-out CPU comes back. *)
HandoffRefined == Handoff!Spec

=============================================================================
