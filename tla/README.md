# TLA+ models of UMS (user-mode scheduling)

This directory holds TLA+ models of the UMS kernel module (`src/src/module`) and
its user-space library (`src/src/library`), checked with TLC. The project
records its inventory, runs, mutants, source map, findings and hazards in
`PROJECT.json`. This README explains them.

## 1. The system

UMS lets a few *scheduler* threads run many *worker* threads cooperatively.
Every scheduler and every worker is a real Linux thread. The kernel module
hands the CPU from one to the other by putting one task to sleep
(`TASK_INTERRUPTIBLE` followed by `schedule()`) and waking the other
(`wake_up_process`). User space talks to the module through `ioctl` on
`/dev/ums-dev`.

| Component | Source | State it keeps | Operations |
|---|---|---|---|
| Process registry | `UMSmain.c` 567-650 | global `ums_processes` list (rwlock) of `ums_process` | `init_ums_process`, `exit_ums_process`, `exit_ums_process_all`, `free_sched_list`, `free_work_list` |
| Worker registry | `UMSmain.c` 143-180, 310-343; macros in `UMSmain.h` | per process: `ums_thread_list` of `thread_item {id, task_struct, scheduler}` (rwlock `thread_list_lock`) | register-and-sleep (`new_task_management`), remove on exit (`ums_thread_end`), lookups by id and by caller |
| Scheduler registry | `UMSmain.c` 345-435 | per process: `ums_sched_list` of `sched_item {id, counter, state, running, times, worker_info list}` (rwlock), `num_sched` (counter_lock) | `new_scheduler_management`, `ums_create_worker_list`, bookkeeping inside `ums_schedule` / `ums_thread_yield` |
| Context-switch engine | `UMSmain.c` 188-301 | per process: `choice_lock` (spinlock); per task: `task_struct->state` | `ums_schedule` (dispatch), `ums_thread_yield`, `ums_thread_end`, `put_task_to_sleep` |
| Dequeue protocol | `UMSmain.c` 448-509, `UMSLibrary.c` 236-271 | none (a copy of the caller's ids) | `ums_dequeue_list`, `DequeueUmsCompletionListItems` |
| Library wrappers | `UMSLibrary.c` | `fd`, `worker_num`, `loaded_num` (start barrier), `num_sem` | `EnterUms*Mode`, the two thread wrappers, `ExecuteUmsThread`, `UmsThreadYield` |
| Completion list | `UMSList.c` | user-owned doubly linked list of `{ums_id, prio}` with a semaphore | create, add/append, delete, print |
| Proc diagnostics | `UMSProcManager.c` | `/proc/ums/<pid>/schedulers/<id>/{info, workers/<n>}` | create entries; read scheduler info and worker info; writes are rejected |
| Module lifecycle | `UMSmain.c` 35-136 | misc device | `ums_init`, `ums_exit`, `device_ioctl` (dispatch table) |
| Example | `examples/1-n_sched_m_threads` | counters | `main`, `scheduler()` policy, `foo1` |

**How they interact.** `main` creates workers and then, for each completion
list, a scheduler (`worker_num += 1` per worker). A worker's wrapper counts
itself (`loaded_num += 1`), registers with `INTRODUCE_UMS_TASK` and sleeps. A
scheduler's wrapper spins until `worker_num == loaded_num`, registers with its
list of ids, and then runs the policy loop: `UMS_DEQUEUE` (which ids are
asleep?), then `EXECUTE_UMS_THREAD` on the one with the least prio. The loop
exits when the ready list is empty. `ums_schedule` looks the worker up, then,
under the process's choice lock, checks that the worker is
`TASK_INTERRUPTIBLE`. If it is, it records `thread_item.scheduler = current`
and the statistics, spins on `wake_up_process(worker)`, unlocks and sleeps.
The worker runs until `UmsThreadYield`: it reads its `scheduler`
back-reference, spins on waking it and sleeps. At the end it calls
`UMS_WORKER_DONE`: it unlinks and frees its item, wakes the scheduler and
exits.

**What is hard.**

- All of this is concurrent OS threads. The handoff relies on the spin in
  `while(!wake_up_process(t)){}`, which succeeds only once `t` has set
  `TASK_INTERRUPTIBLE`.
- "Parked" is approximated by `TASK_INTERRUPTIBLE`, which is also the state of
  any thread blocked in an ordinary system call.
- Lookups drop the read lock before the pointer they return is used.
- The start barrier and the dequeue run concurrently with registration and
  yields.
- Process exit frees memory that sleeping threads still reference.

**What makes it correct** (per component):

- Engine: cooperative exclusion (per scheduler, at most one of
  {its policy, its workers} runs user code); no lost or misdirected wake-up;
  only parked workers are dispatched; every sleeping scheduler is resumed.
- Registries: no use of a freed item; back-references name the dispatcher;
  detach releases everything.
- Dequeue: only parked ids are reported, and a transient race must not empty
  the ready list.
- Library: no scheduler exits while its workers still need it.
- Proc: a read never faults and never divides by zero.

## 2. Modules

### `UMSEngine.tla`: the context-switch engine, for one process

Constants: `Workers` and `Schedulers` (model values), `CL[s]` (the ids of each
completion list), `Spawn` (main's creation order), `Join` (the order of
main's `ums_thread_join` calls, its array `id[]`), `Cycles` (`NUM_CYCLES` of
`foo1`), `UserBlocking` (whether `foo1`'s final `printf` may block), `Arg[w]`
(the counter `vars[i]` that `main` passed to worker `w`, named by the
scheduler of loop `i`), `None`.

State:

- `pc` per thread.
- `tstate` per thread (`task_struct->state`).
- The library counters `worker_num` and `loaded_num`.
- The worker registry: `ums_thread_list` and `scheduler` (`thread_item.scheduler`).
- The scheduler registry: `ums_sched_list`, `sCounter`, `sState`, `sRunning`,
  `wiState`, `wiCounter`.
- `choice_lock`.
- The example's counters `counter[s]` (`vars[i]`) and each worker's loaded
  value `reg[w]`.
- The handlers' locals that outlive a step: `wsched`, `mem`, `deqIdx`, `target`,
  `next`.

Each action is one atomic stretch of a handler, ending where another thread can
interfere: a lock release, a wake-up, or the two halves of `put_task_to_sleep`.

| Action | Code |
|---|---|
| `Spawn1` | `main` + `EnterUms*Mode` |
| `MainJoin` / `MainDelete` / `MainPrint` | `main`'s joins, `completion_list_delete` of every list, and the print of `vars[]` |
| `WorkerStart` | wrapper: `loaded_num += 1` |
| `RegisterTask` / `RegisterSleep` / `RegisterResume` | `new_task_management` |
| `IncLoad` / `IncStore` | `foo1`'s loop: `*counter = *counter + 1` as a load and a store |
| `YieldCall` / `YieldWake` / `YieldSleep` / `YieldResume` | `ums_thread_yield` (with `foo1`'s loop) |
| `ThreadEnd` / `EndWake` | `ums_thread_end` |
| `UserBlock` / `UserUnblock` | `foo1`'s final `printf` blocking in the kernel |
| `SchedWait` | wrapper's `while (worker_num != loaded_num)` |
| `SchedRegister` | `new_scheduler_management` + `ums_create_worker_list` |
| `DequeueScan` | one iteration of `ums_dequeue_list`'s loop |
| `DequeueReturn` | library rebuild + `scheduler()`'s choice or exit |
| `DispatchLookup` / `DispatchCheck` / `DispatchWake` / `DispatchSleep` / `DispatchResume` | `ums_schedule` |

Each dispatch updates its bookkeeping in `RecordDispatch`:

- `next->scheduler`;
- the lookups `UMS_FIND_SCHED_ITEM` and `FIND_WORKER_BY_UMS_ID`, from `UMSmain.h`;
- the `if(w)` and `if(s)` updates.

In this engine both lookups always succeed. A scheduler dispatches only after
it has registered, and only ids from its own list.

`PROJECT.json` "map" gives the exact lines of each definition.

Abstractions:

- Timing (`ktime_get_ns`) and the proc-entry creation calls are left out.
- Signals are not modelled.
- `foo1`'s inner loop (`NUM_ITERATION/NUM_CYCLES` increments per round) is
  one increment per round. A lost update needs only one load and store to be
  interleaved. `reg` returns to 0 after the store, where the value is dead.
- A worker woken early while blocked in `printf` stays runnable until its
  write completes. This only removes behaviours in which it is dispatched
  again.
- The `while(!found && exist)` loop of `ums_dequeue_list` is one pass. Both
  flags are always set together, so the loop never repeats. `UMSCompletionList`
  models the loop itself (`DequeueLoop`, `ScanFrom`).

Fairness: weak fairness for every thread's own steps (main's included) and for the completion of
a blocked `printf`. Every thread is a runnable Linux task, which the kernel
scheduler eventually runs. Whether `foo1` blocks at all is not forced.

### `MC_UMSEngine.tla`

Model values `w1..w3` and `s1, s2`, and two shapes:

- `CLDisjoint` / `SpawnDisjoint`: the example. `s1` owns `<<w1, w2>>` and `s2`
  owns `<<w3>>`. Each scheduler is created after its workers.
- `CLShared` / `SpawnShared`: both schedulers use `<<w1, w2>>`. `UMSList.c`
  documents this as allowed. `ArgShared` gives each worker a counter of its
  own. Two schedulers run the workers of a shared list in parallel, so a
  shared counter would lose increments there. This is listed as a hazard and
  is not checked as a run.

Symmetry is not used: the lists and the creation order tell the threads apart.

### `UMSHandoff.tla`: what the context switch promises

An abstract specification with two variables:

- `owner[s]`: `s` itself while it runs its policy, or the worker it handed its
  CPU to.
- `phase[w]`: `"parked"`, `"running"` or `"done"`.

It has three actions:

- `Hand(s, w)`: `ums_schedule`. A scheduler that holds its token gives it to a
  parked worker of its own list.
- `Yield(s)`: `ums_thread_yield`. The worker holding the token returns it and
  parks.
- `Finish(s)`: `ums_thread_end`. The worker holding the token returns it and is
  done.

Weak fairness on each scheduler's `Return`: a running worker is not preempted
out of UMS, so every token comes back.

`UMSEngine` defines `Handoff == INSTANCE UMSHandoff WITH ...` with this
mapping:

- `owner[s]` is `next[s]` from `ums_schedule`'s spin-wake until a worker's
  spin-wake makes `s` RUNNING again (`HandedOver`). Otherwise it is `s`.
- `phase[w]` is `"running"` from the return of `schedule()` at the worker's
  park point until its own spin-wake of the scheduler (`RunsForScheduler`).
  It is `"done"` at its end and `"parked"` otherwise.

`HandoffRefined == Handoff!Spec` is checked as a PROPERTY. Each abstract step
happens in exactly one engine step:

- `Hand` in `DispatchWake`;
- `Yield` in `YieldWake`;
- `Finish` in `EndWake`.

Every other engine step leaves the mapped state unchanged.

### `UMSProcess.tla`: the process registry, across runs of a program

It models the global `ums_processes` list and the two lists each entry holds.

Constants:

- `Procs`: runs of a UMS program.
- `Tgids`: tgids the kernel hands out and reuses once their holder is dead.
- `Threads`: the workers of one run.
- `Killable`: whether a run may die without `UMS_exit`.

State:

- Per run: `pstate`, `tgid`, `tpc` (each worker new / registered / done) and
  `spc` (the scheduler).
- `ums_processes`: a sequence of entries, head first. An entry is named by
  the run whose `init_ums_process` allocated it.
- `items[e]`: the thread list of entry `e`, as `<<run, thread>>` pairs.
- `scheds[e]`: its sched list.
- `leaked`: thread_items no pointer reaches any more. These are the first
  `kmalloc` of each `new_task_management` (line 314, overwritten at line
  330), and the items freed with their list still holding them.
- `loaded`: whether the module is loaded.

Actions and operators:

| Definition | Code |
|---|---|
| `UMS_init` + `init_ums_process` | attach (`.init_array`) |
| `new_task_management`, `new_scheduler_management`, `ums_thread_end` | only the insertion or removal each makes in the entry found by `UMS_FIND_PROCESS_BY_TGID(current->tgid)`, and the lost first `kmalloc` of `new_task_management` |
| `SchedulerReturn` | the policy loop returns |
| `UMS_exit` | detach after main has joined every thread, calling `exit_ums_process`, `free_sched_list` and `free_work_list` |
| `Kill` | the run dies without `UMS_exit` |
| `ums_exit` | rmmod, calling `exit_ums_process_all` |
| `device_ioctl` | the per-request actions of a live run |

`UMS_FIND_PROCESS_BY_TGID` keeps the last match, which is the oldest entry.
`free_work_list` frees only the caller's item. Both are modelled as written.

Fairness: weak fairness on each run's requests, because its threads are
runnable tasks. This does not mean a run reaches `UMS_exit`. `main` joins
every thread first, and `viol_stranded` shows a worker that never ends. No
liveness property is checked for the registry. Starting runs, killing them
and rmmod are left to the environment, with no fairness.

### `MC_UMSProcess.tla`

`p1, p2`, `g1, g2`, `t1, t2`. Two runs can be live at once, and the second
can reuse the first one's tgid.

### `UMSProcFS.tla`: the /proc read handlers against registration and exit

It models one process's `/proc/ums/<pid>` subtree, for one scheduler with
`NumWorkers` workers, and `Readers` user threads that read its files.

Constants:

- `Readers`: threads that read `/proc`.
- `NumWorkers`: the scheduler's workers.
- `Dispatches`: the cap on `ums_schedule` calls.
- `ReadAfterRun`: whether reads start only after the scheduler has returned,
  which is the pause the example offers for reading.
- `Tgid`, `SchedId`: the numbers in the path, `/proc/ums/<Tgid>/schedulers/<SchedId>/...`.

A file is named by what it denotes: the info file (`InfoFile`) or worker `i`.
A read does not get that name, though. It gets the numbers the handler parses
out of the file's path. `Path(f)` builds the path that `dentry_path_raw`
returns. Each directory or file name is `ProcName(n)`, the `sprintf("%d")`
into a 9-byte buffer with `buf[8] = 0`. The path is a sequence of character
codes: `/`, the digits, and one code for every letter. The parsers follow the
C loops:

- `aux_pid_from_path`, `aux_id_from_path`, `aux_worker_from_path` use
  `CopyFrom` (the copy loops) and `SlashFrom` (the slash-counting loop);
- `Kstrtol` reads `buf` up to its NUL. On a non-numeric string it leaves
  `ret` uninitialised, so the result is any value: the ones the reads compare
  with, or -2, which matches nothing.

The header constants (`UMS_PREFIX_LEN`, `NUMBER_OF_SLASHES_BEFORE_*`,
`MAX_NUM_LEN`, `PATH_MAX_LEN`) keep their values. The parses use only the
handler's stack. They are tabulated per file (`ParsedPid`, `ParsedId`,
`ParsedWorker`) and taken when the read starts (`ReadOpen`). The later steps
look up what was parsed: a wrong pid, id or worker number finds NULL, which
`NoNullSched` catches. `strcat` and the printed text are left out.

State:

- Scheduler (`spc`, `wi`): the files that exist, the worker list (`wlist`),
  whether the `sched_item` is linked (`linked`), and its `counter`.
- `exit_ums_process` (`epc`): whether it holds the list lock, whether
  `proc_remove` has run (`removed`), whether the item is freed (`freed`), and
  whether the process is linked (`plinked`).
- Readers (`rpc`, `rfile`, `rnum`, `rp`, `oops`): where each read is, the
  file, the numbers parsed from its path, the process pointer it found, and
  whether it faulted.

Actions:

| Definition | Code |
|---|---|
| `new_scheduler_management` | the item set-up and `ums_create_proc_sched`, before the worker list |
| `WorkerLink`, `WorkerFile` | one `ums_create_worker_list` iteration: `list_add`, then `ums_create_proc_worker` |
| `SchedLink` | `list_add` of the `sched_item` at the end of `new_scheduler_management` |
| `Dispatch` | `s->counter++` in `ums_schedule` |
| `SchedReturn` | the example's policy loop ends on an empty ready list |
| `ExitLock`, `ProcRemove`, `ExitFree` | `exit_ums_process`: the write lock, `ums_delete_proc_process`, then `free_sched_list` and the unlink |
| `ReadOpen` | a read enters `myproc_read_*` on an existing file |
| `ReadFindProc`, `ReadFindSched` | `PROC_FIND_PROCESS_BY_TGID` (waits for the read lock) and `PROC_FIND_SCHED`, with the `s->worker_num` dereference |
| `ReadShort`, `ReadInfo`, `ReadWork`, `ReadReturn` | the short-read return, the average and the worker loop, `myproc_read_work`'s worker lookup, and the copy out |

`proc_remove` waits for reads in flight (the /proc core's use count), so
`ExitFree` is enabled only when no read is in flight. A read that oopses
never releases its use.

Fairness: weak fairness on the scheduler's steps, on the exit's steps and on
each read already started, because these are kernel code paths of runnable
tasks. Starting a read is up to the user, with no fairness.

### `MC_UMSProcFS.tla`

Model values `r1, r2`.

### `UMSCompletionList.tla`: a completion list queried while it is filled

It models one completion list (`UMSList.c`) shared by the thread that calls
`completion_list_add` and a scheduler that calls
`DequeueUmsCompletionListItems`. The list is the sequence of items reachable
from `cs->head`. `cs->len` is a separate variable, because the library reads
both without `cs->sem`.

- The add is three steps:
  1. `AddWait`: `sem_wait`;
  2. `AddLink`: the item is linked;
  3. `AddCount`: `len += 1` and `sem_post`.
- The dequeue follows the library's order:
  1. `DequeueAlloc`: the array is sized from `cs->len`;
  2. `DequeueLen`: `memory[0]` is set;
  3. `DequeueHead`: `item = cs->head`;
  4. `DequeueWait`: `sem_wait`;
  5. `DequeueCopy`: the copy loop, one iteration per step;
  6. `DequeuePost`: `sem_post`;
  7. `DequeueIoctl`: the `UMS_DEQUEUE` ioctl;
  8. `DequeueRebuild`: the rebuild loop, one iteration per step, without the
     semaphore;
  9. `DequeueReturn`: the ready list is returned.
- `ums_dequeue_list`'s loops are two RECURSIVE operators:
  - `ScanFrom` is the `for` loop.
  - `DequeueLoop` is the `while(!found && exist)` around it, translated as
    written. It stops after one pass, because every id with a `thread_item`
    sets both flags.
- The engine state the kernel reads is chosen freely at each query: which ids
  have a `thread_item` (`regd`), and which tasks are `TASK_INTERRUPTIBLE`
  (`parked`).
- An invalid access ends the query in `fault`:
  - `"null"`: a NULL item is dereferenced;
  - `"overflow"`: a write past `memory[]`, by the copy loop or by the kernel's
    copy;
  - `"overread"`: the rebuild reads past `memory[]`.
  A kernel length of 0 ends it in `"exit"`, the `exit()` of `DO_IOCTL`.

`MC_UMSCompletionList` has these bounds:

- `main` adds `i1` and `i2` with prios 1 and 2, as the example does.
- Another thread adds `i3` later.
- There are two queries.

Two configurations:

- `pass_clist.cfg`: `TypeOK` and `ReadyCorrect` pass (6,783 states). A query
  that finishes returns exactly the snapshot's entries whose worker is
  registered and `TASK_INTERRUPTIBLE`, in order and each with its own prio.
  - Mutant `NextItemNoNull` (the new tail's `next` is left unset) breaks
    `TypeOK`.
  - Mutant `DequeueRebuildAdvanceKept` (`item = item->next` inside the `if`)
    breaks `ReadyCorrect`.
- `viol_clist_snapshot.cfg`: `NoListFault` is violated. The add of `i3`
  completes after `memory[cs->len + 1]` is sized, with indices 0..2, and
  before `sem_wait`. The copy loop then runs to the new `cs->len` = 3 and
  writes `memory[3]` past the array. The spec (the Completion List entity and
  section 4.5) requires a length-prefixed snapshot taken under the list's
  lock.

These two configurations are not yet listed as runs in `PROJECT.json`, which
holds twelve runs. Listing them means retiring two of the earlier runs.

## 3. Runs

| Run | Expect | Checks | Shows |
|---|---|---|---|
| `pass_example` | pass (~120k states) | TypeOK, CooperativeExclusion, WakeObligation, NoDanglingDispatch, NoLostUpdate, PrintedTotals, DispatchOnlyParked, SchedulerResumed, HandoffRefined | With disjoint lists and a worker that may block in `printf`, the handoff protocol is safe, every sleeping scheduler is resumed, the unlocked counters lose no increment, and `main` prints the final totals. |
| `pass_shared` | pass (~340k states) | TypeOK, CooperativeExclusion, WakeObligation, SchedulerResumed, HandoffRefined | With a shared list and workers that never block on their own, the choice lock serialises dispatches, no wake-up is lost and the handoff is refined. |
| `viol_uaf` | violation | NoDanglingDispatch | With a shared list, `ums_schedule` reads a `thread_item` that `ums_thread_end` has freed. |
| `viol_blocked_steal` | violation | WakeObligation | With a shared list, a worker blocked in `printf` is taken over by the other scheduler, and the first scheduler sleeps forever. |
| `viol_stranded` | violation | NoStrandedWorker | In the example itself, a scheduler can exit while its workers still sleep. |
| `pass_proc_graceful` | pass (~3k states) | TypeOK, Isolation | When runs join and detach, each run is served from its own entry, even after its tgid is reused. |
| `pass_proc_kill` | pass (~21k states) | TypeOK | The registry's state stays well-formed when runs are killed and leave stale entries behind. This run also fires `Kill` and `ums_exit`. |
| `viol_proc_tgid_reuse` | violation | NoStaleItem | A killed run's entry survives, and a later run with its tgid is served from it, together with the dead run's thread_items. |
| `viol_proc_leak` | violation | NoLeak | Even a graceful run leaks one thread_item per registration (`new_task_management`'s first `kmalloc`). |
| `pass_procfs` | pass (~2.5k states) | TypeOK, NoNullSched | Reads started after the scheduler returns parse their own path back at the largest tgid, and never meet a NULL process, `sched_item` or `worker_info`. |
| `viol_procfs_null` | violation | NoNullSched | A read during registration finds the info or worker file before the `sched_item` or `worker_info` is linked, and dereferences NULL. |
| `viol_procfs_exit_hang` | violation | ExitCompletes | `exit_ums_process` waits in `proc_remove`, under the list write lock, for a read that waits for that lock. |

**Properties.**

- `CooperativeExclusion`: per scheduler, at most one worker runs user code,
  and never while the scheduler runs its policy.
- `WakeObligation`: a scheduler asleep after a dispatch has exactly one worker
  bound to wake it.
- `NoDanglingDispatch`: the `next` pointer is still live when `ums_schedule`
  dereferences it.
- `NoLostUpdate` (`pass_example`): each counter `vars[i]` always holds every
  increment stored so far by the workers given `&vars[i]`. `foo1` increments
  without a lock, so this holds only because the handoff never lets two
  workers of one scheduler run at once. `YieldSleepNoState` breaks it.
- `PrintedTotals` (`pass_example`): the values `main` prints are the final
  counts, `Cycles` per worker of each counter. It combines the joins with
  `NoLostUpdate`. `MainJoinNoWait`, a join that returns before the thread has
  exited, breaks it.
- `DispatchOnlyParked` (action property, `pass_example`): a dispatch takes a
  worker only from a UMS park point. It is not checked in `pass_shared`.
  There workers never block, so every `TASK_INTERRUPTIBLE` worker is at a
  park point and the property would only restate the dispatch check.
- `SchedulerResumed`: `x_wait ~> deq`.
- `HandoffRefined`: the engine implements `UMSHandoff`. A dispatch gives a
  scheduler's CPU only to a parked worker of its list that runs for no one
  else. The scheduler gets it back only in the step in which that same worker
  yields or ends, and it always gets it back. In the configuration of
  `viol_blocked_steal` (a shared list, with blocking) TLC finds this violated
  too: the steal is a `Hand` of a worker that is already running.
- `NoStrandedWorker`: a started worker always has a live scheduler whose list
  holds it.
- `Isolation` and `NoStaleItem` (UMSProcess): a live run is served from its
  own entry, and no list it is served from holds a dead task's item.
- `NoLeak` (`viol_proc_leak` only): no thread_item is lost.
- `NoNullSched` (UMSProcFS): a read never dereferences a NULL process,
  `sched_item` or `worker_info`.
- `ExitCompletes`: `exit_ums_process`, once it holds the list lock, returns.

**Findings** (details in `PROJECT.json`):

1. `viol_stranded`: the shortest trace is the registration race.
   `WorkingThreadWrapper` counts the worker in `loaded_num` before it
   registers, so the start barrier opens too early and the scheduler exits on
   an empty ready list. The model also reaches a second cause: a yielding
   worker wakes its scheduler before it marks itself `TASK_INTERRUPTIBLE`.
   When it is the last worker of the list, the dequeue reports nothing ready,
   and the retry loop never repeats, so the scheduler exits.
2. `viol_uaf`: a freed `thread_item` is dereferenced in `ums_schedule`.
3. `viol_blocked_steal`: `TASK_INTERRUPTIBLE` is used as "parked".
4. `viol_proc_tgid_reuse`: nothing removes the entry of a run that dies
   without detaching, although spec.md says a Process is destroyed when it
   terminates. The oldest-match lookup then serves the stale entry to the
   next run with that tgid.
5. `viol_proc_leak`: `new_task_management` allocates a thread_item at line
   314 and overwrites the pointer with a second `kmalloc` at line 330. One
   item leaks per registration, with no kill needed. A second leak at line
   556 is listed as a hazard under the same property: after a kill,
   `free_work_list` frees only the caller's item, even on rmmod.
6. `viol_procfs_null`: `new_scheduler_management` creates the `/proc`
   entries (line 422) before it links the `sched_item` (line 429). Each
   worker file is created after its `worker_info` is linked, but also before
   the `sched_item` is. A read in that window gets `s = NULL` and
   dereferences it.
7. `viol_procfs_exit_hang`: `proc_remove` runs under
   `write_lock_irqsave(&processes_list_lock)`. It sleeps until reads finish,
   and a read waits for the read lock. This is a deadlock, and also a sleep in
   atomic context.

**Bounds.** Three workers and two schedulers. This covers one scheduler with
two workers (choosing among several, a dispatch while a sibling is mid-yield)
and two schedulers racing on the choice lock. `Cycles = 2` in the passing runs,
so each worker is dispatched, yields, is re-dispatched, yields again and ends.
That exercises first dispatch, re-dispatch after yield, and exit. The violation
runs use `Cycles = 1`, which is enough for their traces. Deadlock checking is
off (`CHECK_DEADLOCK FALSE`). The program terminates, so final states have no
successor. The stuck states the code can reach are the subject of
`NoStrandedWorker`, not silent deadlocks.

**Mutants.** Each property of a passing run is broken by a plausible bug in
the code it is about:

- `IncLoadOffByOne`: `foo1`'s loop runs one iteration too many.
- `MainJoinNoWait`: `main` goes on after a failed join.
- `DispatchSleepNoState` and `YieldSleepNoState`: `schedule()` is called
  without `set_current_state` first. `YieldSleepNoState` breaks
  `HandoffRefined` under `pass_shared`: the worker runs again with no
  dispatch.
- `EndWakeNoWake`: the exiting worker does not wake its scheduler. It also
  breaks `HandoffRefined`, because the worker ends without returning the token.
- `DispatchCheckNoState`: the `TASK_INTERRUPTIBLE` test is dropped.
- `new_task_managementSwapped`: the item's fields are swapped.
- `exit_ums_processNoUnlink`: `list_del` is dropped.
- `WorkerFileOffByOne` (UMSProcFS): `ums_create_worker_list`'s loop runs to
  `i <= worker_num`.
- `ExitFreeNoDrain`: `free_sched_list` runs while a read is still in flight,
  as if the entries were removed without `proc_remove`.

**UMSProcess bounds.** Two runs and two tgids cover the cases: concurrent
runs with distinct tgids, and sequential runs with one tgid. Two workers per
run leave an item behind when one has ended and the other has not.

**UMSProcFS bounds.** `Tgid = 4194303`, the largest pid that Linux's
`PID_MAX_LIMIT` (2^22) allows, so the longest real tgid goes through the
8-character names and back through `aux_pid_from_path`. Two workers, so a read can hit a worker file whose
`worker_info` is linked and one whose is not. Two dispatches. Two readers in
the passing run, so that two reads are in flight when the exit drains them.
One reader in the violation runs, which is enough for their traces.

The division by zero at `UMSProcManager.c:116` is modelled: `ReadInfo` takes
the `Oops "div"` branch, and `pass_procfs` reaches it. It has no run of its
own, because a single read of a fresh scheduler's info file shows it without
any interleaving.

## 4. Not modelled (yet), and why

- **Process registry while threads are inside handlers**: `UMSProcess`
  detaches only after main joins every thread. The library does that, and
  `DO_IOCTL`'s `exit()` on a failed request is the exception. Composing it
  with `UMSEngine` is planned.
- **Proc diagnostics**, partly: the path parsers and the names are modelled.
  `strcat` and the printed text are not. `myproc_write` only returns `-EINVAL`. The root directory's
  creation and removal in `ums_init`/`ums_exit` are not modelled, nor is the
  use of pde's freed with that root by `exit_ums_process_all` (a hazard in
  `PROJECT.json`).
- **Completion list** (`UMSList.c`): in `UMSEngine` it is constant, because
  the example fills it before the scheduler starts. `UMSCompletionList`
  models the add racing a query. `UMSEngine` models `main`'s
  `completion_list_delete` after the joins as one step (`MainDelete`); the
  frees inside it are not modelled. `completion_list_print` is debug output
  and is not modelled either.
- **Timing statistics**: not modelled yet.
- **`device_ioctl`, `ums_init`, `ums_exit`**: a dispatch table and device
  registration, pure I/O.
- **`DO_IOCTL`'s `exit()` on failure**: not modelled.

## 5. Plan

Ordered by importance. Items 1-6 are done.

1. **Done.** `UMSEngine` + `MC_UMSEngine`: the handoff protocol, the worker
   and scheduler registries, the dequeue scan, the library barrier, the
   example policy. Runs `pass_example`, `pass_shared` and three violations.
2. **Done.** Hazards list in `PROJECT.json`.
3. **Done.** Mutants for every passing property.
4. **Done: `UMSProcess`** (the process registry). Still open: composing it
   with the engine, so that a detach can happen while threads are mid-handler.
   - Open: `UMS_exit` running while threads sleep in handlers (reached
     through `DO_IOCTL`'s `exit()`). Property: no write into a freed
     `sched_item` after a scheduler resumes.
5. **Done: `UMSProcFS`**: the proc read handlers against registration and
   exit. It found the NULL window and the `proc_remove` deadlock.
6. **Done: `UMSHandoff`**: the abstract token handoff. `UMSEngine` is shown
   to implement it through `INSTANCE ... WITH`, checked in `pass_example` and
   `pass_shared`.
7. **Done, not yet listed as runs: the dequeue loops** as RECURSIVE operators
   (`ScanFrom`, `DequeueLoop` in `UMSCompletionList`). They are checked
   together with the library's rebuild against a filter of the snapshot
   (`ReadyCorrect`).
8. **Timing attribution** in `UMSEngine`: model `last_time`'s owner to show
   the stale `sched` in `ums_thread_yield` charging the wrong scheduler.
9. **Completion list**: modelled (`UMSCompletionList`). Still open: listing its
   two configurations as runs.
