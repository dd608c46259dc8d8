------------------------------ MODULE UMSProcFS ------------------------------
(***************************************************************************)
(* The /proc diagnostics of one scheduler (UMSProcManager.c) against the   *)
(* code that creates, updates and frees what they read: the scheduler's    *)
(* registration (new_scheduler_management, ums_create_worker_list), its    *)
(* dispatches (s->counter++ in ums_schedule) and the detach of the process *)
(* (exit_ums_process).                                                     *)
(*                                                                         *)
(* The files are /proc/ums/<pid>/schedulers/<id>/info and                  *)
(* .../workers/<n>.  A file is named here by what it denotes: InfoFile,   *)
(* or the worker index n; a read rebuilds its path and parses <pid>, <id>  *)
(* and <n> back out of it (aux_*_from_path), as the handlers do.           *)
(*                                                                         *)
(* A read runs between use_pde and unuse_pde of the proc core: once it has *)
(* opened a file, proc_remove of that file waits for it to return.  A      *)
(* kernel oops in a read kills the reader without that return.             *)
(***************************************************************************)
EXTENDS Integers, FiniteSets, SequencesExt

CONSTANTS
    Readers,        \* tasks reading the proc files
    Tgid,           \* tgid of the process, as ums_create_proc_process names it
    SchedId,        \* the scheduler's id (p->num_sched when it registered)
    NumWorkers,     \* length of the scheduler's completion list
    Dispatches,     \* bound on the scheduler's ums_schedule calls
    ReadAfterRun    \* reads start only once the scheduler has returned

ASSUME /\ NumWorkers \in Nat \ {0}
       /\ Tgid \in Nat /\ SchedId \in Nat
       /\ Dispatches \in Nat \ {0}
       /\ ReadAfterRun \in BOOLEAN

WorkerIds == 0 .. NumWorkers - 1
InfoFile  == -1
Files     == {InfoFile} \cup WorkerIds

-----------------------------------------------------------------------------
(* The paths of the files, and how a read gets the numbers back.  A path  *)
(* is a sequence of character codes: '/', the digits, and 'a' for every   *)
(* letter (the parsers only test for '/' and NUL, kstrtol for digits).     *)

NUL == 0
SLASH == 47
ZERO == 48
LETTER == 97

Word(n) == [i \in 1 .. n |-> LETTER]

\* the decimal digits of n, as characters
RECURSIVE Digits(_)
Digits(n) == IF n < 10 THEN <<ZERO + n>>
             ELSE Digits(n \div 10) \o <<ZERO + (n % 10)>>

(* sprintf(buf, "%d", n); buf[8] = 0: the name of a dir or file made by    *)
(* ums_create_proc_process, _sched and _worker, cut to 8 characters.       *)
ProcName(n) == SubSeq(Digits(n), 1, IF Len(Digits(n)) > 8 THEN 8 ELSE Len(Digits(n)))

(* dentry_path_raw of a file, relative to the root of /proc:               *)
(* /ums/<tgid>/schedulers/<id>/info or .../<id>/workers/<n>.               *)
Path(f) ==
    <<SLASH>> \o Word(3) \o <<SLASH>> \o ProcName(Tgid) \o <<SLASH>> \o Word(10)
    \o <<SLASH>> \o ProcName(SchedId) \o <<SLASH>>
    \o (IF f = InfoFile THEN Word(4) ELSE Word(7) \o <<SLASH>> \o ProcName(f))

\* path[k], 0-based; past the end of the string, its NUL
Char(p, k) == IF k < Len(p) THEN p[k + 1] ELSE NUL

MAX_NUM_LEN == 32
UMS_PREFIX_LEN == 5
NUMBER_OF_SLASHES_BEFORE_ID == 4
NUMBER_OF_SLASHES_BEFORE_WORKER == 6

\* the value of a string of decimal digits
RECURSIVE Decimal(_)
Decimal(str) == IF str = <<>> THEN 0
                ELSE 10 * Decimal(SubSeq(str, 1, Len(str) - 1))
                     + str[Len(str)] - ZERO

(* kstrtol(buf, 10, &ret): the value of an all-digit string (buf up to   *)
(* its first NUL).  On any other string it fails and leaves ret            *)
(* uninitialised, which may then hold any value: here the numbers the      *)
(* reads compare with, and -2, which matches nothing.                      *)
Kstrtol(buf) ==
    LET nul == SelectInSeq(buf, LAMBDA c : c = NUL)
        str == IF nul = 0 THEN buf ELSE SubSeq(buf, 1, nul - 1)
    IN IF Len(str) > 0 /\ \A i \in 1 .. Len(str) : str[i] \in ZERO .. ZERO + 9
       THEN {Decimal(str)}
       ELSE {-2, Tgid, SchedId} \cup WorkerIds

(* The copy loops: from index k, at most n characters, up to one of stops *)
RECURSIVE CopyFrom(_, _, _, _)
CopyFrom(p, k, n, stops) ==
    IF n = 0 \/ Char(p, k) \in stops THEN <<>>
    ELSE <<Char(p, k)>> \o CopyFrom(p, k + 1, n - 1, stops)

(* The search loop: the index of the c-th '/', or of the NUL if there are *)
(* fewer.                                                                  *)
RECURSIVE SlashFrom(_, _, _, _)
SlashFrom(p, i, counter, c) ==
    IF Char(p, i) = NUL THEN i
    ELSE LET k == IF Char(p, i) = SLASH THEN counter + 1 ELSE counter IN
         IF k = c THEN i ELSE SlashFrom(p, i + 1, k, c)

\* the copies of the id and the worker number have no bound but the NUL
\* that ends the path, which dentry_path_raw keeps within PATH_MAX_LEN
PATH_MAX_LEN == 128

aux_pid_from_path(p) ==
    Kstrtol(CopyFrom(p, UMS_PREFIX_LEN, MAX_NUM_LEN - 1, {SLASH}))

aux_id_from_path(p) ==
    Kstrtol(CopyFrom(p, SlashFrom(p, 0, 0, NUMBER_OF_SLASHES_BEFORE_ID) + 1,
                     PATH_MAX_LEN, {SLASH, NUL}))

aux_worker_from_path(p) ==
    Kstrtol(CopyFrom(p, SlashFrom(p, 0, 0, NUMBER_OF_SLASHES_BEFORE_WORKER) + 1,
                     PATH_MAX_LEN, {NUL}))

\* what the reads of each file parse out of its path (a constant table)
ParsedPid    == [f \in Files |-> aux_pid_from_path(Path(f))]
ParsedId     == [f \in Files |-> aux_id_from_path(Path(f))]
ParsedWorker == [f \in Files |-> aux_worker_from_path(Path(f))]

-----------------------------------------------------------------------------
VARIABLES
    spc,       \* scheduler thread: "new" "wlink" "wfile" "link" "run" "done"
    wi,        \* ums_create_worker_list's loop index
    files,     \* proc files created so far
    removed,   \* proc_remove has unhooked the process's subtree
    wlist,     \* worker_info ids linked in s->ums_worker_list
    linked,    \* the sched_item is linked in p->ums_sched_list
    counter,   \* s->counter
    freed,     \* the sched_item and its worker_infos are freed
    plinked,   \* the ums_process is linked in ums_processes
    epc,       \* exit_ums_process: "wait" "locked" "removing" "done"
    rpc,       \* reader: "idle" "open" "proc" "sched" or "oops"
    rfile,     \* file the reader is reading
    rnum,      \* the pid, id and worker number its read parses from the path
    rp,        \* PROC_FIND_PROCESS_BY_TGID found the process
    oops       \* why the reader's oops happened: "none" "null" "div"

svars == <<spc, wi, files, wlist, linked, counter>>
evars == <<removed, freed, plinked, epc>>
rvars == <<rpc, rfile, rnum, rp, oops>>
vars  == <<svars, evars, rvars>>

\* The write lock of processes_list_lock is held from "locked" on.
ListLocked == epc \in {"locked", "removing"}

\* Readers inside a read handler, which proc_remove waits for.
InFlight == {r \in Readers : rpc[r] # "idle"}

-----------------------------------------------------------------------------
(* ums_create_proc_sched: the scheduler's dir, workers dir and info file.  *)
ums_create_proc_sched == files' = files \cup {InfoFile}

(* ums_create_proc_worker: the file of worker i.                           *)
ums_create_proc_worker(i) == files' = files \cup {i}

(* new_scheduler_management up to ums_create_proc_sched: the sched_item is *)
(* allocated and filled (counter = 0) and its dir and info file are made.  *)
new_scheduler_management ==
    /\ spc = "new"
    /\ ums_create_proc_sched
    /\ spc' = "wlink"
    /\ wi' = 0
    /\ UNCHANGED <<wlist, linked, counter, evars, rvars>>

(* ums_create_worker_list, one iteration: link the worker_info ...         *)
WorkerLink ==
    /\ spc = "wlink"
    /\ wlist' = wlist \cup {wi}
    /\ spc' = "wfile"
    /\ UNCHANGED <<wi, files, linked, counter, evars, rvars>>

\* Mutant: the worker loop runs to i <= worker_num.
WorkerFileOffByOne ==
    /\ spc = "wfile"
    /\ ums_create_proc_worker(wi)
    /\ wi' = wi + 1
    /\ spc' = IF wi = NumWorkers THEN "link" ELSE "wlink"
    /\ UNCHANGED <<wlist, linked, counter, evars, rvars>>

(* ... then create its proc file (ums_create_proc_worker).                 *)
WorkerFile ==
    /\ spc = "wfile"
    /\ ums_create_proc_worker(wi)
    /\ wi' = wi + 1
    /\ spc' = IF wi + 1 = NumWorkers THEN "link" ELSE "wlink"
    /\ UNCHANGED <<wlist, linked, counter, evars, rvars>>

(* new_scheduler_management: list_add of the sched_item, at last.          *)
SchedLink ==
    /\ spc = "link"
    /\ linked' = TRUE
    /\ spc' = "run"
    /\ UNCHANGED <<wi, files, wlist, counter, evars, rvars>>

(* ums_schedule on a parked worker: s->counter++ under the choice lock.    *)
Dispatch ==
    /\ spc = "run"
    /\ counter < Dispatches
    /\ counter' = counter + 1
    /\ UNCHANGED <<spc, wi, files, wlist, linked, evars, rvars>>

(* The policy loop returns, after any number of dispatches: UMSEngine      *)
(* shows a scheduler can find its ready list empty before dispatching.     *)
SchedReturn ==
    /\ spc = "run"
    /\ spc' = "done"
    /\ UNCHANGED <<wi, files, wlist, linked, counter, evars, rvars>>

-----------------------------------------------------------------------------
\* Mutant: free_sched_list and the unlink run before ums_delete_proc_process.
ExitLockFreeFirst ==
    /\ epc = "wait"
    /\ spc = "done"
    /\ epc' = "locked"
    /\ freed' = TRUE
    /\ plinked' = FALSE
    /\ UNCHANGED <<removed, svars, rvars>>

(* exit_ums_process, once main has joined the scheduler: take the write    *)
(* lock of processes_list_lock.                                            *)
ExitLock ==
    /\ epc = "wait"
    /\ spc = "done"
    /\ epc' = "locked"
    /\ UNCHANGED <<removed, freed, plinked, svars, rvars>>

(* ums_delete_proc_process: proc_remove unhooks the subtree ...            *)
ProcRemove ==
    /\ epc = "locked"
    /\ removed' = TRUE
    /\ epc' = "removing"
    /\ UNCHANGED <<freed, plinked, svars, rvars>>

\* Mutant: the subtree is freed without waiting for the reads in flight.
ExitFreeNoDrain ==
    /\ epc = "removing"
    /\ freed' = TRUE
    /\ plinked' = FALSE
    /\ epc' = "done"
    /\ UNCHANGED <<removed, svars, rvars>>

(* ... waits for the reads in flight, then free_sched_list, list_del,      *)
(* kfree and the unlock.                                                   *)
ExitFree ==
    /\ epc = "removing"
    /\ InFlight = {}
    /\ freed' = TRUE
    /\ plinked' = FALSE
    /\ epc' = "done"
    /\ UNCHANGED <<removed, svars, rvars>>

-----------------------------------------------------------------------------
(* A read of an existing file that proc_remove has not unhooked.  The     *)
(* handler's dentry_path_raw and aux_*_from_path only touch its own stack, *)
(* so the numbers it parses are taken here, where the read starts.         *)
ReadOpen(r) ==
    /\ rpc[r] = "idle"
    /\ ReadAfterRun => spc = "done"
    /\ ~removed
    /\ \E f \in files :
         \E pid \in ParsedPid[f], id \in ParsedId[f],
           n \in IF f = InfoFile THEN {-2} ELSE ParsedWorker[f] :
            /\ rfile' = [rfile EXCEPT ![r] = f]
            /\ rnum' = [rnum EXCEPT ![r] = [pid |-> pid, id |-> id, worker |-> n]]
    /\ rpc' = [rpc EXCEPT ![r] = "open"]
    /\ UNCHANGED <<rp, oops, svars, evars>>

(* PROC_FIND_PROCESS_BY_TGID under the read lock of processes_list_lock:  *)
(* it finds the process if the parsed pid is its tgid.                     *)
ReadFindProc(r) ==
    /\ rpc[r] = "open"
    /\ ~ListLocked
    /\ rp' = [rp EXCEPT ![r] = plinked /\ rnum[r].pid = Tgid]
    /\ rpc' = [rpc EXCEPT ![r] = "proc"]
    /\ UNCHANGED <<rfile, rnum, oops, svars, evars>>

\* The reader dies in an oops, still counted as in flight.
Oops(r, why) ==
    /\ rpc' = [rpc EXCEPT ![r] = "oops"]
    /\ oops' = [oops EXCEPT ![r] = why]
    /\ UNCHANGED <<rfile, rnum, rp>>

(* PROC_FIND_SCHED(p, id, s) and s->worker_num: a NULL p, or no linked    *)
(* sched_item with the parsed id, faults.                                  *)
ReadFindSched(r) ==
    /\ rpc[r] = "proc"
    /\ IF rp[r] /\ linked /\ rnum[r].id = SchedId
         THEN /\ rpc' = [rpc EXCEPT ![r] = "sched"]
              /\ UNCHANGED <<rfile, rnum, rp, oops>>
         ELSE Oops(r, "null")
    /\ UNCHANGED <<svars, evars>>

\* The read returns to the proc core (unuse_pde).
ReadReturn(r) ==
    /\ rpc' = [rpc EXCEPT ![r] = "idle"]
    /\ UNCHANGED <<rfile, rnum, rp, oops>>

(* *ppos > 0 or a short buffer: the read returns 0 before printing.        *)
ReadShort(r) ==
    /\ rpc[r] = "sched"
    /\ ReadReturn(r)
    /\ UNCHANGED <<svars, evars>>

(* myproc_read_sched: total_time / counter, then the worker list.          *)
ReadInfo(r) ==
    /\ rpc[r] = "sched"
    /\ rfile[r] = InfoFile
    /\ IF counter = 0 THEN Oops(r, "div") ELSE ReadReturn(r)
    /\ UNCHANGED <<svars, evars>>

\* PROC_FIND_WORKER: the linked worker_info with this id, or NULL (-1)
PROC_FIND_WORKER(id) == IF id \in wlist THEN id ELSE -1

(* myproc_read_work: PROC_FIND_WORKER with the parsed worker number, then *)
(* w->id: a NULL w faults.                                                 *)
ReadWork(r) ==
    /\ rpc[r] = "sched"
    /\ rfile[r] \in WorkerIds
    /\ IF PROC_FIND_WORKER(rnum[r].worker) # -1 THEN ReadReturn(r)
                                                ELSE Oops(r, "null")
    /\ UNCHANGED <<svars, evars>>

-----------------------------------------------------------------------------
Init ==
    /\ spc = "new"
    /\ wi = 0
    /\ files = {}
    /\ removed = FALSE
    /\ wlist = {}
    /\ linked = FALSE
    /\ counter = 0
    /\ freed = FALSE
    /\ plinked = TRUE
    /\ epc = "wait"
    /\ rpc = [r \in Readers |-> "idle"]
    /\ rfile = [r \in Readers |-> InfoFile]
    /\ rnum = [r \in Readers |-> [pid |-> -2, id |-> -2, worker |-> -2]]
    /\ rp = [r \in Readers |-> FALSE]
    /\ oops = [r \in Readers |-> "none"]

SchedStep == new_scheduler_management \/ WorkerLink \/ WorkerFile
               \/ SchedLink \/ Dispatch \/ SchedReturn

ExitStep == ExitLock \/ ProcRemove \/ ExitFree

\* A read in the kernel, once the user has started it.
ReadStep(r) == ReadFindProc(r) \/ ReadFindSched(r) \/ ReadShort(r)
                 \/ ReadInfo(r) \/ ReadWork(r)

Next == SchedStep \/ ExitStep \/ \E r \in Readers : ReadOpen(r) \/ ReadStep(r)

(* Kernel threads run: weak fairness for the scheduler's and the exit's    *)
(* steps and a started read.  Starting a read is up to the user.           *)
Fairness == /\ WF_vars(SchedStep)
            /\ WF_vars(ExitStep)
            /\ \A r \in Readers : WF_vars(ReadStep(r))

Spec == Init /\ [][Next]_vars /\ Fairness

-----------------------------------------------------------------------------
TypeOK ==
    /\ spc \in {"new", "wlink", "wfile", "link", "run", "done"}
    /\ wi \in 0 .. NumWorkers
    /\ files \subseteq Files
    /\ wlist \subseteq WorkerIds
    /\ counter \in 0 .. Dispatches
    /\ {removed, freed, plinked, linked} \subseteq BOOLEAN
    /\ epc \in {"wait", "locked", "removing", "done"}
    /\ rpc \in [Readers -> {"idle", "open", "proc", "sched", "oops"}]
    /\ rfile \in [Readers -> Files]
    /\ rnum \in [Readers -> [pid : Int, id : Int, worker : Int]]
    /\ rp \in [Readers -> BOOLEAN]
    /\ oops \in [Readers -> {"none", "null", "div"}]

(* NoNullSched: a read of a file that exists never finds a NULL process,   *)
(* sched_item or worker_info (PROC_FIND_PROCESS_BY_TGID, PROC_FIND_SCHED,  *)
(* PROC_FIND_WORKER) and dereferences it.                                  *)
NoNullSched == \A r \in Readers : oops[r] # "null"

(* ExitCompletes: exit_ums_process, once it holds the list lock, returns.  *)
ExitCompletes == epc = "locked" ~> epc = "done"
=============================================================================
