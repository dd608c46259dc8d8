-------------------------- MODULE UMSCompletionList --------------------------
(***************************************************************************)
(* A completion list (src/src/library/UMSList.c) shared by the thread that *)
(* fills it and a scheduler that queries it with                           *)
(* DequeueUmsCompletionListItems (UMSLibrary.c), which snapshots the ids   *)
(* into a length-prefixed array, passes it to ums_dequeue_list (UMSmain.c) *)
(* with UMS_DEQUEUE, and rebuilds a ready list from what the kernel left.  *)
(*                                                                         *)
(* The list is the sequence of items reachable from cs->head; cs->len is   *)
(* kept apart, because the library reads both without cs->sem.  A pointer  *)
(* to an item is its index in the list, 0 being NULL.  The engine state    *)
(* the kernel consults (which ids have a thread_item, which tasks are      *)
(* TASK_INTERRUPTIBLE) is chosen freely at each query.                     *)
(***************************************************************************)
EXTENDS Naturals, Sequences

CONSTANTS
    Ids,       \* worker ids (pthread_t values; 0 is never one)
    Initial,   \* <<[id, prio], ...>>: what main adds before the scheduler starts
    Late,      \* what another thread adds while the scheduler runs
    Queries    \* bound on the scheduler's calls of the dequeue

ASSUME ListAssumption ==
    /\ 0 \notin Ids
    /\ \A k \in 1..Len(Initial) : Initial[k].id \in Ids
    /\ \A k \in 1..Len(Late) : Late[k].id \in Ids
    /\ Queries \in Nat

\* completion_list_add calls of the program, in order
Adds == Initial \o Late

VARIABLES
    items,    \* the items linked from cs->head, in order
    len,      \* cs->len
    sem,      \* cs->sem: "free", or the thread inside sem_wait/sem_post
    apc,      \* the adding thread: "idle", "link" or "count"
    added,    \* completion_list_add calls completed
    dpc,      \* the scheduler in DequeueUmsCompletionListItems
    size,     \* the array memory[cs->len + 1] has indices 0..size
    m0,       \* memory[0], the length passed to the kernel
    item,     \* the library's `item` pointer
    i,        \* the library's loop index
    memory,   \* memory[1..size]
    regd,     \* ids with a thread_item at the query
    parked,   \* ids whose task is TASK_INTERRUPTIBLE at the query
    snap,     \* the items the copy loop walked
    ready,    \* the ready list being built
    queries,  \* completed queries
    fault     \* the invalid access the query made ("null", "overflow",
              \* "overread"), or "none"

avars == <<items, len, sem, apc, added>>
dvars == <<dpc, size, m0, item, i, memory, regd, parked, snap, ready, queries,
           fault>>
vars == <<avars, dvars>>

-----------------------------------------------------------------------------
(* ums_dequeue_list, lines 482-498: the for loop over mem[0..len-1] and    *)
(* the while(!found && exist) loop around it.                              *)

\* one pass of the for loop from index k: an id with no thread_item, or
\* whose task is not TASK_INTERRUPTIBLE, is overwritten with 0; found and
\* exist are both set by every id that has a thread_item
RECURSIVE ScanFrom(_, _, _, _, _)
ScanFrom(m, k, found, reg, prk) ==
    IF k > Len(m) THEN <<m, found>>
    ELSE LET aux == m[k] \in reg
         IN ScanFrom(IF aux /\ m[k] \in prk THEN m ELSE [m EXCEPT ![k] = 0],
                     k + 1, found \/ aux, reg, prk)

\* while(!found && exist){ found = 0; exist = 0; for(...) }
RECURSIVE DequeueLoop(_, _, _, _, _)
DequeueLoop(m, found, exist, reg, prk) ==
    IF ~found /\ exist
    THEN LET pass == ScanFrom(m, 1, FALSE, reg, prk)
         IN DequeueLoop(pass[1], pass[2], pass[2], reg, prk)
    ELSE m

-----------------------------------------------------------------------------
(* completion_list_add -> completion_list_append                           *)

\* mutant of NextItem: the new tail's next is left as malloc gave it
NextItemNoNull(k) == k + 1

\* item->next of the item at k: the next one, or NULL at the tail
\* (completion_list_append sets item->next = NULL on the new tail)
NextItem(k) == IF k < Len(items) THEN k + 1 ELSE 0

\* malloc and the fields, then sem_wait(&cs->sem)
AddWait ==
    /\ apc = "idle"
    /\ added < Len(Adds)
    /\ sem = "free"
    /\ sem' = "adder"
    /\ apc' = "link"
    /\ UNCHANGED <<items, len, added, dvars>>

\* the new item becomes cs->head (empty list) or follows cs->tail
AddLink ==
    /\ apc = "link"
    /\ items' = Append(items, Adds[added + 1])
    /\ apc' = "count"
    /\ UNCHANGED <<len, sem, added, dvars>>

\* cs->len += 1; sem_post(&cs->sem)
AddCount ==
    /\ apc = "count"
    /\ len' = len + 1
    /\ sem' = "free"
    /\ added' = added + 1
    /\ apc' = "idle"
    /\ UNCHANGED <<items, dvars>>

-----------------------------------------------------------------------------
(* DequeueUmsCompletionListItems, called from scheduler()'s loop.          *)

\* unsigned long memory[cs->len + 1]; main has filled the list before it
\* created the scheduler
DequeueAlloc ==
    /\ dpc = "idle"
    /\ queries < Queries
    /\ added >= Len(Initial)
    /\ size' = len
    /\ memory' = [k \in 1..len |-> 0]
    /\ dpc' = "len"
    /\ UNCHANGED <<avars, m0, item, i, regd, parked, snap, ready, queries, fault>>

\* memory[0] = cs->len
DequeueLen ==
    /\ dpc = "len"
    /\ m0' = len
    /\ dpc' = "head"
    /\ UNCHANGED <<avars, size, item, i, memory, regd, parked, snap, ready,
                   queries, fault>>

\* item = cs->head
DequeueHead ==
    /\ dpc = "head"
    /\ item' = IF items = <<>> THEN 0 ELSE 1
    /\ dpc' = "wait"
    /\ UNCHANGED <<avars, size, m0, i, memory, regd, parked, snap, ready,
                   queries, fault>>

\* sem_wait(&cs->sem)
DequeueWait ==
    /\ dpc = "wait"
    /\ sem = "free"
    /\ sem' = "sched"
    /\ i' = 1
    /\ dpc' = "copy"
    /\ UNCHANGED <<items, len, apc, added, size, m0, item, memory, regd, parked,
                   snap, ready, queries, fault>>

\* for(i = 1; i <= cs->len; i++){ memory[i] = item->ums_id; item = item->next; }
\* item->ums_id of NULL faults; memory[i] with i > size writes past the array
DequeueCopy ==
    /\ dpc = "copy"
    /\ i <= len
    /\ CASE item = 0  -> fault' = "null" /\ dpc' = "crash"
                         /\ UNCHANGED <<item, i, memory>>
         [] i > size  -> fault' = "overflow" /\ dpc' = "crash"
                         /\ UNCHANGED <<item, i, memory>>
         [] OTHER     -> /\ memory' = [memory EXCEPT ![i] = items[item].id]
                         /\ item' = NextItem(item)
                         /\ i' = i + 1
                         /\ UNCHANGED <<dpc, fault>>
    /\ UNCHANGED <<avars, size, m0, regd, parked, snap, ready, queries>>

\* sem_post(&cs->sem)
DequeuePost ==
    /\ dpc = "copy"
    /\ i > len
    /\ sem' = "free"
    /\ snap' = items
    /\ dpc' = "ioctl"
    /\ UNCHANGED <<items, len, apc, added, size, m0, item, i, memory, regd,
                   parked, ready, queries, fault>>

\* DO_IOCTL(fd, UMS_DEQUEUE, &memory) -> ums_dequeue_list: len = memory[0];
\* len 0 is UMS_ERROR, on which DO_IOCTL exits the process; len > size makes
\* copy_from_user/copy_to_user run past the array.  Then
\* completion_list_create() for the ready list and item = cs->head.
DequeueIoctl ==
    /\ dpc = "ioctl"
    /\ CASE m0 = 0    -> dpc' = "exit" /\ UNCHANGED <<fault, memory, regd, parked,
                                                     ready, item, i>>
         [] m0 > size -> fault' = "overflow" /\ dpc' = "crash"
                         /\ UNCHANGED <<memory, regd, parked, ready, item, i>>
         [] OTHER     -> \E reg \in SUBSET Ids, prk \in SUBSET Ids :
                           /\ memory' = DequeueLoop(memory, FALSE, TRUE, reg, prk)
                           /\ regd' = reg
                           /\ parked' = prk
                           /\ ready' = <<>>
                           /\ item' = IF items = <<>> THEN 0 ELSE 1
                           /\ i' = 1
                           /\ dpc' = "rebuild"
                           /\ UNCHANGED fault
    /\ UNCHANGED <<avars, size, m0, snap, queries>>

\* mutant of DequeueRebuild: item = item->next moved inside the if, so the
\* prios shift after a dropped entry
DequeueRebuildAdvanceKept ==
    /\ dpc = "rebuild"
    /\ i <= len
    /\ IF i > size
       THEN fault' = "overread" /\ dpc' = "crash"
            /\ UNCHANGED <<ready, item, i>>
       ELSE /\ ready' = IF memory[i] # 0
                        THEN Append(ready, [id |-> memory[i],
                                            prio |-> items[item].prio])
                        ELSE ready
            /\ item' = IF memory[i] # 0 THEN NextItem(item) ELSE item
            /\ i' = i + 1
            /\ UNCHANGED <<dpc, fault>>
    /\ UNCHANGED <<avars, size, m0, memory, regd, parked, snap, queries>>

\* for(i = 1; i <= cs->len; i++){ if(memory[i]) completion_list_add(ready,
\* memory[i], item->prio); item = item->next; }, without cs->sem; memory[i]
\* with i > size reads past the array
DequeueRebuild ==
    /\ dpc = "rebuild"
    /\ i <= len
    /\ IF i > size
       THEN fault' = "overread" /\ dpc' = "crash"
            /\ UNCHANGED <<ready, item, i>>
       ELSE /\ ready' = IF memory[i] # 0
                        THEN Append(ready, [id |-> memory[i],
                                            prio |-> items[item].prio])
                        ELSE ready
            /\ item' = NextItem(item)
            /\ i' = i + 1
            /\ UNCHANGED <<dpc, fault>>
    /\ UNCHANGED <<avars, size, m0, memory, regd, parked, snap, queries>>

\* return ready: scheduler() picks from it and comes back for the next query
DequeueReturn ==
    /\ dpc = "rebuild"
    /\ i > len
    /\ queries' = queries + 1
    /\ dpc' = "idle"
    /\ UNCHANGED <<avars, size, m0, item, i, memory, regd, parked, snap, ready,
                   fault>>

-----------------------------------------------------------------------------

Init ==
    /\ items = <<>>
    /\ len = 0
    /\ sem = "free"
    /\ apc = "idle"
    /\ added = 0
    /\ dpc = "idle"
    /\ size = 0
    /\ m0 = 0
    /\ item = 0
    /\ i = 1
    /\ memory = <<>>
    /\ regd = {}
    /\ parked = {}
    /\ snap = <<>>
    /\ ready = <<>>
    /\ queries = 0
    /\ fault = "none"

AdderStep == AddWait \/ AddLink \/ AddCount

SchedStep == DequeueAlloc \/ DequeueLen \/ DequeueHead \/ DequeueWait
             \/ DequeueCopy \/ DequeuePost \/ DequeueIoctl \/ DequeueRebuild
             \/ DequeueReturn

Next == AdderStep \/ SchedStep

\* both threads are runnable and make progress
Spec == Init /\ [][Next]_vars /\ WF_vars(AdderStep) /\ WF_vars(SchedStep)

-----------------------------------------------------------------------------

TypeOK ==
    /\ items \in Seq([id : Ids, prio : Nat])
    /\ len \in 0..Len(Adds)
    /\ sem \in {"free", "adder", "sched"}
    /\ apc \in {"idle", "link", "count"}
    /\ added \in 0..Len(Adds)
    /\ dpc \in {"idle", "len", "head", "wait", "copy", "ioctl", "rebuild",
                "crash", "exit"}
    /\ size \in 0..Len(Adds)
    /\ m0 \in 0..Len(Adds)
    /\ item \in 0..Len(items)
    /\ i \in 1..Len(Adds) + 1
    /\ memory \in [1..size -> Ids \cup {0}]
    /\ regd \subseteq Ids /\ parked \subseteq Ids
    /\ ready \in Seq([id : Ids, prio : Nat])
    /\ queries \in 0..Queries
    /\ fault \in {"none", "null", "overflow", "overread"}

(* A finished query returns exactly the entries of the list it            *)
(* snapshotted whose worker has a thread_item and is TASK_INTERRUPTIBLE,   *)
(* in list order and each with its own priority (spec: "the result        *)
(* preserves original priorities for surviving entries").  It takes the   *)
(* copy under cs->sem, the kernel's scan, and the library's rebuild, which *)
(* walks the list and the array side by side.                             *)
ReadyCorrect ==
    dpc = "idle" /\ queries > 0 =>
        ready = SelectSeq(snap, LAMBDA e : e.id \in regd \cap parked)

(* A query never crashes: the spec says the length is fixed at submission *)
(* time per readiness query (a length-prefixed snapshot), but the library *)
(* reads cs->len and cs->head outside cs->sem, to size the array, to fill *)
(* memory[0] and to rebuild the ready list.                               *)
NoListFault == fault = "none"

=============================================================================
