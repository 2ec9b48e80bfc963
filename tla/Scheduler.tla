----------------------------- MODULE Scheduler -----------------------------
(***************************************************************************)
(* The round-robin scheduler of kernel/scheduler.c, with the parts of      *)
(* kernel/process.c that change what it schedules: slots of the process    *)
(* table taken, released and exited.  The ready queue is the intrusive     *)
(* list it is in C: head, tail and count in the queue, a next pointer in   *)
(* every process.  Each call is one step.                                  *)
(* load_context and save_context are stubs in C, so "running" is only what *)
(* current_process and the states say.                                     *)
(***************************************************************************)
EXTENDS Integers, FiniteSets

CONSTANTS
    MAX_PROCESSES,
    TimeSlices,     (* ticks in a slice, one for each priority             *)
    KernelSlice     (* the kernel process's                                *)

ASSUME SchedulerAssumption ==
    /\ MAX_PROCESSES \in Nat \ {0, 1}
    /\ TimeSlices \subseteq Nat \ {0} /\ KernelSlice \in Nat \ {0}

Procs == 0 .. MAX_PROCESSES - 1   (* slots of process_table; 0 is the kernel *)
NULL  == -1

UNUSED     == "unused"            (* state == 0 *)
RUNNING    == "running"
READY      == "ready"
TERMINATED == "terminated"

SchedState == [state      : [Procs -> {UNUSED, RUNNING, READY, TERMINATED}],
               next       : [Procs -> Procs \cup {NULL}],
               time_slice : [Procs -> TimeSlices \cup {KernelSlice, 0}],
               time_used  : [Procs -> Nat],
               head       : Procs \cup {NULL},
               tail       : Procs \cup {NULL},
               count      : 0 .. MAX_PROCESSES,
               current    : Procs \cup {NULL}]

VARIABLES
    sched,                  (* ready_queue, current_process and PCB fields *)
    multitasking_enabled

vars == <<sched, multitasking_enabled>>

-----------------------------------------------------------------------------
(* The functions of scheduler.c on the record.                             *)

(* The processes met by following next from the head: element i of the     *)
(* list, or NULL past its end.                                             *)
Chain(s) ==
    LET node[i \in 0 .. MAX_PROCESSES] ==
            IF i = 0 THEN s.head
            ELSE IF node[i - 1] = NULL THEN NULL ELSE s.next[node[i - 1]]
    IN  node

Queued(s) == {Chain(s)[i] : i \in 0 .. MAX_PROCESSES} \ {NULL}

(* mutant: the new last process is not linked from the old one *)
AddUnlinked(s, p) ==
    [s EXCEPT !.state[p] = READY,
              !.next[p]  = NULL,
              !.head     = IF s.tail = NULL THEN p ELSE s.head,
              !.tail     = p,
              !.count    = @ + 1]

(* mutant: pushes at the front of the queue *)
AddAtFront(s, p) ==
    [s EXCEPT !.state[p] = READY,
              !.next[p]  = s.head,
              !.head     = p,
              !.tail     = IF s.tail = NULL THEN p ELSE s.tail,
              !.count    = @ + 1]

(* scheduler_add_process *)
Add(s, p) ==
    [s EXCEPT !.state[p] = READY,
              !.next     = IF s.tail = NULL
                           THEN [s.next EXCEPT ![p] = NULL]
                           ELSE [s.next EXCEPT ![p] = NULL, ![s.tail] = p],
              !.head     = IF s.tail = NULL THEN p ELSE s.head,
              !.tail     = p,
              !.count    = @ + 1]

(* scheduler_remove_process: the walk finds the process and its            *)
(* predecessor, or leaves the queue alone.                                 *)
Remove(s, p) ==
    LET at   == CHOOSE i \in 0 .. MAX_PROCESSES :
                    Chain(s)[i] = p /\ \A j \in 0 .. i - 1 : Chain(s)[j] # p
        prev == IF at = 0 THEN NULL ELSE Chain(s)[at - 1]
    IN  IF s.count = 0 \/ p \notin Queued(s) THEN s
        ELSE [s EXCEPT !.next  = IF prev = NULL
                                 THEN [s.next EXCEPT ![p] = NULL]
                                 ELSE [s.next EXCEPT ![prev] = s.next[p], ![p] = NULL],
                       !.head  = IF prev = NULL THEN s.next[p] ELSE s.head,
                       !.tail  = IF p = s.tail THEN prev ELSE s.tail,
                       !.count = @ - 1]

(* get_next_process: who is dequeued, and the queue without it. *)
NextProcess(s) == IF s.count = 0 THEN NULL ELSE s.head

(* mutant: the count is left as it was *)
DequeueUncounted(s) ==
    [s EXCEPT !.head         = s.next[s.head],
              !.tail         = IF s.next[s.head] = NULL THEN NULL ELSE s.tail,
              !.next[s.head] = NULL]

Dequeue(s) ==
    [s EXCEPT !.head         = s.next[s.head],
              !.tail         = IF s.next[s.head] = NULL THEN NULL ELSE s.tail,
              !.count        = @ - 1,
              !.next[s.head] = NULL]

Running(s) == s.current # NULL /\ s.state[s.current] = RUNNING

(* mutant: the preempted process keeps its state *)
ScheduleKeepState(s) ==
    IF NextProcess(s) = NULL THEN s
    ELSE LET d == Dequeue(s)
             q == IF Running(s) THEN [Add(d, s.current) EXCEPT !.state[s.current] = RUNNING] ELSE d
         IN  [q EXCEPT !.current                   = NextProcess(s),
                       !.state[NextProcess(s)]     = RUNNING,
                       !.time_used[NextProcess(s)] = 0]

(* scheduler_schedule: with nobody ready the current process goes on (or,  *)
(* if it is not running, only idle_time is counted).  Otherwise a running  *)
(* current process goes to the back of the queue and the head runs.        *)
Schedule(s) ==
    IF NextProcess(s) = NULL THEN s
    ELSE LET d == Dequeue(s)
             q == IF Running(s) THEN Add(d, s.current) ELSE d
         IN  [q EXCEPT !.current                   = NextProcess(s),
                       !.state[NextProcess(s)]     = RUNNING,
                       !.time_used[NextProcess(s)] = 0]

(* mutant: the slice never expires *)
TickNever(s) ==
    IF s.current = NULL THEN s
    ELSE [s EXCEPT !.time_used[s.current] = IF @ < s.time_slice[s.current] THEN @ + 1 ELSE @]

(* scheduler_tick; time_used stops counting at the slice's end (a bound of *)
(* the model: C goes on counting, and >= makes the same decision).         *)
Tick(s) ==
    IF s.current = NULL THEN s
    ELSE LET slice == s.time_slice[s.current]
             used  == IF s.time_used[s.current] < slice
                      THEN s.time_used[s.current] + 1 ELSE slice
             t     == [s EXCEPT !.time_used[s.current] = used]
         IN  IF used >= slice THEN Schedule(t) ELSE t

-----------------------------------------------------------------------------
(* Slots of the process table: process_init, and what process_create and   *)
(* process_destroy do to the fields above.                                 *)
SchedInit ==
    [state      |-> [p \in Procs |-> IF p = 0 THEN RUNNING ELSE UNUSED],
     next       |-> [p \in Procs |-> NULL],
     time_slice |-> [p \in Procs |-> IF p = 0 THEN KernelSlice ELSE 0],
     time_used  |-> [p \in Procs |-> 0],
     head |-> NULL, tail |-> NULL, count |-> 0, current |-> 0]

(* The first unused slot after the kernel's, or NULL. *)
FreeSlot(s) ==
    LET free == {p \in Procs \ {0} : s.state[p] = UNUSED}
    IN  IF free = {} THEN NULL ELSE CHOOSE p \in free : \A q \in free : p <= q

(* memset of the whole slot, then its state and slice. *)
Cleared(s, p, st, slice) == [s EXCEPT !.state[p] = st, !.next[p] = NULL,
                                      !.time_slice[p] = slice, !.time_used[p] = 0]

-----------------------------------------------------------------------------
Init == sched = SchedInit /\ multitasking_enabled = FALSE

process_create == /\ FreeSlot(sched) # NULL
                  /\ \E slice \in TimeSlices :
                        sched' = Cleared(sched, FreeSlot(sched), READY, slice)
                  /\ UNCHANGED multitasking_enabled

scheduler_add_process(p) == sched' = Add(sched, p) /\ UNCHANGED multitasking_enabled

scheduler_remove_process(p) == sched' = Remove(sched, p) /\ UNCHANGED multitasking_enabled

(* timer_handler calls it on every tick while multitasking is enabled. *)
scheduler_tick == /\ multitasking_enabled
                  /\ sched' = Tick(sched)
                  /\ UNCHANGED multitasking_enabled

scheduler_yield == sched' = Schedule(sched) /\ UNCHANGED multitasking_enabled

(* mutant: the guard "Can't exit kernel process" is missing *)
process_exit_any == /\ sched.current # NULL
                    /\ sched' = Schedule([sched EXCEPT !.state[sched.current] = TERMINATED])
                    /\ UNCHANGED multitasking_enabled

(* The kernel cannot exit; anything else is marked and schedules. *)
process_exit == /\ sched.current \notin {NULL, 0}
                /\ sched' = Schedule([sched EXCEPT !.state[sched.current] = TERMINATED])
                /\ UNCHANGED multitasking_enabled

(* The slot is cleared at once; the queue is not touched. *)
process_destroy(p) == /\ p # 0 /\ sched.state[p] # UNUSED
                      /\ sched' = Cleared(sched, p, UNUSED, 0)
                      /\ UNCHANGED multitasking_enabled

SetMultitasking == multitasking_enabled' \in BOOLEAN /\ UNCHANGED sched

(* Callers that keep to the calls' order: a process is queued once, when   *)
(* ready and not running, and destroyed when neither queued nor current.   *)
Next == \/ process_create
        \/ \E p \in Procs : /\ sched.state[p] = READY /\ p \notin Queued(sched)
                            /\ scheduler_add_process(p)
        \/ \E p \in Procs \ {0} : scheduler_remove_process(p)
        \/ scheduler_tick
        \/ scheduler_yield
        \/ process_exit
        \/ \E p \in Procs : /\ p \notin Queued(sched) /\ p # sched.current
                            /\ process_destroy(p)
        \/ SetMultitasking

Spec == Init /\ [][Next]_vars

(* Callers that destroy any process they find, queued or current: the only *)
(* process process_destroy itself refuses is the kernel.                   *)
KillNext == Next \/ \E p \in Procs : process_destroy(p)
KillSpec == Init /\ [][KillNext]_vars

-----------------------------------------------------------------------------
(* Type of the queue, the current process and the scheduling fields. *)
TypeOK == sched \in SchedState /\ multitasking_enabled \in BOOLEAN

(* head, tail, count and the next pointers describe one list: count        *)
(* processes, none twice, the last of them the tail and pointing nowhere.  *)
WellFormed(s) ==
    /\ \A i \in 0 .. MAX_PROCESSES : (Chain(s)[i] # NULL) <=> i < s.count
    /\ \A i, j \in 0 .. s.count - 1 : Chain(s)[i] = Chain(s)[j] => i = j
    /\ s.tail = (IF s.count = 0 THEN NULL ELSE Chain(s)[s.count - 1])

(* No order of adds, removals, ticks, yields and exits damages the list.   *)
QueueWellFormed == WellFormed(sched)

(* One process runs and it is the current one; those queued are ready, so  *)
(* the running process is not also waiting to run.                         *)
RunningIsCurrent ==
    /\ \A p \in Procs : sched.state[p] = RUNNING <=> p = sched.current
    /\ \A p \in Queued(sched) : sched.state[p] = READY

(* The kernel, which never exits, is current or queued: an exit always     *)
(* finds somebody to run and the "idle state" (scheduler.c:125) is dead.   *)
KernelSchedulable ==
    /\ sched.current = 0 \/ 0 \in Queued(sched)
    /\ sched.count = 0 => Running(sched)

(* Round robin: nothing queued is overtaken.  A step leaves everyone still *)
(* in the queue where they were or moves them forward.                     *)
Place(s, p) == CHOOSE i \in 0 .. MAX_PROCESSES : Chain(s)[i] = p

NoOvertaking ==
    [][\A p \in Queued(sched) \cap Queued(sched') : Place(sched', p) <= Place(sched, p)]_vars

(* A queued process runs, or is taken off the queue, or multitasking is    *)
(* switched off: ticks alone bring everybody to the head.                  *)
QueuedRuns ==
    \A p \in Procs : p \in Queued(sched) ~> (p \notin Queued(sched) \/ ~ multitasking_enabled)
=============================================================================
