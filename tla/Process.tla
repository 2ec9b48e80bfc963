------------------------------ MODULE Process ------------------------------
(***************************************************************************)
(* Process creation and destruction (kernel/process.c) over the scheduler  *)
(* and the physical memory manager: a process is a slot, a PID, a page     *)
(* directory, two stacks and a page table, taken one frame after another,  *)
(* any of which may be refused.  The scheduler goes on meanwhile, on the   *)
(* same process table, so its properties are checked of this composition.  *)
(***************************************************************************)
EXTENDS Scheduler, PmmOps

(* The frame addresses a process control block names; 0 is none.           *)
(* page_table is the user entry of the page directory (vmm.c:98).          *)
NoMemory == [page_directory |-> 0, kernel_stack |-> 0, user_stack |-> 0, page_table |-> 0]

VARIABLES
    pid,        (* process_table[p].pid; 0 in an unused slot               *)
    mem,        (* the memory fields of process_table[p]                   *)
    pmm,        (* the physical memory manager's record                    *)
    next_pid,   (* static uint32_t next_pid                                *)
    created     (* history: slots whose process_create returned a process  *)

procVars == <<pid, mem, pmm, next_pid, created>>
allVars  == <<vars, procVars>>

(* vmm_init takes two frames first: the page tables of the kernel's        *)
(* identity mapping and of its high mapping.                               *)
VmmInit == AfterAlloc(AfterAlloc(PmmInit))

ASSUME ProcessAssumption == TotalFrames >= Cardinality(BitmapFrames) + 2

ProcInit == /\ Init
            /\ pid = [p \in Procs |-> 0]
            /\ mem = [p \in Procs |-> NoMemory]
            /\ pmm = VmmInit
            /\ next_pid = 1
            /\ created = {}

-----------------------------------------------------------------------------
(* process_get_next_pid *)
PidAfter(n) == IF n + 1 >= MAX_PROCESSES THEN 1 ELSE n + 1

(* process_get_by_pid: the first used slot with the number, or NULL.       *)
process_get_by_pid(n) ==
    LET match == {p \in Procs : pid[p] = n /\ sched.state[p] # UNUSED}
    IN  IF match = {} THEN NULL ELSE CHOOSE p \in match : \A q \in match : p <= q

(* The four frames process_create asks for, in order: what it holds after  *)
(* the first n succeeded, and the allocator's record then.                 *)
PmmAfter(n) ==
    LET p[i \in 0 .. 4] ==
            IF i = 0 THEN pmm
            ELSE IF AllocFails(p[i - 1]) THEN p[i - 1] ELSE AfterAlloc(p[i - 1])
    IN  p[n]

Fields == <<"page_directory", "kernel_stack", "user_stack", "page_table">>

MemAfter(n) ==
    [f \in DOMAIN NoMemory |->
        IF \E i \in 1 .. n : Fields[i] = f
        THEN AddrOf(AllocFrame(PmmAfter((CHOOSE i \in 1 .. n : Fields[i] = f) - 1)))
        ELSE 0]

(* The first n allocations succeed and, if n < 4, the next one does not.   *)
Granted(n) == /\ \A i \in 0 .. n - 1 : ~ AllocFails(PmmAfter(i))
              /\ n < 4 => AllocFails(PmmAfter(n))

(* The slot is taken and numbered before anything can fail; nothing on an  *)
(* error path gives it back.                                               *)
TakeSlot(m) == LET p == FreeSlot(sched)
               IN  /\ process_create
                   /\ pid' = [pid EXCEPT ![p] = next_pid]
                   /\ mem' = [mem EXCEPT ![p] = m]
                   /\ next_pid' = PidAfter(next_pid)

(* "ERROR: Failed to create page directory" / "... allocate kernel stack": *)
(* returns NULL with n = 0 or 1 frames kept.                               *)
CreateFailsEarly(n) == /\ n \in {0, 1} /\ Granted(n)
                       /\ TakeSlot(MemAfter(n))
                       /\ pmm' = PmmAfter(n)
                       /\ UNCHANGED created

(* "ERROR: Failed to allocate user stack": the kernel stack is given back, *)
(* its address stays in the process control block.                         *)
CreateFailsAtUserStack == /\ Granted(2)
                          /\ TakeSlot(MemAfter(2))
                          /\ pmm' = AfterFree(PmmAfter(2), MemAfter(2).kernel_stack)
                          /\ UNCHANGED created

(* mutant: the kernel stack is also freed on the way out of a success *)
CreateSucceedsFreeing(n) == /\ n \in {3, 4} /\ Granted(n)
                            /\ TakeSlot(MemAfter(n))
                            /\ pmm' = AfterFree(PmmAfter(n), MemAfter(n).kernel_stack)
                            /\ created' = created \cup {FreeSlot(sched)}

(* The process is returned; vmm_map_page, which needs a page table for the *)
(* user stack, reports nothing when it cannot have one (n = 3).            *)
CreateSucceeds(n) == /\ n \in {3, 4} /\ Granted(n)
                     /\ TakeSlot(MemAfter(n))
                     /\ pmm' = PmmAfter(n)
                     /\ created' = created \cup {FreeSlot(sched)}

(* mutant: the directory of the current process goes back, not the victim's *)
DestroyStale(p) ==
    /\ pid[p] # 0
    /\ process_destroy(p)
    /\ pmm' = AfterFree(pmm, mem[sched.current].page_directory)
    /\ pid' = [pid EXCEPT ![p] = 0]
    /\ mem' = [mem EXCEPT ![p] = NoMemory]
    /\ created' = created \ {p}
    /\ UNCHANGED next_pid

(* Both stacks go back; the page directory and page table do not ("TODO:   *)
(* Free all pages in process page directory"); the slot is cleared.        *)
DestroyProcess(p) ==
    /\ pid[p] # 0
    /\ process_destroy(p)
    /\ pmm' = AfterFree(AfterFree(pmm, mem[p].kernel_stack), mem[p].user_stack)
    /\ pid' = [pid EXCEPT ![p] = 0]
    /\ mem' = [mem EXCEPT ![p] = NoMemory]
    /\ created' = created \ {p}
    /\ UNCHANGED next_pid

ScheduleOnly == /\ \/ \E p \in created : /\ sched.state[p] = READY /\ p \notin Queued(sched)
                                         /\ scheduler_add_process(p)
                   \/ \E p \in created : scheduler_remove_process(p)
                   \/ scheduler_tick
                   \/ scheduler_yield
                   \/ process_exit
                   \/ SetMultitasking
                /\ UNCHANGED procVars

ProcCreate == \/ \E n \in {0, 1} : CreateFailsEarly(n)
              \/ CreateFailsAtUserStack
              \/ \E n \in {3, 4} : CreateSucceeds(n)

Detached(p) == p \notin Queued(sched) /\ p # sched.current

(* Callers that destroy only what process_create returned to them. *)
ProcNext == \/ ProcCreate
            \/ ScheduleOnly
            \/ \E p \in created : Detached(p) /\ DestroyProcess(p)

ProcSpec == ProcInit /\ [][ProcNext]_allVars

(* The PIT interrupts again and again (timer_init programs it as a         *)
(* periodic source), so an enabled tick is eventually taken.               *)
FairProcSpec == ProcSpec /\ WF_allVars(scheduler_tick /\ UNCHANGED procVars)

-----------------------------------------------------------------------------
(* Queue, process numbers, addresses and allocator's record have types.    *)
ProcTypeOK ==
    /\ TypeOK
    /\ \A p \in Procs : pid[p] \in 0 .. MAX_PROCESSES - 1 /\ mem[p] \in [DOMAIN NoMemory -> Nat]
    /\ next_pid \in 1 .. MAX_PROCESSES - 1
    /\ PmmSound(pmm)
    /\ created \subseteq Procs \ {0}

FramesOf(p) == {FrameOf(mem[p][f]) : f \in {g \in DOMAIN NoMemory : mem[p][g] # 0}}

(* A process somebody holds has its directory and stacks in frames that    *)
(* are allocated, its own, and neither the allocator's nor the kernel's:   *)
(* through failed creations, destructions and reuse of slots and frames,   *)
(* no frame has two owners.                                                *)
FramesExclusive ==
    \A p \in created :
        /\ FramesOf(p) \subseteq pmm.bitmap \ VmmInit.bitmap
        /\ Cardinality(FramesOf(p)) >= 3
        /\ \A q \in created \ {p} : FramesOf(p) \cap FramesOf(q) = {}

(* What scheduler_schedule may load into CR3 next is the directory of a    *)
(* process that was created, and is in a frame still allocated.            *)
RunnableHasDirectory ==
    \A p \in (Queued(sched) \cup {sched.current}) \ {0} :
        /\ p \in created
        /\ FrameOf(mem[p].page_directory) \in pmm.bitmap

(* "Get next available PID", process.c:39: no two processes have one PID,  *)
(* so process_get_by_pid finds the one meant.                              *)
PidsUnique ==
    \A p, q \in Procs : /\ sched.state[p] # UNUSED /\ sched.state[q] # UNUSED
                        /\ pid[p] = pid[q]
                        => p = q
=============================================================================
