------------------------------ MODULE Syscall ------------------------------
(***************************************************************************)
(* System calls (kernel/syscall.c, the gate and stub of int 0x80) beside   *)
(* the timer they use.  The gate is an interrupt gate, so a call runs with *)
(* interrupts off and is one step from the caller's instruction to the     *)
(* next, except kernel_sleep, which halts inside it.  Arguments appear as  *)
(* the answers they lead to, and so do the filesystem and the heap.        *)
(***************************************************************************)
EXTENDS Timer

CONSTANTS
    Seconds,      (* what sys_sleep is asked for, beside 0                 *)
    Statuses,     (* what sys_exit is given                                *)
    Addresses     (* what heap_malloc may return; its NULL is 0            *)

ASSUME SyscallAssumption ==
    /\ Seconds \subseteq Nat \ {0}
    /\ Statuses \subseteq Int /\ Addresses \subseteq Nat \ {0}

(* include/syscall.h; "fork" stands for the numbers no case is for.        *)
Number == [exit |-> 0, read |-> 1, write |-> 2, open |-> 3, close |-> 4, malloc |-> 5,
           free |-> 6, getpid |-> 7, sleep |-> 8, fork |-> 9, chdir |-> 13, getcwd |-> 14,
           mkdir |-> 15, rmdir |-> 16, unlink |-> 17, stat |-> 18, time |-> 19]

VARIABLES
    caller,        (* the call that returned last, a field of Number;      *)
                   (* "none" before the first, and while one sleeps        *)
    eax,           (* the caller's EAX when int 0x80 has returned          *)
    result,        (* the dispatcher's result of that call                 *)
    current_errno  (* "OK" is 0                                            *)

sysVars     == <<caller, eax, result, current_errno>>
syscallVars == <<timerVars, sysVars>>

-----------------------------------------------------------------------------
(* What each implementation may return, and the errno it leaves.           *)
Succeeds(r) == [result |-> r, errno |-> "OK"]
Fails(e)    == [result |-> -1, errno |-> e]

kernel_exit   == {Succeeds(s) : s \in Statuses}
kernel_read   == {Fails("EFAULT"), Fails("EBADF"), [result |-> 0, errno |-> "EAGAIN"]}
kernel_write  == {Fails("EFAULT"), Fails("EBADF"), Succeeds(0), Succeeds(1)}
kernel_open   == {Fails("EFAULT"), Fails("ENOENT"), Succeeds(3)}
kernel_close  == {Fails("EBADF"), Succeeds(0)}
kernel_malloc == {[result |-> 0, errno |-> e] : e \in {"EINVAL", "ENOMEM"}}
                     \cup {Succeeds(a) : a \in Addresses}
kernel_free   == {Fails("EINVAL"), Succeeds(0)}
kernel_getpid == {Succeeds(1)}
kernel_chdir  == {Fails("EFAULT"), Fails("ENOENT"), Succeeds(0)}
kernel_getcwd == {Fails("EFAULT"), Fails("ERANGE"), Succeeds(0)}
kernel_mkdir  == {Fails("EFAULT"), Fails("EEXIST"), Succeeds(0)}
kernel_rmdir  == {Fails("EFAULT"), Fails("ENOENT"), Succeeds(0)}
kernel_unlink == {Fails("EFAULT"), Fails("ENOENT"), Succeeds(0)}
kernel_stat   == {Fails("EFAULT"), Fails("ENOENT"), Succeeds(0)}
kernel_time   == {Succeeds(timer_ticks \div TicksPerSecond)}
unknown       == {Fails("EINVAL")}

(* The switch of syscall_handler. *)
Dispatch == [exit |-> kernel_exit, read |-> kernel_read, write |-> kernel_write,
             open |-> kernel_open, close |-> kernel_close, malloc |-> kernel_malloc,
             free |-> kernel_free, getpid |-> kernel_getpid, chdir |-> kernel_chdir,
             getcwd |-> kernel_getcwd, mkdir |-> kernel_mkdir, rmdir |-> kernel_rmdir,
             unlink |-> kernel_unlink, stat |-> kernel_stat, time |-> kernel_time,
             fork |-> unknown]

(* mutant: a call that succeeds leaves the errno it finds *)
ReturnsUncleared(call, r) ==
    /\ caller' = call
    /\ eax' = Number[call]
    /\ result' = r.result
    /\ current_errno' = IF r.errno = "OK" THEN current_errno ELSE r.errno

(* The end of a call.  registers_t goes to the handler by value, so what   *)
(* syscall_handler stores in regs.eax is in a copy: popa restores the EAX  *)
(* the caller came with, the number of the call.  errno is cleared before. *)
Returns(call, r) ==
    /\ caller' = call
    /\ eax' = Number[call]
    /\ result' = r.result
    /\ current_errno' = r.errno

(* int 0x80, from run to run. *)
syscall_handler(call) ==
    /\ pc = "run"
    /\ \E r \in Dispatch[call] : Returns(call, r)
    /\ UNCHANGED timerVars

-----------------------------------------------------------------------------
(* kernel_sleep: the entry turned interrupts off, and nothing turns them   *)
(* on before the loop's hlt.  The target wraps as timer_sleep's does.      *)
SleepNoTime ==
    /\ pc = "run"
    /\ Returns("sleep", Succeeds(0))
    /\ UNCHANGED timerVars

SleepBegins(s) ==
    /\ Goto("run", "asleep")
    /\ interrupts' = FALSE
    /\ target' = (timer_ticks + s * TicksPerSecond) % TickModulus
    /\ caller' = "none" /\ current_errno' = "OK"
    /\ UNCHANGED <<callbackVars, clockVars, begun, eax, result>>

SleepHalts ==
    /\ Goto("asleep", "hlt")
    /\ ~ Awake
    /\ UNCHANGED <<callbackVars, clockVars, sleepVars, interrupts, sysVars>>

SleepReturns ==
    /\ Goto("asleep", "run")
    /\ Awake
    /\ interrupts' = TRUE /\ target' = 0
    /\ Returns("sleep", Succeeds(0))
    /\ UNCHANGED <<callbackVars, clockVars, begun>>

kernel_sleep == SleepNoTime \/ (\E s \in Seconds : SleepBegins(s)) \/ SleepHalts \/ SleepReturns

-----------------------------------------------------------------------------
SyscallInit == TimerInit /\ caller = "none" /\ eax = 0 /\ result = 0 /\ current_errno = "OK"

SyscallNext == \/ TimerNext /\ UNCHANGED sysVars
               \/ \E call \in DOMAIN Dispatch : syscall_handler(call)
               \/ kernel_sleep

SyscallSpec == SyscallInit /\ [][SyscallNext]_syscallVars

(* How the caller of each call is told that it failed.  No read succeeds   *)
(* yet, and exit cannot fail. *)
Failed(call, r) == \/ call = "read"
                   \/ call = "malloc" /\ r = 0
                   \/ call \notin {"malloc", "exit"} /\ r = -1

(* "Error number (0 if successful)", syscall.h:48: after every call,       *)
(* whatever failed before it, errno is set exactly if that call failed.    *)
ErrnoOfLastCall == caller # "none" => (Failed(caller, result) <=> current_errno # "OK")

(* "Return result in EAX", syscall.c:134: the caller gets the result.      *)
ResultInEax == caller # "none" => eax = result
=============================================================================
