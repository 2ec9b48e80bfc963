------------------------------- MODULE Timer -------------------------------
(***************************************************************************)
(* The system timer of drivers/timer.c: the tick handler, the clock it     *)
(* advances, the callbacks it calls, and the kernel thread that registers  *)
(* and removes callbacks or waits for ticks.  The handler runs with        *)
(* interrupts off and is one step; the thread is interrupted between its   *)
(* stores, because nothing in timer.c masks the timer.  Multitasking is    *)
(* never enabled by the build: what the tick does then is Scheduler's.     *)
(***************************************************************************)
EXTENDS Integers, FiniteSets

CONSTANTS
    TickModulus,      (* timer_ticks wraps here: 2^32                      *)
    TicksPerSecond,   (* 1000                                              *)
    SecondsPerMinute, MinutesPerHour, HoursPerDay,   (* 60, 60, 24         *)
    MAX_TIMER_CALLBACKS,
    Callbacks,        (* functions a caller may register                   *)
    NoCallback,       (* NULL in the table *)
    Delays,           (* what timer_sleep is asked for, in ticks           *)
    MaxElapsed        (* bound: ticks counted in one behaviour             *)

ASSUME TimerAssumption ==
    /\ TickModulus \in Nat \ {0} /\ TicksPerSecond \in 1 .. TickModulus
    /\ SecondsPerMinute \in Nat \ {0} /\ MinutesPerHour \in Nat \ {0}
    /\ HoursPerDay \in Nat \ {0}
    /\ MAX_TIMER_CALLBACKS \in Nat \ {0}
    /\ NoCallback \notin Callbacks
    /\ Delays \subseteq 0 .. TickModulus - 1 /\ MaxElapsed \in Nat

Ticks == 0 .. TickModulus - 1
Slots == 0 .. MAX_TIMER_CALLBACKS - 1

VARIABLES
    timer_ticks, system_time, timer_callbacks, callback_count,
    interrupts,   (* the processor's interrupt flag                        *)
    pc,           (* where the thread is: "run" between calls, "register", *)
                  (* "shift", "drop", "sleep", "asleep", "hlt"             *)
    j,            (* the local of timer_unregister_callback's shift        *)
    target,       (* the local target_ticks                                *)
    elapsed,      (* history: ticks since timer_init                       *)
    held,         (* history: callbacks whose registration is complete and *)
                  (* whose removal has not begun                           *)
    moving,       (* history: the callback being registered or removed     *)
    begun         (* history: when timer_sleep was called, and for what    *)

callbackVars == <<timer_callbacks, callback_count, j, held, moving>>
clockVars    == <<timer_ticks, system_time, elapsed>>
sleepVars    == <<target, begun>>
timerVars    == <<callbackVars, clockVars, sleepVars, interrupts, pc>>

(* timer_init, after which kernel_main enables interrupts. *)
TimerInit ==
    /\ timer_ticks = 0
    /\ system_time = [seconds |-> 0, minutes |-> 0, hours |-> 0, days |-> 0]
    /\ timer_callbacks = [i \in Slots |-> NoCallback] /\ callback_count = 0
    /\ interrupts = TRUE /\ pc = "run" /\ j = 0 /\ target = 0
    /\ elapsed = 0 /\ held = {} /\ moving = NoCallback
    /\ begun = [at |-> 0, ticks |-> 0]

-----------------------------------------------------------------------------
(* The interrupt side.                                                     *)

(* mutant: the minutes start again one late *)
AdvancedLate(t) ==
    LET s == (t.seconds + 1) % SecondsPerMinute
        m == IF s = 0 THEN (t.minutes + 1) % (MinutesPerHour + 1) ELSE t.minutes
        h == IF s = 0 /\ m = 0 THEN (t.hours + 1) % HoursPerDay ELSE t.hours
    IN  [seconds |-> s, minutes |-> m, hours |-> h,
         days |-> t.days + IF s = 0 /\ m = 0 /\ h = 0 THEN 1 ELSE 0]

(* timer_update_system_time *)
Advanced(t) ==
    LET s == (t.seconds + 1) % SecondsPerMinute
        m == IF s = 0 THEN (t.minutes + 1) % MinutesPerHour ELSE t.minutes
        h == IF s = 0 /\ m = 0 THEN (t.hours + 1) % HoursPerDay ELSE t.hours
    IN  [seconds |-> s, minutes |-> m, hours |-> h,
         days |-> t.days + IF s = 0 /\ m = 0 /\ h = 0 THEN 1 ELSE 0]

(* The callbacks the handler's loop would call now. *)
Called == {timer_callbacks[i] : i \in {k \in Slots : k < callback_count}} \ {NoCallback}

(* timer_handler: the callbacks are external and change nothing here.  An   *)
(* interrupt ends a hlt, and the loop around it tests again.               *)
timer_handler ==
    /\ interrupts /\ elapsed < MaxElapsed
    /\ timer_ticks' = (timer_ticks + 1) % TickModulus
    /\ system_time' = IF timer_ticks' % TicksPerSecond = 0 THEN Advanced(system_time)
                                                          ELSE system_time
    /\ elapsed' = elapsed + 1
    /\ pc' = IF pc = "hlt" THEN "asleep" ELSE pc
    /\ UNCHANGED <<callbackVars, sleepVars, interrupts>>

-----------------------------------------------------------------------------
(* The thread.                                                             *)

Goto(from, to) == pc = from /\ pc' = to

(* timer_register_callback stores the callback, then counts it; a full     *)
(* table is reported and nothing changes.  Nobody registers one twice.     *)
StoreCallback(cb) ==
    /\ Goto("run", "register")
    /\ cb \notin held /\ callback_count < MAX_TIMER_CALLBACKS
    /\ timer_callbacks' = [timer_callbacks EXCEPT ![callback_count] = cb]
    /\ moving' = cb
    /\ UNCHANGED <<callback_count, j, held, clockVars, sleepVars, interrupts>>

CountCallback ==
    /\ Goto("register", "run")
    /\ callback_count' = callback_count + 1
    /\ held' = held \cup {moving} /\ moving' = NoCallback
    /\ UNCHANGED <<timer_callbacks, j, clockVars, sleepVars, interrupts>>

timer_register_callback == (\E cb \in Callbacks : StoreCallback(cb)) \/ CountCallback

(* timer_unregister_callback: the place is looked up, which reads only.    *)
FindCallback(cb) ==
    /\ Goto("run", "shift")
    /\ cb \in held
    /\ \E i \in Slots : timer_callbacks[i] = cb /\ j' = i
    /\ held' = held \ {cb} /\ moving' = cb
    /\ UNCHANGED <<timer_callbacks, callback_count, clockVars, sleepVars, interrupts>>

(* mutant: shifts from the far end, overwriting what it has not yet moved  *)
ShiftBackwards ==
    /\ Goto("shift", "shift")
    /\ j < callback_count - 1
    /\ timer_callbacks' = [timer_callbacks EXCEPT ![callback_count - 2 - j] =
                               timer_callbacks[callback_count - 1 - j]]
    /\ j' = j + 1
    /\ UNCHANGED <<callback_count, held, moving, clockVars, sleepVars, interrupts>>

ShiftDown ==
    /\ Goto("shift", "shift")
    /\ j < callback_count - 1
    /\ timer_callbacks' = [timer_callbacks EXCEPT ![j] = timer_callbacks[j + 1]]
    /\ j' = j + 1
    /\ UNCHANGED <<callback_count, held, moving, clockVars, sleepVars, interrupts>>

ClearLast ==
    /\ Goto("shift", "drop")
    /\ j >= callback_count - 1
    /\ timer_callbacks' = [timer_callbacks EXCEPT ![callback_count - 1] = NoCallback]
    /\ UNCHANGED <<callback_count, j, held, moving, clockVars, sleepVars, interrupts>>

UncountCallback ==
    /\ Goto("drop", "run")
    /\ callback_count' = callback_count - 1
    /\ j' = 0 /\ moving' = NoCallback
    /\ UNCHANGED <<timer_callbacks, held, clockVars, sleepVars, interrupts>>

timer_unregister_callback ==
    (\E cb \in Callbacks : FindCallback(cb)) \/ ShiftDown \/ ClearLast \/ UncountCallback

(* timer_sleep: the target is computed modulo 2^32, then the thread reads  *)
(* timer_ticks again and again. *)
StartSleep(delay) ==
    /\ Goto("run", "sleep")
    /\ target' = (timer_ticks + delay) % TickModulus
    /\ begun' = [at |-> elapsed, ticks |-> delay]
    /\ UNCHANGED <<callbackVars, clockVars, interrupts>>

(* mutant: returns at the tick before the target *)
AwakeEarly == timer_ticks + 1 >= target

Awake == timer_ticks >= target

EndSleep ==
    /\ Goto("sleep", "run")
    /\ Awake
    /\ target' = 0 /\ begun' = [at |-> 0, ticks |-> 0]
    /\ UNCHANGED <<callbackVars, clockVars, interrupts>>

timer_sleep == (\E d \in Delays : StartSleep(d)) \/ EndSleep

TimerNext == timer_handler \/ timer_register_callback \/ timer_unregister_callback \/ timer_sleep

-----------------------------------------------------------------------------
(* The clock, the table and the locals have their types. *)
TimerTypeOK ==
    /\ timer_ticks \in Ticks /\ target \in Ticks /\ elapsed \in 0 .. MaxElapsed
    /\ system_time.seconds \in 0 .. SecondsPerMinute - 1
    /\ system_time.minutes \in 0 .. MinutesPerHour - 1
    /\ system_time.hours \in 0 .. HoursPerDay - 1
    /\ system_time.days \in Nat
    /\ timer_callbacks \in [Slots -> Callbacks \cup {NoCallback}]
    /\ callback_count \in 0 .. MAX_TIMER_CALLBACKS
    /\ interrupts \in BOOLEAN /\ j \in Nat /\ held \subseteq Callbacks

(* A tick at any point of a registration or removal calls every callback   *)
(* that is registered, and beside them at most the one coming or going.    *)
CallbacksReached == held \subseteq Called /\ Called \subseteq held \cup {moving}

(* The whole clock in seconds. *)
Uptime == system_time.seconds + SecondsPerMinute *
              (system_time.minutes + MinutesPerHour *
                  (system_time.hours + HoursPerDay * system_time.days))

(* The clock, carried through seconds, minutes, hours and days one second  *)
(* at a time, is the number of ticks since the start: it never falls       *)
(* behind, and gains less than a second each time the tick counter wraps   *)
(* (2^32 is no multiple of 1000, so the counter's last second is short).   *)
ClockFollowsTicks ==
    /\ TimerTypeOK
    /\ Uptime >= elapsed \div TicksPerSecond
    /\ Uptime <= elapsed \div TicksPerSecond + elapsed \div TickModulus

(* timer_sleep returns no sooner than asked, unless the target wrapped.    *)
SleepLongEnough ==
    pc = "sleep" /\ Awake =>
        \/ elapsed - begun.at >= begun.ticks
        \/ (begun.at % TickModulus) + begun.ticks >= TickModulus
=============================================================================
