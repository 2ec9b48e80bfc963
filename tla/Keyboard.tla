------------------------------ MODULE Keyboard ------------------------------
(***************************************************************************)
(* The keyboard driver (drivers/keyboard.c), the main loop that consumes   *)
(* its buffer (kernel/kernel.c, kernel_main) and the interrupts that run   *)
(* between the loop's instructions.  An interrupt handler runs with IF     *)
(* clear (interrupt gates, `sti` just before `iret`), so it is one step;   *)
(* the loop is split at its loads and stores of shared variables, because  *)
(* the objects are built without optimisation and nothing masks IRQ 1.     *)
(***************************************************************************)
EXTENDS Integers, Sequences

CONSTANTS
    KEYBOARD_BUFFER_SIZE,
    LetterKeys,    (* keys whose two maps differ only in letter case       *)
    SymbolKeys,    (* other keys with a character in both maps             *)
    DeadKeys,      (* keys both maps send to 0: Ctrl, Alt, F1, ...         *)
    NoChar         (* the character 0                                      *)

ShiftKeys == {"LSHIFT", "RSHIFT"}
TypedKeys == LetterKeys \cup SymbolKeys
Keys      == TypedKeys \cup DeadKeys \cup ShiftKeys \cup {"CAPSLOCK"}

(* A character is a key and which of the two maps it was taken from.       *)
Chars == [key : TypedKeys, shifted : BOOLEAN]

ASSUME KeyboardAssumption ==
    /\ KEYBOARD_BUFFER_SIZE \in Nat \ {0, 1}
    /\ NoChar \notin Chars

Slots == 0 .. KEYBOARD_BUFFER_SIZE - 1

VARIABLES
    keyboard_buffer, buffer_head, buffer_tail,
    shift_pressed, caps_lock_on,
    down,      (* the shift keys physically held (external)               *)
    irq0_unmasked,  (* PIC mask bit 0, as the firmware left it (external) *)
    pc,        (* where kernel_main's loop is, see Steps                  *)
    head,      (* the register holding buffer_head between two loads      *)
    c          (* the local `char c` of keyboard_buffer_pop / kernel_main *)

driver == <<keyboard_buffer, buffer_head, buffer_tail, shift_pressed, caps_lock_on, down,
            irq0_unmasked>>
vars   == <<keyboard_buffer, buffer_head, buffer_tail, shift_pressed, caps_lock_on, down,
            irq0_unmasked, pc, head, c>>

(* The points between instructions.  loop, getchar, pop: before the empty   *)
(* test of kernel_main, keyboard_getchar, keyboard_buffer_pop; X2: after    *)
(* its first load; fetch, advance: in keyboard_buffer_pop; handle: in       *)
(* shell_handle_input; hlt: before the instruction; halted: stopped in it.  *)
Steps == {"loop", "loop2", "getchar", "getchar2", "pop", "pop2",
          "fetch", "advance", "handle", "hlt", "halted"}

Init ==
    /\ keyboard_buffer = [i \in Slots |-> NoChar]
    /\ buffer_head = 0 /\ buffer_tail = 0
    /\ shift_pressed = FALSE /\ caps_lock_on = FALSE
    /\ down = {}
    /\ irq0_unmasked \in BOOLEAN
    /\ pc = "loop" /\ head = 0 /\ c = NoChar

-----------------------------------------------------------------------------
(* The interrupt side.                                                     *)

(* mutant: wraps one slot late *)
SuccLate(i) == (i + 1) % (KEYBOARD_BUFFER_SIZE + 1)

Succ(i) == (i + 1) % KEYBOARD_BUFFER_SIZE

(* mutant: drops nothing, so a full ring wraps onto its own tail *)
FullNever == FALSE

Full == Succ(buffer_head) = buffer_tail

(* keyboard_buffer_push: a full buffer drops the character. *)
keyboard_buffer_push(ch) ==
    IF Full
    THEN UNCHANGED <<keyboard_buffer, buffer_head>>
    ELSE /\ keyboard_buffer' = [keyboard_buffer EXCEPT ![buffer_head] = ch]
         /\ buffer_head' = Succ(buffer_head)

(* The map a typed key is read from, keyboard.c:76-95.  The three branches  *)
(* agree on symbols: either modifier alone, or both, selects the shift map. *)
Shifted(k) ==
    IF k \in LetterKeys THEN shift_pressed # caps_lock_on
                        ELSE shift_pressed \/ caps_lock_on

(* Leaving the handler: an interrupt ends a hlt, and nothing else moves.   *)
Wake == /\ pc' = IF pc = "halted" THEN "loop" ELSE pc
        /\ UNCHANGED <<irq0_unmasked, head, c>>

KeyPress(k) ==
    /\ Wake
    /\ down' = down \cup ({k} \cap ShiftKeys)
    /\ shift_pressed' = (shift_pressed \/ k \in ShiftKeys)
    /\ caps_lock_on' = (caps_lock_on # (k = "CAPSLOCK"))
    /\ IF k \in TypedKeys
       THEN keyboard_buffer_push([key |-> k, shifted |-> Shifted(k)])
       ELSE UNCHANGED <<keyboard_buffer, buffer_head>>
    /\ UNCHANGED buffer_tail

KeyRelease(k) ==
    /\ Wake
    /\ k \in ShiftKeys => k \in down
    /\ down' = down \ {k}
    /\ shift_pressed' = (shift_pressed /\ k \notin ShiftKeys)
    /\ UNCHANGED <<keyboard_buffer, buffer_head, buffer_tail, caps_lock_on>>

(* keyboard_handler, on a make or a break code. *)
keyboard_handler == \E k \in Keys : KeyPress(k) \/ KeyRelease(k)

(* mutant: the timer interrupt no longer returns past the hlt *)
TimerNoWake == irq0_unmasked /\ pc = "halted" /\ UNCHANGED vars

(* timer_handler touches nothing here, but it ends a hlt. *)
timer_handler == irq0_unmasked /\ pc = "halted" /\ Wake /\ UNCHANGED driver

-----------------------------------------------------------------------------
(* The main loop.                                                          *)

Goto(from, to) == pc = from /\ pc' = to

(* keyboard_buffer_empty, and the same test in keyboard_buffer_pop, load    *)
(* buffer_head into a register, then compare it with buffer_tail.           *)
LoadHead(from, to) == Goto(from, to) /\ head' = buffer_head /\ UNCHANGED <<driver, c>>

Compare(from, empty, nonempty) ==
    /\ Goto(from, IF head = buffer_tail THEN empty ELSE nonempty)
    /\ UNCHANGED <<driver, head, c>>

TestInput     == LoadHead("loop", "loop2")       \/ Compare("loop2", "hlt", "getchar")
WaitForInput  == LoadHead("getchar", "getchar2") \/ Compare("getchar2", "getchar", "pop")
TestBeforePop == LoadHead("pop", "pop2")         \/ Compare("pop2", "handle", "fetch")

(* mutant: the tail is moved before the character is read *)
FetchNext == Goto("fetch", "advance") /\ c' = keyboard_buffer[Succ(buffer_tail)]
             /\ UNCHANGED <<driver, head>>

FetchChar == Goto("fetch", "advance") /\ c' = keyboard_buffer[buffer_tail]
             /\ UNCHANGED <<driver, head>>

AdvanceTail ==
    /\ Goto("advance", "handle")
    /\ buffer_tail' = Succ(buffer_tail)
    /\ UNCHANGED <<keyboard_buffer, buffer_head, shift_pressed, caps_lock_on, down,
                   irq0_unmasked, head, c>>

keyboard_buffer_pop == TestBeforePop \/ FetchChar \/ AdvanceTail

(* shell_handle_input, then the end of the loop body: one character is      *)
(* taken per wake-up.                                                       *)
HandleInput == Goto("handle", "hlt") /\ c' = NoChar /\ UNCHANGED <<driver, head>>

Halt == Goto("hlt", "halted") /\ UNCHANGED <<driver, head, c>>

kernel_main_loop == TestInput \/ WaitForInput \/ keyboard_buffer_pop \/ HandleInput \/ Halt

Next == keyboard_handler \/ timer_handler \/ kernel_main_loop

Spec == Init /\ [][Next]_vars

(* The CPU executes the loop's instructions (a handler returns to it), and  *)
(* the PIT, programmed as a periodic source at 1000 Hz, interrupts a hlt.   *)
Fairness == WF_vars(kernel_main_loop) /\ WF_vars(timer_handler)
FairSpec == Spec /\ Fairness

-----------------------------------------------------------------------------
(* The registers, the ring and the loop stay in range. *)
TypeOK ==
    /\ keyboard_buffer \in [Slots -> Chars \cup {NoChar}]
    /\ buffer_head \in Slots /\ buffer_tail \in Slots /\ head \in Slots
    /\ shift_pressed \in BOOLEAN /\ caps_lock_on \in BOOLEAN
    /\ down \in SUBSET ShiftKeys
    /\ irq0_unmasked \in BOOLEAN
    /\ pc \in Steps
    /\ c \in Chars \cup {NoChar}

(* However many keys arrive between keyboard_buffer_pop's load of the      *)
(* character and its store of buffer_tail, the slot still holds that       *)
(* character: a handler that fills the ring cannot overtake the reader.    *)
FetchedIsOldest == pc = "advance" => /\ c = keyboard_buffer[buffer_tail]
                                     /\ buffer_head # buffer_tail

(* keyboard_getchar never returns 0, the value keyboard_buffer_pop keeps   *)
(* for "Buffer empty" (keyboard.c:129): shell_handle_input is only ever    *)
(* given a character somebody typed.                                       *)
GetcharReturnsInput == pc = "handle" => c # NoChar

Queue == INSTANCE CharQueue WITH
    Capacity <- KEYBOARD_BUFFER_SIZE - 1,
    waiting  <- [i \in 1 .. (buffer_head - buffer_tail) % KEYBOARD_BUFFER_SIZE |->
                    keyboard_buffer[(buffer_tail + i - 1) % KEYBOARD_BUFFER_SIZE]],
    inHand   <- IF pc = "handle" THEN c ELSE NoChar

(* Handler and loop, interleaved at every load and store, behave as a      *)
(* queue: nothing typed is duplicated, reordered or lost, unless 255       *)
(* characters already wait.                                                *)
ImplementsCharQueue == Queue!Spec

(* While IRQ 0 ticks, the slot at the tail is eventually consumed,         *)
(* although the loop takes one character per wake-up and may halt just     *)
(* after a key arrived between its empty test and its hlt.                 *)
InputConsumed ==
    \A t \in Slots : (irq0_unmasked /\ buffer_tail = t /\ buffer_head # t) ~> buffer_tail # t

(* "Key state", keyboard.c:13: shift_pressed says whether a shift key is   *)
(* pressed.                                                                *)
ShiftTracksKeys == shift_pressed <=> down # {}
=============================================================================
