------------------------------- MODULE Serial -------------------------------
(***************************************************************************)
(* The serial port of drivers/serial.c: the kernel's thread writes by      *)
(* polling, the receive handler reads one character and echoes it, by      *)
(* polling too, between any two instructions of the thread.  The UART's    *)
(* two queues, its receive line and the edge the interrupt controller      *)
(* latches are the device the driver programs (0xC7 in the FIFO register,  *)
(* 0x01 in the interrupt register).  The handler's ring has the keyboard's *)
(* code and no reader in the build, and is left out.                       *)
(***************************************************************************)
EXTENDS Integers, Sequences

CONSTANTS
    TxDepth,   (* characters the transmit queue holds: 16                  *)
    Trigger,   (* characters that raise the receive line at once: 14       *)
    Window,    (* characters the other end sends ahead of their echoes     *)
    Lengths    (* lengths of the strings written; no string is empty       *)

ASSUME SerialAssumption ==
    /\ TxDepth \in Nat /\ TxDepth >= 2
    /\ Trigger \in Nat \ {0} /\ Window \in Nat
    /\ Lengths \subseteq Nat \ {0}

VARIABLES
    tx,       (* transmit queue: "text" of the thread, "echo" of the handler *)
    rx,       (* number of characters in the receive queue                 *)
    stale,    (* the UART's character timeout: some waited, none was read  *)
    latched,  (* the controller remembers an edge of the receive line      *)
    handler,  (* "none", or "echoing": between its read and its write      *)
    left,     (* characters the thread's serial_write_string still writes  *)
    polled,   (* the thread has seen THRE and not written yet              *)
    ahead,    (* history: characters received whose echo is not out        *)
    dropped   (* history: a character was written into a full queue        *)

uartVars   == <<tx, rx, stale, latched, ahead>>
serialVars == <<uartVars, handler, left, polled, dropped>>

(* After serial_init, and its message. *)
SerialInit ==
    /\ tx = <<>> /\ rx = 0 /\ stale = FALSE /\ latched = FALSE
    /\ handler = "none" /\ left = 0 /\ polled = FALSE
    /\ ahead = 0 /\ dropped = FALSE

-----------------------------------------------------------------------------
(* The device. *)

(* The receive line is up while the queue is at its trigger or has waited  *)
(* too long; the controller takes its rising edge.                         *)
LineUp(n, s) == n >= Trigger \/ s

Receiver(n, s) ==
    /\ rx' = n /\ stale' = s
    /\ latched' = (latched \/ (LineUp(n, s) /\ ~ LineUp(rx, stale)))

Receive == /\ ahead < Window
           /\ ahead' = ahead + 1
           /\ Receiver(rx + 1, stale)
           /\ UNCHANGED <<tx, handler, left, polled, dropped>>

CharacterTimeout == /\ rx > 0 /\ ~ stale
                    /\ Receiver(rx, TRUE)
                    /\ UNCHANGED <<tx, ahead, handler, left, polled, dropped>>

Transmit == /\ tx # <<>>
            /\ tx' = Tail(tx)
            /\ ahead' = IF Head(tx) = "echo" THEN ahead - 1 ELSE ahead
            /\ UNCHANGED <<rx, stale, latched, handler, left, polled, dropped>>

(* A write to the data register. *)
Put(c) == /\ tx' = IF Len(tx) < TxDepth THEN Append(tx, c) ELSE tx
          /\ dropped' = (dropped \/ Len(tx) >= TxDepth)

-----------------------------------------------------------------------------
(* mutant: takes no character it cannot echo at once *)
HandlerReadsIfFree ==
    /\ latched /\ handler = "none"
    /\ latched' = FALSE
    /\ IF tx = <<>>
       THEN /\ handler' = "echoing"
            /\ rx' = IF rx > 0 THEN rx - 1 ELSE 0
            /\ stale' = FALSE
       ELSE UNCHANGED <<handler, rx, stale>>
    /\ UNCHANGED <<tx, left, polled, ahead, dropped>>

(* serial_interrupt_handler.  It reads the data register without asking    *)
(* whether a character is there; an empty queue gives the last one again.  *)
HandlerReads ==
    /\ latched /\ handler = "none"
    /\ handler' = "echoing"
    /\ rx' = IF rx > 0 THEN rx - 1 ELSE 0
    /\ stale' = FALSE
    /\ latched' = FALSE
    /\ UNCHANGED <<tx, left, polled, ahead, dropped>>

(* mutant: does not wait for the transmitter *)
HandlerEchoesAtOnce ==
    /\ handler = "echoing"
    /\ Put("echo")
    /\ handler' = "none"
    /\ UNCHANGED <<rx, stale, latched, left, polled, ahead>>

(* mutant: takes the next character as well while it is there *)
HandlerDrains ==
    /\ handler = "echoing" /\ tx = <<>>
    /\ Put("echo")
    /\ handler' = "none"
    /\ rx' = IF rx > 0 THEN rx - 1 ELSE 0
    /\ stale' = FALSE
    /\ UNCHANGED <<latched, left, polled, ahead>>

(* serial_write: nobody else writes between the handler's poll and write.  *)
HandlerEchoes ==
    /\ handler = "echoing" /\ tx = <<>>
    /\ Put("echo")
    /\ handler' = "none"
    /\ UNCHANGED <<rx, stale, latched, left, polled, ahead>>

-----------------------------------------------------------------------------
(* The thread, which runs while the handler does not. *)
serial_write_string(n) ==
    /\ handler = "none" /\ left = 0
    /\ left' = n
    /\ UNCHANGED <<uartVars, handler, polled, dropped>>

(* while (!serial_transmit_empty()): the look that ends the wait. *)
WriterPolls ==
    /\ handler = "none" /\ left > 0 /\ ~ polled /\ tx = <<>>
    /\ polled' = TRUE
    /\ UNCHANGED <<uartVars, handler, left, dropped>>

WriterWrites ==
    /\ handler = "none" /\ polled
    /\ Put("text")
    /\ left' = left - 1
    /\ polled' = FALSE
    /\ UNCHANGED <<rx, stale, latched, handler, ahead>>

HandlerStep == HandlerReads \/ HandlerEchoes
WriterStep  == WriterPolls \/ WriterWrites
UartStep    == Receive \/ CharacterTimeout \/ Transmit

SerialNext == HandlerStep \/ WriterStep \/ UartStep
              \/ \E n \in Lengths : serial_write_string(n)

SerialSpec == SerialInit /\ [][SerialNext]_serialVars

-----------------------------------------------------------------------------
(* Two writers that each look before they write, one of them inside the    *)
(* other's look: between them they leave at most two characters in the     *)
(* queue, and none is ever dropped.                                        *)
TransmitterNotOverrun == ~ dropped /\ Len(tx) <= 2

(* An interrupt is pending only for a character still in the queue: the    *)
(* handler, which does not test LSR_DR, never echoes what nobody sent.     *)
InterruptHasCharacter == latched => rx > 0

(* "Setup the receive interrupt to happen when data is available",         *)
(* serial.c:55: a received character is taken.  The handler takes one and  *)
(* the line must fall for another edge, so this is so only as long as the  *)
(* other end keeps at most Trigger characters ahead of their echoes.       *)
ReceiverServed == rx > 0 ~> handler = "echoing"
=============================================================================
