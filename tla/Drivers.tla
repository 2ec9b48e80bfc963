------------------------------- MODULE Drivers -------------------------------
(***************************************************************************)
(* The two polling drivers on one processor.  The thread is in the disk    *)
(* driver or in serial_write_string, which the disk driver calls when a    *)
(* wait times out; the receive handler runs between any two of its steps.  *)
(* The disk's waits are bounded and the serial port's is not.              *)
(***************************************************************************)
EXTENDS Serial, Disk

deviceVars == <<serialVars, diskVars>>

ThreadFree == handler = "none" /\ left = 0

DiskProceeds  == ThreadFree /\ Proceeds /\ UNCHANGED serialVars
DiskCalled    == ThreadFree /\ Calls /\ UNCHANGED serialVars
DiskComplains == Complains /\ \E n \in Lengths : serial_write_string(n)
DrivesWork    == DriveSteps /\ UNCHANGED serialVars

(* The thread writes of its own accord: disk_print_info and the like.      *)
ThreadPrints  == /\ stage = "idle" /\ \E n \in Lengths : serial_write_string(n)
                 /\ UNCHANGED diskVars

Handler       == HandlerStep /\ UNCHANGED diskVars
Writer        == WriterStep /\ UNCHANGED diskVars
Uart          == UartStep /\ UNCHANGED diskVars

DriversInit == SerialInit /\ DiskInit
DriversNext == DiskProceeds \/ DiskCalled \/ DiskComplains \/ DrivesWork
        \/ ThreadPrints \/ Handler \/ Writer \/ Uart

(* The processor runs the handler and, where no handler runs, the thread;  *)
(* the UART sends what it holds and raises its timeout.  Nothing is asked  *)
(* of the drives, nor of the other end.                                    *)
DriversFairness ==
    /\ WF_deviceVars(Handler)
    /\ WF_deviceVars(DiskProceeds \/ (DiskComplains /\ stage # "idle") \/ Writer)
    /\ WF_deviceVars(Transmit /\ UNCHANGED diskVars)
    /\ WF_deviceVars(CharacterTimeout /\ UNCHANGED diskVars)

DriversSpec == DriversInit /\ [][DriversNext]_deviceVars /\ DriversFairness

-----------------------------------------------------------------------------
(* Every disk call returns, whatever the drives do, its complaint printed: *)
(* the waits on the drives count down.  The wait on the transmitter does   *)
(* not, and a stream of characters whose echoes refill it holds the thread *)
(* there: so, once the other end falls silent.                             *)
CallsReturnInSilence == <>[](ahead = 0) => (stage # "idle" ~> stage = "idle")
=============================================================================
