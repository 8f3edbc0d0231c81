--------------------------- MODULE ModbusRequest ---------------------------
(***************************************************************************)
(* What modbus.c promises the meter drivers: a request is started when the *)
(* one before is cleared, is settled exactly once, by the answer, by an    *)
(* exception or by giving up, and stays settled until it is cleared.       *)
(*                                                                         *)
(* MeterGeneric, with the frames, the interrupts and the bus, implements   *)
(* this; MeterDetection and MeterDrivers are built on it.                  *)
(***************************************************************************)

VARIABLE request  \* "none", "waiting" or one of Settled

Settled == {"answer", "exception", "timeout"}

\* modbus_start_tx
Start == request = "none" /\ request' = "waiting"

\* cb_invoke is set
Settle == request = "waiting" /\ request' \in Settled

\* modbus_clear_request
Clear == request \in Settled /\ request' = "none"

Spec == request = "none" /\ [][Start \/ Settle \/ Clear]_request
=============================================================================
