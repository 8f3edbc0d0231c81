---------------------------- MODULE ModbusMaster ----------------------------
(***************************************************************************)
(* warp/modbus.c in master mode: one request at a time, its answer         *)
(* collected from ringbuffer_rx until the line has been quiet for GAP, its *)
(* failure reported like an answer (cb_invoke with                         *)
(* master_request_timed_out).                                              *)
(***************************************************************************)
EXTENDS Rs485

CONSTANTS
  TIMEOUT,    \* modbus_master_request_timeout, in units of time
  FRAME_MAX   \* RS485_MODBUS_RTU_FRAME_SIZE_MAX, in chunks

ASSUME ModbusAssumption ==
  /\ TIMEOUT \in Nat \ {0}
  /\ FRAME_MAX \in Nat

VARIABLES
  state_wire,       \* "IDLE", "RX" or "TX"
  req_state,        \* request.state: "READY" or "WAITING"
  cb_invoke,        \* request.cb_invoke
  timed_out,        \* request.master_request_timed_out
  rx_last,          \* rx_rb_last_length
  reqAge            \* time since time_ref_master_request_timeout, up to TIMEOUT

modbusVars == <<state_wire, req_state, cb_invoke, timed_out, rx_last, reqAge>>

-----------------------------------------------------------------------------
(* The frames that may be in ringbuffer_rx, as chunks: the value asked for *)
(* by the current request, one asked for by an earlier request, an         *)
(* exception, another slave's frame.  "n" is noise.                        *)
Value     == <<"v1", "v2">>
OldValue  == <<"o1", "o2">>
Exception == <<"x1", "x2">>
Foreign   == <<"f">>
Chunk     == {"v1", "v2", "o1", "o2", "x1", "x2", "f", "n"}

\* A new request makes what was sent for the previous one old.
Aged(c) == CASE c = "v1" -> "o1" [] c = "v2" -> "o2" [] OTHER -> c
AgedSeq(s) == [i \in DOMAIN s |-> Aged(s[i])]

\* modbus_check_frame_checksum: a whole frame and nothing else.
ChecksumOk(r) == r \in {Value, OldValue, Exception, Foreign}

\* modbus_master_check_slave_response compares address and function only.
SlaveResponseOk(r) == r \in {Value, OldValue, Exception}

-----------------------------------------------------------------------------
\* modbus_update_rtu_wire_state_machine, on a ring that holds r.

Waiting == req_state = "WAITING"

DeadlineMissed == Waiting /\ reqAge = TIMEOUT /\ ~timed_out

\* A mutant: a request is given up without telling the client.
GiveUpSilently ==
  /\ timed_out' = TRUE
  /\ UNCHANGED <<state_wire, rx_last, cb_invoke>>

\* A request is given up: the client is told, as if an answer had come.
GiveUp ==
  /\ cb_invoke' = TRUE
  /\ timed_out' = TRUE
  /\ UNCHANGED <<state_wire, rx_last>>

Wrong(r) ==
  \/ Len(r) > FRAME_MAX
  \/ ~ChecksumOk(r)
  \/ ~SlaveResponseOk(r)

IdleStep(r) ==
  \/ /\ DeadlineMissed
     /\ GiveUp
  \/ /\ ~DeadlineMissed /\ Waiting /\ Len(r) > rx_last
     /\ state_wire' = "RX"
     /\ rx_last' = Len(r)
     /\ UNCHANGED <<cb_invoke, timed_out>>
  \/ /\ ~DeadlineMissed /\ Waiting /\ r # <<>> /\ Len(r) = rx_last
     /\ ~timed_out /\ Wrong(r)
     /\ GiveUp
  \/ /\ ~DeadlineMissed /\ Waiting /\ r # <<>> /\ Len(r) = rx_last
     /\ timed_out \/ ~Wrong(r)
     /\ cb_invoke' = TRUE
     /\ UNCHANGED <<state_wire, timed_out, rx_last>>
  \/ /\ ~DeadlineMissed
     /\ ~Waiting \/ (Len(r) <= rx_last /\ ~(r # <<>> /\ Len(r) = rx_last))
     /\ UNCHANGED <<state_wire, cb_invoke, timed_out, rx_last>>

RxStep(q) ==
  /\ state_wire' = IF q = GAP THEN "IDLE" ELSE "RX"
  /\ UNCHANGED <<cb_invoke, timed_out, rx_last>>

TxStep ==
  /\ state_wire' = IF tx_done THEN "IDLE" ELSE "TX"
  /\ tx_done' = FALSE
  /\ UNCHANGED <<cb_invoke, timed_out, rx_last>>

\* rs485_tick: empty the receive FIFO, then run the state machine.
Rs485Tick ==
  /\ rx' = Drained
  /\ rxFifo' = <<>>
  /\ quiet' = QuietAfterDrain
  /\ \/ state_wire = "IDLE" /\ IdleStep(Drained) /\ UNCHANGED tx_done
     \/ state_wire = "RX" /\ RxStep(QuietAfterDrain) /\ UNCHANGED tx_done
     \/ state_wire = "TX" /\ TxStep
  /\ UNCHANGED <<tx, txFifo, txEvent, listening, req_state, reqAge>>

-----------------------------------------------------------------------------
\* meter.c modbus_start_tx: the frame goes into ringbuffer_tx, the request
\* waits from now on, and the transmit interrupt is triggered - twice, which
\* the second run of the handler turns into a no-op or a refill.  What was
\* received before is not discarded; from now on it is old.
StartRequest ==
  /\ req_state' = "WAITING"
  /\ cb_invoke' = FALSE
  /\ reqAge' = 0
  /\ state_wire' = "TX"
  /\ LET first == Loaded(tx + REQUEST, txFifo)
         again == Loaded(first.ring, first.fifo)
     IN /\ tx' = again.ring
        /\ txFifo' = again.fifo
        /\ tx_done' = (tx_done \/ first.done \/ again.done)
        /\ txEvent' = ~again.done
        /\ listening' = FALSE
  /\ rx' = AgedSeq(rx)
  /\ rxFifo' = AgedSeq(rxFifo)
  /\ UNCHANGED <<timed_out, rx_last, quiet>>

\* Three mutants: clearing forgets to reset the request's state, to empty
\* ringbuffer_rx, or to reset master_request_timed_out.
ClearRequestKeepsState ==
  /\ rx' = <<>>
  /\ tx' = 0
  /\ rx_last' = 0
  /\ cb_invoke' = FALSE
  /\ state_wire' = "IDLE"
  /\ timed_out' = FALSE
  /\ UNCHANGED <<req_state, rxFifo, quiet, txFifo, txEvent, tx_done, listening, reqAge>>

ClearRequestKeepsRx ==
  /\ tx' = 0
  /\ rx_last' = 0
  /\ cb_invoke' = FALSE
  /\ state_wire' = "IDLE"
  /\ timed_out' = FALSE
  /\ req_state' = "READY"
  /\ UNCHANGED <<rx, rxFifo, quiet, txFifo, txEvent, tx_done, listening, reqAge>>

ClearRequestKeepsTimeout ==
  /\ rx' = <<>>
  /\ tx' = 0
  /\ rx_last' = 0
  /\ cb_invoke' = FALSE
  /\ state_wire' = "IDLE"
  /\ req_state' = "READY"
  /\ UNCHANGED <<timed_out, rxFifo, quiet, txFifo, txEvent, tx_done, listening, reqAge>>

\* modbus_clear_request: both rings are emptied, the hardware FIFOs are not.
ClearRequest ==
  /\ rx' = <<>>
  /\ tx' = 0
  /\ rx_last' = 0
  /\ cb_invoke' = FALSE
  /\ state_wire' = "IDLE"
  /\ timed_out' = FALSE
  /\ req_state' = "READY"
  /\ UNCHANGED <<rxFifo, quiet, txFifo, txEvent, tx_done, listening, reqAge>>
=============================================================================
