------------------------------- MODULE Rs485 -------------------------------
(***************************************************************************)
(* warp/rs485.c: the half-duplex RS485 driver.  Bytes travel between the   *)
(* hardware FIFOs and two rings in RAM, moved by the interrupt handlers    *)
(* and, for received bytes, also by rs485_tick.                            *)
(*                                                                         *)
(* A frame is abstracted to two chunks, so that it can be cut, mixed with  *)
(* another one or only partly received.  The rings are the queues that     *)
(* RingbufferProofs.tla proves ringbuffer.c to implement; ringbuffer_rx is *)
(* never read with ringbuffer_get, so a frame in it starts at buffer[0].   *)
(***************************************************************************)
EXTENDS Naturals, Sequences

CONSTANTS
  RX_RING,   \* how many chunks ringbuffer_rx holds
  RX_FIFO,   \* how many chunks the hardware's receive FIFO holds
  TX_FIFO,   \* how many chunks the hardware's transmit FIFO holds
  GAP        \* MODBUS_WAIT_AFTER_READ_MS, in units of time

\* The chunks that make up a request.
REQUEST == 2

ASSUME Rs485Assumption ==
  /\ RX_RING \in Nat \ {0}
  /\ RX_FIFO \in Nat \ {0}
  /\ TX_FIFO \in Nat \ {0}
  /\ GAP \in Nat

VARIABLES
  rxFifo,     \* received chunks still in the hardware
  rx,         \* ringbuffer_rx, from buffer[0]
  quiet,      \* time since time_4_chars_ms was taken, up to GAP
  tx,         \* number of chunks in ringbuffer_tx
  txFifo,     \* number of chunks in the transmit FIFO
  txEvent,    \* is the transmit FIFO event enabled?
  tx_done,    \* modbus_rtu.tx_done
  listening   \* NRXE low: received bits reach the UART

rs485Vars == <<rxFifo, rx, quiet, tx, txFifo, txEvent, tx_done, listening>>

\* The ring after the receive FIFO was emptied into it; what does not fit is
\* read and thrown away.
Drained ==
  LET all == rx \o rxFifo
  IN SubSeq(all, 1, IF Len(all) < RX_RING THEN Len(all) ELSE RX_RING)

QuietAfterDrain == IF rxFifo = <<>> THEN quiet ELSE 0

\* rs485_rx_irq_handler.  rs485_tick masks it while it does the same.
RxIrq ==
  /\ rxFifo # <<>>
  /\ rx' = Drained
  /\ rxFifo' = <<>>
  /\ quiet' = 0
  /\ UNCHANGED <<tx, txFifo, txEvent, tx_done, listening>>

\* What one run of rs485_tx_irq_handler makes of `ring` and `fifo` chunks: it
\* fills the FIFO, and is done when the ring runs empty before the FIFO is full.
Loaded(ring, fifo) ==
  LET moved == IF ring < TX_FIFO - fifo THEN ring ELSE TX_FIFO - fifo
  IN [ring |-> ring - moved,
      fifo |-> fifo + moved,
      done |-> fifo + moved < TX_FIFO]

\* The handler's effect, run on `ring` chunks.
LoadTx(ring) ==
  LET l == Loaded(ring, txFifo)
  IN /\ tx' = l.ring
     /\ txFifo' = l.fifo
     /\ tx_done' = (tx_done \/ l.done)
     /\ txEvent' = ~l.done
     /\ listening' = FALSE

\* rs485_tx_irq_handler, raised by the FIFO when it has room again.
TxIrqPending == txEvent /\ txFifo < TX_FIFO

TxIrq ==
  /\ TxIrqPending
  /\ LoadTx(tx)
  /\ UNCHANGED <<rxFifo, rx, quiet>>

\* The UART shifts one chunk out, which takes longer than serving an interrupt.
\* After the last one the transmitter is idle and rs485_tff_irq_handler turns
\* the receiver back on.
Transmit ==
  /\ txFifo > 0
  /\ ~TxIrqPending
  /\ txFifo' = txFifo - 1
  /\ listening' = (txFifo = 1)
  /\ UNCHANGED <<rxFifo, rx, quiet, tx, txEvent, tx_done>>

\* A chunk on the bus: it is lost while the receiver is off or its FIFO full.
Arrive(chunk) ==
  /\ rxFifo' = IF listening /\ Len(rxFifo) < RX_FIFO
               THEN Append(rxFifo, chunk) ELSE rxFifo
  /\ UNCHANGED <<rx, quiet, tx, txFifo, txEvent, tx_done, listening>>
=============================================================================
