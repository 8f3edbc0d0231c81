---------------------------- MODULE BoundedFifo ----------------------------
(***************************************************************************)
(* What utility/ringbuffer.h promises its callers, without the ring: a     *)
(* bounded first-in first-out queue of bytes.  A byte offered to a full    *)
(* queue is refused and the queue keeps what it had.  Ringbuffer.tla       *)
(* implements this specification.                                          *)
(***************************************************************************)
EXTENDS Naturals, Sequences

CONSTANTS
  Data,      \* the bytes
  Capacity   \* how many bytes the queue holds at most

VARIABLES
  queue,     \* the bytes, oldest first
  ret,       \* what the last bool-returning call returned
  data,      \* the byte the last successful read delivered
  count      \* what the last counting call returned

fifoVars == <<queue, ret, data, count>>

FifoInit ==
  /\ queue = <<>>
  /\ ret \in BOOLEAN
  /\ data \in Data
  /\ count \in Nat

Accept(d) ==
  /\ Len(queue) < Capacity
  /\ queue' = Append(queue, d)
  /\ ret' = TRUE
  /\ UNCHANGED <<data, count>>

Refuse ==
  /\ Len(queue) = Capacity
  /\ ret' = FALSE
  /\ UNCHANGED <<queue, data, count>>

Take ==
  /\ queue # <<>>
  /\ queue' = Tail(queue)
  /\ data' = Head(queue)
  /\ ret' = TRUE
  /\ UNCHANGED count

TakeNothing ==
  /\ queue = <<>>
  /\ ret' = FALSE
  /\ UNCHANGED <<queue, data, count>>

\* The oldest n bytes are dropped.
Drop(n) ==
  /\ n \in 0 .. Len(queue)
  /\ queue' = SubSeq(queue, n + 1, Len(queue))
  /\ UNCHANGED <<ret, data, count>>

CountUsed ==
  /\ count' = Len(queue)
  /\ UNCHANGED <<queue, ret, data>>

\* The free count includes the slot a ring can never fill.
CountFree ==
  /\ count' = Capacity + 1 - Len(queue)
  /\ UNCHANGED <<queue, ret, data>>

AskEmpty ==
  /\ ret' = (queue = <<>>)
  /\ UNCHANGED <<queue, data, count>>

AskFull ==
  /\ ret' = (Len(queue) = Capacity)
  /\ UNCHANGED <<queue, data, count>>

Clear ==
  /\ queue' = <<>>
  /\ UNCHANGED <<ret, data, count>>

FifoNext ==
  \/ \E d \in Data : Accept(d)
  \/ Refuse
  \/ Take
  \/ TakeNothing
  \/ \E n \in 0 .. Capacity : Drop(n)
  \/ CountUsed
  \/ CountFree
  \/ AskEmpty
  \/ AskFull
  \/ Clear

FifoSpec == FifoInit /\ [][FifoNext]_fifoVars
=============================================================================
