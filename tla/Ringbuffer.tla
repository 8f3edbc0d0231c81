----------------------------- MODULE Ringbuffer -----------------------------
(***************************************************************************)
(* utility/ringbuffer.c: a ring of `size` bytes with the indices start and *)
(* end, one slot of which always stays unused so that start = end means    *)
(* empty.  One action per function; a call runs to completion, as the      *)
(* library's users arrange it (the RS485 driver masks its interrupts, or   *)
(* only one side of a ring is active at a time).                           *)
(*                                                                         *)
(* The indices are uint16_t and `overflows` is uint32_t; both wrap, at     *)
(* INDEX_MOD and OVERFLOW_MOD.                                             *)
(***************************************************************************)
EXTENDS Integers, Sequences

CONSTANTS
  Data,          \* the byte values
  SIZE,          \* rb->size
  INDEX_MOD,     \* 2^16: where start and end wrap
  OVERFLOW_MOD   \* 2^32: where overflows wraps

\* ringbuffer_remove adds two indices below SIZE before it reduces the sum:
\* a ring longer than half the index range would be corrupted by the wrap.
ASSUME RingAssumption ==
  /\ Data # {}
  /\ SIZE \in Nat \ {0}
  /\ INDEX_MOD \in Nat /\ 2 * SIZE <= INDEX_MOD + 1
  /\ OVERFLOW_MOD \in Nat \ {0}

VARIABLES
  buffer,         \* rb->buffer
  start,          \* rb->start
  end,            \* rb->end
  overflows,      \* rb->overflows
  low_watermark,  \* rb->low_watermark
  ret,            \* result of the last call that returns a bool
  data,           \* the byte behind ringbuffer_get's output pointer
  count           \* result of the last call that returns a count

vars == <<buffer, start, end, overflows, low_watermark, ret, data, count>>

Slots == 0 .. SIZE - 1

\* uint16_t arithmetic on the sum of two indices.
Wrapped(i) == IF i < INDEX_MOD THEN i ELSE i - INDEX_MOD

-----------------------------------------------------------------------------
\* ringbuffer_get_used
Used == IF end < start THEN SIZE + end - start ELSE end - start

\* The return value of ringbuffer_get_free.
Free == SIZE - Used

\* end++ / start++ with the reset to 0 at size
Succ(i) == IF Wrapped(i + 1) >= SIZE THEN 0 ELSE Wrapped(i + 1)

\* start += incr with the reduction by size
Advanced(i, incr) ==
  IF Wrapped(i + incr) >= SIZE THEN Wrapped(i + incr) - SIZE ELSE Wrapped(i + incr)

-----------------------------------------------------------------------------
Init ==
  /\ buffer \in [Slots -> Data]   \* ringbuffer_init leaves the memory alone
  /\ start = 0
  /\ end = 0
  /\ overflows = 0
  /\ low_watermark = SIZE
  /\ ret \in BOOLEAN
  /\ data \in Data
  /\ count = 0

\* A mutant: the overflow test compares before the wrap of the end index.
AddLateWrap(d) ==
  /\ buffer' = [buffer EXCEPT ![end] = d]
  /\ IF end + 1 = start
     THEN /\ overflows' = (overflows + 1) % OVERFLOW_MOD
          /\ end' = end
          /\ ret' = FALSE
     ELSE /\ end' = Succ(end)
          /\ ret' = TRUE
          /\ UNCHANGED overflows
  /\ UNCHANGED <<start, low_watermark, data, count>>

\* A mutant: the index of a refused byte is stepped back below the first slot.
AddStepsBelowZero(d) ==
  /\ buffer' = [buffer EXCEPT ![end] = d]
  /\ IF Succ(end) = start
     THEN /\ overflows' = (overflows + 1) % OVERFLOW_MOD
          /\ end' = Succ(end) - 1
          /\ ret' = FALSE
     ELSE /\ end' = Succ(end)
          /\ ret' = TRUE
          /\ UNCHANGED overflows
  /\ UNCHANGED <<start, low_watermark, data, count>>

\* ringbuffer_add: the byte goes into the free slot even when it is then
\* refused, in which case the end index is stepped back.
Add(d) ==
  /\ buffer' = [buffer EXCEPT ![end] = d]
  /\ IF Succ(end) = start
     THEN /\ overflows' = (overflows + 1) % OVERFLOW_MOD
          /\ end' = IF Succ(end) = 0 THEN SIZE - 1 ELSE Succ(end) - 1
          /\ ret' = FALSE
     ELSE /\ end' = Succ(end)
          /\ ret' = TRUE
          /\ UNCHANGED overflows
  /\ UNCHANGED <<start, low_watermark, data, count>>

\* ringbuffer_remove
Remove(num) ==
  /\ start' = Advanced(start, IF Used < num THEN Used ELSE num)
  /\ UNCHANGED <<buffer, end, overflows, low_watermark, ret, data, count>>

\* ringbuffer_get, which leaves *data alone when there is no byte.
Get ==
  /\ IF start = end
     THEN ret' = FALSE /\ UNCHANGED <<start, data>>
     ELSE /\ data' = buffer[start]
          /\ start' = Succ(start)
          /\ ret' = TRUE
  /\ UNCHANGED <<buffer, end, overflows, low_watermark, count>>

\* The side effect of ringbuffer_get_free.
NoteFree == low_watermark' = IF Free < low_watermark THEN Free ELSE low_watermark

GetUsed ==
  /\ count' = Used
  /\ UNCHANGED <<buffer, start, end, overflows, low_watermark, ret, data>>

GetFree ==
  /\ count' = Free
  /\ NoteFree
  /\ UNCHANGED <<buffer, start, end, overflows, ret, data>>

IsEmpty ==
  /\ ret' = (start = end)
  /\ UNCHANGED <<buffer, start, end, overflows, low_watermark, data, count>>

\* ringbuffer_is_full asks ringbuffer_get_free, with its side effect.
IsFull ==
  /\ ret' = (Free < 2)
  /\ NoteFree
  /\ UNCHANGED <<buffer, start, end, overflows, data, count>>

\* ringbuffer_init on a ring in use, as modbus_clear_request does it.
Reinit ==
  /\ start' = 0
  /\ end' = 0
  /\ overflows' = 0
  /\ low_watermark' = SIZE
  /\ UNCHANGED <<buffer, ret, data, count>>

Next ==
  \/ \E d \in Data : Add(d)
  \/ \E num \in 0 .. SIZE : Remove(num)
  \/ Get
  \/ GetUsed
  \/ GetFree
  \/ IsEmpty
  \/ IsFull
  \/ Reinit

Spec == Init /\ [][Next]_vars

-----------------------------------------------------------------------------
(***************************************************************************)
(* Properties.                                                             *)
(***************************************************************************)

\* The types of the ring's fields: both indices stay inside the buffer, and
\* the watermark never reports less than the one slot that is always free
\* (every function of ringbuffer.c).
TypeOK ==
  /\ buffer \in [Slots -> Data]
  /\ start \in Slots
  /\ end \in Slots
  /\ overflows \in 0 .. OVERFLOW_MOD - 1
  /\ low_watermark \in 1 .. SIZE
  /\ ret \in BOOLEAN
  /\ data \in Data
  /\ count \in 0 .. SIZE

\* The slot that lies k bytes after the oldest one.
SlotOf(k) == IF start + k < SIZE THEN start + k ELSE start + k - SIZE

\* The bytes in the ring, oldest first.
Content == [k \in 1 .. Used |-> buffer[SlotOf(k - 1)]]

\* The ring is a first-in first-out queue of SIZE - 1 bytes: no call loses,
\* duplicates or reorders a byte that was accepted, and a refused byte
\* (ringbuffer_add's overflow path writes it into the buffer before it steps
\* the end index back) disturbs none of those already there.
Fifo == INSTANCE BoundedFifo WITH Capacity <- SIZE - 1, queue <- Content
ImplementsFifo == Fifo!FifoSpec
=============================================================================
