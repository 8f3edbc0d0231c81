---------------------------- MODULE MeterProofs ----------------------------
(***************************************************************************)
(* Proofs about MeterGeneric: with the interrupts, the bus and all its     *)
(* disturbances, the Modbus master implements ModbusRequest, which is what *)
(* MeterDetection and MeterDrivers take from it; and the types of all the  *)
(* fields.                                                                 *)
(***************************************************************************)
EXTENDS MeterGeneric, SequenceTheorems, ListProofs

\* The inductive invariant: where the request is in its life follows from
\* meter_state and pc.  A response is taken in the round in which it is noticed,
\* so the frame it is read from stays at the head of ringbuffer_rx meanwhile.
Rings ==
  /\ rx \in Seq(Chunk) /\ Len(rx) <= RX_RING
  /\ rxFifo \in Seq(Chunk)
  /\ slave \in Chunk \cup {"idle"}

Life ==
  /\ cb_invoke \in BOOLEAN /\ timed_out \in BOOLEAN
  /\ req_state \in {"READY", "WAITING"}
  /\ req_state = "READY" => ~cb_invoke /\ meter_state # 1
  /\ req_state = "WAITING" => meter_state = 1 /\ errorWait = NoWait
  /\ timed_out => cb_invoke
  /\ cb_invoke => pc = "meter"
  /\ cb_invoke /\ ~timed_out => Len(rx) >= 2

IInv == Rings /\ Life

-----------------------------------------------------------------------------
\* Emptying the receive FIFO (rs485_rx_irq_handler, rs485_tick) adds behind what
\* is in ringbuffer_rx and nowhere else.
LEMMA DrainedExtends ==
  ASSUME Rings
  PROVE  /\ Drained \in Seq(Chunk)
         /\ Len(rx) <= Len(Drained) /\ Len(Drained) <= RX_RING
         /\ \A i \in 1 .. Len(rx) : Drained[i] = rx[i]
<1> DEFINE all == rx \o rxFifo
           n == IF Len(all) < RX_RING THEN Len(all) ELSE RX_RING
<1>1. RX_RING \in Nat /\ Len(rx) \in Nat /\ Len(rxFifo) \in Nat
  BY Rs485Assumption DEF Rings
<1>2. all \in Seq(Chunk) /\ Len(all) = Len(rx) + Len(rxFifo)
  BY DEF Rings
<1>3. \A i \in 1 .. Len(rx) : all[i] = rx[i]
  BY <1>1, ConcatProperties DEF Rings
<1>4. n \in Nat /\ n <= Len(all) /\ Len(rx) <= n /\ n <= RX_RING
  BY <1>1, <1>2 DEF Rings
<1> HIDE DEF all, n
<1>5. /\ SubSeq(all, 1, n) \in Seq(Chunk)
      /\ Len(SubSeq(all, 1, n)) = n
      /\ \A i \in 1 .. n : SubSeq(all, 1, n)[i] = all[i]
  BY <1>2, <1>4, SubSeqProperties
<1>6. Drained = SubSeq(all, 1, n)
  BY DEF Drained, all, n
<1> QED
  BY <1>1, <1>3, <1>4, <1>5, <1>6

\* The head of the ring, from which a response is read, depends on its first two
\* chunks only.
LEMMA SameFrame ==
  ASSUME NEW r \in Seq(Chunk), NEW s \in Seq(Chunk), Len(r) >= 2, Len(s) >= Len(r),
         \A i \in 1 .. Len(r) : s[i] = r[i]
  PROVE  SubSeq(r, 1, 2) = SubSeq(s, 1, 2)
<1>1. Len(r) \in Nat /\ Len(s) \in Nat
  OBVIOUS
<1>2. s[1] = r[1] /\ s[2] = r[2]
  BY <1>1
<1> QED
  BY <1>1, <1>2, SubSeqProperties

-----------------------------------------------------------------------------
\* At the start there is no request, and the rings are empty.
LEMMA InitHolds == Init => IInv
<1> SUFFICES ASSUME Init PROVE IInv
  OBVIOUS
<1>1. <<>> \in Seq(Chunk) /\ Len(<<>>) = 0 /\ RX_RING \in Nat
  BY Rs485Assumption
<1>2. Rings
  BY <1>1 DEF Init, Rings
<1>3. /\ cb_invoke = FALSE /\ timed_out = FALSE
      /\ req_state \in {"READY", "WAITING"} /\ req_state # "WAITING" /\ meter_state # 1
  BY DEF Init
<1>4. Life
  BY <1>3 DEF Life
<1> QED
  BY <1>2, <1>4 DEF IInv

\* rs485_tick: what the state machine may do to the request.
LEMMA PollBusHolds ==
  ASSUME IInv, PollBus
  PROVE  /\ IInv'
         /\ req_state' = req_state
         /\ req_state = "READY" => ~cb_invoke'
<1>1. rx' = Drained /\ rxFifo' = <<>> /\ req_state' = req_state /\ slave' = slave
      /\ pc = "rs485" /\ pc' = "meter" /\ meter_state' = meter_state /\ errorWait' = errorWait
  BY DEF PollBus, Rs485Tick, busVars
<1>2. Rings'
  BY <1>1, DrainedExtends DEF IInv, Rings
<1>3. ~cb_invoke /\ ~timed_out
  BY <1>1 DEF IInv, Life
<1>4. CASE cb_invoke' = cb_invoke /\ timed_out' = timed_out
  BY <1>1, <1>2, <1>3, <1>4 DEF IInv, Life
<1>5. CASE Waiting /\ cb_invoke' = TRUE /\ timed_out' = TRUE
  BY <1>1, <1>2, <1>5 DEF IInv, Life, Waiting
<1>6. CASE /\ Waiting /\ ~Wrong(Drained)
           /\ cb_invoke' = TRUE /\ timed_out' = timed_out
  <2>1. Len(Drained) = 2
    BY <1>6 DEF Wrong, SlaveResponseOk, Value, OldValue, Exception
  <2> QED
    BY <1>1, <1>2, <1>3, <1>6, <2>1 DEF IInv, Life, Waiting
<1>7. \/ cb_invoke' = cb_invoke /\ timed_out' = timed_out
      \/ Waiting /\ cb_invoke' = TRUE /\ timed_out' = TRUE
      \/ Waiting /\ ~Wrong(Drained) /\ cb_invoke' = TRUE /\ timed_out' = timed_out
  <2>1. CASE state_wire = "IDLE" /\ IdleStep(Drained)
    BY <2>1, <1>3 DEF IdleStep, GiveUp, DeadlineMissed
  <2>2. CASE state_wire = "RX" /\ RxStep(QuietAfterDrain)
    BY <2>2 DEF RxStep
  <2>3. CASE state_wire = "TX" /\ TxStep
    BY <2>3 DEF TxStep
  <2> QED
    BY <2>1, <2>2, <2>3 DEF PollBus, Rs485Tick
<1> QED
  BY <1>4, <1>5, <1>6, <1>7

\* The interrupts and the bus: the request stays as it is, and so does the
\* frame of a response that waits to be taken.
LEMMA BusHolds ==
  ASSUME IInv, Interrupt \/ BusTransmit \/ SlaveSend \/ SlaveIsLate \/ Noise \/ UNCHANGED vars
  PROVE  IInv' /\ RequestStatus' = RequestStatus
<1> USE DEF modbusVars, meterVars
<1>1. /\ cb_invoke' = cb_invoke /\ timed_out' = timed_out /\ req_state' = req_state
      /\ pc' = pc /\ meter_state' = meter_state /\ errorWait' = errorWait
  BY DEF Interrupt, BusTransmit, SlaveSend, SlaveIsLate, Noise, vars
<1>s. slave' \in Chunk \cup {"idle"}
  BY DEF Interrupt, BusTransmit, Receive, SlaveSend, Rest, SlaveIsLate, Noise, Chunk, vars,
         busVars, IInv, Rings
<1>2. CASE rx' = Drained /\ rxFifo' = <<>>
  <2>1. Rings'
    BY <1>2, <1>s, DrainedExtends DEF IInv, Rings
  <2>2. Life' /\ (cb_invoke /\ ~timed_out => Frame' = Frame)
    <3>1. cb_invoke /\ ~timed_out => Len(rx) >= 2
      BY DEF IInv, Life
    <3>2. Len(rx') >= Len(rx) /\ \A i \in 1 .. Len(rx) : rx'[i] = rx[i]
      BY <1>2, DrainedExtends DEF IInv
    <3>3. rx \in Seq(Chunk) /\ rx' \in Seq(Chunk)
      BY <2>1 DEF IInv, Rings
    <3>4. Len(rx) >= 2 => Len(rx') >= 2 /\ Frame' = Frame
      BY <3>2, <3>3, SameFrame DEF Frame
    <3> QED
      BY <1>1, <3>1, <3>4 DEF IInv, Life
  <2> QED
    BY <1>1, <2>1, <2>2 DEF IInv, RequestStatus, Life
<1>3. CASE rx' = rx /\ rxFifo' \in Seq(Chunk)
  BY <1>1, <1>s, <1>3 DEF IInv, Rings, Life, RequestStatus, Frame
<1>4. (rx' = Drained /\ rxFifo' = <<>>) \/ (rx' = rx /\ rxFifo' \in Seq(Chunk))
  <2> USE DEF rs485Vars
  <2>1. rxFifo \in Seq(Chunk)
    BY DEF IInv, Rings
  <2>2. CASE Interrupt
    BY <2>1, <2>2 DEF Interrupt, RxIrq, TxIrq
  <2>3. CASE BusTransmit
    BY <2>1, <2>3 DEF BusTransmit, Transmit
  <2>4. ASSUME NEW c \in Chunk, Arrive(c)
        PROVE  rx' = rx /\ rxFifo' \in Seq(Chunk)
    BY <2>1, <2>4 DEF Arrive
  <2>5. CASE Noise
    BY <2>4, <2>5 DEF Noise, Chunk
  <2>6. CASE SlaveSend
    BY <2>4, <2>6 DEF SlaveSend, Chunk, IInv, Rings
  <2>7. CASE SlaveIsLate \/ UNCHANGED vars
    BY <2>1, <2>7 DEF SlaveIsLate, vars
  <2> QED
    BY <2>2, <2>3, <2>5, <2>6, <2>7
<1> QED
  BY <1>2, <1>3, <1>4
-----------------------------------------------------------------------------
\* meter_generic_tick takes the response and clears the request, in the tick
\* after rs485_tick and only then.
LEMMA MeterTickHolds ==
  ASSUME IInv, MeterTick
  PROVE  /\ IInv'
         /\ \/ req_state' = req_state /\ ~cb_invoke /\ ~cb_invoke'
            \/ req_state = "READY" /\ req_state' = "WAITING" /\ ~cb_invoke'
            \/ req_state = "WAITING" /\ cb_invoke /\ req_state' = "READY"
<1>1. pc = "meter" /\ pc' = "loop"
  BY DEF MeterTick
<1>2. CASE MeterWaits
  BY <1>1, <1>2 DEF MeterWaits, IInv, Rings, Life, rs485Vars, modbusVars, busVars
<1>3. CASE MeterWorks /\ SendRequest
  <2>1. \A c \in Chunk : Aged(c) \in Chunk
    BY DEF Aged, Chunk
  <2>2. \A s \in Seq(Chunk) : AgedSeq(s) \in Seq(Chunk) /\ Len(AgedSeq(s)) = Len(s)
    <3>1. SUFFICES ASSUME NEW s \in Seq(Chunk)
                   PROVE  AgedSeq(s) \in Seq(Chunk) /\ Len(AgedSeq(s)) = Len(s)
      OBVIOUS
    <3>2. Len(s) \in Nat /\ DOMAIN s = 1 .. Len(s) /\ \A i \in 1 .. Len(s) : s[i] \in Chunk
      OBVIOUS
    <3> QED
      BY <3>2, <2>1 DEF AgedSeq
  <2>3. rx' = AgedSeq(rx) /\ rxFifo' = AgedSeq(rxFifo) /\ slave' = Aged(slave)
        /\ cb_invoke' = FALSE /\ timed_out' = timed_out /\ req_state' = "WAITING"
        /\ meter_state = 0 /\ meter_state' = 1 /\ errorWait' = NoWait
    BY <1>3 DEF SendRequest, StartRequest
  <2>4. Rings'
    <3>1. Aged(slave) \in Chunk \cup {"idle"}
      BY <2>1 DEF IInv, Rings, Aged
    <3> QED
      BY <2>2, <2>3, <3>1 DEF IInv, Rings
  <2>5. ~cb_invoke /\ ~timed_out /\ req_state = "READY"
    BY <2>3 DEF IInv, Life
  <2>6. timed_out = FALSE
    BY <2>5 DEF IInv, Life
  <2>7. /\ cb_invoke' \in BOOLEAN /\ ~cb_invoke' /\ timed_out' \in BOOLEAN /\ ~timed_out'
        /\ req_state' \in {"READY", "WAITING"} /\ req_state' # "READY"
        /\ meter_state' = 1 /\ errorWait' = NoWait'
    BY <2>3, <2>6 DEF NoWait
  <2>8. Life'
    BY <2>7 DEF Life
  <2> QED
    BY <2>3, <2>4, <2>5, <2>8 DEF IInv
<1>4. CASE MeterWorks /\ AwaitResponse
  BY <1>1, <1>4
     DEF NoWait, AwaitResponse, ResponseReady, IInv, Rings, Life, rs485Vars, modbusVars, busVars
<1>5. CASE MeterWorks /\ TakeResponse
  <2>1. rx' = <<>> /\ rxFifo' = rxFifo /\ slave' = slave /\ cb_invoke' = FALSE
        /\ timed_out' = FALSE /\ req_state' = "READY" /\ req_state = "WAITING" /\ cb_invoke
        /\ meter_state' \in {0, 2}
    BY <1>5 DEF TakeResponse, ClearRequest, ResponseReady, busVars
  <2>2. <<>> \in Seq(Chunk) /\ Len(<<>>) = 0 /\ RX_RING \in Nat
    BY Rs485Assumption
  <2>3. Rings'
    BY <2>1, <2>2 DEF IInv, Rings
  <2>4. /\ cb_invoke' \in BOOLEAN /\ ~cb_invoke' /\ timed_out' \in BOOLEAN /\ ~timed_out'
        /\ req_state' \in {"READY", "WAITING"} /\ req_state' # "WAITING" /\ meter_state' # 1
    <3>1. cb_invoke' = FALSE /\ timed_out' = FALSE
      BY <2>1
    <3>2. req_state' = "READY" /\ meter_state' # 1
      BY <2>1
    <3> QED
      BY <3>1, <3>2
  <2>5. Life'
    BY <2>4 DEF Life
  <2> QED
    BY <2>1, <2>3, <2>5 DEF IInv
<1>6. CASE MeterWorks /\ FinishRead
  BY <1>1, <1>6 DEF FinishRead, IInv, Rings, Life, rs485Vars, modbusVars, busVars
<1> QED
  BY <1>2, <1>3, <1>4, <1>5, <1>6 DEF MeterTick, MeterWorks

\* Between two rounds of the main loop there is no response to be taken.
LEMMA RoundHolds ==
  ASSUME IInv, TimePasses \/ NextRound
  PROVE  IInv' /\ req_state' = req_state /\ ~cb_invoke /\ ~cb_invoke'
  BY DEF TimePasses, NextRound, Punctual, IInv, Rings, Life, rs485Vars, modbusVars, busVars

-----------------------------------------------------------------------------
\* What ModbusRequest sees of the master, in this state and in the next.
LEMMA StatusIs ==
  ASSUME Life
  PROVE  /\ req_state = "READY" => RequestStatus = "none"
         /\ req_state = "WAITING" /\ ~cb_invoke => RequestStatus = "waiting"
         /\ req_state = "WAITING" /\ cb_invoke => RequestStatus \in Request!Settled
  BY DEF Life, RequestStatus, Request!Settled

\* The same for the next state.
LEMMA StatusWillBe ==
  ASSUME Life'
  PROVE  /\ req_state' = "READY" => RequestStatus' = "none"
         /\ req_state' = "WAITING" /\ ~cb_invoke' => RequestStatus' = "waiting"
         /\ req_state' = "WAITING" /\ cb_invoke' => RequestStatus' \in Request!Settled
  BY DEF Life, RequestStatus, Request!Settled

\* Every step keeps the invariant and is one of ModbusRequest's, or changes
\* nothing that it sees.
LEMMA StepHolds ==
  ASSUME IInv, [Next]_vars
  PROVE  IInv' /\ [Request!Start \/ Request!Settle \/ Request!Clear]_RequestStatus
<1> USE DEF Request!Start, Request!Settle, Request!Clear
<1>1. Life
  BY DEF IInv
<1>2. CASE PollBus
  <2>1. IInv' /\ req_state' = req_state /\ ~cb_invoke /\ (req_state = "READY" => ~cb_invoke')
    BY <1>2, PollBusHolds DEF IInv, Life, PollBus
  <2> QED
    BY <1>1, <2>1, StatusIs, StatusWillBe DEF IInv, Life
<1>3. CASE MeterTick
  <2>1. IInv' /\ Life'
    BY <1>3, MeterTickHolds DEF IInv
  <2> QED
    BY <1>1, <1>3, <2>1, MeterTickHolds, StatusIs, StatusWillBe DEF Life
<1>4. CASE TimePasses \/ NextRound
  <2>1. IInv' /\ Life'
    BY <1>4, RoundHolds DEF IInv
  <2> QED
    BY <1>1, <1>4, <2>1, RoundHolds, StatusIs, StatusWillBe DEF Life
<1>5. CASE Interrupt \/ BusTransmit \/ SlaveSend \/ SlaveIsLate \/ Noise \/ UNCHANGED vars
  BY <1>5, BusHolds
<1> QED
  BY <1>2, <1>3, <1>4, <1>5 DEF Next, MainLoop

\* modbus.c and the meter's use of it keep the promise of ModbusRequest, for
\* every size of the rings and FIFOs, every timing and every number of
\* disturbances of every kind: what the drivers of MeterDrivers are built on.
THEOREM MasterKeepsPromise == Spec => ImplementsRequest
<1>1. Init => IInv /\ RequestStatus = "none"
  BY InitHolds DEF Init, RequestStatus
<1>2. IInv /\ [Next]_vars => IInv' /\ [Request!Start \/ Request!Settle \/ Request!Clear]_RequestStatus
  BY StepHolds
<1> QED
  BY <1>1, <1>2, PTL DEF Spec, ImplementsRequest, Request!Spec

-----------------------------------------------------------------------------
(* Types.  IInv has those of the rings and of the request.                 *)

\* The line: a request is put into ringbuffer_tx only after it was emptied.
LineOK ==
  /\ Len(rxFifo) <= RX_FIFO
  /\ quiet \in 0 .. GAP
  /\ tx \in 0 .. REQUEST /\ txFifo \in 0 .. TX_FIFO
  /\ txEvent \in BOOLEAN /\ tx_done \in BOOLEAN /\ listening \in BOOLEAN
  /\ meter_state # 1 => tx = 0

\* The master's state machine.
MasterOK ==
  /\ state_wire \in {"IDLE", "RX", "TX"}
  /\ rx_last \in 0 .. RX_RING
  /\ reqAge \in 0 .. TIMEOUT

\* The main loop's clocks and states.
LoopOK ==
  /\ pc \in {"rs485", "meter", "loop"}
  /\ meter_state \in 0 .. 2 /\ last_state \in {0, 1, 2, 255}
  /\ sinceChange \in 0 .. WATCHDOG /\ errorWait \in NoWait .. ERROR_WAIT

\* The walks: a fast read goes on only once it was due, which is what keeps
\* register_fast_time from getting ahead of now.
WalksOK ==
  /\ fast_pos \in DOMAIN FastRead /\ full_pos \in DOMAIN FastRead
  /\ sinceFast \in 0 .. 2 * FAST
  /\ read_fast \in BOOLEAN /\ each_value_read_once \in BOOLEAN /\ missed \in BOOLEAN
  /\ read_fast => sinceFast >= FAST
  /\ stored \in {"none", "own", "other", "indeterminate"}

\* The meter at the other end.
FarOK ==
  /\ slave \in (Chunk \ {"f", "n"}) \cup {"idle"}
  /\ slaveAge \in 0 .. Late
  /\ badRequest \in BOOLEAN
  /\ faults \in 0 .. MAX_FAULTS

Types == LineOK /\ MasterOK /\ LoopOK /\ WalksOK /\ FarOK

\* What the constants are, as the provers need it.
LEMMA ConstantsAre ==
  /\ RX_RING \in Nat /\ RX_FIFO \in Nat /\ TX_FIFO \in Nat /\ TX_FIFO > 0 /\ GAP \in Nat
  /\ TIMEOUT \in Nat /\ TIMEOUT > 0 /\ ERROR_WAIT \in Nat /\ FAST \in Nat /\ FAST > 0
  /\ WATCHDOG \in Nat /\ WATCHDOG > 0 /\ LATENCY \in Nat /\ MAX_FAULTS \in Nat
  /\ Late = LATENCY + 1 /\ REQUEST = 2 /\ NoWait = -1
BY Rs485Assumption, ModbusAssumption, MeterAssumption DEF Late, REQUEST, NoWait

\* A clock that stops at its cap.
LEMMA CappedIs ==
  ASSUME NEW cap \in Nat, NEW age \in Int, age <= cap
  PROVE  /\ Capped(age, cap) \in Int /\ age <= Capped(age, cap)
         /\ Capped(age, cap) <= cap /\ Capped(age, cap) <= age + 1
         /\ age < cap => Capped(age, cap) = age + 1
BY DEF Capped

\* rs485_tx_irq_handler moves chunks and loses none; it goes on waiting for the
\* FIFO's event only when it has left the FIFO full.
LEMMA LoadedIs ==
  ASSUME NEW ring \in Nat, NEW fifo \in 0 .. TX_FIFO
  PROVE  /\ Loaded(ring, fifo).ring \in 0 .. ring
         /\ Loaded(ring, fifo).fifo \in 0 .. TX_FIFO
         /\ Loaded(ring, fifo).ring + Loaded(ring, fifo).fifo = ring + fifo
         /\ Loaded(ring, fifo).done \in BOOLEAN
         /\ Loaded(ring, fifo).done \/ Loaded(ring, fifo).fifo = TX_FIFO
<1> DEFINE moved == IF ring < TX_FIFO - fifo THEN ring ELSE TX_FIFO - fifo
<1>1. /\ Loaded(ring, fifo).ring = ring - moved
      /\ Loaded(ring, fifo).fifo = fifo + moved
      /\ Loaded(ring, fifo).done = (fifo + moved < TX_FIFO)
  BY DEF Loaded
<1>2. TX_FIFO \in Nat /\ fifo \in Nat /\ fifo <= TX_FIFO
  BY ConstantsAre
<1>3. moved \in Nat /\ moved <= ring /\ moved <= TX_FIFO - fifo
  BY <1>2
<1>4. ring - moved \in 0 .. ring /\ fifo + moved \in fifo .. TX_FIFO
      /\ (ring - moved) + (fifo + moved) = ring + fifo
      /\ (fifo + moved < TX_FIFO \/ fifo + moved = TX_FIFO)
  BY <1>2, <1>3
<1> HIDE DEF moved
<1>5. Loaded(ring, fifo).done \in BOOLEAN
      /\ (Loaded(ring, fifo).done \/ Loaded(ring, fifo).fifo = TX_FIFO)
  <2>1. CASE fifo + moved < TX_FIFO
    <3>1. Loaded(ring, fifo).done = TRUE
      BY <1>1, <2>1, Zenon
    <3> QED
      BY <3>1, Zenon
  <2>2. CASE ~(fifo + moved < TX_FIFO)
    <3>0. (fifo + moved < TX_FIFO) = FALSE
      BY <2>2
    <3>1. Loaded(ring, fifo).done = FALSE
      BY <1>1, <3>0, Zenon
    <3>2. Loaded(ring, fifo).fifo = TX_FIFO
      BY <1>1, <1>4, <2>2, Zenon
    <3> QED
      BY <3>1, <3>2, Zenon
  <2> QED
    BY <2>1, <2>2
<1>6. Loaded(ring, fifo).fifo \in 0 .. TX_FIFO
  BY <1>1, <1>2, <1>4
<1> QED
  BY <1>1, <1>4, <1>5, <1>6

\* modbus_start_tx, which runs the handler twice.
LEMMA StartIs ==
  ASSUME LineOK, tx = 0, StartRequest
  PROVE  /\ tx' \in 0 .. REQUEST /\ txFifo' \in 0 .. TX_FIFO
         /\ tx' + txFifo' = REQUEST + txFifo
         /\ txEvent' \in BOOLEAN /\ tx_done' \in BOOLEAN
         /\ tx_done' \/ (txEvent' /\ txFifo' = TX_FIFO)
<1> DEFINE first == Loaded(tx + REQUEST, txFifo)
           again == Loaded(first.ring, first.fifo)
<1>1. tx + REQUEST = 2 /\ REQUEST = 2 /\ txFifo \in 0 .. TX_FIFO /\ TX_FIFO \in Nat
  BY ConstantsAre DEF LineOK
<1>2. /\ first.ring \in 0 .. 2 /\ first.fifo \in 0 .. TX_FIFO
      /\ first.ring + first.fifo = 2 + txFifo
      /\ first.done \in BOOLEAN
      /\ first.done \/ first.fifo = TX_FIFO
  <2>1. first = Loaded(2, txFifo)
    BY <1>1
  <2>2. 2 \in Nat
    OBVIOUS
  <2> HIDE DEF first
  <2> QED
    BY <1>1, <2>1, <2>2, LoadedIs, Zenon
<1> HIDE DEF first
<1>3. /\ again.ring \in 0 .. first.ring /\ again.fifo \in 0 .. TX_FIFO
      /\ again.ring + again.fifo = first.ring + first.fifo
      /\ again.done \in BOOLEAN
      /\ again.done \/ again.fifo = TX_FIFO
  <2>1. first.ring \in Nat
    BY <1>2
  <2> QED
    BY <1>2, <2>1, LoadedIs
<1>4. /\ tx' = again.ring /\ txFifo' = again.fifo
      /\ tx_done' = (tx_done \/ first.done \/ again.done) /\ txEvent' = ~again.done
  BY DEF StartRequest, first
<1> HIDE DEF again
<1>5. tx' \in 0 .. REQUEST /\ txFifo' \in 0 .. TX_FIFO /\ tx' + txFifo' = REQUEST + txFifo
  BY <1>1, <1>2, <1>3, <1>4
<1>6. tx_done' \in BOOLEAN /\ txEvent' \in BOOLEAN
  BY <1>2, <1>3, <1>4 DEF LineOK
<1>7. tx_done' \/ (txEvent' /\ again.fifo = TX_FIFO)
  BY <1>3, <1>4
<1> QED
  BY <1>4, <1>5, <1>6, <1>7

\* Emptying the FIFO restarts the wait for a quiet line.
LEMMA QuietIs ==
  ASSUME quiet \in 0 .. GAP
  PROVE  QuietAfterDrain \in 0 .. GAP
BY ConstantsAre DEF QuietAfterDrain
\* The fields as modbus_init, meter_init and the found meter leave them.
LEMMA TypesInit == Init => Types
<1> SUFFICES ASSUME Init PROVE Types
  OBVIOUS
<1> USE ConstantsAre
<1>1. LineOK
  <2>1. Len(rxFifo) = 0 /\ quiet = GAP /\ tx = 0 /\ txFifo = 0
    BY DEF Init
  <2>2. txEvent \in BOOLEAN /\ tx_done \in BOOLEAN /\ listening \in BOOLEAN
    BY DEF Init
  <2>3. quiet \in 0 .. GAP /\ tx \in 0 .. REQUEST /\ txFifo \in 0 .. TX_FIFO
    BY <2>1
  <2> QED
    BY <2>1, <2>2, <2>3 DEF LineOK
<1>2. MasterOK
  BY DEF Init, MasterOK
<1>3. LoopOK
  BY DEF Init, LoopOK
<1>4. WalksOK
  <2>1. sinceFast = 2 * FAST /\ fast_pos = 1 /\ full_pos = 1 /\ stored = "none"
    BY DEF Init
  <2>2. read_fast = FALSE /\ each_value_read_once = FALSE /\ missed = FALSE
    BY DEF Init
  <2>3. 1 \in DOMAIN FastRead /\ sinceFast \in 0 .. 2 * FAST
    BY <2>1, ListAssumption
  <2> QED
    BY <2>1, <2>2, <2>3 DEF WalksOK
<1>5. FarOK
  <2>1. slave = "idle" /\ badRequest = FALSE /\ slaveAge = 0 /\ faults = 0
    BY DEF Init
  <2>2. badRequest \in BOOLEAN
    BY <2>1
  <2>3. slaveAge \in 0 .. Late /\ faults \in 0 .. MAX_FAULTS
    BY <2>1
  <2> QED
    BY <2>1, <2>2, <2>3 DEF FarOK
<1> QED
  BY <1>1, <1>2, <1>3, <1>4, <1>5 DEF Types

\* rs485.c, modbus_start_tx and modbus_clear_request keep to the FIFOs' and the
\* ring's sizes.
LEMMA LineStep ==
  ASSUME IInv, LineOK, [Next]_vars
  PROVE  LineOK'
<1> USE ConstantsAre DEF rs485Vars, modbusVars
<1>1. CASE PollBus
  <2>1. /\ rxFifo' = <<>> /\ quiet' = QuietAfterDrain /\ meter_state' = meter_state
        /\ tx' = tx /\ txFifo' = txFifo /\ txEvent' = txEvent /\ listening' = listening
    BY <1>1 DEF PollBus, Rs485Tick
  <2>2. tx_done' \in BOOLEAN
    BY <1>1 DEF PollBus, Rs485Tick, TxStep, LineOK
  <2>3. Len(<<>>) <= RX_FIFO
    OBVIOUS
  <2>4. quiet' \in 0 .. GAP
    BY <2>1, QuietIs DEF LineOK
  <2> QED
    BY <2>1, <2>2, <2>3, <2>4 DEF LineOK
<1>2. CASE MeterTick
  <2>1. CASE MeterWorks /\ SendRequest
    <3>1. tx = 0 /\ StartRequest /\ meter_state' = 1 /\ quiet' = quiet
      BY <2>1 DEF SendRequest, StartRequest, LineOK
    <3>2. Len(rxFifo') <= RX_FIFO
      <4>1. rxFifo' = AgedSeq(rxFifo)
        BY <3>1 DEF StartRequest
      <4>2. Len(AgedSeq(rxFifo)) = Len(rxFifo)
        BY DEF AgedSeq, IInv, Rings
      <4> QED
        BY <4>1, <4>2 DEF LineOK
    <3>3. listening' \in BOOLEAN
      BY <3>1 DEF StartRequest
    <3>4. /\ tx' \in 0 .. REQUEST /\ txFifo' \in 0 .. TX_FIFO
          /\ txEvent' \in BOOLEAN /\ tx_done' \in BOOLEAN
      BY <3>1, StartIs
    <3> QED
      BY <3>1, <3>2, <3>3, <3>4 DEF LineOK
  <2>2. CASE MeterWorks /\ TakeResponse
    <3>1. tx' = 0 /\ UNCHANGED <<rxFifo, quiet, txFifo, txEvent, tx_done, listening>>
      BY <2>2 DEF TakeResponse, ClearRequest
    <3>2. tx' \in 0 .. REQUEST
      BY <3>1
    <3> QED
      BY <3>1, <3>2 DEF LineOK
  <2>3. CASE MeterWaits \/ (MeterWorks /\ AwaitResponse) \/ (MeterWorks /\ FinishRead)
    <3>1. UNCHANGED rs485Vars /\ (meter_state' # 1 => meter_state # 1)
      BY <2>3 DEF MeterWaits, AwaitResponse, FinishRead
    <3> QED
      BY <3>1 DEF LineOK
  <2> QED
    BY <1>2, <2>1, <2>2, <2>3 DEF MeterTick, MeterWorks
<1>3. CASE TimePasses
  <2>1. /\ quiet' = Capped(quiet, GAP)
        /\ UNCHANGED <<rxFifo, tx, txFifo, txEvent, tx_done, listening, meter_state>>
    BY <1>3 DEF TimePasses
  <2>2. quiet' \in 0 .. GAP
    BY <2>1 DEF LineOK, Capped
  <2> QED
    BY <2>1, <2>2 DEF LineOK
<1>4. CASE RxIrq /\ UNCHANGED meterVars
  <2>1. /\ rxFifo' = <<>> /\ quiet' = 0
        /\ UNCHANGED <<tx, txFifo, txEvent, tx_done, listening, meter_state>>
    BY <1>4 DEF RxIrq, meterVars
  <2>2. Len(<<>>) <= RX_FIFO /\ 0 \in 0 .. GAP
    OBVIOUS
  <2> QED
    BY <2>1, <2>2 DEF LineOK
<1>5. CASE TxIrq /\ UNCHANGED meterVars
  <2>1. tx \in Nat /\ txFifo \in 0 .. TX_FIFO /\ tx <= REQUEST
    BY DEF LineOK
  <2>2. /\ tx' = Loaded(tx, txFifo).ring /\ txFifo' = Loaded(tx, txFifo).fifo
        /\ tx_done' = (tx_done \/ Loaded(tx, txFifo).done)
        /\ txEvent' = ~Loaded(tx, txFifo).done
        /\ listening' = FALSE
        /\ UNCHANGED <<rxFifo, quiet, meter_state>>
    BY <1>5 DEF TxIrq, LoadTx, meterVars
  <2>3. tx' \in 0 .. tx /\ txFifo' \in 0 .. TX_FIFO
    BY <2>1, <2>2, LoadedIs
  <2>4. tx_done' \in BOOLEAN /\ txEvent' \in BOOLEAN /\ listening' \in BOOLEAN
    BY <2>2
  <2>5. tx' \in 0 .. REQUEST /\ (tx = 0 => tx' = 0)
    BY <2>1, <2>3
  <2> QED
    BY <2>2, <2>3, <2>4, <2>5 DEF LineOK
<1>6. CASE BusTransmit
  <2>1. /\ txFifo > 0 /\ txFifo' = txFifo - 1 /\ listening' = (txFifo = 1)
        /\ UNCHANGED <<rxFifo, quiet, tx, txEvent, tx_done, meter_state>>
    BY <1>6 DEF BusTransmit, Transmit, meterVars
  <2>2. txFifo' \in 0 .. TX_FIFO
    BY <2>1 DEF LineOK
  <2>3. listening' \in BOOLEAN
    BY <2>1
  <2> QED
    BY <2>1, <2>2, <2>3 DEF LineOK
<1>7. CASE SlaveSend \/ Noise
  <2>1. ASSUME NEW c, Arrive(c)
        PROVE  Len(rxFifo') <= RX_FIFO
    <3>1. rxFifo \in Seq(Chunk) /\ Len(rxFifo) \in Nat
      BY DEF IInv, Rings
    <3>2. CASE rxFifo' = rxFifo
      BY <3>2 DEF LineOK
    <3>3. CASE rxFifo' = Append(rxFifo, c) /\ Len(rxFifo) < RX_FIFO
      BY <3>1, <3>3
    <3> QED
      BY <2>1, <3>2, <3>3 DEF Arrive
  <2>2. \E c : Arrive(c)
    BY <1>7 DEF SlaveSend, Noise
  <2>3. UNCHANGED <<quiet, tx, txFifo, txEvent, tx_done, listening, meter_state>>
    BY <1>7 DEF SlaveSend, Noise, Arrive, meterVars
  <2> QED
    BY <2>1, <2>2, <2>3 DEF LineOK
<1>8. CASE NextRound \/ SlaveIsLate \/ UNCHANGED vars
  <2>1. UNCHANGED <<rs485Vars, meter_state>>
    BY <1>8 DEF NextRound, SlaveIsLate, vars, meterVars
  <2> QED
    BY <2>1 DEF LineOK
<1> QED
  BY <1>1, <1>2, <1>3, <1>4, <1>5, <1>6, <1>7, <1>8 DEF Next, MainLoop, Interrupt

\* modbus_update_rtu_wire_state_machine, modbus_start_tx, modbus_clear_request:
\* rx_rb_last_length is a length that ringbuffer_rx had.
LEMMA MasterStep ==
  ASSUME IInv, MasterOK, [Next]_vars
  PROVE  MasterOK'
<1> USE ConstantsAre DEF modbusVars
<1>1. CASE PollBus
  <2>1. Len(Drained) \in 0 .. RX_RING
    <3>1. Drained \in Seq(Chunk) /\ Len(Drained) <= RX_RING
      BY DrainedExtends DEF IInv
    <3> QED
      BY <3>1
  <2>2. reqAge' = reqAge
    BY <1>1 DEF PollBus, Rs485Tick
  <2>3. CASE state_wire = "IDLE" /\ IdleStep(Drained)
    <3>1. \/ state_wire' = "RX" /\ rx_last' = Len(Drained)
          \/ UNCHANGED <<state_wire, rx_last>>
      BY <2>3 DEF IdleStep, GiveUp
    <3> QED
      BY <2>1, <2>2, <3>1 DEF MasterOK
  <2>4. CASE RxStep(QuietAfterDrain) \/ TxStep
    <3>1. state_wire' \in {"IDLE", "RX", "TX"} /\ rx_last' = rx_last
      BY <2>4 DEF RxStep, TxStep
    <3> QED
      BY <2>2, <3>1 DEF MasterOK
  <2> QED
    BY <1>1, <2>3, <2>4 DEF PollBus, Rs485Tick
<1>2. CASE MeterTick
  <2>1. \/ UNCHANGED modbusVars
        \/ state_wire' = "TX" /\ reqAge' = 0 /\ rx_last' = rx_last
        \/ state_wire' = "IDLE" /\ reqAge' = reqAge /\ rx_last' = 0
    BY <1>2 DEF MeterTick, MeterWaits, MeterWorks, SendRequest, AwaitResponse, TakeResponse,
                FinishRead, StartRequest, ClearRequest
  <2> QED
    BY <2>1 DEF MasterOK
<1>3. CASE TimePasses
  <2>1. UNCHANGED <<state_wire, rx_last>> /\ reqAge' \in {reqAge, Capped(reqAge, TIMEOUT)}
    BY <1>3 DEF TimePasses
  <2>2. reqAge' \in 0 .. TIMEOUT
    BY <2>1 DEF MasterOK, Capped
  <2> QED
    BY <2>1, <2>2 DEF MasterOK
<1>4. CASE UNCHANGED modbusVars
  BY <1>4 DEF MasterOK
<1> QED
  BY <1>1, <1>2, <1>3, <1>4
     DEF Next, MainLoop, NextRound, Interrupt, BusTransmit, SlaveSend, SlaveIsLate, Noise, vars

\* meter_tick: the watchdog's and the error's clock, and the states.
LEMMA LoopStep ==
  ASSUME LoopOK, [Next]_vars
  PROVE  LoopOK'
<1> USE ConstantsAre
<1>1. CASE MeterTick
  <2>1. pc' = "loop" /\ meter_state' \in 0 .. 2
    <3>1. pc' = "loop" /\ meter_state' \in {meter_state, 0, 1, 2}
      BY <1>1, Zenon DEF MeterTick, MeterWaits, MeterWorks, SendRequest, AwaitResponse,
                         TakeResponse, FinishRead
    <3> QED
      BY <3>1 DEF LoopOK
  <2>2. /\ last_state' \in {last_state, meter_state}
        /\ sinceChange' \in {sinceChange, 0}
        /\ errorWait' \in {errorWait, 0, NoWait}
    BY <1>1 DEF MeterTick, MeterWaits, MeterWorks, SendRequest, AwaitResponse, TakeResponse,
                FinishRead
  <2>3. last_state' \in {0, 1, 2, 255}
    BY <2>2 DEF LoopOK
  <2>4. sinceChange' \in 0 .. WATCHDOG /\ errorWait' \in NoWait .. ERROR_WAIT
    BY <2>2 DEF LoopOK
  <2> QED
    BY <2>1, <2>3, <2>4 DEF LoopOK
<1>2. CASE TimePasses
  <2>1. /\ pc' = "rs485" /\ UNCHANGED <<meter_state, last_state>>
        /\ sinceChange' = Capped(sinceChange, WATCHDOG)
        /\ errorWait' \in {NoWait, Capped(errorWait, ERROR_WAIT)}
    BY <1>2 DEF TimePasses
  <2>2. sinceChange' \in 0 .. WATCHDOG /\ errorWait' \in NoWait .. ERROR_WAIT
    BY <2>1 DEF LoopOK, Capped
  <2> QED
    BY <2>1, <2>2 DEF LoopOK
<1>3. CASE pc' \in {"rs485", "meter", pc}
           /\ UNCHANGED <<meter_state, last_state, sinceChange, errorWait>>
  BY <1>3 DEF LoopOK
<1> QED
  BY <1>1, <1>2, <1>3
     DEF Next, MainLoop, PollBus, NextRound, Interrupt, BusTransmit, SlaveSend, SlaveIsLate,
         Noise, vars, meterVars

\* meter_generic_tick: the walks over the list, and register_fast_time.
LEMMA WalksStep ==
  ASSUME WalksOK, [Next]_vars
  PROVE  WalksOK'
<1> USE ConstantsAre
<1> DEFINE walk == <<fast_pos, full_pos, read_fast, each_value_read_once, missed, stored>>
<1>1. CASE MeterWorks /\ SendRequest
  <2>1. /\ UNCHANGED <<sinceFast, fast_pos, full_pos, each_value_read_once, stored, missed>>
        /\ read_fast' = (sinceFast >= FAST \/ read_fast)
    BY <1>1 DEF SendRequest
  <2>2. read_fast' \in BOOLEAN
    BY <2>1 DEF WalksOK
  <2>3. read_fast' => sinceFast' >= FAST
    BY <2>1 DEF WalksOK
  <2> QED
    BY <2>1, <2>2, <2>3 DEF WalksOK
<1>2. CASE MeterWorks /\ TakeResponse
  <2>1. stored' \in {"none", "own", "other", "indeterminate"}
    BY <1>2 DEF TakeResponse, Response
  <2>2. CASE /\ read_fast = TRUE
             /\ fast_pos' = NextPos(fast_pos, TRUE)
             /\ read_fast' = FastGoesOn(fast_pos)
             /\ sinceFast' = IF Wraps(fast_pos, TRUE) THEN NextFastTime ELSE sinceFast
             /\ UNCHANGED <<full_pos, each_value_read_once, missed>>
    <3>1. fast_pos' \in DOMAIN FastRead
      BY <2>2, WalkStaysInList DEF WalksOK
    <3>2. read_fast' \in BOOLEAN
      BY <2>2 DEF FastGoesOn, Wraps
    <3>3. read_fast
      BY <2>2
    <3>4. sinceFast \in 0 .. 2 * FAST /\ sinceFast >= FAST
      BY <3>3 DEF WalksOK
    <3>5. NextFastTime \in 0 .. 2 * FAST
      BY <3>4 DEF NextFastTime
    <3>6. sinceFast' \in 0 .. 2 * FAST
      BY <2>2, <3>4, <3>5
    <3>7. read_fast' => sinceFast' = sinceFast
      BY <2>2 DEF FastGoesOn
    <3>8. read_fast' => sinceFast' >= FAST
      BY <3>4, <3>7
    <3> QED
      BY <2>1, <2>2, <3>1, <3>2, <3>6, <3>8 DEF WalksOK
  <2>3. CASE /\ full_pos' = NextPos(full_pos, FALSE)
             /\ each_value_read_once' = (each_value_read_once \/ Wraps(full_pos, FALSE))
             /\ missed' = (missed \/ (~each_value_read_once /\ Response # "own"))
             /\ UNCHANGED <<fast_pos, read_fast, sinceFast>>
    <3>1. full_pos' \in DOMAIN FastRead
      BY <2>3, WalkStaysInList DEF WalksOK
    <3>2. each_value_read_once' \in BOOLEAN /\ missed' \in BOOLEAN
      BY <2>3
    <3> QED
      BY <2>1, <2>3, <3>1, <3>2 DEF WalksOK
  <2>4. read_fast \in BOOLEAN
    BY DEF WalksOK
  <2> QED
    BY <1>2, <2>2, <2>3, <2>4 DEF TakeResponse
<1>3. CASE TimePasses
  <2>1. UNCHANGED walk /\ sinceFast' = Capped(sinceFast, 2 * FAST)
    BY <1>3 DEF TimePasses
  <2>2. sinceFast' \in 0 .. 2 * FAST /\ (sinceFast >= FAST => sinceFast' >= FAST)
    BY <2>1 DEF WalksOK, Capped
  <2> QED
    BY <2>1, <2>2 DEF WalksOK
<1>4. CASE UNCHANGED walk /\ UNCHANGED sinceFast
  BY <1>4 DEF WalksOK
<1> QED
  BY <1>1, <1>2, <1>3, <1>4
     DEF Next, MainLoop, PollBus, MeterTick, MeterWaits, MeterWorks, AwaitResponse, FinishRead,
         NextRound, Interrupt, BusTransmit, SlaveSend, SlaveIsLate, Noise, vars, meterVars

\* The meter answers what it was asked and ages what it has not sent yet.
LEMMA FarStep ==
  ASSUME FarOK, [Next]_vars
  PROVE  FarOK'
<1> USE ConstantsAre
<1> DEFINE Own == (Chunk \ {"f", "n"}) \cup {"idle"}
<1>1. slave' \in Own
  <2>1. \A c \in Own : Aged(c) \in Own /\ Rest(c) \in Own
    BY DEF Aged, Rest, Chunk
  <2>2. slave' \in {slave, Aged(slave), Rest(slave), "v1", "x1"}
    BY DEF Next, MainLoop, PollBus, MeterTick, MeterWaits, MeterWorks, SendRequest,
           AwaitResponse, TakeResponse, FinishRead, TimePasses, Punctual, NextRound, Interrupt,
           BusTransmit, Receive, SlaveSend, SlaveIsLate, Noise, vars, busVars
  <2> QED
    BY <2>1, <2>2 DEF FarOK, Chunk
<1>2. badRequest' \in BOOLEAN
  <2>1. CASE SendRequest
    BY <2>1 DEF SendRequest
  <2>2. CASE SlaveSend
    BY <2>2 DEF SlaveSend
  <2>3. CASE UNCHANGED badRequest
    BY <2>3 DEF FarOK
  <2> QED
    BY <2>1, <2>2, <2>3
       DEF Next, MainLoop, PollBus, MeterTick, MeterWaits, MeterWorks, AwaitResponse,
           TakeResponse, FinishRead, TimePasses, NextRound, Interrupt, BusTransmit, SlaveIsLate,
           Noise, vars, busVars
<1>3. slaveAge' \in 0 .. Late
  <2>1. slaveAge' \in {slaveAge, 0, Late, Capped(slaveAge, Late)}
    BY DEF Next, MainLoop, PollBus, MeterTick, MeterWaits, MeterWorks, SendRequest,
           AwaitResponse, TakeResponse, FinishRead, TimePasses, Punctual, NextRound, Interrupt,
           BusTransmit, Receive, SlaveSend, SlaveIsLate, Noise, vars, busVars
  <2> QED
    BY <2>1 DEF FarOK, Capped
<1>4. faults' \in 0 .. MAX_FAULTS
  <2>1. faults' = faults \/ (faults < MAX_FAULTS /\ faults' = faults + 1)
    BY DEF Next, MainLoop, PollBus, MeterTick, MeterWaits, MeterWorks, SendRequest,
           AwaitResponse, TakeResponse, FinishRead, TimePasses, Punctual, NextRound, Interrupt,
           BusTransmit, Receive, SlaveSend, SlaveIsLate, Noise, vars, busVars, Fault
  <2> QED
    BY <2>1 DEF FarOK
<1> QED
  BY <1>1, <1>2, <1>3, <1>4 DEF FarOK

\* The parts make the inductive invariant.
LEMMA TypesStep == IInv /\ Types /\ [Next]_vars => IInv' /\ Types'
BY StepHolds, LineStep, MasterStep, LoopStep, WalksStep, FarStep DEF Types

\* Every field of the driver, the master and the meter's polling keeps its
\* type, the rings and FIFOs their sizes and the walks their list, whatever the
\* sizes, the times, the list and the disturbances.
THEOREM TypeCorrect == Spec => []TypeOK
<1>1. IInv /\ Types => TypeOK
  <2> SUFFICES ASSUME IInv, Types PROVE TypeOK
    OBVIOUS
  <2>1. LineOK /\ MasterOK /\ LoopOK /\ WalksOK /\ FarOK /\ Rings /\ Life
    BY DEF Types, IInv
  <2> QED
    BY <2>1, Zenon DEF TypeOK, LineOK, MasterOK, LoopOK, WalksOK, FarOK, Rings, Life
<1> QED
  BY <1>1, InitHolds, TypesInit, TypesStep, PTL DEF Spec
=============================================================================
