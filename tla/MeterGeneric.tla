---------------------------- MODULE MeterGeneric ----------------------------
(***************************************************************************)
(* warp/meter.c and warp/meter_generic.c: the main loop polls the meter's  *)
(* registers one Modbus request at a time.  A few registers are "fast":    *)
(* every FAST they are read first, all others take turns in between.  The  *)
(* module closes the system with the meter at the other end of the bus,    *)
(* and with time, which passes between two rounds of the main loop.        *)
(*                                                                         *)
(* The model starts when the meter's type has just been found.             *)
(***************************************************************************)
EXTENDS ModbusMaster, RegisterList

CONSTANTS
  ERROR_WAIT,   \* the 500 ms after a failed request, in units of time
  FAST,         \* the 500 ms between two fast reads
  WATCHDOG,     \* the 60 s without a state change after which meter_tick hangs
  LATENCY,      \* how long a healthy meter takes to begin its answer
  Faults,       \* what may go wrong on the bus
  MAX_FAULTS    \* how often something goes wrong (a bound)

ASSUME MeterAssumption ==
  /\ {ERROR_WAIT, FAST, WATCHDOG, LATENCY, MAX_FAULTS} \subseteq Nat \ {0}
  /\ Faults \subseteq {"lost", "garbled", "exception", "late", "split", "noise"}

VARIABLES
  pc,               \* the main loop: "rs485", "meter", "loop"
  meter_state,      \* meter.state
  last_state,       \* the static last_state of meter_tick
  sinceChange,      \* time since meter.timeout, up to WATCHDOG
  errorWait,        \* time since meter.error_wait_time, NoWait when that is 0
  sinceFast,        \* time since meter.register_fast_time, up to 2 * FAST
  read_fast,        \* the static read_fast of meter_generic_tick
  fast_pos,         \* meter.register_fast_position, from 1
  full_pos,         \* meter.register_full_position, from 1
  each_value_read_once,
  stored,           \* what the last meter_handle_new_data was given
  missed,           \* history: a turn of the full list stored no own value
  slave,            \* the chunk the meter sends next, or "idle"
  slaveAge,         \* how long the meter has had the request, or Late
  badRequest,       \* the frame in transmission runs into the one before
  faults            \* what went wrong so far

meterVars == <<pc, meter_state, last_state, sinceChange, errorWait, sinceFast,
               read_fast, fast_pos, full_pos, each_value_read_once, stored, missed>>
busVars == <<slave, slaveAge, badRequest, faults>>
vars == <<rs485Vars, modbusVars, meterVars, busVars>>

NoWait == -1
Late == LATENCY + 1
Capped(age, cap) == IF age < cap THEN age + 1 ELSE cap

-----------------------------------------------------------------------------
Init ==
  /\ rxFifo = <<>> /\ rx = <<>> /\ quiet = GAP
  /\ tx = 0 /\ txFifo = 0 /\ txEvent = FALSE /\ tx_done = FALSE /\ listening = TRUE
  /\ state_wire = "IDLE" /\ req_state = "READY" /\ cb_invoke = FALSE
  /\ timed_out = FALSE /\ rx_last = 0 /\ reqAge = 0
  /\ pc = "rs485" /\ meter_state = 0 /\ last_state = 255 /\ sinceChange = 0
  /\ errorWait = NoWait /\ sinceFast = 2 * FAST /\ read_fast = FALSE
  /\ fast_pos = 1 /\ full_pos = 1
  /\ each_value_read_once = FALSE /\ stored = "none" /\ missed = FALSE
  /\ slave = "idle" /\ slaveAge = 0 /\ badRequest = FALSE /\ faults = 0

-----------------------------------------------------------------------------
\* read_fast after a fast read: until all fast registers had their turn.
FastGoesOn(pos) == ~Wraps(pos, TRUE)

\* meter_is_response_ready
ResponseReady == req_state = "WAITING" /\ cb_invoke

\* The chunks that rx_frame's value is read from.
Frame == SubSeq(rx, 1, 2)

\* meter_get_read_registers_response, on a ready response: what it puts in
\* `data`.  On an error it leaves it uninitialized, and the caller stores it
\* all the same.
Response == CASE timed_out \/ Frame = Exception -> "indeterminate"
              [] ~timed_out /\ Frame = Value    -> "own"
              [] OTHER                          -> "other"

\* meter_generic_tick, state 0: send the next request.
SendRequest ==
  /\ meter_state = 0
  /\ read_fast' = (sinceFast >= FAST \/ read_fast)
  /\ meter_state' = 1
  /\ StartRequest
  /\ badRequest' = (tx > 0 \/ txFifo > 0)
  /\ slave' = Aged(slave)
  /\ errorWait' = NoWait
  /\ UNCHANGED <<sinceFast, fast_pos, full_pos, each_value_read_once,
                 stored, missed, slaveAge, faults>>

AwaitResponse ==
  /\ meter_state = 1
  /\ ~ResponseReady
  /\ errorWait' = NoWait
  /\ UNCHANGED <<rs485Vars, modbusVars, busVars, meter_state, sinceFast, read_fast,
                 fast_pos, full_pos, each_value_read_once, stored, missed>>

\* A mutant: register_fast_time is left behind.
NextFastTimeStays == sinceFast

\* register_fast_time += 500, taken to now when even that is over.
NextFastTime == IF sinceFast >= 2 * FAST THEN 0 ELSE sinceFast - FAST

\* meter_generic_tick, state 1: take the response and move on, even if there
\* was an error.
TakeResponse ==
  /\ meter_state = 1
  /\ ResponseReady
  /\ stored' = Response
  /\ errorWait' = IF timed_out THEN 0 ELSE NoWait
  /\ ClearRequest
  /\ \/ /\ read_fast
        /\ meter_state' = 0
        /\ fast_pos' = NextPos(fast_pos, TRUE)
        /\ read_fast' = FastGoesOn(fast_pos)
        /\ sinceFast' = IF Wraps(fast_pos, TRUE) THEN NextFastTime ELSE sinceFast
        /\ UNCHANGED <<full_pos, each_value_read_once, missed>>
     \/ /\ ~read_fast
        /\ meter_state' = 2
        /\ full_pos' = NextPos(full_pos, FALSE)
        /\ each_value_read_once' = (each_value_read_once \/ Wraps(full_pos, FALSE))
        /\ missed' = (missed \/ (~each_value_read_once /\ Response # "own"))
        /\ UNCHANGED <<fast_pos, read_fast, sinceFast>>
  /\ UNCHANGED busVars

\* meter_generic_tick, state 2: nothing is left to do but to go on.
FinishRead ==
  /\ meter_state = 2
  /\ meter_state' = 0
  /\ errorWait' = NoWait
  /\ UNCHANGED <<rs485Vars, modbusVars, busVars, sinceFast, read_fast,
                 fast_pos, full_pos, each_value_read_once, stored, missed>>

\* meter_tick: wait after an error, watch over the state, let the meter work.
MeterWaits ==
  /\ errorWait # NoWait /\ errorWait < ERROR_WAIT
  /\ UNCHANGED <<rs485Vars, modbusVars, busVars, meter_state, last_state, sinceChange,
                 errorWait, sinceFast, read_fast, fast_pos, full_pos,
                 each_value_read_once, stored, missed>>

Hung == last_state = meter_state /\ sinceChange = WATCHDOG

MeterWorks ==
  /\ errorWait = NoWait \/ errorWait >= ERROR_WAIT
  /\ ~Hung
  /\ last_state' = meter_state
  /\ sinceChange' = IF last_state # meter_state THEN 0 ELSE sinceChange
  /\ \/ SendRequest \/ AwaitResponse \/ TakeResponse \/ FinishRead

MeterTick ==
  /\ pc = "meter"
  /\ MeterWaits \/ MeterWorks
  /\ pc' = "loop"

-----------------------------------------------------------------------------
(* The bus and the meter (external).                                       *)

Fault(f) == f \in Faults /\ faults < MAX_FAULTS /\ faults' = faults + 1

\* The end of a request reaches the meter, which is answering at most one.
Receive ==
  \/ /\ slave' = "v1" /\ slaveAge' = 0
     /\ UNCHANGED faults
  \/ /\ slave # "idle"
     /\ UNCHANGED <<slave, slaveAge, faults>>
  \/ /\ Fault("lost")
     /\ UNCHANGED <<slave, slaveAge>>
  \/ /\ Fault("exception")
     /\ slave' = "x1" /\ slaveAge' = 0

BusTransmit ==
  /\ Transmit
  /\ IF tx = 0 /\ txFifo = 1 /\ ~badRequest
     THEN Receive
     ELSE UNCHANGED <<slave, slaveAge, faults>>
  /\ UNCHANGED <<modbusVars, meterVars, badRequest>>

Rest(c) == CASE c = "v1" -> "v2" [] c = "o1" -> "o2" [] c = "x1" -> "x2" [] OTHER -> "idle"

\* The meter sends a chunk; two transmitters at a time destroy both frames.
SlaveSend ==
  /\ slave # "idle"
  /\ \/ Arrive(slave) /\ UNCHANGED faults
     \/ Arrive("n") /\ Fault("garbled")
  /\ slave' = Rest(slave)
  /\ badRequest' = (badRequest \/ txFifo > 0)
  /\ UNCHANGED <<modbusVars, meterVars, slaveAge>>

\* From here on the meter takes as long as it likes.
SlaveIsLate ==
  /\ slave \in {"v1", "o1", "x1"}
  /\ slaveAge # Late
  /\ slaveAge' = Late
  /\ Fault("late")
  /\ UNCHANGED <<rs485Vars, modbusVars, meterVars, slave, badRequest>>

\* Other traffic: noise, or a frame of another slave.
Noise ==
  /\ Fault("noise")
  /\ \E c \in {"n", "f"} : Arrive(c)
  /\ UNCHANGED <<modbusVars, meterVars, slave, slaveAge, badRequest>>

-----------------------------------------------------------------------------
(* Time: a unit passes at most once in a round of the main loop, never     *)
(* during a transmission, and never before a punctual meter has answered.  *)

Punctual ==
  \/ slave = "idle" /\ UNCHANGED <<slaveAge, faults>>
  \/ /\ slave \in {"v1", "o1", "x1"} /\ slaveAge # LATENCY
     /\ slaveAge' = Capped(slaveAge, Late)
     /\ UNCHANGED faults
  \/ /\ slave \in {"v2", "o2", "x2"} /\ Fault("split")
     /\ UNCHANGED slaveAge

TimePasses ==
  /\ pc = "loop"
  /\ tx = 0 /\ txFifo = 0
  /\ Punctual
  /\ quiet' = Capped(quiet, GAP)
  /\ reqAge' = IF Waiting THEN Capped(reqAge, TIMEOUT) ELSE reqAge
  /\ sinceChange' = Capped(sinceChange, WATCHDOG)
  /\ errorWait' = IF errorWait = NoWait THEN NoWait ELSE Capped(errorWait, ERROR_WAIT)
  /\ sinceFast' = Capped(sinceFast, 2 * FAST)
  /\ pc' = "rs485"
  /\ UNCHANGED <<rxFifo, rx, tx, txFifo, txEvent, tx_done, listening,
                 state_wire, req_state, cb_invoke, timed_out, rx_last,
                 meter_state, last_state, read_fast, fast_pos, full_pos,
                 each_value_read_once, stored, missed, slave, badRequest>>

NextRound ==
  /\ pc = "loop"
  /\ pc' = "rs485"
  /\ UNCHANGED <<rs485Vars, modbusVars, busVars, meter_state, last_state, sinceChange,
                 errorWait, sinceFast, read_fast, fast_pos, full_pos,
                 each_value_read_once, stored, missed>>

PollBus ==
  /\ pc = "rs485"
  /\ Rs485Tick
  /\ pc' = "meter"
  /\ UNCHANGED <<busVars, meter_state, last_state, sinceChange, errorWait, sinceFast,
                 read_fast, fast_pos, full_pos, each_value_read_once, stored, missed>>

Interrupt ==
  /\ RxIrq \/ TxIrq
  /\ UNCHANGED <<modbusVars, meterVars, busVars>>

MainLoop == PollBus \/ MeterTick \/ TimePasses \/ NextRound

Next ==
  \/ MainLoop
  \/ Interrupt
  \/ BusTransmit
  \/ SlaveSend
  \/ SlaveIsLate
  \/ Noise

\* The main loop, the interrupts and the hardware always go on, the meter
\* always sends what it began, and the clock is not held up for ever.
Fairness ==
  /\ WF_vars(MainLoop)
  /\ SF_vars(TimePasses)
  /\ WF_vars(Interrupt)
  /\ WF_vars(BusTransmit)
  /\ WF_vars(SlaveSend)

Spec == Init /\ [][Next]_vars
FairSpec == Spec /\ Fairness

-----------------------------------------------------------------------------
(* Properties.                                                             *)

\* The types of the driver's, the master's and the meter's fields; both rings
\* and FIFOs stay within their sizes and the positions within the list.
TypeOK ==
  /\ rxFifo \in Seq(Chunk) /\ Len(rxFifo) <= RX_FIFO
  /\ rx \in Seq(Chunk) /\ Len(rx) <= RX_RING
  /\ quiet \in 0 .. GAP
  /\ tx \in 0 .. REQUEST /\ txFifo \in 0 .. TX_FIFO
  /\ {txEvent, tx_done, listening} \subseteq BOOLEAN
  /\ state_wire \in {"IDLE", "RX", "TX"} /\ req_state \in {"READY", "WAITING"}
  /\ {cb_invoke, timed_out} \subseteq BOOLEAN
  /\ rx_last \in 0 .. RX_RING /\ reqAge \in 0 .. TIMEOUT
  /\ pc \in {"rs485", "meter", "loop"}
  /\ meter_state \in 0 .. 2 /\ last_state \in {0, 1, 2, 255}
  /\ sinceChange \in 0 .. WATCHDOG /\ errorWait \in NoWait .. ERROR_WAIT
  /\ sinceFast \in 0 .. 2 * FAST
  /\ {fast_pos, full_pos} \subseteq DOMAIN FastRead
  /\ {read_fast, each_value_read_once, missed, badRequest} \subseteq BOOLEAN
  /\ stored \in {"none", "own", "other", "indeterminate"}
  /\ slave \in (Chunk \ {"f", "n"}) \cup {"idle"}
  /\ slaveAge \in 0 .. Late /\ faults \in 0 .. MAX_FAULTS

\* A value that was accepted as the answer to a request is the answer to that
\* request (modbus.c:233 "We have a valid response from a slave for the master
\* request").
AcceptedAnswerIsOwn == stored # "other"

\* Over the bus, its disturbances and the interrupts, the master keeps the
\* promise that the drivers are built on: a request is settled once, stays
\* settled as it was until it is cleared, and only then follows the next
\* (modbus_update_rtu_wire_state_machine sets cb_invoke and timed_out, which
\* meter_is_response_ready and meter_has_errors look at later).
RequestStatus == CASE req_state = "READY"                   -> "none"
                   [] req_state = "WAITING" /\ ~cb_invoke    -> "waiting"
                   [] req_state = "WAITING" /\ cb_invoke     ->
                        IF timed_out THEN "timeout"
                        ELSE IF Frame = Exception THEN "exception" ELSE "answer"
Request == INSTANCE ModbusRequest WITH request <- RequestStatus
ImplementsRequest == Request!Spec

\* A request never runs into the end of the one before it, nor into an answer
\* (meter_generic_tick sends only after modbus_clear_request).
RequestsStayApart == ~badRequest

\* meter.c:584 "This should never happen": the meter always gets on within the
\* watchdog's time.
WatchdogStaysQuiet == ~Hung

\* The fast registers never starve the others: the full list is walked again
\* and again (the read_fast and register_fast_time bookkeeping of
\* meter_generic_tick).
FullListGoesOn == []<>(full_pos = 1) /\ []<>(full_pos # 1)

\* Once the bus is healthy again, every value stored is the right one
\* (modbus_clear_request leaves nothing behind that could spoil a later answer).
Recovers == <>[](stored = "own")

\* meter.c:460 "The complete register set has been read.": when
\* each_value_read_once is set, every register of the full list has been.
EachValueWasRead == each_value_read_once => ~missed
=============================================================================
