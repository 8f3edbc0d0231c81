------------------------------ MODULE BusProofs ------------------------------
(***************************************************************************)
(* More proofs about MeterGeneric, on the invariants of MeterProofs: that  *)
(* requests and answers stay apart on a bus that neither delays nor        *)
(* disturbs them; that meter_tick's watchdog never fires; and that on a    *)
(* healthy bus every value is read.                                        *)
(***************************************************************************)
EXTENDS MeterProofs

-----------------------------------------------------------------------------
(* A bus that neither delays nor disturbs: requests may be lost or refused *)
(* and answers garbled, but a meter that answers does so before the request *)
(* is given up, and a pause inside a frame is shorter than the one behind. *)

PunctualBus ==
  /\ Faults \cap {"late", "split", "noise"} = {}
  /\ LATENCY < TIMEOUT
  /\ GAP > 0

\* Nothing was received and nothing is to be.
Silent ==
  /\ rx = <<>> /\ rxFifo = <<>> /\ rx_last = 0
  /\ cb_invoke = FALSE /\ state_wire # "RX"

Undisturbed == {"v1", "v2", "x1", "x2", "n"}

\* No chunk outlives the request it answers.
Fresh ==
  /\ slave \in {"v1", "v2", "x1", "x2", "idle"}
  /\ rx \in Seq(Undisturbed) /\ rxFifo \in Seq(Undisturbed)

\* Between two requests and until the end of one all is silent.
Before ==
  /\ meter_state # 1 => Silent /\ slave = "idle" /\ tx = 0 /\ txFifo = 0
  /\ tx > 0 \/ txFifo > 0 => Silent /\ slave = "idle" /\ reqAge = 0

\* An answer begins in time, and once begun it leaves the line no time to be
\* quiet for GAP.
Answering ==
  /\ slave \in {"v1", "x1"} => Silent /\ slaveAge <= LATENCY /\ reqAge <= slaveAge
  /\ slave \in {"v2", "x2"} =>
       /\ reqAge <= LATENCY
       /\ rx # <<>> \/ state_wire = "RX" => quiet = 0
       /\ state_wire # "RX" => rx_last = 0

\* So the answer is complete when it is looked at, and when the request is
\* given up there is none to come.
Complete ==
  /\ state_wire # "RX" /\ rx_last > 0 => slave = "idle" /\ rxFifo = <<>>
  /\ cb_invoke = TRUE => slave = "idle" /\ rxFifo = <<>>
  /\ cb_invoke = TRUE /\ timed_out = FALSE => rx \in {Value, Exception}

Apart == badRequest = FALSE /\ stored # "other"

Calm == Fresh /\ Before /\ Answering /\ Complete /\ Apart

\* All of it holds at the start.
LEMMA CalmInit == Init => Calm
<1> SUFFICES ASSUME Init PROVE Calm
  OBVIOUS
<1>1. <<>> \in Seq(Undisturbed)
  OBVIOUS
<1>2. Silent
  BY DEF Init, Silent
<1> QED
  BY <1>1, <1>2 DEF Init, Calm, Fresh, Before, Answering, Complete, Apart

\* Emptying the FIFO brings nothing into the ring that was not in one of them.
LEMMA DrainedIs ==
  ASSUME IInv, Fresh
  PROVE  /\ Drained \in Seq(Undisturbed)
         /\ rxFifo = <<>> => Drained = rx
<1> DEFINE all == rx \o rxFifo
           n == IF Len(all) < RX_RING THEN Len(all) ELSE RX_RING
<1>1. RX_RING \in Nat /\ Len(rx) \in Nat /\ Len(rxFifo) \in Nat /\ Len(rx) <= RX_RING
  BY ConstantsAre DEF IInv, Rings
<1>2. all \in Seq(Undisturbed) /\ Len(all) = Len(rx) + Len(rxFifo)
  BY DEF Fresh
<1>3. rxFifo = <<>> => all = rx
  BY DEF Fresh
<1>4. n \in 0 .. Len(all)
  BY <1>1, <1>2
<1>5. Drained = SubSeq(all, 1, n)
  BY DEF Drained
<1>6. rxFifo = <<>> => n = Len(rx)
  BY <1>1, <1>3
<1> HIDE DEF all, n
<1>7. SubSeq(all, 1, n) \in Seq(Undisturbed)
  BY <1>2, <1>4
<1>8. SubSeq(rx, 1, Len(rx)) = rx
  BY DEF Fresh
<1> QED
  BY <1>3, <1>5, <1>6, <1>7, <1>8

\* rs485_tick
LEMMA CalmPoll ==
  ASSUME PunctualBus, IInv, Types, Calm, PollBus
  PROVE  Calm'
<1> USE ConstantsAre
<1>1. /\ rx' = Drained /\ rxFifo' = <<>> /\ quiet' = QuietAfterDrain
      /\ UNCHANGED <<tx, txFifo, reqAge, req_state, meter_state, stored>>
      /\ UNCHANGED <<slave, slaveAge, badRequest>>
  BY DEF PollBus, Rs485Tick, busVars
<1>2. cb_invoke = FALSE /\ timed_out = FALSE
  BY DEF PollBus, IInv, Life
<1>3. /\ Drained \in Seq(Undisturbed)
      /\ rxFifo = <<>> => Drained = rx
      /\ QuietAfterDrain = IF rxFifo = <<>> THEN quiet ELSE 0
  BY DrainedIs DEF Calm, QuietAfterDrain
<1>4. Fresh'
  BY <1>1, <1>3 DEF Calm, Fresh
<1>5. Apart'
  BY <1>1 DEF Calm, Apart
<1>6. Before /\ Answering /\ Complete
  BY DEF Calm
<1>7. /\ slave \in {"v1", "v2", "x1", "x2", "idle"}
      /\ reqAge \in Nat /\ slaveAge \in Nat /\ rx_last \in Nat /\ GAP # 0 /\ LATENCY < TIMEOUT
      /\ req_state = "WAITING" => meter_state = 1
  BY DEF Types, MasterOK, FarOK, Calm, Fresh, PunctualBus, IInv, Life
<1>s. ASSUME UNCHANGED <<state_wire, rx_last, cb_invoke>>, Silent
      PROVE  Silent'
  BY <1>1, <1>3, <1>s DEF Silent
\* The state machine's outcomes, as far as they matter.
<1>8. CASE UNCHANGED <<state_wire, rx_last, cb_invoke, timed_out>> /\ state_wire # "RX"
  <2>1. Before'
    BY <1>1, <1>6, <1>8, <1>s DEF Before
  <2>2. Answering'
    BY <1>1, <1>3, <1>6, <1>8, <1>s DEF Answering
  <2>3. Complete'
    BY <1>1, <1>2, <1>6, <1>8 DEF Complete
  <2> QED
    BY <1>4, <1>5, <2>1, <2>2, <2>3 DEF Calm
<1>9. CASE /\ state_wire = "IDLE" /\ Waiting /\ reqAge = TIMEOUT
           /\ cb_invoke' = TRUE /\ timed_out' = TRUE /\ UNCHANGED <<state_wire, rx_last>>
  <2>1. slave = "idle" /\ tx = 0 /\ txFifo = 0 /\ meter_state = 1
    BY <1>6, <1>7, <1>9 DEF Before, Answering, Waiting, Types, LineOK
  <2>2. Before' /\ Answering' /\ Complete'
    BY <1>1, <1>9, <2>1 DEF Before, Answering, Complete
  <2> QED
    BY <1>4, <1>5, <2>2 DEF Calm
<1>10. CASE /\ state_wire = "IDLE" /\ Waiting /\ Drained # <<>> /\ Len(Drained) = rx_last
            /\ cb_invoke' = TRUE /\ UNCHANGED <<state_wire, rx_last>>
            /\ timed_out' = TRUE \/ (timed_out' = timed_out /\ ~Wrong(Drained))
  <2>1. rx_last > 0
    <3>1. Len(Drained) # 0
      BY <1>3, <1>10
    <3> QED
      BY <1>7, <1>10, <3>1
  <2>2. slave = "idle" /\ tx = 0 /\ txFifo = 0 /\ meter_state = 1
    BY <1>6, <1>7, <1>10, <2>1 DEF Before, Silent, Complete, Waiting, Types, LineOK
  <2>3. timed_out' = FALSE => Drained \in {Value, Exception}
    <3>1. timed_out' = FALSE => Drained \in {Value, OldValue, Exception}
      BY <1>10 DEF Wrong, SlaveResponseOk
    <3>2. Drained # OldValue
      <4>1. OldValue[1] = "o1" /\ Len(OldValue) = 2
        BY DEF OldValue
      <4>2. ASSUME Drained = OldValue PROVE Drained[1] \in Undisturbed
        BY <1>3, <4>1, <4>2
      <4> QED
        BY <4>1, <4>2 DEF Undisturbed
    <3> QED
      BY <3>1, <3>2
  <2>4. Before' /\ Answering' /\ Complete'
    BY <1>1, <1>10, <2>2, <2>3 DEF Before, Answering, Complete
  <2> QED
    BY <1>4, <1>5, <2>4 DEF Calm
<1>11. CASE /\ state_wire = "IDLE" /\ Waiting /\ Len(Drained) > rx_last
            /\ state_wire' = "RX" /\ UNCHANGED <<cb_invoke, timed_out>>
  <2>1. Drained # <<>> /\ meter_state = 1
    BY <1>7, <1>11 DEF Waiting
  <2>2. ~Silent
    BY <1>3, <2>1 DEF Silent
  <2>3. Before'
    BY <1>1, <1>6, <1>7, <2>1, <2>2 DEF Before, Types, LineOK
  <2>4. Answering'
    BY <1>1, <1>3, <1>6, <1>11, <2>1, <2>2 DEF Answering
  <2>5. Complete'
    BY <1>1, <1>2, <1>11 DEF Complete
  <2> QED
    BY <1>4, <1>5, <2>3, <2>4, <2>5 DEF Calm
<1>12. CASE /\ state_wire = "RX" /\ UNCHANGED <<cb_invoke, timed_out, rx_last>>
            /\ state_wire' = IF QuietAfterDrain = GAP THEN "IDLE" ELSE "RX"
  <2>1. ~Silent
    BY <1>12 DEF Silent
  <2>2. Before'
    BY <1>1, <1>6, <2>1 DEF Before, Types, LineOK
  <2>3. slave \in {"v2", "x2"} => QuietAfterDrain = 0
    BY <1>3, <1>6, <1>12 DEF Answering
  <2>4. Answering'
    BY <1>1, <1>6, <1>7, <1>12, <2>1, <2>3 DEF Answering
  <2>5. Complete'
    BY <1>1, <1>2, <1>6, <1>7, <1>12, <2>1, <2>3 DEF Answering, Complete
  <2> QED
    BY <1>4, <1>5, <2>2, <2>4, <2>5 DEF Calm
<1>13. CASE /\ state_wire = "TX" /\ UNCHANGED <<cb_invoke, timed_out, rx_last>>
            /\ state_wire' \in {"IDLE", "TX"}
  <2>1. Silent => Silent'
    BY <1>1, <1>3, <1>13 DEF Silent
  <2>2. Before'
    BY <1>1, <1>6, <2>1 DEF Before
  <2>3. Answering'
    BY <1>1, <1>3, <1>6, <1>13, <2>1 DEF Answering
  <2>4. Complete'
    BY <1>1, <1>2, <1>6, <1>13 DEF Complete
  <2> QED
    BY <1>4, <1>5, <2>2, <2>3, <2>4 DEF Calm
<1>14. CASE state_wire = "IDLE" /\ IdleStep(Drained)
  BY <1>2, <1>8, <1>9, <1>10, <1>11, <1>14 DEF IdleStep, GiveUp, DeadlineMissed
<1>15. CASE state_wire = "RX" /\ RxStep(QuietAfterDrain)
  BY <1>12, <1>15 DEF RxStep
<1>16. CASE state_wire = "TX" /\ TxStep
  BY <1>13, <1>16 DEF TxStep
<1> QED
  BY <1>14, <1>15, <1>16 DEF PollBus, Rs485Tick

\* meter_tick
LEMMA CalmTick ==
  ASSUME PunctualBus, IInv, Types, Calm, MeterTick
  PROVE  Calm'
<1> USE ConstantsAre
<1>1. CASE MeterWaits \/ (MeterWorks /\ AwaitResponse) \/ (MeterWorks /\ FinishRead)
  <2>1. UNCHANGED <<rs485Vars, modbusVars, busVars, stored>>
        /\ (meter_state' # 1 => meter_state # 1)
    BY <1>1 DEF MeterWaits, AwaitResponse, FinishRead
  <2> QED
    BY <2>1 DEF Calm, Fresh, Before, Answering, Complete, Apart, Silent,
                rs485Vars, modbusVars, busVars
<1>2. CASE MeterWorks /\ SendRequest
  <2>1. /\ Silent /\ slave = "idle" /\ tx = 0 /\ txFifo = 0
        /\ meter_state' = 1 /\ StartRequest /\ stored' = stored
        /\ badRequest' = (tx > 0 \/ txFifo > 0) /\ slave' = Aged(slave)
    BY <1>2 DEF SendRequest, Calm, Before
  <2>2. badRequest' = FALSE /\ slave' = "idle"
    <3>1. (tx > 0 \/ txFifo > 0) = FALSE
      BY <2>1
    <3> QED
      BY <2>1, <3>1, Zenon DEF Aged
  <2>3. rx' = <<>> /\ rxFifo' = <<>>
    <3>1. AgedSeq(<<>>) = <<>>
      BY DEF AgedSeq
    <3> QED
      BY <2>1, <3>1 DEF StartRequest, Silent
  <2>4. /\ reqAge' = 0 /\ state_wire' = "TX" /\ cb_invoke' = FALSE
        /\ rx_last' = 0
    BY <2>1 DEF StartRequest, Silent
  <2>5. Fresh'
    BY <2>2, <2>3 DEF Fresh
  <2>6. Silent'
    BY <2>3, <2>4 DEF Silent
  <2>7. Before'
    BY <2>1, <2>2, <2>4, <2>6 DEF Before
  <2>8. Answering' /\ Complete'
    BY <2>2, <2>4 DEF Answering, Complete
  <2>9. Apart'
    BY <2>1, <2>2 DEF Apart, Calm
  <2> QED
    BY <2>5, <2>7, <2>8, <2>9 DEF Calm
<1>3. CASE MeterWorks /\ TakeResponse
  <2>1. /\ cb_invoke = TRUE /\ ClearRequest
        /\ UNCHANGED <<slave, slaveAge, badRequest>>
        /\ stored' = Response
    BY <1>3 DEF TakeResponse, ResponseReady, busVars, IInv, Life
  <2>2. slave = "idle" /\ rxFifo = <<>> /\ tx = 0 /\ txFifo = 0
    BY <2>1 DEF Calm, Before, Complete, Silent, Types, LineOK
  <2>3. Response # "other"
    <3>1. CASE timed_out = TRUE
      BY <3>1 DEF Response
    <3>2. CASE timed_out = FALSE
      <4>1. rx \in {Value, Exception}
        BY <2>1, <3>2 DEF Calm, Complete
      <4>2. SubSeq(Value, 1, 2) = Value /\ SubSeq(Exception, 1, 2) = Exception
        <5>1. \A s \in Seq(Chunk) : SubSeq(s, 1, Len(s)) = s
          OBVIOUS
        <5>2. /\ Value \in Seq(Chunk) /\ Len(Value) = 2
              /\ Exception \in Seq(Chunk) /\ Len(Exception) = 2
          BY DEF Value, Exception, Chunk
        <5> QED
          BY <5>1, <5>2
      <4>3. Frame = Value \/ Frame = Exception
        BY <4>1, <4>2 DEF Frame
      <4> QED
        BY <3>2, <4>3 DEF Response
    <3> QED
      BY <3>1, <3>2 DEF IInv, Life
  <2>4. /\ Silent' /\ slave' = "idle" /\ tx' = 0 /\ txFifo' = 0 /\ rxFifo' = <<>>
        /\ cb_invoke' = FALSE /\ rx_last' = 0 /\ rx' = <<>>
    BY <2>1, <2>2 DEF ClearRequest, Silent
  <2>5. Fresh' /\ Before' /\ Answering' /\ Complete'
    BY <2>4 DEF Fresh, Before, Answering, Complete
  <2>6. Apart'
    BY <2>1, <2>3 DEF Apart, Calm
  <2> QED
    BY <2>5, <2>6 DEF Calm
<1> QED
  BY <1>1, <1>2, <1>3 DEF MeterTick, MeterWorks

\* rs485_tx_irq_handler: what was to be sent still is.
LEMMA TxIrqKeeps ==
  ASSUME LineOK, TxIrq
  PROVE  (tx' > 0 \/ txFifo' > 0) <=> (tx > 0 \/ txFifo > 0)
<1>1. tx' = Loaded(tx, txFifo).ring /\ txFifo' = Loaded(tx, txFifo).fifo
  BY DEF TxIrq, LoadTx
<1>2. tx \in Nat /\ txFifo \in 0 .. TX_FIFO /\ TX_FIFO \in Nat
  BY ConstantsAre DEF LineOK
<1>3. tx' \in Nat /\ txFifo' \in Nat /\ tx' + txFifo' = tx + txFifo
  BY <1>1, <1>2, LoadedIs
<1>4. txFifo \in Nat
  BY <1>2
<1>5. \A a, b \in Nat : a + b > 0 <=> (a > 0 \/ b > 0)
  OBVIOUS
<1> QED
  BY <1>2, <1>3, <1>4, <1>5, Zenon

\* The interrupts move what was received and what is to be sent.
LEMMA CalmInterrupt ==
  ASSUME PunctualBus, IInv, Types, Calm, Interrupt
  PROVE  Calm'
<1> USE ConstantsAre
<1>1. UNCHANGED <<state_wire, rx_last, cb_invoke, timed_out, reqAge, meter_state, stored>>
      /\ UNCHANGED <<slave, slaveAge, badRequest>>
  BY DEF Interrupt, modbusVars, meterVars, busVars
<1>2. Apart'
  BY <1>1 DEF Calm, Apart
<1>3. CASE RxIrq
  <2>1. /\ rxFifo # <<>> /\ rx' = Drained /\ rxFifo' = <<>> /\ quiet' = 0
        /\ UNCHANGED <<tx, txFifo>>
    BY <1>3 DEF RxIrq
  <2>2. ~Silent /\ slave \in {"v2", "x2", "idle"} /\ cb_invoke = FALSE
        /\ (state_wire # "RX" => ~(rx_last > 0))
    BY <2>1 DEF Calm, Fresh, Answering, Complete, Silent, IInv, Life
  <2>3. Fresh'
    BY <1>1, <2>1, DrainedIs DEF Calm, Fresh
  <2>4. Before'
    BY <1>1, <2>1, <2>2 DEF Calm, Before
  <2>5. Answering'
    BY <1>1, <2>1, <2>2 DEF Calm, Answering
  <2>6. Complete'
    BY <1>1, <2>1, <2>2 DEF Complete
  <2> QED
    BY <1>2, <2>3, <2>4, <2>5, <2>6 DEF Calm
<1>4. CASE TxIrq
  <2>1. UNCHANGED <<rx, rxFifo, quiet>>
    BY <1>4 DEF TxIrq
  <2>2. (tx' > 0 \/ txFifo' > 0) <=> (tx > 0 \/ txFifo > 0)
    BY <1>4, TxIrqKeeps DEF Types
  <2>3. tx = 0 /\ txFifo = 0 => tx' = 0 /\ txFifo' = 0
    <3>1. tx' \in Nat /\ txFifo' \in Nat
      BY TypesStep DEF Types, LineOK, Next, MainLoop
    <3> QED
      BY <2>2, <3>1
  <2>4. Fresh' /\ Answering' /\ Complete' /\ (Silent => Silent')
    BY <1>1, <2>1 DEF Calm, Fresh, Answering, Complete, Silent
  <2>5. Before'
    BY <1>1, <2>2, <2>3, <2>4 DEF Calm, Before
  <2> QED
    BY <1>2, <2>4, <2>5 DEF Calm
<1> QED
  BY <1>3, <1>4 DEF Interrupt

\* The request's last chunk reaches the meter, which begins to answer.
LEMMA CalmTransmit ==
  ASSUME PunctualBus, IInv, Types, Calm, BusTransmit
  PROVE  Calm'
<1> USE ConstantsAre
<1>1. /\ txFifo > 0 /\ txFifo' = txFifo - 1
      /\ UNCHANGED <<rx, rxFifo, quiet, tx, badRequest, stored, meter_state>>
      /\ UNCHANGED <<state_wire, rx_last, cb_invoke, timed_out, reqAge>>
  BY DEF BusTransmit, Transmit, modbusVars, meterVars
<1>2. Silent /\ slave = "idle" /\ reqAge = 0 /\ meter_state = 1
  BY <1>1 DEF Calm, Before, Types, LineOK
<1>3. Silent' /\ Apart'
  BY <1>1, <1>2 DEF Silent, Calm, Apart
<1>4. \/ tx = 0 /\ txFifo = 1 /\ slave' \in {"v1", "x1"} /\ slaveAge' = 0
      \/ UNCHANGED <<slave, slaveAge>>
  BY <1>2 DEF BusTransmit, Receive
<1>5. Fresh' /\ Complete'
  BY <1>1, <1>2, <1>3, <1>4 DEF Calm, Fresh, Complete, Silent
<1>6. Before' /\ Answering'
  BY <1>1, <1>2, <1>3, <1>4 DEF Before, Answering, Types, LineOK
<1> QED
  BY <1>3, <1>5, <1>6 DEF Calm

\* The meter sends a chunk.
LEMMA CalmSend ==
  ASSUME PunctualBus, IInv, Types, Calm, SlaveSend
  PROVE  Calm'
<1> USE ConstantsAre
<1>1. /\ slave # "idle" /\ slave' = Rest(slave)
      /\ badRequest' = (badRequest \/ txFifo > 0)
      /\ UNCHANGED <<rx, quiet, tx, txFifo, slaveAge, stored, meter_state>>
      /\ UNCHANGED <<state_wire, rx_last, cb_invoke, timed_out, reqAge>>
  BY DEF SlaveSend, Arrive, modbusVars, meterVars
<1>2. slave \in {"v1", "x1", "v2", "x2"} /\ meter_state = 1 /\ tx = 0 /\ txFifo = 0
      /\ cb_invoke = FALSE
  BY <1>1 DEF Calm, Fresh, Before, Complete, Types, LineOK, IInv, Life
<1>3. Apart'
  <2>1. (txFifo > 0) = FALSE
    BY <1>2
  <2>2. badRequest' = (badRequest \/ FALSE) /\ badRequest = FALSE /\ stored' # "other"
    BY <1>1, <2>1, Zenon DEF Calm, Apart
  <2> QED
    BY <2>2, Zenon DEF Apart
<1>4. slave' \in (IF slave \in {"v1", "x1"} THEN {"v2", "x2"} ELSE {"idle"})
  BY <1>1, <1>2 DEF Rest
<1>5. rxFifo' \in Seq(Undisturbed)
  <2>1. ASSUME NEW c \in Undisturbed, Arrive(c) PROVE rxFifo' \in Seq(Undisturbed)
    BY <2>1 DEF Arrive, Calm, Fresh
  <2> QED
    BY <1>2, <2>1 DEF SlaveSend, Undisturbed
<1>6. Fresh'
  BY <1>1, <1>4, <1>5 DEF Calm, Fresh
<1>7. Before'
  BY <1>1, <1>2 DEF Before
<1>8. Answering'
  BY <1>1, <1>2, <1>4 DEF Calm, Answering, Silent, Types, FarOK, MasterOK
<1>9. Complete'
  BY <1>1, <1>2, <1>4 DEF Calm, Answering, Complete, Silent
<1> QED
  BY <1>3, <1>6, <1>7, <1>8, <1>9 DEF Calm

\* Time passes, but a punctual meter answers before it is late, and a frame
\* that is not split comes without a pause.
LEMMA CalmTime ==
  ASSUME PunctualBus, IInv, Types, Calm, TimePasses
  PROVE  Calm'
<1> USE ConstantsAre
<1>1. /\ UNCHANGED <<rx, rxFifo, tx, txFifo, slave, badRequest, stored, meter_state>>
      /\ UNCHANGED <<state_wire, rx_last, cb_invoke, timed_out>>
      /\ tx = 0 /\ txFifo = 0
      /\ reqAge' \in {reqAge, Capped(reqAge, TIMEOUT)}
  BY DEF TimePasses
<1>2. \/ slave = "idle"
      \/ slave \in {"v1", "x1"} /\ slaveAge # LATENCY /\ slaveAge' = Capped(slaveAge, Late)
  BY DEF TimePasses, Punctual, Fault, PunctualBus, Calm, Fresh
<1>3. Fresh' /\ Before' /\ Complete' /\ Apart'
  BY <1>1 DEF Calm, Fresh, Before, Complete, Apart, Silent
<1>4. reqAge' <= reqAge + 1
  BY <1>1, CappedIs DEF Types, MasterOK
<1>5. ASSUME slave = "idle" PROVE Answering'
  BY <1>1, <1>5 DEF Answering
<1>6. ASSUME slave \in {"v1", "x1"}, slaveAge # LATENCY, slaveAge' = Capped(slaveAge, Late)
      PROVE  Answering'
  <2>1. Silent /\ slaveAge <= LATENCY /\ reqAge <= slaveAge
    BY <1>6 DEF Calm, Answering
  <2>2. Silent'
    BY <1>1, <2>1 DEF Silent
  <2>3. slaveAge' = slaveAge + 1 /\ slaveAge' <= LATENCY
    BY <1>6, <2>1 DEF Capped, Types, FarOK
  <2>4. reqAge' \in Int /\ reqAge \in Int /\ slaveAge \in Int
    BY <1>1 DEF Capped, Types, MasterOK, FarOK
  <2>5. reqAge' <= slaveAge'
    BY <1>4, <2>1, <2>3, <2>4
  <2> QED
    BY <1>1, <1>6, <2>2, <2>3, <2>5 DEF Answering
<1>7. Answering'
  BY <1>2, <1>5, <1>6
<1> QED
  BY <1>3, <1>7 DEF Calm

\* Every step keeps the bus calm.
LEMMA CalmStep ==
  ASSUME PunctualBus
  PROVE  IInv /\ Types /\ Calm /\ [Next]_vars => Calm'
<1> SUFFICES ASSUME IInv, Types, Calm, [Next]_vars PROVE Calm'
  OBVIOUS
<1>1. ~SlaveIsLate /\ ~Noise
  BY DEF PunctualBus, SlaveIsLate, Noise, Fault
<1>2. CASE NextRound \/ UNCHANGED vars
  <2>1. UNCHANGED <<rs485Vars, modbusVars, busVars, stored, meter_state>>
    BY <1>2 DEF NextRound, vars, meterVars
  <2> QED
    BY <2>1 DEF Calm, Fresh, Before, Answering, Complete, Apart, Silent,
                rs485Vars, modbusVars, busVars
<1> QED
  BY <1>1, <1>2, CalmPoll, CalmTick, CalmInterrupt, CalmTransmit, CalmSend, CalmTime
     DEF Next, MainLoop

\* On a bus that loses, refuses and garbles but neither delays nor disturbs, a
\* request never runs into the end of the one before it nor into an answer: by
\* the time meter_generic_tick clears it, the line is empty in both directions.
THEOREM RequestsApart == PunctualBus => (Spec => []RequestsStayApart)
<1> SUFFICES ASSUME PunctualBus PROVE Spec => []RequestsStayApart
  OBVIOUS
<1>1. Calm => RequestsStayApart
  BY DEF Calm, Apart, RequestsStayApart
<1> QED
  BY <1>1, InitHolds, TypesInit, TypesStep, CalmInit, CalmStep, PTL DEF Spec

\* On such a bus what meter_handle_new_data is given is the value asked for, or
\* marked by an error, and never the answer to an earlier request.
THEOREM AnswerIsOwn == PunctualBus => (Spec => []AcceptedAnswerIsOwn)
<1> SUFFICES ASSUME PunctualBus PROVE Spec => []AcceptedAnswerIsOwn
  OBVIOUS
<1>1. Calm => AcceptedAnswerIsOwn
  BY DEF Calm, Apart, AcceptedAnswerIsOwn
<1> QED
  BY <1>1, InitHolds, TypesInit, TypesStep, CalmInit, CalmStep, PTL DEF Spec

-----------------------------------------------------------------------------
(* The watchdog, on any bus.  It looks at nothing but the time since the   *)
(* meter's state last changed, so what has to be bounded is the time that  *)
(* a request waits: TIMEOUT, and then as long as the bus keeps the master  *)
(* from seeing that, by a chunk now and then before the line is quiet.     *)

LongEnough ==
  /\ TX_FIFO > 1
  /\ WATCHDOG > TIMEOUT + 1 + GAP + (MAX_FAULTS + 2) * GAP

\* No time passes while a request is transmitted, and the transmit interrupt is
\* not over before it has told the master so.
Transmitting ==
  /\ tx > 0 \/ txFifo > 0 => reqAge = 0
  /\ state_wire = "TX" => tx_done \/ (txEvent /\ txFifo >= TX_FIFO - 1)

\* The chunks the meter has still to send, and all that may come at most.
Pending == IF slave = "idle" THEN 0 ELSE IF slave \in {"v1", "o1", "x1"} THEN 2 ELSE 1
ToCome == Pending + (MAX_FAULTS - faults)
Slack == ToCome * GAP

\* Can time pass before rs485_tick looks again?
UntilPoll == IF pc = "rs485" THEN 0 ELSE 1

\* From TIMEOUT on: how long the master may still wait for the line.
Quieting == IF rxFifo # <<>> THEN GAP + 1 + UntilPoll
            ELSE IF quiet < GAP THEN GAP + 1 - quiet ELSE 1 + UntilPoll
Left == IF cb_invoke = TRUE THEN 0
        ELSE IF state_wire = "IDLE" THEN UntilPoll
        ELSE IF state_wire = "TX" THEN 1 + UntilPoll
        ELSE Quieting + Slack

Patient ==
  /\ meter_state # 1 => last_state # meter_state
  /\ meter_state = 1 /\ last_state = 1 =>
       IF reqAge < TIMEOUT THEN sinceChange <= reqAge
       ELSE sinceChange + Left <= TIMEOUT + 1 + GAP + (MAX_FAULTS + 2) * GAP

\* At the start no request has waited.
LEMMA WatchInit == Init => Transmitting /\ Patient
<1> SUFFICES ASSUME Init PROVE Transmitting /\ Patient
  OBVIOUS
<1>1. tx = 0 /\ txFifo = 0 /\ state_wire = "IDLE" /\ meter_state = 0 /\ last_state = 255
  BY DEF Init
<1> QED
  BY <1>1 DEF Transmitting, Patient

\* modbus_start_tx begins a transmission, the interrupt and the UART end it.
LEMMA TransmittingStep ==
  ASSUME IInv, Types, Transmitting, [Next]_vars
  PROVE  Transmitting'
<1> USE ConstantsAre DEF rs485Vars, modbusVars
<1>1. tx \in 0 .. REQUEST /\ txFifo \in 0 .. TX_FIFO /\ LineOK
      /\ txEvent \in BOOLEAN /\ tx_done \in BOOLEAN
  BY DEF Types, LineOK
<1>2. CASE PollBus
  <2>1. UNCHANGED <<tx, txFifo, txEvent, reqAge>>
    BY <1>2 DEF PollBus, Rs485Tick
  <2>2. state_wire' = "TX" => state_wire = "TX" /\ tx_done = FALSE
    BY <1>1, <1>2 DEF PollBus, Rs485Tick, IdleStep, GiveUp, RxStep, TxStep
  <2> QED
    BY <2>1, <2>2 DEF Transmitting
<1>3. CASE MeterWorks /\ SendRequest
  <2>1. tx = 0 /\ StartRequest
    BY <1>3 DEF SendRequest, Types, LineOK
  <2>2. tx_done' \/ (txEvent' /\ txFifo' = TX_FIFO)
    BY <1>1, <2>1, StartIs
  <2>3. TX_FIFO >= TX_FIFO - 1
    OBVIOUS
  <2>4. reqAge' = 0
    BY <2>1 DEF StartRequest
  <2> QED
    BY <2>2, <2>3, <2>4, Zenon DEF Transmitting
<1>4. CASE MeterWorks /\ TakeResponse
  <2>1. tx' = 0 /\ UNCHANGED <<txFifo, reqAge>> /\ state_wire' = "IDLE"
    BY <1>4 DEF TakeResponse, ClearRequest
  <2> QED
    BY <2>1 DEF Transmitting
<1>5. CASE TimePasses
  <2>1. tx' = 0 /\ txFifo' = 0 /\ UNCHANGED <<txFifo, txEvent, tx_done, state_wire>>
    BY <1>5 DEF TimePasses
  <2> QED
    BY <2>1 DEF Transmitting
<1>6. CASE TxIrq /\ UNCHANGED modbusVars
  <2>1. tx \in Nat /\ txFifo \in 0 .. TX_FIFO /\ txFifo \in Nat
    BY <1>1
  <2>2. /\ tx' = Loaded(tx, txFifo).ring /\ txFifo' = Loaded(tx, txFifo).fifo
        /\ tx_done' = (tx_done \/ Loaded(tx, txFifo).done)
        /\ txEvent' = ~Loaded(tx, txFifo).done
        /\ reqAge' = reqAge
    BY <1>6 DEF TxIrq, LoadTx
  <2>3. (tx' > 0 \/ txFifo' > 0) <=> (tx > 0 \/ txFifo > 0)
    BY <1>1, <1>6, TxIrqKeeps
  <2>4. Loaded(tx, txFifo).done \/ Loaded(tx, txFifo).fifo = TX_FIFO
    BY <2>1, LoadedIs, Zenon
  <2>5. tx_done' \/ (txEvent' /\ txFifo' = TX_FIFO)
    BY <2>2, <2>4, Zenon
  <2>6. TX_FIFO >= TX_FIFO - 1
    OBVIOUS
  <2>8. tx' > 0 \/ txFifo' > 0 => reqAge' = 0
    BY <2>2, <2>3, Zenon DEF Transmitting
  <2> QED
    BY <2>5, <2>6, <2>8, Zenon DEF Transmitting
<1>7. CASE BusTransmit
  <2>1. /\ txFifo > 0 /\ txFifo' = txFifo - 1 /\ (txEvent => ~(txFifo < TX_FIFO))
        /\ UNCHANGED <<tx, txEvent, tx_done, state_wire, reqAge>>
    BY <1>7 DEF BusTransmit, Transmit, TxIrqPending
  <2>2. reqAge' = 0
    BY <2>1 DEF Transmitting
  <2>3. txEvent => txFifo' >= TX_FIFO - 1
    BY <1>1, <2>1
  <2> QED
    BY <2>1, <2>2, <2>3, Zenon DEF Transmitting
<1>8. CASE UNCHANGED <<tx, txFifo, txEvent, tx_done, state_wire, reqAge>>
  BY <1>8 DEF Transmitting
<1> QED
  BY <1>2, <1>3, <1>4, <1>5, <1>6, <1>7, <1>8
     DEF Next, MainLoop, MeterTick, MeterWaits, MeterWorks, AwaitResponse, FinishRead, NextRound,
         Interrupt, RxIrq, SlaveSend, SlaveIsLate, Noise, Arrive, vars

\* What GAP per chunk amounts to.
LEMMA GapsAre ==
  \A n, m \in Nat : /\ n * GAP \in Nat
                    /\ n <= m => n * GAP <= m * GAP
                    /\ n + 1 <= m => n * GAP + GAP <= m * GAP
<1> SUFFICES ASSUME NEW n \in Nat, NEW m \in Nat
             PROVE  /\ n * GAP \in Nat
                    /\ n <= m => n * GAP <= m * GAP
                    /\ n + 1 <= m => n * GAP + GAP <= m * GAP
  OBVIOUS
<1>1. GAP \in Nat
  BY ConstantsAre
<1>2. \A a, b \in Nat : a * b \in Nat
  OBVIOUS
<1>3. ASSUME NEW k \in Nat, k <= m PROVE m * GAP = k * GAP + (m - k) * GAP
  BY <1>1, <1>3
<1>4. n <= m => (m - n) * GAP \in Nat
  BY <1>1, <1>2
<1>5. n + 1 <= m => (m - (n + 1)) * GAP \in Nat /\ (n + 1) * GAP = n * GAP + GAP
  BY <1>1, <1>2
<1> QED
  BY <1>1, <1>2, <1>3, <1>4, <1>5

\* How many chunks may come is bounded, and each one that comes counts.
LEMMA ToComeIs ==
  FarOK => ToCome \in 0 .. (MAX_FAULTS + 2)
BY ConstantsAre DEF FarOK, ToCome, Pending, Chunk

\* The wait is bounded from the start.
Bounded ==
  /\ Quieting \in 1 .. (GAP + 2) /\ UntilPoll \in 0 .. 1 /\ ToCome \in Nat
  /\ pc = "rs485" => Quieting <= GAP + 1
  /\ Left \in 0 .. (GAP + 2 + (MAX_FAULTS + 2) * GAP)
  /\ pc = "rs485" => Left <= GAP + 1 + (MAX_FAULTS + 2) * GAP

\* It is, whatever the state.
LEMMA LeftIs == Types => Bounded
<1> SUFFICES ASSUME Types PROVE Bounded
  OBVIOUS
<1> USE ConstantsAre
<1>1. quiet \in 0 .. GAP
  BY DEF Types, LineOK
<1>2. UntilPoll \in 0 .. 1 /\ (pc = "rs485" => UntilPoll = 0)
  BY DEF UntilPoll
<1>3. Quieting \in 1 .. (GAP + 2) /\ (pc = "rs485" => Quieting <= GAP + 1)
  BY <1>1, <1>2 DEF Quieting
<1>4. Slack \in Nat /\ (MAX_FAULTS + 2) * GAP \in Nat /\ Slack <= (MAX_FAULTS + 2) * GAP
  <2>1. ToCome \in Nat /\ MAX_FAULTS + 2 \in Nat /\ ToCome <= MAX_FAULTS + 2
    BY ToComeIs DEF Types
  <2> QED
    BY <2>1, GapsAre DEF Slack
<1> DEFINE most == (MAX_FAULTS + 2) * GAP
<1>5. Left \in {0, UntilPoll, 1 + UntilPoll, Quieting + Slack}
  BY DEF Left
<1> HIDE DEF most
<1>6. Slack \in Nat /\ most \in Nat /\ Slack <= most
  BY <1>4 DEF most
<1>7. Left \in 0 .. (GAP + 2 + most) /\ (pc = "rs485" => Left <= GAP + 1 + most)
  BY <1>2, <1>3, <1>5, <1>6
<1>8. ToCome \in Nat
  BY ToComeIs DEF Types
<1> QED
  BY <1>2, <1>3, <1>7, <1>8 DEF most, Bounded

\* The same for the next state.
LEMMA LeftWillBe == Types' => Bounded'
BY LeftIs, PTL

\* The ranges that these times are in hold natural numbers.
LEMMA RangesAre ==
  \A x : x \in 0 .. 1 \/ x \in 1 .. (GAP + 2) => x \in Nat
BY ConstantsAre

\* From TIMEOUT on nothing makes the wait longer, and time makes it shorter: a
\* chunk that comes in the meantime costs GAP, but it cannot come again.
LEMMA LeftShrinks ==
  ASSUME LongEnough, IInv, Types, Transmitting, [Next]_vars,
         meter_state = 1, meter_state' = 1, reqAge = TIMEOUT
  PROVE  Left' <= Left /\ (TimePasses => Left' <= Left - 1)
<1> USE ConstantsAre
<1>1. /\ quiet \in 0 .. GAP /\ state_wire \in {"IDLE", "RX", "TX"}
      /\ pc \in {"rs485", "meter", "loop"} /\ cb_invoke \in BOOLEAN
      /\ FarOK
  BY DEF Types, LineOK, MasterOK, LoopOK, IInv, Life
<1>2. /\ UntilPoll \in 0 .. 1 /\ UntilPoll' \in 0 .. 1
      /\ Quieting \in 1 .. (GAP + 2) /\ Quieting' \in 1 .. (GAP + 2)
      /\ ToCome \in Nat /\ ToCome' \in Nat /\ Left \in Nat /\ Left' \in Nat
  <2>1. Bounded /\ Bounded'
    BY TypesStep, LeftIs, LeftWillBe
  <2>2. Left \in 0 .. (GAP + 2 + (MAX_FAULTS + 2) * GAP) => Left \in Nat
    OBVIOUS
  <2>3. Left' \in 0 .. (GAP + 2 + (MAX_FAULTS + 2) * GAP) => Left' \in Nat
    OBVIOUS
  <2> QED
    BY <2>1, <2>2, <2>3, Zenon DEF Bounded
<1>3. Slack \in Nat /\ Slack' \in Nat
      /\ (ToCome' <= ToCome => Slack' <= Slack)
      /\ (ToCome' + 1 <= ToCome => Slack' + GAP <= Slack)
  BY <1>2, GapsAre DEF Slack
<1>nat. /\ UntilPoll \in Nat /\ UntilPoll' \in Nat /\ Quieting \in Nat /\ Quieting' \in Nat
        /\ GAP \in Nat /\ 0 \in Nat
  BY <1>2, ConstantsAre, RangesAre, Zenon
<1>4. tx = 0 /\ txFifo = 0 /\ (state_wire = "TX" => tx_done) /\ req_state = "WAITING"
  <2>1. tx = 0 /\ txFifo = 0
    BY DEF Transmitting, Types, LineOK
  <2>2. state_wire = "TX" /\ ~tx_done => txFifo >= TX_FIFO - 1
    BY Zenon DEF Transmitting
  <2> QED
    BY <2>1, <2>2 DEF LongEnough, IInv, Life
\* What counts of a step that leaves the state machine alone.
<1> DEFINE Same == UNCHANGED <<cb_invoke, state_wire>>
<1>s. ASSUME Same
      PROVE  \/ Left = 0 /\ Left' = 0
             \/ Left = UntilPoll /\ Left' = UntilPoll'
             \/ Left = 1 + UntilPoll /\ Left' = 1 + UntilPoll'
             \/ Left = Quieting + Slack /\ Left' = Quieting' + Slack'
  <2>1. cb_invoke' = cb_invoke /\ state_wire' = state_wire
    BY <1>s
  <2> QED
    BY <2>1, Zenon DEF Left
\* The parts of the next state's Left, by names of their own.
<1>n. PICK m \in Nat, v \in Nat, r \in Nat, t \in Nat :
        m = Left' /\ v = UntilPoll' /\ r = Quieting' /\ t = Slack'
  BY <1>2, <1>3, <1>nat, Zenon
<1>sn. ASSUME Same
       PROVE  \/ Left = 0 /\ m = 0
              \/ Left = UntilPoll /\ m = v
              \/ Left = 1 + UntilPoll /\ m = 1 + v
              \/ Left = Quieting + Slack /\ m = r + t
  BY <1>s, <1>sn, <1>n, Zenon
<1>5. ASSUME Same, ToCome' <= ToCome, UntilPoll' <= UntilPoll, Quieting' <= Quieting
      PROVE  Left' <= Left
  <2>1. v <= UntilPoll /\ r <= Quieting /\ t <= Slack
    BY <1>3, <1>5, <1>n, Zenon
  <2>2. m <= Left
    BY <1>2, <1>3, <1>5, <1>sn, <1>nat, <2>1
  <2> QED
    BY <1>n, <2>2, Zenon
<1>6. ASSUME Same, ToCome' + 1 <= ToCome, UntilPoll' = UntilPoll, Quieting' <= Quieting + GAP
      PROVE  Left' <= Left
  <2>1. v = UntilPoll /\ r <= Quieting + GAP /\ t + GAP <= Slack
    BY <1>3, <1>6, <1>n, Zenon
  <2>2. m <= Left
    BY <1>2, <1>3, <1>6, <1>sn, <1>nat, <2>1
  <2> QED
    BY <1>n, <2>2, Zenon
<1>7. ASSUME PollBus PROVE Left' <= Left
  <2>1. /\ rxFifo' = <<>> /\ quiet' = QuietAfterDrain /\ pc = "rs485" /\ pc' = "meter"
        /\ UNCHANGED <<slave, faults>>
    BY <1>7 DEF PollBus, Rs485Tick, busVars
  <2>2. UntilPoll = 0 /\ UntilPoll' = 1 /\ ToCome' = ToCome /\ cb_invoke = FALSE
    BY <2>1 DEF UntilPoll, ToCome, Pending, IInv, Life
  <2>3. CASE state_wire = "IDLE" /\ IdleStep(Drained)
    <3>1. DeadlineMissed
      BY <1>4, <2>2 DEF DeadlineMissed, Waiting, IInv, Life
    <3>2. cb_invoke' = TRUE
      BY <2>3, <3>1 DEF IdleStep, GiveUp
    <3>3. Left' = 0
      BY <3>2 DEF Left
    <3> QED
      BY <1>2, <3>3
  <2>4. CASE state_wire = "RX" /\ RxStep(QuietAfterDrain)
    <3>1. cb_invoke' = FALSE
      BY <2>2, <2>4 DEF RxStep
    <3>2. Left = Quieting + Slack
      BY <2>2, <2>4 DEF Left
    <3>3. CASE QuietAfterDrain = GAP
      <4>1. Left' = 1
        BY <2>2, <2>4, <3>1, <3>3 DEF Left, RxStep
      <4> QED
        BY <1>2, <1>3, <3>2, <4>1
    <3>4. CASE QuietAfterDrain # GAP
      <4>1. Left' = Quieting' + Slack'
        BY <2>4, <3>1, <3>4 DEF Left, RxStep
      <4>2. Quieting' <= Quieting
        BY <1>1, <2>1, <2>2, <3>4 DEF Quieting, QuietAfterDrain
      <4>3. m = r + t /\ r <= Quieting /\ t <= Slack
        BY <1>2, <1>3, <1>n, <2>2, <4>1, <4>2
      <4>4. m <= Left
        BY <1>2, <1>3, <1>nat, <3>2, <4>3
      <4> QED
        BY <1>n, <4>4, Zenon
    <3> QED
      BY <3>3, <3>4
  <2>5. CASE state_wire = "TX" /\ TxStep
    <3>1. Left = 1
      BY <2>2, <2>5 DEF Left
    <3>2. Left' = 1
      BY <1>4, <2>2, <2>5 DEF Left, TxStep
    <3> QED
      BY <3>1, <3>2
  <2> QED
    BY <1>7, <2>3, <2>4, <2>5 DEF PollBus, Rs485Tick
<1>8. ASSUME MeterTick PROVE Left' <= Left
  <2>1. AwaitResponse /\ pc = "meter" /\ pc' = "loop"
    BY <1>4, <1>8 DEF MeterTick, MeterWaits, MeterWorks, SendRequest, TakeResponse, FinishRead,
                      IInv, Life
  <2>2. UNCHANGED <<rs485Vars, modbusVars, busVars>>
    BY <2>1 DEF AwaitResponse
  <2>3. Left' = Left
    BY <2>1, <2>2 DEF Left, UntilPoll, Quieting, Slack, ToCome, Pending, rs485Vars, modbusVars, busVars
  <2> QED
    BY <1>2, <2>3
<1>9. ASSUME TimePasses PROVE Left' <= Left - 1
  <2>1. /\ pc = "loop" /\ pc' = "rs485" /\ Same /\ UNCHANGED <<rxFifo, slave>>
        /\ quiet' = Capped(quiet, GAP) /\ Punctual
    BY <1>9 DEF TimePasses
  <2>2. faults' = faults \/ faults' = faults + 1
    BY <2>1 DEF Punctual, Fault
  <2>3. ToCome' <= ToCome
    BY <1>1, <2>1, <2>2 DEF ToCome, Pending, FarOK
  <2>4. UntilPoll = 1 /\ UntilPoll' = 0 /\ cb_invoke = FALSE
    BY <2>1 DEF UntilPoll, IInv, Life
  <2>5. Quieting' + 1 <= Quieting
    BY <1>1, <2>1, <2>4 DEF Quieting, Capped
  <2>6. Left # 0
    BY <1>1, <1>2, <1>3, <2>4 DEF Left
  <2>7. v = 0 /\ r + 1 <= Quieting /\ t <= Slack
    BY <1>3, <1>n, <2>3, <2>4, <2>5, Zenon
  <2>8. m <= Left - 1
    BY <1>2, <1>3, <1>sn, <1>nat, <2>1, <2>4, <2>6, <2>7
  <2> QED
    BY <1>n, <2>8, Zenon
<1>10. ASSUME NextRound PROVE Left' <= Left
  <2>1. /\ pc = "loop" /\ pc' = "rs485" /\ UNCHANGED <<rs485Vars, modbusVars, busVars>>
    BY <1>10 DEF NextRound
  <2>2. Same /\ UNCHANGED <<rxFifo, quiet, slave, faults, ToCome>>
    BY <2>1 DEF rs485Vars, modbusVars, busVars, ToCome, Pending
  <2>3. UntilPoll = 1 /\ UntilPoll' = 0
    BY <2>1 DEF UntilPoll
  <2>4. Quieting' <= Quieting
    BY <1>1, <2>2, <2>3 DEF Quieting
  <2> QED
    BY <1>2, <1>5, <2>2, <2>3, <2>4
<1>11. ASSUME Interrupt PROVE Left' <= Left
  <2>1. Same /\ UNCHANGED <<pc, slave, faults>>
    BY <1>11 DEF Interrupt, modbusVars, meterVars, busVars
  <2>2. ToCome' = ToCome /\ UntilPoll' = UntilPoll
    BY <2>1 DEF ToCome, Pending, UntilPoll
  <2>3. \/ rxFifo # <<>> /\ rxFifo' = <<>> /\ quiet' = 0
        \/ UNCHANGED <<rxFifo, quiet>>
    BY <1>11 DEF Interrupt, RxIrq, TxIrq
  <2>4. Quieting' <= Quieting
    BY <1>1, <1>2, <2>2, <2>3 DEF Quieting
  <2> QED
    BY <1>2, <1>5, <2>1, <2>2, <2>4
<1>12. ~BusTransmit
  BY <1>4 DEF BusTransmit, Transmit
<1>13. ASSUME SlaveSend \/ SlaveIsLate \/ Noise PROVE Left' <= Left
  <2>1. Same /\ UNCHANGED <<pc, quiet>> /\ UntilPoll' = UntilPoll
    BY <1>13 DEF SlaveSend, SlaveIsLate, Noise, Arrive, rs485Vars, modbusVars, meterVars, UntilPoll
  <2>2. Quieting' <= Quieting + GAP
    BY <1>1, <1>2, <2>1 DEF Quieting
  <2>3. CASE SlaveSend
    <3>1. slave # "idle" /\ slave' = Rest(slave) /\ (faults' = faults \/ faults' = faults + 1)
      BY <2>3 DEF SlaveSend, Fault
    <3>2. Pending' = Pending - 1
      BY <1>1, <3>1 DEF Pending, Rest, FarOK, Chunk
    <3>3. ToCome' + 1 <= ToCome
      BY <1>1, <3>1, <3>2 DEF ToCome, Pending, FarOK
    <3> QED
      BY <1>6, <2>1, <2>2, <3>3
  <2>4. CASE SlaveIsLate \/ Noise
    <3>1. slave' = slave /\ faults' = faults + 1
      BY <2>4 DEF SlaveIsLate, Noise, Fault
    <3>2. ToCome' + 1 <= ToCome
      BY <1>1, <3>1 DEF ToCome, Pending, FarOK
    <3> QED
      BY <1>6, <2>1, <2>2, <3>2
  <2> QED
    BY <1>13, <2>3, <2>4
<1>14. ASSUME UNCHANGED vars PROVE Left' <= Left
  <2>1. Left' = Left
    BY <1>14 DEF vars, rs485Vars, modbusVars, meterVars, busVars, Left, UntilPoll, Quieting,
                 Slack, ToCome, Pending
  <2> QED
    BY <1>2, <2>1
<1> QED
  <2>2. TimePasses => Left' <= Left
    BY <1>2, <1>9
  <2> QED
    BY <1>7, <1>8, <1>9, <1>10, <1>11, <1>12, <1>13, <1>14, <2>2 DEF Next, MainLoop

\* PatientStep: the watchdog's clock runs with the request's until TIMEOUT, and
\* from then on what it shows and what is left of the wait add up to a bound.
LEMMA PatientStep ==
  ASSUME LongEnough, IInv, Types, Transmitting, Patient, [Next]_vars
  PROVE  Patient'
<1> USE ConstantsAre
<1> DEFINE most == (MAX_FAULTS + 2) * GAP
<1>1. /\ reqAge \in 0 .. TIMEOUT /\ sinceChange \in 0 .. WATCHDOG
      /\ meter_state \in 0 .. 2 /\ last_state \in {0, 1, 2, 255}
      /\ MAX_FAULTS + 2 \in Nat
  BY DEF Types, MasterOK, LoopOK
<1>2. most \in Nat
  BY <1>1, GapsAre, Zenon DEF most
<1>3. Left \in 0 .. (GAP + 2 + most) /\ Left' \in 0 .. (GAP + 2 + most)
      /\ (pc' = "rs485" => Left' <= GAP + 1 + most)
  BY TypesStep, LeftIs, LeftWillBe, Zenon DEF Bounded, most
<1> DEFINE Kept(age, since, wait) ==
             IF age < TIMEOUT THEN since <= age ELSE since + wait <= TIMEOUT + 1 + GAP + most
<1>4. meter_state = 1 /\ last_state = 1 => Kept(reqAge, sinceChange, Left)
  BY Zenon DEF Patient
<1>5. ASSUME meter_state' # 1 => last_state' # meter_state',
             meter_state' = 1 /\ last_state' = 1 => Kept(reqAge', sinceChange', Left')
      PROVE  Patient'
  BY <1>5, Zenon DEF Patient
<1>6. PICK m \in Nat : m = Left' /\ m <= GAP + 2 + most /\ (pc' = "rs485" => m <= GAP + 1 + most)
  <2> HIDE DEF most
  <2>1. \A x : x \in 0 .. (GAP + 2 + most) => x \in Nat /\ x <= GAP + 2 + most
    BY <1>2
  <2> QED
    BY <1>3, <2>1, Zenon
<1> HIDE DEF most
<1>7. CASE UNCHANGED <<meter_state, last_state, reqAge, sinceChange>>
  <2>1. meter_state' = 1 /\ last_state' = 1 => Kept(reqAge, sinceChange, m)
    <3> SUFFICES ASSUME meter_state' = 1, last_state' = 1
                 PROVE  Kept(reqAge, sinceChange, m)
      OBVIOUS
    <3>1. Kept(reqAge, sinceChange, Left)
      BY <1>4, <1>7
    <3>2. reqAge = TIMEOUT => Left' <= Left
      BY <1>7, LeftShrinks
    <3>3. reqAge = TIMEOUT => m <= Left
      BY <1>6, <3>2, Zenon
    <3> QED
      BY <1>1, <1>2, <1>3, <3>1, <3>3
  <2>2. meter_state' # 1 => last_state' # meter_state'
    BY <1>7 DEF Patient
  <2>3. reqAge' = reqAge /\ sinceChange' = sinceChange
    BY <1>7
  <2> HIDE DEF Kept
  <2> QED
    BY <1>5, <1>6, <2>1, <2>2, <2>3, Zenon
<1>8. CASE MeterWorks
  <2>1. last_state' = meter_state /\ (last_state # meter_state => sinceChange' = 0)
    BY <1>8 DEF MeterWorks
  <2>2. CASE SendRequest \/ TakeResponse \/ FinishRead
    <3>1. \/ meter_state = 0 /\ meter_state' = 1
          \/ meter_state = 1 /\ (meter_state' = 0 \/ meter_state' = 2)
          \/ meter_state = 2 /\ meter_state' = 0
      BY <2>2 DEF SendRequest, TakeResponse, FinishRead
    <3>2. meter_state' # meter_state /\ ~(meter_state' = 1 /\ last_state' = 1)
      BY <2>1, <3>1
    <3> QED
      BY <1>5, <2>1, <3>2, Zenon
  <2>3. CASE AwaitResponse
    <3>1. meter_state = 1 /\ meter_state' = 1 /\ reqAge' = reqAge
          /\ (last_state = 1 => sinceChange' = sinceChange)
      BY <1>8, <2>3 DEF AwaitResponse, MeterWorks, modbusVars
    <3>2. CASE last_state = 1
      BY <1>7, <2>1, <3>1, <3>2
    <3>3. CASE last_state # 1
      <4>1. sinceChange' = 0
        BY <2>1, <3>1, <3>3
      <4>2. m <= GAP + 2 + most
        BY <1>6, Zenon
      <4>3. \A p, n \in Nat : n <= GAP + 2 + p => 0 + n <= TIMEOUT + 1 + GAP + p
        OBVIOUS
      <4>4. 0 <= reqAge
        BY <1>1
      <4>5. 0 <= reqAge /\ 0 + m <= TIMEOUT + 1 + GAP + most
        BY <1>2, <4>2, <4>3, <4>4, Zenon
      <4>6. Kept(reqAge, 0, m)
        BY <4>5, Zenon
      <4> HIDE DEF Kept
      <4> QED
        BY <1>5, <1>6, <3>1, <4>1, <4>6, Zenon
    <3> QED
      BY <3>2, <3>3
  <2> QED
    BY <1>8, <2>2, <2>3 DEF MeterWorks
<1>9. CASE TimePasses
  <2>1. /\ UNCHANGED <<meter_state, last_state>> /\ pc = "loop" /\ pc' = "rs485"
        /\ sinceChange' = Capped(sinceChange, WATCHDOG)
        /\ reqAge' = IF Waiting THEN Capped(reqAge, TIMEOUT) ELSE reqAge
    BY <1>9 DEF TimePasses
  <2>2. meter_state = 1 => reqAge' = Capped(reqAge, TIMEOUT)
    BY <2>1 DEF Waiting, IInv, Life
  <2>3. meter_state' = 1 /\ last_state' = 1
          => Kept(Capped(reqAge, TIMEOUT), Capped(sinceChange, WATCHDOG), m)
    <3> SUFFICES ASSUME meter_state' = 1, last_state' = 1
                 PROVE  Kept(Capped(reqAge, TIMEOUT), Capped(sinceChange, WATCHDOG), m)
      OBVIOUS
    <3>1. Kept(reqAge, sinceChange, Left)
      BY <1>4, <2>1
    <3>2. reqAge = TIMEOUT => Left' <= Left - 1
      BY <1>9, <2>1, LeftShrinks
    <3>3. reqAge = TIMEOUT => m <= Left - 1
      BY <1>6, <3>2, Zenon
    <3>4. m <= GAP + 1 + most
      BY <1>6, <2>1
    <3> QED
      BY <1>1, <1>2, <1>3, <3>1, <3>3, <3>4 DEF Capped
  <2>4. meter_state' # 1 => last_state' # meter_state'
    BY <2>1 DEF Patient
  <2> HIDE DEF Kept
  <2> QED
    BY <1>5, <1>6, <2>1, <2>2, <2>3, <2>4, Zenon
<1> QED
  BY <1>7, <1>8, <1>9
     DEF Next, MainLoop, PollBus, Rs485Tick, IdleStep, GiveUp, RxStep, TxStep, MeterTick, MeterWaits,
         NextRound, Interrupt, RxIrq, TxIrq, BusTransmit, Transmit, SlaveSend, SlaveIsLate, Noise,
         modbusVars, meterVars, vars

\* meter.c:584 "This should never happen": on no bus does the meter's state stay the
\* same until the watchdog bites, when the watchdog has more time than a request.
THEOREM WatchdogQuiet == LongEnough => (Spec => []WatchdogStaysQuiet)
<1> SUFFICES ASSUME LongEnough PROVE Spec => []WatchdogStaysQuiet
  OBVIOUS
<1>1. IInv /\ Types /\ Transmitting /\ [Next]_vars => Transmitting'
  BY TransmittingStep
<1>2. IInv /\ Types /\ Transmitting /\ Patient /\ [Next]_vars => Patient'
  BY PatientStep
<1>3. Types /\ Patient => WatchdogStaysQuiet
  <2> SUFFICES ASSUME Types, Patient, meter_state = last_state, sinceChange = WATCHDOG
               PROVE  FALSE
    BY DEF WatchdogStaysQuiet, Hung
  <2> DEFINE most == (MAX_FAULTS + 2) * GAP
  <2>1. reqAge \in 0 .. TIMEOUT /\ MAX_FAULTS + 2 \in Nat
    BY ConstantsAre DEF Types, MasterOK
  <2>2. most \in Nat
    BY <2>1, GapsAre, Zenon DEF most
  <2>3. Left \in 0 .. (GAP + 2 + most)
    BY LeftIs, Zenon DEF Bounded, most
  <2>4. IF reqAge < TIMEOUT THEN sinceChange <= reqAge
        ELSE sinceChange + Left <= TIMEOUT + 1 + GAP + most
    BY Zenon DEF Patient, most
  <2>5. WATCHDOG > TIMEOUT + 1 + GAP + most
    BY Zenon DEF LongEnough, most
  <2> HIDE DEF most
  <2> QED
    BY <2>1, <2>2, <2>3, <2>4, <2>5, ConstantsAre
<1> QED
  BY <1>1, <1>2, <1>3, InitHolds, StepHolds, TypesInit, TypesStep, WatchInit, PTL DEF Spec
-----------------------------------------------------------------------------
(* A healthy bus: nothing goes wrong, a request and its answer fit into the *)
(* buffers, and the timeout leaves the line the time to be quiet twice: a   *)
(* first half of the answer may be taken for all of it once.                *)

HealthyBus ==
  /\ Faults = {} /\ GAP > 0
  /\ TX_FIFO > 1 /\ RX_RING > 1 /\ RX_FIFO > 1 /\ FRAME_MAX > 1
  /\ TIMEOUT > LATENCY + GAP + GAP + 3

\* The time until the line counts as quiet, and what a chunk that rs485_tick has
\* not counted yet adds to it.
Settling == IF state_wire = "IDLE" THEN UntilPoll
            ELSE IF state_wire = "TX" THEN 1 + UntilPoll
            ELSE Quieting
Uncounted == IF rx_last = 2 THEN 0 ELSE GAP + 1
Due == IF cb_invoke = TRUE THEN 0 ELSE Settling + Uncounted

\* The request is out and the receiver on.
Sent == tx = 0 /\ txFifo = 0 /\ txEvent = FALSE /\ listening = TRUE

Begun ==
  \/ rx = <<"v1">> /\ rxFifo = <<>>
  \/ rx = <<>> /\ rxFifo = <<"v1">> /\ state_wire # "RX"

Whole ==
  \/ rx = Value /\ rxFifo = <<>>
  \/ rx = <<"v1">> /\ rxFifo = <<"v2">> /\ rx_last <= 1
  \/ rx = <<>> /\ rxFifo = Value /\ rx_last = 0

\* The four stages of a request: it is on its way; the meter thinks; half of the
\* answer is there; all of it is, in time to be noticed before TIMEOUT.
Leaving  == tx > 0 \/ txFifo > 0
Thinking == slave = "v1" /\ Sent
Halfway  == slave = "v2" /\ Sent /\ Begun /\ rx_last <= 1 /\ (state_wire = "RX" => rx_last > 0)
Answered ==
  /\ slave = "idle" /\ Sent /\ Whole /\ rx_last <= 2
  /\ state_wire = "RX" => rx_last > 0
  /\ cb_invoke = TRUE => timed_out = FALSE /\ rx = Value
  /\ reqAge + Due <= LATENCY + GAP + GAP + 3

Served ==
  /\ stored \in {"none", "own"} /\ missed = FALSE
  /\ meter_state = 1 => Leaving \/ Thinking \/ Halfway \/ Answered

\* A healthy bus is a punctual one.
LEMMA HealthyIsPunctual == HealthyBus => PunctualBus
BY ConstantsAre DEF HealthyBus, PunctualBus

\* At the start nothing is asked for.
LEMMA ServedInit == Init => Served
<1> SUFFICES ASSUME Init PROVE Served
  OBVIOUS
<1>1. stored = "none" /\ missed = FALSE /\ meter_state = 0
  BY DEF Init
<1> QED
  BY <1>1 DEF Served

\* The chunks of an answer and the ways to put them together.
LEMMA ChunksAre ==
  /\ <<"v1">> \in Seq(Chunk) /\ <<"v2">> \in Seq(Chunk) /\ Value \in Seq(Chunk)
  /\ Len(<<"v1">>) = 1 /\ Len(Value) = 2 /\ Len(<<>>) = 0
  /\ <<"v1">> \o <<"v2">> = Value
  /\ Append(<<>>, "v1") = <<"v1">> /\ Append(<<>>, "v2") = <<"v2">>
  /\ Append(<<"v1">>, "v2") = Value
  /\ \A s \in Seq(Chunk) : s \o <<>> = s /\ <<>> \o s = s /\ SubSeq(s, 1, Len(s)) = s
<1>1. /\ <<"v1">> \in Seq(Chunk) /\ <<"v2">> \in Seq(Chunk) /\ Value \in Seq(Chunk)
      /\ Len(<<"v1">>) = 1 /\ Len(<<"v2">>) = 1 /\ Len(Value) = 2 /\ Len(<<>>) = 0
      /\ Value[1] = "v1" /\ Value[2] = "v2"
  BY DEF Value, Chunk
<1>2. Append(<<>>, "v1") = <<"v1">> /\ Append(<<>>, "v2") = <<"v2">>
  OBVIOUS
<1>3. \A s, t \in Seq(Chunk) :
        Len(s) = 1 /\ Len(t) = 1 /\ s[1] = "v1" /\ t[1] = "v2" => s \o t = Value
  <2> SUFFICES ASSUME NEW s \in Seq(Chunk), NEW t \in Seq(Chunk),
                      Len(s) = 1, Len(t) = 1, s[1] = "v1", t[1] = "v2"
               PROVE  s \o t = Value
    OBVIOUS
  <2>1. /\ s \o t \in Seq(Chunk) /\ Len(s \o t) = 2
        /\ \A i \in 1 .. 2 : (s \o t)[i] = IF i <= 1 THEN s[1] ELSE t[i - 1]
    BY ConcatProperties
  <2>2. (s \o t)[1] = "v1" /\ (s \o t)[2] = "v2"
    BY <2>1
  <2>3. \A i \in 1 .. 2 : (s \o t)[i] = Value[i]
    BY <1>1, <2>2
  <2> QED
    BY <1>1, <2>1, <2>3, SeqEqual
<1>a. \A s \in Seq(Chunk), c \in Chunk : Append(s, c)[Len(s) + 1] = c
  OBVIOUS
<1>4. \A s \in Seq(Chunk), c \in Chunk :
        Len(s) = 1 /\ s[1] = "v1" /\ c = "v2" => Append(s, c) = Value
  <2> SUFFICES ASSUME NEW s \in Seq(Chunk), NEW c \in Chunk, Len(s) = 1, s[1] = "v1", c = "v2"
               PROVE  Append(s, c) = Value
    OBVIOUS
  <2>1. \A i \in 1 .. Len(s) : Append(s, c)[i] = s[i]
    OBVIOUS
  <2>2. Append(s, c) \in Seq(Chunk) /\ Len(Append(s, c)) = 2
    OBVIOUS
  <2>3. Append(s, c)[Len(s) + 1] = c /\ Len(s) + 1 = 2
    <3>1. Len(s) + 1 = 2
      OBVIOUS
    <3> QED
      BY <1>a, <3>1, Zenon
  <2>4. Append(s, c)[2] = c
    BY <2>3, Zenon
  <2>5. \A i \in 1 .. 2 : Append(s, c)[i] = Value[i]
    BY <1>1, <2>1, <2>4
  <2> QED
    BY <1>1, <2>2, <2>5, SeqEqual
<1>5. <<"v1">>[1] = "v1" /\ <<"v2">>[1] = "v2"
  OBVIOUS
<1>6. \A s \in Seq(Chunk) : s \o <<>> = s /\ <<>> \o s = s /\ SubSeq(s, 1, Len(s)) = s
  OBVIOUS
<1>7. <<"v1">> \o <<"v2">> = Value
  BY <1>1, <1>3, <1>5, Zenon
<1>8. Append(<<"v1">>, "v2") = Value
  <2>1. "v2" \in Chunk
    BY DEF Chunk
  <2> QED
    BY <1>1, <1>4, <1>5, <2>1, Zenon
<1> QED
  BY <1>1, <1>2, <1>6, <1>7, <1>8, Zenon

\* The ring and the FIFO, of a value that has arrived in one piece or in two.
LEMMA DrainedValue ==
  ASSUME HealthyBus
  PROVE  /\ Begun => Drained = <<"v1">>
         /\ Whole => Drained = Value
<1>1. Begun => rx \o rxFifo = <<"v1">>
  BY ChunksAre, Zenon DEF Begun
<1>2. Whole => rx \o rxFifo = Value
  BY ChunksAre, Zenon DEF Whole
<1>3. 1 < RX_RING /\ (IF 2 < RX_RING THEN 2 ELSE RX_RING) = 2
  BY ConstantsAre DEF HealthyBus
<1>4. \A s \in Seq(Chunk) : rx \o rxFifo = s /\ Len(s) \in {1, 2} => Drained = s
  <2> SUFFICES ASSUME NEW s \in Seq(Chunk), rx \o rxFifo = s, Len(s) \in {1, 2}
               PROVE  Drained = s
    OBVIOUS
  <2>1. (IF Len(s) < RX_RING THEN Len(s) ELSE RX_RING) = Len(s)
    BY <1>3
  <2>2. Drained = SubSeq(s, 1, Len(s))
    BY <2>1, Zenon DEF Drained
  <2> QED
    BY <2>2, ChunksAre, Zenon
<1> QED
  BY <1>1, <1>2, <1>4, ChunksAre

\* The times that Due is made of.
DueOK ==
  /\ UntilPoll \in 0 .. 1 /\ (pc = "rs485" => UntilPoll = 0)
  /\ Quieting \in 1 .. (GAP + 2)
  /\ Settling \in 0 .. (GAP + 2) /\ Uncounted \in {0, GAP + 1}
  /\ Due \in Nat

\* They are, whatever the state.
LEMMA DueIs == Types => DueOK
<1> SUFFICES ASSUME Types PROVE DueOK
  OBVIOUS
<1> USE ConstantsAre
<1>1. Quieting \in 1 .. (GAP + 2) /\ UntilPoll \in 0 .. 1
  BY LeftIs, Zenon DEF Bounded
<1>2. pc = "rs485" => UntilPoll = 0
  BY DEF UntilPoll
<1>3. Settling \in {UntilPoll, 1 + UntilPoll, Quieting}
  BY DEF Settling
<1>4. Settling \in 0 .. (GAP + 2)
  BY <1>1, <1>3
<1>5. Uncounted \in {0, GAP + 1}
  BY DEF Uncounted
<1>6. Due = 0 \/ Due = Settling + Uncounted
  BY DEF Due
<1>7. Due \in Nat
  BY <1>4, <1>5, <1>6
<1> QED
  BY <1>1, <1>2, <1>4, <1>5, <1>7 DEF DueOK

\* The same for the next state.
LEMMA DueWillBe == Types' => DueOK'
BY DueIs, PTL

\* A step that leaves the state machine alone leaves to be done what was, or
\* less; if it is time that passes, less.
LEMMA DueKeeps ==
  ASSUME Types, Types', UNCHANGED <<state_wire, rx_last, cb_invoke>>, cb_invoke = FALSE
  PROVE  /\ UntilPoll' <= UntilPoll /\ Quieting' <= Quieting => Due' <= Due
         /\ UntilPoll' + 1 <= UntilPoll /\ Quieting' + 1 <= Quieting => Due' + 1 <= Due
<1> USE ConstantsAre
<1>1. DueOK /\ DueOK'
  BY DueIs, DueWillBe
<1>2. PICK u \in Nat, q \in Nat, s \in Nat, w \in Nat, n \in Nat :
        u = UntilPoll' /\ q = Quieting' /\ s = Settling' /\ w = Uncounted' /\ n = Due'
  <2>1. \A x : x \in 0 .. 1 \/ x \in 1 .. (GAP + 2) \/ x \in 0 .. (GAP + 2) \/ x \in {0, GAP + 1}
               => x \in Nat
    OBVIOUS
  <2> QED
    BY <1>1, <2>1, Zenon DEF DueOK
<1>3. UNCHANGED Uncounted
  BY DEF Uncounted
<1>4. w = Uncounted
  BY <1>2, <1>3
<1>5. n = s + w /\ Due = Settling + Uncounted
  <2>1. Due' = Settling' + Uncounted'
    BY Zenon DEF Due
  <2> QED
    BY <1>2, <2>1 DEF Due
<1>6. \/ s = u /\ Settling = UntilPoll
      \/ s = 1 + u /\ Settling = 1 + UntilPoll
      \/ s = q /\ Settling = Quieting
  <2>1. \/ Settling' = UntilPoll' /\ Settling = UntilPoll
        \/ Settling' = 1 + UntilPoll' /\ Settling = 1 + UntilPoll
        \/ Settling' = Quieting' /\ Settling = Quieting
    <3>1. state_wire \in {"IDLE", "RX", "TX"} /\ state_wire' = state_wire
      BY DEF Types, MasterOK
    <3> QED
      BY <3>1, Zenon DEF Settling
  <2> QED
    BY <1>2, <2>1, Zenon
<1>7. u <= UntilPoll /\ q <= Quieting => n <= Due
  BY <1>1, <1>4, <1>5, <1>6 DEF DueOK
<1>8. u + 1 <= UntilPoll /\ q + 1 <= Quieting => n + 1 <= Due
  BY <1>1, <1>4, <1>5, <1>6 DEF DueOK
<1> QED
  BY <1>2, <1>7, <1>8, Zenon

\* rs485_tick, once the answer is there: it is counted, then awaited to be all,
\* then accepted.
LEMMA AnsweredPoll ==
  ASSUME HealthyBus, IInv, Types, Types', Transmitting, Answered, meter_state = 1, PollBus
  PROVE  Answered'
<1> USE ConstantsAre
<1>1. /\ rx' = Drained /\ rxFifo' = <<>> /\ quiet' = QuietAfterDrain
      /\ UNCHANGED <<tx, txFifo, txEvent, listening, reqAge, slave>>
      /\ pc = "rs485" /\ pc' = "meter"
  BY DEF PollBus, Rs485Tick, busVars
<1>2. cb_invoke = FALSE /\ timed_out = FALSE /\ req_state = "WAITING"
  BY <1>1 DEF IInv, Life
<1>3. Drained = Value /\ Len(Value) = 2 /\ Value # <<>>
  <2>1. Len(<<>>) = 0 /\ Len(Value) = 2
    BY ChunksAre
  <2> QED
    BY <2>1, DrainedValue DEF Answered
<1>4. Sent' /\ Whole' /\ slave' = "idle"
  BY <1>1, <1>3 DEF Sent, Whole, Answered
<1>5. DueOK /\ DueOK'
  BY DueIs, DueWillBe
<1>6. UntilPoll = 0 /\ UntilPoll' = 1
  BY <1>1 DEF UntilPoll
<1>7. reqAge \in Nat /\ reqAge < TIMEOUT /\ rx_last \in 0 .. 2 /\ quiet \in 0 .. GAP
      /\ GAP \in Nat /\ GAP # 0 /\ Due \in Nat /\ reqAge + Due <= LATENCY + GAP + GAP + 3
  <2>1. rx_last \in Nat /\ reqAge \in Nat /\ quiet \in 0 .. GAP /\ rx_last <= 2
    BY DEF Types, MasterOK, LineOK, Answered
  <2>2. reqAge + Due <= LATENCY + GAP + GAP + 3 /\ Due \in Nat
    BY <1>5 DEF Answered, DueOK
  <2> QED
    BY <2>1, <2>2 DEF HealthyBus
<1>8. Due = Settling + Uncounted
  BY <1>2 DEF Due
<1>s. PICK s \in Nat : s = Settling'
  <2>1. \A x : x \in 0 .. (GAP + 2) => x \in Nat
    OBVIOUS
  <2> QED
    BY <1>5, <2>1, Zenon DEF DueOK
<1>t. /\ Settling \in Nat /\ Uncounted \in Nat
      /\ \A a, b, c \in Nat : a <= b => a + c <= b + c
  BY <1>5 DEF DueOK
<1>d. ASSUME Due' = Settling' + Uncounted, Settling' <= Settling
      PROVE  Due' <= Due
  <2>1. s <= Settling /\ Due' = s + Uncounted
    BY <1>s, <1>d, Zenon
  <2>2. s + Uncounted <= Settling + Uncounted
    BY <1>s, <1>t, <2>1, Zenon
  <2> QED
    BY <1>8, <2>1, <2>2, Zenon
<1>q. ASSUME Due' <= Due, rx_last' <= 2, state_wire' = "RX" => rx_last' > 0,
             cb_invoke' = TRUE => timed_out' = FALSE
      PROVE  Answered'
  <2>1. PICK n \in Nat : n = Due'
    BY <1>5, Zenon DEF DueOK
  <2>2. n <= Due
    BY <1>q, <2>1, Zenon
  <2>3. reqAge + n <= LATENCY + GAP + GAP + 3
    BY <1>7, <2>2
  <2>4. reqAge' + Due' <= LATENCY + GAP + GAP + 3
    BY <1>1, <2>1, <2>3, Zenon
  <2> QED
    BY <1>1, <1>3, <1>4, <1>q, <2>4, Zenon DEF Answered
<1>9. CASE state_wire = "IDLE" /\ IdleStep(Drained)
  <2>1. ~DeadlineMissed /\ Waiting /\ ~Wrong(Drained)
    <3>1. reqAge # TIMEOUT /\ ~(2 > FRAME_MAX)
      BY <1>7, ModbusAssumption DEF HealthyBus
    <3> QED
      BY <1>2, <1>3, <3>1 DEF DeadlineMissed, Waiting, Wrong, ChecksumOk, SlaveResponseOk
  <2>2. CASE rx_last = 2
    <3>1. cb_invoke' = TRUE /\ UNCHANGED <<state_wire, timed_out, rx_last>>
      BY <1>2, <1>3, <1>9, <2>1, <2>2 DEF IdleStep
    <3>2. Due' = 0
      BY <3>1 DEF Due
    <3>3. Due' <= Due
      BY <1>7, <3>2
    <3>4. rx_last' <= 2 /\ state_wire' # "RX" /\ timed_out' = FALSE
      BY <1>2, <1>7, <1>9, <3>1
    <3> QED
      BY <1>q, <3>3, <3>4, Zenon
  <2>3. CASE rx_last # 2
    <3>1. state_wire' = "RX" /\ rx_last' = 2 /\ UNCHANGED <<cb_invoke, timed_out>>
      BY <1>2, <1>3, <1>7, <1>9, <2>1, <2>3 DEF IdleStep
    <3>2. Due' = Quieting' + 0
      BY <1>2, <3>1 DEF Due, Settling, Uncounted
    <3>3. Quieting' <= GAP + 1
      BY <1>1, <1>6, <1>7 DEF Quieting, QuietAfterDrain
    <3>4. Due = GAP + 1
      BY <1>6, <1>7, <1>8, <1>9, <2>3 DEF Settling, Uncounted
    <3>5. Due' <= Due
      <4>1. PICK q \in 1 .. (GAP + 2) : q = Quieting'
        BY <1>5, Zenon DEF DueOK
      <4>2. q <= GAP + 1 /\ Due' = q + 0
        BY <3>2, <3>3, <4>1, Zenon
      <4> QED
        BY <3>4, <4>2
    <3>6. rx_last' <= 2 /\ rx_last' > 0 /\ timed_out' = FALSE
      BY <1>2, <3>1
    <3> QED
      BY <1>q, <3>5, <3>6, Zenon
  <2> QED
    BY <2>2, <2>3
<1>10. CASE state_wire = "RX" /\ RxStep(QuietAfterDrain)
  <2>1. UNCHANGED <<cb_invoke, timed_out, rx_last>> /\ rx_last > 0
    BY <1>10 DEF RxStep, Answered
  <2>2. UNCHANGED Uncounted
    BY <2>1 DEF Uncounted
  <2>3. Settling = Quieting /\ Due' = Settling' + Uncounted
    BY <1>2, <1>10, <2>1, <2>2 DEF Due, Settling
  <2>4. Settling' <= Quieting
    <3>1. CASE QuietAfterDrain = GAP
      <4>1. Settling' = 1
        BY <1>6, <1>10, <3>1 DEF RxStep, Settling
      <4> QED
        BY <1>5, <4>1 DEF DueOK
    <3>2. CASE QuietAfterDrain # GAP
      <4>1. Settling' = Quieting'
        BY <1>10, <3>2 DEF RxStep, Settling
      <4>2. Quieting' <= Quieting
        BY <1>1, <1>6, <1>7, <3>2 DEF Quieting, QuietAfterDrain
      <4> QED
        BY <4>1, <4>2
    <3> QED
      BY <3>1, <3>2
  <2>5. Due' <= Due
    BY <1>d, <2>3, <2>4, Zenon
  <2>6. rx_last' <= 2 /\ rx_last' > 0 /\ timed_out' = FALSE
    BY <1>2, <1>7, <2>1
  <2> QED
    BY <1>q, <2>5, <2>6, Zenon
<1>11. CASE state_wire = "TX" /\ TxStep
  <2>1. tx_done
    BY <1>11 DEF Transmitting, Answered, Sent
  <2>2. UNCHANGED <<cb_invoke, timed_out, rx_last>> /\ state_wire' = "IDLE"
    BY <1>11, <2>1 DEF TxStep
  <2>3. UNCHANGED Uncounted
    BY <2>2 DEF Uncounted
  <2>4. Settling = 1 /\ Settling' = 1
    BY <1>6, <1>11, <2>2 DEF Settling
  <2>5. Due' = Settling' + Uncounted
    BY <1>2, <2>2, <2>3 DEF Due
  <2>6. Due' <= Due
    <3>1. Settling' <= Settling
      BY <2>4
    <3> QED
      BY <1>d, <2>5, <3>1, Zenon
  <2>7. rx_last' <= 2 /\ state_wire' # "RX" /\ timed_out' = FALSE
    BY <1>2, <1>7, <2>2
  <2> QED
    BY <1>q, <2>6, <2>7, Zenon
<1> QED
  BY <1>9, <1>10, <1>11 DEF PollBus, Rs485Tick

\* The answer stays where it is until meter_generic_tick takes it, and time is
\* only spent on what is due.
LEMMA AnsweredStays ==
  ASSUME HealthyBus, IInv, Types, Types', Transmitting, Answered, [Next]_vars,
         meter_state = 1, meter_state' = 1
  PROVE  Answered'
<1> USE ConstantsAre
<1>1. /\ slave = "idle" /\ tx = 0 /\ txFifo = 0 /\ txEvent = FALSE
      /\ req_state = "WAITING" /\ errorWait = NoWait
      /\ quiet \in 0 .. GAP /\ reqAge \in 0 .. TIMEOUT
      /\ LATENCY + GAP + GAP + 3 < TIMEOUT
  BY DEF Answered, Sent, IInv, Life, Types, LineOK, MasterOK, HealthyBus
<1>2. DueOK /\ DueOK'
  BY DueIs, DueWillBe
<1>n. PICK n \in Nat : n = Due'
  BY <1>2, Zenon DEF DueOK
<1>d. Due \in Nat /\ reqAge + Due <= LATENCY + GAP + GAP + 3
  BY <1>2 DEF DueOK, Answered
<1>q. ASSUME UNCHANGED <<tx, txFifo, txEvent, listening, slave>>,
             UNCHANGED <<state_wire, rx_last, cb_invoke, timed_out>>,
             UNCHANGED <<rx, rxFifo>> \/ (cb_invoke = FALSE /\ rx' = Value /\ rxFifo' = <<>>),
             reqAge' + Due' <= LATENCY + GAP + GAP + 3
      PROVE  Answered'
  BY <1>q, Zenon DEF Answered, Sent, Whole
<1>3. ASSUME UNCHANGED <<rs485Vars, modbusVars, busVars>>, UntilPoll' <= UntilPoll,
             cb_invoke = FALSE
      PROVE  Answered'
  <2>1. Quieting' <= Quieting
    <3>1. PICK u \in 0 .. 1 : u = UntilPoll' /\ u <= UntilPoll
      BY <1>2, <1>3, Zenon DEF DueOK
    <3>2. UNCHANGED <<rxFifo, quiet>>
      BY <1>3 DEF rs485Vars
    <3>3. Quieting' = IF rxFifo # <<>> THEN GAP + 1 + u
                      ELSE IF quiet < GAP THEN GAP + 1 - quiet ELSE 1 + u
      BY <3>1, <3>2, Zenon DEF Quieting
    <3> QED
      BY <1>1, <1>2, <3>1, <3>3 DEF Quieting, DueOK
  <2>2. UNCHANGED <<state_wire, rx_last, cb_invoke, timed_out, reqAge>>
        /\ UNCHANGED <<rx, rxFifo, tx, txFifo, txEvent, listening, slave>>
    BY <1>3 DEF rs485Vars, modbusVars, busVars
  <2>3. Due' <= Due
    BY <1>3, <2>1, <2>2, DueKeeps, Zenon
  <2>4. reqAge + n <= LATENCY + GAP + GAP + 3
    <3>1. n <= Due
      BY <1>n, <2>3, Zenon
    <3> QED
      BY <1>1, <1>d, <3>1
  <2> QED
    BY <1>n, <1>q, <2>2, <2>4, Zenon
<1>4. CASE MeterTick
  <2>1. AwaitResponse /\ pc = "meter" /\ pc' = "loop" /\ cb_invoke = FALSE
    BY <1>1, <1>4 DEF MeterTick, MeterWaits, MeterWorks, SendRequest, TakeResponse, FinishRead,
                      AwaitResponse, ResponseReady, IInv, Life
  <2>2. UNCHANGED <<rs485Vars, modbusVars, busVars>>
    BY <2>1 DEF AwaitResponse
  <2>3. UntilPoll' <= UntilPoll
    BY <2>1 DEF UntilPoll
  <2> QED
    BY <1>3, <2>1, <2>2, <2>3
<1>5. CASE NextRound
  <2>1. pc = "loop" /\ pc' = "rs485" /\ UNCHANGED <<rs485Vars, modbusVars, busVars>>
    BY <1>5 DEF NextRound
  <2>2. UntilPoll' <= UntilPoll /\ cb_invoke = FALSE
    BY <2>1 DEF UntilPoll, IInv, Life
  <2> QED
    BY <1>3, <2>1, <2>2
<1>6. CASE UNCHANGED vars
  <2>1. UNCHANGED <<slave, tx, txFifo, txEvent, listening, rx, rxFifo, rx_last, state_wire>>
        /\ UNCHANGED <<cb_invoke, timed_out, reqAge, Due>>
    BY <1>6 DEF vars, rs485Vars, modbusVars, meterVars, busVars, Due, Settling, Uncounted,
                UntilPoll, Quieting
  <2> QED
    BY <2>1, Zenon DEF Answered, Sent, Whole
<1>7. CASE TimePasses
  <2>1. /\ pc = "loop" /\ pc' = "rs485"
        /\ UNCHANGED <<tx, txFifo, txEvent, listening, slave, rx, rxFifo>>
        /\ UNCHANGED <<state_wire, rx_last, cb_invoke, timed_out>>
        /\ quiet' = Capped(quiet, GAP)
        /\ reqAge' \in {reqAge, Capped(reqAge, TIMEOUT)}
    BY <1>1, <1>7 DEF TimePasses
  <2>2. UntilPoll = 1 /\ UntilPoll' = 0 /\ cb_invoke = FALSE
    BY <2>1 DEF UntilPoll, IInv, Life
  <2>3. Quieting' + 1 <= Quieting
    BY <1>1, <2>1, <2>2 DEF Quieting, Capped
  <2>4. Due' + 1 <= Due
    <3>1. UntilPoll' + 1 <= UntilPoll
      BY <2>2
    <3> QED
      BY <2>1, <2>2, <2>3, <3>1, DueKeeps, Zenon
  <2>5. reqAge' + n <= LATENCY + GAP + GAP + 3
    <3>1. n + 1 <= Due
      BY <1>n, <2>4, Zenon
    <3>2. reqAge' \in {reqAge, reqAge + 1} /\ reqAge \in Nat
      BY <1>1, <1>d, <2>1 DEF Capped
    <3>3. \A a, k, m \in Nat : a + k <= LATENCY + GAP + GAP + 3 /\ m + 1 <= k
            => a + m <= LATENCY + GAP + GAP + 3 /\ (a + 1) + m <= LATENCY + GAP + GAP + 3
      OBVIOUS
    <3>4. reqAge + n <= LATENCY + GAP + GAP + 3 /\ (reqAge + 1) + n <= LATENCY + GAP + GAP + 3
      BY <1>d, <3>1, <3>2, <3>3
    <3> QED
      BY <3>2, <3>4
  <2> QED
    BY <1>n, <1>q, <2>1, <2>5, Zenon
<1>8. CASE Interrupt
  <2>1. RxIrq
    BY <1>1, <1>8 DEF Interrupt, TxIrq, TxIrqPending
  <2>2. /\ rxFifo # <<>> /\ rx' = Drained /\ rxFifo' = <<>> /\ quiet' = 0
        /\ UNCHANGED <<tx, txFifo, txEvent, listening>>
        /\ UNCHANGED <<state_wire, rx_last, cb_invoke, timed_out, reqAge, slave, pc>>
    BY <1>8, <2>1 DEF Interrupt, RxIrq, modbusVars, meterVars, busVars
  <2>3. rx' = Value
    BY <2>2, DrainedValue DEF Answered
  <2>4. cb_invoke = FALSE
    <3>1. Len(Value) = 2 /\ Value # <<>> /\ Value # <<"v1">>
      <4>1. Len(Value) = 2 /\ Len(<<>>) = 0 /\ Len(<<"v1">>) = 1
        BY ChunksAre
      <4> QED
        BY <4>1
    <3> QED
      BY <2>2, <3>1 DEF Answered, Whole, IInv, Life
  <2>5. UntilPoll' = UntilPoll
    BY <2>2 DEF UntilPoll
  <2>6. Quieting' <= Quieting
    BY <1>1, <1>2, <2>2, <2>5 DEF Quieting, DueOK
  <2>7. Due' <= Due
    <3>1. UntilPoll' <= UntilPoll
      BY <1>2, <2>5 DEF DueOK
    <3> QED
      BY <2>2, <2>4, <2>6, <3>1, DueKeeps, Zenon
  <2>8. reqAge + n <= LATENCY + GAP + GAP + 3
    <3>1. n <= Due
      BY <1>n, <2>7, Zenon
    <3> QED
      BY <1>1, <1>d, <3>1
  <2> QED
    BY <1>n, <1>q, <2>2, <2>3, <2>4, <2>8, Zenon
<1>9. ~BusTransmit /\ ~SlaveSend /\ ~SlaveIsLate /\ ~Noise
  BY <1>1 DEF BusTransmit, Transmit, SlaveSend, SlaveIsLate, Noise, Fault, HealthyBus
<1> QED
  BY <1>4, <1>5, <1>6, <1>7, <1>8, <1>9, AnsweredPoll DEF Next, MainLoop

\* No fault happens on a healthy bus.
LEMMA NoFault == HealthyBus => ~SlaveIsLate /\ ~Noise /\ (\A f : ~Fault(f))
BY DEF HealthyBus, SlaveIsLate, Noise, Fault

\* A request on its way arrives: it reaches a meter that is idle.
LEMMA LeavingGoesOn ==
  ASSUME HealthyBus, IInv, Types, Calm, Leaving, [Next]_vars, meter_state = 1, meter_state' = 1
  PROVE  Leaving' \/ Thinking'
<1> USE ConstantsAre
<1>1. /\ Silent /\ slave = "idle" /\ badRequest = FALSE /\ cb_invoke = FALSE
      /\ tx \in Nat /\ txFifo \in Nat /\ LineOK
  BY DEF Calm, Before, Apart, Leaving, Silent, Types, LineOK
<1>2. CASE UNCHANGED <<tx, txFifo>>
  BY <1>2 DEF Leaving
<1>3. CASE TxIrq
  BY <1>1, <1>3, TxIrqKeeps DEF Leaving
<1>4. CASE BusTransmit
  <2>1. /\ txFifo > 0 /\ txFifo' = txFifo - 1 /\ tx' = tx /\ txEvent' = txEvent
        /\ ~TxIrqPending /\ listening' = (txFifo = 1)
    BY <1>4 DEF BusTransmit, Transmit
  <2>2. CASE tx = 0 /\ txFifo = 1
    <3>1. slave' = "v1"
      BY <1>1, <1>4, <2>2, NoFault DEF BusTransmit, Receive
    <3>2. txEvent' = FALSE /\ listening' = TRUE
      BY <1>1, <2>1, <2>2 DEF TxIrqPending, LineOK, HealthyBus
    <3>3. tx' = 0 /\ txFifo' = 0
      BY <2>1, <2>2
    <3> QED
      BY <3>1, <3>2, <3>3 DEF Thinking, Sent
  <2>3. CASE ~(tx = 0 /\ txFifo = 1)
    BY <1>1, <2>1, <2>3 DEF Leaving
  <2> QED
    BY <2>2, <2>3
<1>5. ~TimePasses /\ ~SlaveSend /\ ~SlaveIsLate /\ ~Noise
  <2>1. ~(tx = 0 /\ txFifo = 0)
    BY DEF Leaving
  <2> QED
    BY <1>1, <2>1, NoFault DEF TimePasses, SlaveSend
<1>6. ASSUME MeterTick PROVE AwaitResponse
  BY <1>1, <1>6 DEF MeterTick, MeterWaits, MeterWorks, SendRequest, TakeResponse, FinishRead,
                    AwaitResponse, ResponseReady, IInv, Life
<1> QED
  BY <1>2, <1>3, <1>4, <1>5, <1>6
     DEF Next, MainLoop, PollBus, Rs485Tick, AwaitResponse, NextRound, Interrupt, RxIrq, vars, rs485Vars

\* The meter begins its answer, and the receiver is on.
LEMMA ThinkingGoesOn ==
  ASSUME HealthyBus, IInv, Types, Calm, Thinking, [Next]_vars, meter_state = 1, meter_state' = 1
  PROVE  Thinking' \/ Halfway'
<1> USE ConstantsAre
<1>1. Silent /\ slave = "v1" /\ tx = 0 /\ txFifo = 0 /\ txEvent = FALSE /\ listening = TRUE
  BY DEF Calm, Answering, Thinking, Sent
<1>2. CASE UNCHANGED <<tx, txFifo, txEvent, listening, slave>>
  BY <1>2 DEF Thinking, Sent
<1>3. CASE SlaveSend
  <2>1. Arrive("v1") /\ slave' = "v2" /\ UNCHANGED <<state_wire, rx_last>>
    BY <1>1, <1>3, NoFault DEF SlaveSend, Rest, modbusVars
  <2>2. Len(rxFifo) < RX_FIFO /\ rxFifo = <<>>
    BY <1>1, ChunksAre DEF Silent, HealthyBus
  <2>3. rxFifo' = <<"v1">> /\ rx' = <<>> /\ UNCHANGED <<tx, txFifo, txEvent, listening>>
    BY <1>1, <2>1, <2>2, ChunksAre DEF Arrive, Silent
  <2>4. state_wire' # "RX" /\ rx_last' = 0
    BY <1>1, <2>1 DEF Silent
  <2>5. rx_last' <= 1
    BY <2>4
  <2> QED
    BY <1>1, <2>1, <2>3, <2>4, <2>5, Zenon DEF Halfway, Sent, Begun
<1>4. ~TxIrq /\ ~BusTransmit /\ ~SlaveIsLate /\ ~Noise
  BY <1>1, NoFault DEF TxIrq, TxIrqPending, BusTransmit, Transmit
<1>5. ASSUME MeterTick PROVE AwaitResponse
  BY <1>1, <1>5 DEF MeterTick, MeterWaits, MeterWorks, SendRequest, TakeResponse, FinishRead,
                    AwaitResponse, ResponseReady, IInv, Life, Silent
<1> QED
  BY <1>2, <1>3, <1>4, <1>5
     DEF Next, MainLoop, PollBus, Rs485Tick, AwaitResponse, NextRound, Interrupt, RxIrq, TimePasses,
         vars, rs485Vars, busVars

\* The second half follows the first, and from then on all of the answer is there
\* and the time until it is accepted is bounded.
LEMMA HalfwayGoesOn ==
  ASSUME HealthyBus, IInv, Types, Types', Calm, Calm', Halfway, [Next]_vars,
         meter_state = 1, meter_state' = 1
  PROVE  Halfway' \/ Answered'
<1> USE ConstantsAre
<1>1. /\ slave = "v2" /\ tx = 0 /\ txFifo = 0 /\ txEvent = FALSE /\ listening = TRUE
      /\ reqAge <= LATENCY /\ cb_invoke = FALSE /\ req_state = "WAITING"
      /\ (state_wire # "RX" => rx_last = 0)
  BY DEF Calm, Answering, Complete, Halfway, Sent, IInv, Life
<1>2. CASE UNCHANGED <<tx, txFifo, txEvent, listening, slave>> /\ UNCHANGED <<state_wire, rx_last>>
           /\ (UNCHANGED <<rx, rxFifo>> \/ (rx' = <<"v1">> /\ rxFifo' = <<>>))
  <2>1. Begun'
    BY <1>2, Zenon DEF Halfway, Begun
  <2> QED
    BY <1>2, <2>1, Zenon DEF Halfway, Sent
<1>3. CASE PollBus
  <2>1. /\ rx' = <<"v1">> /\ rxFifo' = <<>> /\ Drained = <<"v1">> /\ Len(Drained) = 1
        /\ UNCHANGED <<tx, txFifo, txEvent, listening, slave>>
    BY <1>3, DrainedValue, ChunksAre DEF PollBus, Rs485Tick, busVars, Halfway
  <2>2. rx_last' <= 1 /\ (state_wire' = "RX" => rx_last' > 0)
    <3>1. CASE state_wire = "IDLE" /\ IdleStep(Drained)
      <4>1. reqAge # TIMEOUT /\ reqAge \in Nat /\ rx_last = 0
        BY <1>1, <3>1 DEF HealthyBus, Types, MasterOK
      <4>2. rx_last' = 1
        BY <1>1, <2>1, <3>1, <4>1 DEF IdleStep, DeadlineMissed, Waiting
      <4> QED
        BY <4>2
    <3>2. CASE state_wire = "RX" /\ RxStep(QuietAfterDrain)
      BY <3>2 DEF RxStep, Halfway
    <3>3. CASE state_wire = "TX" /\ TxStep
      BY <3>3 DEF TxStep, Halfway
    <3> QED
      BY <1>3, <3>1, <3>2, <3>3 DEF PollBus, Rs485Tick
  <2>3. Begun'
    BY <2>1 DEF Begun
  <2> QED
    BY <1>1, <2>1, <2>2, <2>3, Zenon DEF Halfway, Sent
<1>4. CASE SlaveSend
  <2>1. /\ Arrive("v2") /\ slave' = "idle"
        /\ UNCHANGED <<state_wire, rx_last, cb_invoke, timed_out, reqAge>>
    BY <1>1, <1>4, NoFault DEF SlaveSend, Rest, modbusVars
  <2>2. Len(rxFifo) < RX_FIFO
    <3>1. Len(rxFifo) \in {0, 1}
      <4>1. rxFifo \in {<<>>, <<"v1">>}
        BY DEF Halfway, Begun
      <4> QED
        BY <4>1, ChunksAre
    <3> QED
      BY <3>1 DEF HealthyBus
  <2>3. rxFifo' = Append(rxFifo, "v2") /\ rx' = rx /\ UNCHANGED <<tx, txFifo, txEvent, listening>>
    BY <1>1, <2>1, <2>2 DEF Arrive
  <2>4. rx_last' <= 1 /\ rx_last' <= 2 /\ (state_wire' # "RX" => rx_last' = 0)
        /\ (state_wire' = "RX" => rx_last' > 0)
    BY <1>1, <2>1 DEF Halfway, Types, MasterOK
  <2>5. Whole'
    <3>1. CASE rx = <<"v1">> /\ rxFifo = <<>>
      BY <2>3, <2>4, <3>1, ChunksAre, Zenon DEF Whole
    <3>2. CASE rx = <<>> /\ rxFifo = <<"v1">> /\ state_wire # "RX"
      <4>1. rx_last' = 0
        BY <1>1, <2>1, <3>2
      <4> QED
        BY <2>3, <3>2, <4>1, ChunksAre, Zenon DEF Whole
    <3> QED
      BY <3>1, <3>2 DEF Halfway, Begun
  <2>6. DueOK'
    BY DueWillBe
  <2>7. PICK s \in 0 .. (GAP + 2), w \in {0, GAP + 1} : s = Settling' /\ w = Uncounted'
    BY <2>6, Zenon DEF DueOK
  <2>8. Due' = s + w
    <3>1. Due' = Settling' + Uncounted'
      BY <1>1, <2>1, Zenon DEF Due
    <3> QED
      BY <2>7, <3>1, Zenon
  <2>9. reqAge + (s + w) <= LATENCY + GAP + GAP + 3
    <3>1. reqAge \in Nat
      BY DEF Types, MasterOK
    <3>2. \A a \in Nat, b \in 0 .. (GAP + 2), c \in {0, GAP + 1} :
            a <= LATENCY => a + (b + c) <= LATENCY + GAP + GAP + 3
      OBVIOUS
    <3> QED
      BY <1>1, <3>1, <3>2
  <2>10. reqAge' + Due' <= LATENCY + GAP + GAP + 3
    BY <2>1, <2>8, <2>9, Zenon
  <2>11. Sent'
    BY <1>1, <2>3, Zenon DEF Sent
  <2>12. cb_invoke' # TRUE
    BY <1>1, <2>1
  <2> QED
    BY <2>1, <2>4, <2>5, <2>10, <2>11, <2>12, Zenon DEF Answered
<1>5. ASSUME Interrupt
      PROVE  /\ UNCHANGED <<tx, txFifo, txEvent, listening, slave>> /\ UNCHANGED <<state_wire, rx_last>>
             /\ rx' = <<"v1">> /\ rxFifo' = <<>>
  <2>1. RxIrq
    BY <1>1, <1>5 DEF Interrupt, TxIrq, TxIrqPending
  <2>2. Drained = <<"v1">>
    BY DrainedValue DEF Halfway
  <2> QED
    BY <1>5, <2>1, <2>2 DEF Interrupt, RxIrq, modbusVars, busVars
<1>6. ~TimePasses /\ ~BusTransmit /\ ~SlaveIsLate /\ ~Noise
  <2>1. ~Punctual
    <3>1. slave \notin {"idle", "v1", "o1", "x1"}
      BY <1>1
    <3> QED
      BY <3>1, NoFault DEF Punctual
  <2>2. ~(txFifo > 0)
    BY <1>1
  <2>3. ~SlaveIsLate /\ ~Noise
    BY NoFault
  <2> QED
    BY <2>1, <2>2, <2>3, Zenon DEF TimePasses, BusTransmit, Transmit
<1>7. ASSUME MeterTick PROVE AwaitResponse
  BY <1>1, <1>7 DEF MeterTick, MeterWaits, MeterWorks, SendRequest, TakeResponse, FinishRead,
                    AwaitResponse, ResponseReady, IInv, Life
<1>8. ASSUME AwaitResponse \/ NextRound \/ UNCHANGED vars
      PROVE  UNCHANGED <<rs485Vars, modbusVars, busVars>>
  BY <1>8 DEF AwaitResponse, NextRound, vars
<1> QED
  BY <1>2, <1>3, <1>4, <1>5, <1>6, <1>7, <1>8
     DEF Next, MainLoop, rs485Vars, modbusVars, busVars

\* What has been stored and missed changes only when a response is taken, and
\* that is the one asked for.
LEMMA ServedStep ==
  ASSUME HealthyBus, IInv, Types, Types', Transmitting, Calm, Calm', Served, [Next]_vars
  PROVE  Served'
<1>1. CASE MeterTick /\ MeterWorks /\ TakeResponse
  <2>1. /\ cb_invoke = TRUE /\ meter_state = 1 /\ meter_state' \in {0, 2}
        /\ stored' = Response
        /\ missed' = missed \/ missed' = (missed \/ (~each_value_read_once /\ Response # "own"))
    BY <1>1 DEF TakeResponse, ResponseReady, IInv, Life
  <2>2. timed_out = FALSE /\ rx = Value
    <3>1. Answered
      BY <2>1 DEF Served, Leaving, Thinking, Halfway, Calm, Before, Answering, Complete, Silent
    <3> QED
      BY <2>1, <3>1 DEF Answered
  <2>3. Frame = Value /\ Value # Exception
    <3>1. Value[1] # Exception[1]
      BY DEF Value, Exception
    <3>2. SubSeq(Value, 1, 2) = Value
      BY ChunksAre
    <3> QED
      BY <2>2, <3>1, <3>2 DEF Frame
  <2>4. Response = "own"
    BY <2>2, <2>3 DEF Response
  <2>5. missed' = FALSE
    <3>1. missed' = missed \/ missed' = (missed \/ FALSE)
      BY <2>1, <2>4, Zenon
    <3> QED
      BY <3>1, Zenon DEF Served
  <2> QED
    BY <2>1, <2>4, <2>5 DEF Served
<1>2. CASE MeterTick /\ MeterWorks /\ SendRequest
  <2>1. /\ tx = 0 /\ txFifo = 0 /\ StartRequest /\ meter_state' = 1
        /\ UNCHANGED <<stored, missed>>
    BY <1>2 DEF SendRequest, Calm, Before
  <2>2. tx' \in 0 .. REQUEST /\ txFifo' \in 0 .. TX_FIFO /\ tx' + txFifo' = REQUEST + txFifo
    BY <2>1, StartIs DEF Types
  <2>3. Leaving'
    <3>1. tx' \in Nat /\ txFifo' \in Nat /\ tx' + txFifo' = 2
      <4>1. REQUEST = 2 /\ TX_FIFO \in Nat
        BY ConstantsAre
      <4>2. tx' + txFifo' = 2 + 0
        BY <2>1, <2>2, <4>1
      <4>3. \A x : x \in 0 .. REQUEST \/ x \in 0 .. TX_FIFO => x \in Nat
        BY <4>1
      <4>4. 2 + 0 = 2
        OBVIOUS
      <4> QED
        BY <2>2, <4>2, <4>3, <4>4, Zenon
    <3>2. \A a, b \in Nat : a + b = 2 => a > 0 \/ b > 0
      OBVIOUS
    <3> QED
      BY <3>1, <3>2, Zenon DEF Leaving
  <2> QED
    BY <2>1, <2>3 DEF Served
<1>3. ASSUME ~(MeterTick /\ MeterWorks /\ (TakeResponse \/ SendRequest))
      PROVE  UNCHANGED <<stored, missed>> /\ (meter_state' = 1 => meter_state = 1)
  BY <1>3 DEF Next, MainLoop, MeterTick, MeterWaits, MeterWorks, AwaitResponse, FinishRead, PollBus,
              TimePasses, NextRound, Interrupt, BusTransmit, SlaveSend, SlaveIsLate, Noise,
              vars, meterVars
<1>4. ASSUME meter_state = 1, meter_state' = 1
      PROVE  Leaving' \/ Thinking' \/ Halfway' \/ Answered'
  BY <1>4, LeavingGoesOn, ThinkingGoesOn, HalfwayGoesOn, AnsweredStays DEF Served
<1> QED
  BY <1>1, <1>2, <1>3, <1>4 DEF Served

\* meter.c:460 "The complete register set has been read.": on a healthy bus it
\* has, when each_value_read_once is set.  No request times out, and what is
\* given to meter_handle_new_data is always the value that was asked for.
THEOREM HealthyReads ==
  HealthyBus => (Spec => [](EachValueWasRead /\ stored \in {"none", "own"}))
<1> SUFFICES ASSUME HealthyBus
             PROVE  Spec => [](EachValueWasRead /\ stored \in {"none", "own"})
  OBVIOUS
<1>1. PunctualBus
  BY HealthyIsPunctual
<1>2. Served => EachValueWasRead /\ stored \in {"none", "own"}
  BY DEF Served, EachValueWasRead
<1>3. IInv /\ Types /\ Transmitting /\ [Next]_vars => Transmitting'
  BY TransmittingStep
<1>4. IInv /\ Types /\ Calm /\ [Next]_vars => Calm'
  BY <1>1, CalmStep
<1>5. /\ IInv /\ Types /\ Types' /\ Transmitting /\ Calm /\ Calm' /\ Served /\ [Next]_vars
      => Served'
  BY ServedStep
<1> QED
  BY <1>2, <1>3, <1>4, <1>5, InitHolds, TypesInit, TypesStep, CalmInit, WatchInit, ServedInit, PTL
     DEF Spec
=============================================================================
