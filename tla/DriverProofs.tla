---------------------------- MODULE DriverProofs ----------------------------
(***************************************************************************)
(* Proofs about MeterDrivers: the detection and every driver use the       *)
(* Modbus master as ModbusRequest asks for, and the meter that is found is *)
(* the one on the bus.                                                     *)
(***************************************************************************)
EXTENDS MeterDrivers, ListProofs

\* The inductive invariant: whether there is a request follows from the state
\* of whoever is at work.  While the type is unknown that is one is_connected
\* function, whose state is odd exactly when it waits for a response, ...
Searching ==
  /\ meter_state = 0 /\ fast_active = FALSE /\ fast_state = 0
  /\ find_state \in 0 .. 4
  /\ step \in [Manufacturers -> 0 .. 7]
  /\ \A m \in Manufacturers : m # Eltako => step[m] \in {0, 1}
  /\ \A m \in Manufacturers :
       step[m] \in {1, 3, 5, 7} <=> m = find_state /\ request # "none"
  /\ request # "none" => query[1] = find_state /\ find_state \in Manufacturers
  /\ step[Eltako] >= 2 => attached \in EltakoTypes
  /\ step[Eltako] >= 4 => attached = "DSZ16DZE"

\* ... later it is a driver.
ListTypes == {"DEM4A", "SDM72V2", "SDM630", "SDM630MCTV2"}
FoundTypes == ListTypes \cup EltakoTypes \cup IskraTypes

Driving ==
  /\ meter_state \in 0 .. 8
  /\ type \in ListTypes => (meter_state \in {1, 3, 5, 7} <=> request # "none")
  /\ type \in EltakoTypes =>
       /\ meter_state \in 0 .. 3
       /\ meter_state \in {0, 3} => request = "none"
       /\ meter_state = 1 => request # "none"
       /\ meter_state = 2 => request \in Settled
  /\ type \in IskraTypes =>
       /\ fast_active \in BOOLEAN /\ fast_state \in 0 .. 3
       /\ fast_active => meter_state = 0 /\ (fast_state \in {1, 3} <=> request # "none")
       /\ ~fast_active => fast_state = 0 /\ (meter_state \in {1, 4, 6} <=> request # "none")

IInv ==
  /\ request \in Settled \cup {"none", "waiting"}
  /\ attached \in DOMAIN MeterOf \cup {"nothing"}
  /\ request = "answer" => attached \in DOMAIN MeterOf
  /\ type \in FoundTypes \cup {"UNKNOWN", "UNSUPPORTED"}
  /\ type = "UNKNOWN" => Searching
  /\ type = "UNSUPPORTED" => request = "none"
  /\ type \in FoundTypes => Driving
  /\ DetectionIsRight

\* What a step may do to the request.
Protocol == Modbus!Start \/ Modbus!Settle \/ Modbus!Clear \/ request' = request

-----------------------------------------------------------------------------
\* The meters that meter_set_meter_type knows, and which of them are Eltako's.
LEMMA MetersAre ==
  /\ DOMAIN MeterOf = {"DEM4A", "SDM72V1", "SDM72V2", "SDM630", "SDM630MCTV2",
                       "DSZ15DZMOD", "DSZ16DZE", "WM3M4", "WM3M4C"}
  /\ \A t \in DOMAIN MeterOf : MeterOf[t] = Eltako <=> t \in EltakoTypes
  BY DEF MeterOf, Eltako, EltakoTypes

\* The even and the odd steps of the is_connected functions.
LEMMA Parity ==
  \A s \in 0 .. 7 : /\ s % 2 = 0 <=> s \in {0, 2, 4, 6}
                    /\ s % 2 = 1 <=> s \in {1, 3, 5, 7}
  OBVIOUS

\* A driver begins in state 0, with no request.
LEMMA DrivingBegins ==
  ASSUME meter_state' = 0, fast_active' = FALSE, fast_state' = 0, request' = "none"
  PROVE  Driving'
<1>1. fast_active' \in BOOLEAN /\ ~fast_active'
  OBVIOUS
<1>2. meter_state' \in 0 .. 8 /\ meter_state' \in 0 .. 3 /\ fast_state' \in 0 .. 3
      /\ meter_state' \notin {1, 3, 5, 7} /\ meter_state' \notin {1, 4, 6}
      /\ meter_state' # 1 /\ meter_state' # 2
  OBVIOUS
<1> QED
  BY <1>1, <1>2 DEF Driving

\* After meter_init nothing is known of the meter and nothing requested.
LEMMA InitHolds == Init => IInv
<1> SUFFICES ASSUME Init PROVE IInv
  OBVIOUS
<1>1. meter_state = 0 /\ fast_active = FALSE /\ fast_state = 0 /\ find_state = 0
      /\ step = [m \in Manufacturers |-> 0] /\ request = "none" /\ type = "UNKNOWN"
  BY DEF Init, DetectionInit
<1>2. Searching
  BY <1>1 DEF Searching, Manufacturers, Eltako
<1>3. type \notin FoundTypes
  BY <1>1 DEF FoundTypes, ListTypes, EltakoTypes, IskraTypes
<1>4. DetectionIsRight
  BY <1>1, MetersAre DEF DetectionIsRight
<1>5. attached \in DOMAIN MeterOf \cup {"nothing"}
  BY DetectionAssumption DEF Init, DetectionInit
<1> QED
  BY <1>1, <1>2, <1>3, <1>4, <1>5 DEF IInv

-----------------------------------------------------------------------------
\* meter_find_meter_type, by the step of the is_connected function in turn.
LEMMA FindHolds ==
  ASSUME IInv, type = "UNKNOWN", FindMeterType, UNCHANGED <<attached, meter_state, iskraVars>>
  PROVE  IInv' /\ Protocol
<1> USE DEF Settled, Modbus!Settled
<1>1. Searching
  BY DEF IInv
<1>2. CASE find_state \notin Manufacturers
  <2>1. request = "none" /\ find_state' = 0 /\ UNCHANGED <<requestVars, type, step>>
    BY <1>1, <1>2 DEF FindMeterType, Searching
  <2>2. Searching'
    BY <1>1, <1>2, <2>1 DEF Searching, Manufacturers, requestVars, iskraVars
  <2> QED
    BY <2>1, <2>2 DEF IInv, Protocol, requestVars, DetectionIsRight, FoundTypes, ListTypes,
                      EltakoTypes, IskraTypes
<1>3. CASE find_state \in Manufacturers
  <2> DEFINE m == find_state
             s == step[find_state]
  <2>1. s \in 0 .. 7 /\ m \in Manufacturers /\ Eltako \in Manufacturers
    BY <1>1, <1>3 DEF Searching, Eltako, Manufacturers
  <2>2. CASE s % 2 = 0
    <3>1. request = "none" /\ s \in {0, 2, 4, 6}
      BY <1>1, <2>1, <2>2, Parity DEF Searching
    <3>2. /\ request' = "waiting" /\ query'[1] = m /\ type' = type /\ find_state' = find_state
          /\ step' = [step EXCEPT ![m] = s + 1]
      BY <1>3, <2>2 DEF FindMeterType, Begin, Ongoing
    <3>3. Searching'
      BY <1>1, <2>1, <3>1, <3>2 DEF Searching, iskraVars
    <3> QED
      BY <3>1, <3>2, <3>3
         DEF IInv, Protocol, Modbus!Start, DetectionIsRight, FoundTypes, ListTypes,
             EltakoTypes, IskraTypes
  <2>3. CASE s % 2 = 1 /\ request \notin Settled
    <3>1. UNCHANGED <<requestVars, step, type, find_state>>
      BY <1>3, <2>3 DEF FindMeterType, Ongoing
    <3> QED
      BY <3>1 DEF requestVars, IInv, Searching, Driving, Protocol, DetectionIsRight, iskraVars
  <2>4. CASE s % 2 = 1 /\ request \in Settled
    <3>1. /\ s \in {1, 3, 5, 7} /\ query[1] = m
          /\ \A n \in Manufacturers \ {m} : step[n] \in {0, 2, 4, 6}
          /\ request # "none"
      BY <1>1, <2>1, <2>4, Parity DEF Searching
    <3>2. request' = "none" /\ Protocol
      BY <1>3, <2>4 DEF FindMeterType, ClearRequest, Protocol, Modbus!Clear
    <3>3. \/ Named \in {"nothing", "foreign"}
          \/ Named = attached /\ attached \in DOMAIN MeterOf /\ MeterOf[attached] = m
      BY <3>1 DEF IInv, Named
    <3>4. CASE m # Eltako
      <4>1. step' = [step EXCEPT ![m] = 0] /\ Found(TypeOf(Named))
        BY <1>1, <1>3, <2>4, <3>1, <3>4 DEF FindMeterType, Searching
      <4>2. IF TypeOf(Named) = "UNKNOWN" THEN type' = "UNKNOWN" /\ find_state' = m + 1
            ELSE type' = TypeOf(Named)
        BY <4>1 DEF Found
      <4>3. CASE TypeOf(Named) = "UNKNOWN"
        <5>1. Searching'
          BY <1>1, <2>1, <3>1, <3>2, <3>4, <4>1, <4>2, <4>3
             DEF Searching, iskraVars, Manufacturers, Eltako, EltakoTypes
        <5> QED
          BY <3>2, <4>2, <4>3, <5>1, MetersAre
             DEF IInv, DetectionIsRight, FoundTypes, ListTypes, EltakoTypes, IskraTypes
      <4>4. CASE TypeOf(Named) # "UNKNOWN"
        <5>1. /\ attached \in DOMAIN MeterOf
              /\ type' = IF attached = "SDM72V1" THEN "UNSUPPORTED" ELSE attached
          BY <3>3, <4>2, <4>4, MetersAre DEF TypeOf
        <5>2. type' \in FoundTypes => Driving'
          BY <1>1, <3>2, DrivingBegins DEF Searching, iskraVars
        <5> QED
          BY <3>2, <5>1, <5>2, MetersAre
             DEF IInv, DetectionIsRight, FoundTypes, ListTypes, EltakoTypes, IskraTypes
      <4> QED
        BY <4>3, <4>4
    <3>5. CASE m = Eltako
      <4>1. EltakoResponse(s)
        BY <1>1, <1>3, <2>4, <3>1, <3>5 DEF FindMeterType, Searching
      <4>2. \/ Named \in {"nothing", "foreign"}
            \/ Named = attached /\ attached \in EltakoTypes
        BY <3>3, <3>5, MetersAre
      <4>3. CASE s = 1 /\ Named \notin EltakoTypes
        <5>1. step' = [step EXCEPT ![Eltako] = 0] /\ type' = "UNKNOWN" /\ find_state' = m + 1
          BY <4>1, <4>3 DEF EltakoResponse, Found
        <5>2. Searching'
          BY <1>1, <2>1, <3>1, <3>2, <3>5, <5>1
             DEF Searching, iskraVars, Manufacturers, Eltako, EltakoTypes
        <5> QED
          BY <3>2, <5>1, <5>2, MetersAre
             DEF IInv, DetectionIsRight, FoundTypes, ListTypes, EltakoTypes, IskraTypes
      <4>4. CASE \/ s = 1 /\ Named \in EltakoTypes
                 \/ s = 3 /\ Named = "DSZ16DZE"
                 \/ s = 5
        <5>1. /\ step' = [step EXCEPT ![Eltako] = s + 1] /\ type' = type
              /\ find_state' = find_state
          BY <4>1, <4>4 DEF EltakoResponse, Ongoing
        <5>2. s + 1 \in {2, 4, 6} /\ attached \in EltakoTypes
              /\ (s + 1 >= 4 => attached = "DSZ16DZE")
          BY <1>1, <3>5, <4>2, <4>4 DEF Searching, Eltako, EltakoTypes
        <5>3. Searching'
          BY <1>1, <2>1, <3>1, <3>2, <3>5, <5>1, <5>2
             DEF Searching, iskraVars, Manufacturers, Eltako, EltakoTypes
        <5> QED
          BY <3>2, <5>1, <5>3, MetersAre
             DEF IInv, DetectionIsRight, FoundTypes, ListTypes, EltakoTypes, IskraTypes
      <4>5. CASE (s = 3 /\ Named # "DSZ16DZE") \/ s = 7
        <5>1. type' = (IF s = 3 THEN "DSZ15DZMOD" ELSE "DSZ16DZE")
          BY <4>1, <4>5 DEF EltakoResponse, Found
        <5>2. attached \in EltakoTypes /\ (s = 7 => attached = "DSZ16DZE")
          BY <1>1, <3>5, <4>5 DEF Searching
        <5>3. Driving'
          BY <1>1, <3>2, DrivingBegins DEF Searching, iskraVars
        <5>4. DetectionIsRight'
          BY <4>5, <5>1, <5>2 DEF DetectionIsRight, EltakoTypes
        <5>5. type' \in EltakoTypes
          BY <5>1 DEF EltakoTypes
        <5> QED
          BY <3>2, <5>3, <5>4, <5>5 DEF IInv, FoundTypes, EltakoTypes
      <4> QED
        BY <3>1, <4>3, <4>4, <4>5
    <3> QED
      BY <3>2, <3>4, <3>5
  <2> QED
    BY <2>1, <2>2, <2>3, <2>4, Parity
<1> QED
  BY <1>2, <1>3
-----------------------------------------------------------------------------
\* The drivers.  What they share: the type stays, and an answer is to the last
\* request.
LEMMA DriverStep ==
  ASSUME IInv, type \in FoundTypes, Driving',
         UNCHANGED <<attached, type>>,
         \/ request' = request /\ query' = query
         \/ request = "none" /\ request' = "waiting"
         \/ request \in Settled /\ request' = "none"
  PROVE  IInv' /\ Protocol
<1>1. type # "UNKNOWN" /\ type # "UNSUPPORTED"
  BY DEF FoundTypes, ListTypes, EltakoTypes, IskraTypes
<1> QED
  BY <1>1 DEF IInv, DetectionIsRight, Protocol, Modbus!Start, Modbus!Clear, Settled, Modbus!Settled

\* No type of meter has two drivers.
LEMMA TypesDiffer ==
  /\ ListTypes \cap EltakoTypes = {} /\ ListTypes \cap IskraTypes = {}
  /\ EltakoTypes \cap IskraTypes = {}
  BY DEF ListTypes, EltakoTypes, IskraTypes

\* meter_generic_tick and meter_eastron_tick
LEMMA ListHolds ==
  ASSUME IInv, type \in ListTypes, GenericTick \/ EastronTick, UNCHANGED <<attached, type>>
  PROVE  IInv' /\ Protocol
<1> USE DEF Settled, Modbus!Settled
<1>1. meter_state \in 0 .. 8 /\ (meter_state \in {1, 3, 5, 7} <=> request # "none")
  BY DEF IInv, Driving, FoundTypes
<1>2. type \in FoundTypes /\ type \notin EltakoTypes /\ type \notin IskraTypes
  BY TypesDiffer DEF FoundTypes
<1>3. CASE /\ meter_state \in {0, 2, 4, 6} /\ meter_state' = meter_state + 1
           /\ request' = "waiting"
  <2>1. Driving'
    BY <1>1, <1>2, <1>3 DEF Driving
  <2> QED
    BY <1>1, <1>2, <1>3, <2>1, DriverStep
<1>4. CASE /\ meter_state \in {1, 3, 5, 7} /\ meter_state' \in {0, 2, 4, 6, 8}
           /\ request \in Settled /\ request' = "none"
  <2>1. Driving'
    BY <1>1, <1>2, <1>4 DEF Driving
  <2> QED
    BY <1>2, <1>4, <2>1, DriverStep
<1>5. CASE /\ \/ meter_state' = meter_state
              \/ meter_state \in {2, 4, 6, 8} /\ meter_state' = 0
           /\ request' = request /\ query' = query
  <2>1. Driving'
    BY <1>1, <1>2, <1>5 DEF Driving
  <2> QED
    BY <1>2, <1>5, <2>1, DriverStep
<1>6. CASE ListRequest
  BY <1>3, <1>6 DEF ListRequest, Ask, Begin
<1>7. CASE ListResponse
  BY <1>4, <1>7 DEF ListResponse, TakeFast, TakeFull, ClearRequest, ResponseReady
<1>8. CASE ListNotDone \/ GenericDone \/ Waits({1}) \/ Waits({1, 3, 5, 7})
  BY <1>5, <1>8 DEF ListNotDone, GenericDone, Waits, requestVars
<1>9. CASE EastronSystemType
  <2>1. ASSUME NEW from \in {2, 4, 6}, NEW what, NEW to \in {3, 5, 7}, to = from + 1, EastronAsk(from, what, to)
        PROVE  IInv' /\ Protocol
    BY <1>3, <2>1 DEF EastronAsk, Ask, Begin
  <2>2. ASSUME NEW from \in {3, 5, 7}, NEW to \in {4, 6, 8}, to = from + 1, EastronResponse(from, to)
        PROVE  IInv' /\ Protocol
    BY <1>4, <2>2 DEF EastronResponse, ResponseReady, ClearRequest
  <2>3. CASE EastronAsk(2, "system type", 3)
    <3>1. meter_state = 2 /\ meter_state' = 3 /\ request' = "waiting"
      BY <2>3, Zenon DEF EastronAsk, Ask, Begin
    <3> QED
      BY <1>3, <3>1
  <2>4. CASE EastronAsk(4, "password", 5)
    BY <2>1, <2>4
  <2>5. CASE \E t \in Fitting(phases_connected) : EastronAsk(6, t, 7)
    BY <2>1, <2>5
  <2>7. CASE EastronResponse(3, 4) \/ EastronResponse(5, 6) \/ EastronResponse(7, 8)
    BY <2>2, <2>7
  <2>6. CASE /\ meter_state \in {4, 6, 8} /\ meter_state' = 0 /\ UNCHANGED requestVars
    BY <1>5, <2>6 DEF requestVars
  <2> QED
    BY <1>9, <2>3, <2>4, <2>5, <2>6, <2>7 DEF EastronSystemType
<1> QED
  BY <1>6, <1>7, <1>8, <1>9 DEF GenericTick, EastronTick

\* meter_eltako_tick, which clears its request only when the data is handled.
LEMMA EltakoHolds ==
  ASSUME IInv, type \in EltakoTypes, EltakoTick, UNCHANGED <<attached, type>>
  PROVE  IInv' /\ Protocol
<1> USE DEF Settled, Modbus!Settled
<1>1. /\ meter_state \in 0 .. 3
      /\ meter_state \in {0, 3} => request = "none"
      /\ meter_state = 1 => request # "none"
      /\ meter_state = 2 => request \in Settled
  BY DEF IInv, Driving, FoundTypes
<1>2. type \in FoundTypes /\ type \notin ListTypes /\ type \notin IskraTypes
  BY TypesDiffer DEF FoundTypes
<1>3. CASE EltakoRequest
  <2>1. meter_state = 0 /\ meter_state' = 1 /\ request' = "waiting"
    BY <1>3 DEF EltakoRequest, Ask, Begin
  <2>2. Driving'
    BY <1>2, <2>1 DEF Driving
  <2> QED
    BY <1>1, <1>2, <2>1, <2>2, DriverStep
<1>4. CASE EltakoResponseRead
  <2>1. meter_state' = 2 /\ request \in Settled /\ request' = request /\ query' = query
    BY <1>4 DEF EltakoResponseRead, ResponseReady, requestVars
  <2>2. Driving'
    BY <1>2, <2>1 DEF Driving
  <2> QED
    BY <1>2, <2>1, <2>2, DriverStep
<1>5. CASE EltakoHandleData
  <2>1. \/ meter_state' = meter_state /\ request' = request /\ query' = query
        \/ meter_state' = 3 /\ request' = "none"
    BY <1>5 DEF EltakoHandleData, ClearRequest, requestVars
  <2>2. meter_state = 2
    BY <1>5 DEF EltakoHandleData
  <2>3. Driving'
    BY <1>1, <1>2, <2>1, <2>2 DEF Driving
  <2> QED
    BY <1>1, <1>2, <2>1, <2>2, <2>3, DriverStep
<1>6. CASE EltakoCalculate
  <2>1. meter_state = 3 /\ meter_state' \in {0, 3} /\ request' = request /\ query' = query
    BY <1>6 DEF EltakoCalculate, requestVars
  <2>2. Driving'
    BY <1>1, <1>2, <2>1 DEF Driving
  <2> QED
    BY <1>2, <2>1, <2>2, DriverStep
<1>7. CASE Waits({1})
  <2>1. meter_state = 1 /\ meter_state' = 1 /\ request' = request /\ query' = query
    BY <1>7 DEF Waits, requestVars
  <2>2. Driving'
    BY <1>1, <1>2, <2>1 DEF Driving
  <2> QED
    BY <1>2, <2>1, <2>2, DriverStep
<1> QED
  BY <1>3, <1>4, <1>5, <1>6, <1>7 DEF EltakoTick

\* meter_iskra_tick: the fast read is due only when no other request is under
\* way.
LEMMA IskraHolds ==
  ASSUME IInv, type \in IskraTypes, IskraTick, UNCHANGED <<attached, type>>
  PROVE  IInv' /\ Protocol
<1> USE DEF Settled, Modbus!Settled
<1>1. meter_state \in 0 .. 8 /\ fast_active \in BOOLEAN /\ fast_state \in 0 .. 3
  BY DEF IInv, Driving, FoundTypes
<1>2. type \in FoundTypes /\ type \notin ListTypes /\ type \notin EltakoTypes
  BY TypesDiffer DEF FoundTypes
<1>3. fast_active => meter_state = 0 /\ (fast_state \in {1, 3} <=> request # "none")
  BY <1>2 DEF IInv, Driving
<1>4. ~fast_active => fast_state = 0 /\ (meter_state \in {1, 4, 6} <=> request # "none")
  BY <1>2 DEF IInv, Driving
<1>5. CASE FastDue /\ IskraFastTick /\ meter_state' = meter_state
  <2>1. meter_state = 0 /\ meter_state' = 0
    BY <1>3, <1>5 DEF FastDue
  <2>2. fast_state \in {1, 3} <=> request # "none"
    <3>1. CASE fast_active
      BY <1>3, <3>1
    <3>2. CASE ~fast_active
      BY <1>4, <2>1, <3>2
    <3> QED
      BY <3>1, <3>2
  <2>3. CASE /\ \/ fast_state = 0 /\ fast_state' = 1 /\ fast_active' = TRUE
                \/ fast_state = 2 /\ fast_state' = 3 /\ fast_active' = fast_active
             /\ request' = "waiting"
    <3>1. fast_active' = TRUE
      BY <1>1, <1>4, <2>3
    <3>2. fast_active' \in BOOLEAN /\ fast_active'
      BY <3>1
    <3>3. fast_state' \in {1, 3} /\ fast_state' \in 0 .. 3 /\ request' # "none"
          /\ meter_state' \in 0 .. 8
      BY <2>1, <2>3
    <3>4. Driving'
      BY <1>2, <2>1, <3>2, <3>3 DEF Driving
    <3> QED
      BY <1>2, <2>2, <2>3, <3>4, DriverStep
  <2>4. CASE /\ fast_state \in {1, 3} /\ request \in Settled /\ request' = "none"
             /\ \/ fast_state = 1 /\ fast_state' = 2 /\ fast_active' = fast_active
                \/ fast_state = 3 /\ fast_state' = 0 /\ fast_active' = FALSE
    <3>1. fast_active = TRUE
      BY <1>1, <1>4, <2>4
    <3>2. CASE fast_state' = 2 /\ fast_active' = TRUE
      <4>1. fast_active' \in BOOLEAN /\ fast_active'
        BY <3>2
      <4>2. fast_state' \notin {1, 3} /\ fast_state' \in 0 .. 3 /\ meter_state' \in 0 .. 8
            /\ request' = "none"
        BY <2>1, <2>4, <3>2
      <4>3. Driving'
        BY <1>2, <2>1, <4>1, <4>2 DEF Driving
      <4> QED
        BY <1>2, <2>4, <4>3, DriverStep
    <3>3. CASE fast_state' = 0 /\ fast_active' = FALSE
      <4>1. Driving'
        BY <2>1, <2>4, <3>3, DrivingBegins
      <4> QED
        BY <1>2, <2>4, <4>1, DriverStep
    <3>4. \/ fast_state' = 2 /\ fast_active' = TRUE
          \/ fast_state' = 0 /\ fast_active' = FALSE
      BY <2>4, <3>1
    <3> QED
      BY <3>2, <3>3, <3>4
  <2>5. CASE UNCHANGED <<requestVars, fast_state, fast_active>>
    <3>1. Driving'
      BY <1>2, <1>5, <2>5 DEF Driving, IInv, requestVars
    <3> QED
      BY <1>2, <2>5, <3>1, DriverStep DEF requestVars
  <2> QED
    <3>1. ASSUME NEW what, Ask(what) PROVE request' = "waiting"
      BY <3>1 DEF Ask, Begin
    <3> QED
      BY <1>5, <2>3, <2>4, <2>5, <3>1, Zenon DEF IskraFastTick, ClearRequest, ResponseReady
<1>6. CASE ~FastDue /\ IskraFullTick /\ UNCHANGED <<fast_active, fast_state>>
  <2>1. fast_active = FALSE
    BY <1>1, <1>6 DEF FastDue
  <2>2. /\ fast_active' \in BOOLEAN /\ ~fast_active'
        /\ fast_state' = 0
        /\ meter_state \in {1, 4, 6} <=> request # "none"
    BY <1>4, <1>6, <2>1
  <2>3. fast_state' \in 0 .. 3
    BY <2>2
  <2>4. ASSUME meter_state' \in 0 .. 8, meter_state' \in {1, 4, 6} <=> request' # "none"
        PROVE  Driving'
    BY <1>2, <2>2, <2>3, <2>4 DEF Driving
  <2>5. CASE /\ meter_state \in {0, 3, 5} /\ meter_state' = meter_state + 1
             /\ request' = "waiting"
    <3>1. meter_state' \in {1, 4, 6} /\ meter_state' \in 0 .. 8 /\ meter_state \notin {1, 4, 6}
      BY <2>5
    <3> QED
      BY <1>2, <2>2, <2>4, <2>5, <3>1, DriverStep
  <2>6. CASE /\ meter_state \in {1, 4, 6} /\ meter_state' \in {2, 5, 7}
             /\ request \in Settled /\ request' = "none"
    <3>1. meter_state' \notin {1, 4, 6} /\ meter_state' \in 0 .. 8
      BY <2>6
    <3> QED
      BY <1>2, <2>4, <2>6, <3>1, DriverStep
  <2>7. CASE /\ \/ meter_state \in {2, 7} /\ meter_state' \in {0, 3}
                \/ meter_state' = meter_state
             /\ UNCHANGED requestVars
    <3>1. /\ meter_state' \in {1, 4, 6} <=> meter_state \in {1, 4, 6}
          /\ meter_state' \in 0 .. 8
          /\ request' = request /\ query' = query
      BY <1>1, <2>7 DEF requestVars
    <3> QED
      BY <1>2, <2>2, <2>4, <3>1, DriverStep
  <2> QED
    BY <1>6, <2>5, <2>6, <2>7 DEF IskraFullTick, Ask, Begin, ClearRequest, ResponseReady
<1> QED
  BY <1>5, <1>6 DEF IskraTick
-----------------------------------------------------------------------------
\* A step that leaves alone all that the invariant is about.
LEMMA StutterHolds ==
  ASSUME IInv, UNCHANGED <<attached, request, query, findVars, meter_state, iskraVars>>
  PROVE  IInv' /\ Protocol
BY DEF IInv, Searching, Driving, DetectionIsRight, Protocol, findVars, iskraVars

\* The driver that meter_tick calls.
LEMMA DriveIs ==
  ASSUME IInv, ~MustWait, Drive
  PROVE  /\ type \in FoundTypes
         /\ \/ type \in ListTypes /\ (GenericTick \/ EastronTick)
            \/ type \in EltakoTypes /\ EltakoTick
            \/ type \in IskraTypes /\ IskraTick
<1>1. type # "UNKNOWN" /\ type # "UNSUPPORTED"
  BY DEF Drive, MustWait
<1>2. type \in FoundTypes
  BY <1>1 DEF IInv
<1>3. CASE type = "DEM4A"
  BY <1>2, <1>3 DEF Drive, IskraTypes, EltakoTypes, ListTypes
<1>4. CASE type \in {"SDM72V2", "SDM630", "SDM630MCTV2"}
  <2>1. EastronTick
    BY <1>4 DEF Drive, IskraTypes, EltakoTypes
  <2> QED
    BY <1>2, <1>4, <2>1 DEF ListTypes
<1>5. CASE type \in IskraTypes
  <2>1. IskraTick
    BY <1>5 DEF Drive, IskraTypes, EltakoTypes
  <2> QED
    BY <1>2, <1>5, <2>1
<1>6. CASE type \in EltakoTypes
  <2>1. EltakoTick
    BY <1>6 DEF Drive, IskraTypes, EltakoTypes
  <2> QED
    BY <1>2, <1>6, <2>1
<1> QED
  BY <1>2, <1>3, <1>4, <1>5, <1>6 DEF FoundTypes, ListTypes

\* meter_tick
LEMMA TickHolds ==
  ASSUME IInv, MeterTick
  PROVE  IInv' /\ Protocol
<1>1. UNCHANGED attached
  BY DEF MeterTick, busVars
<1>2. CASE /\ MustWait
           /\ UNCHANGED <<requestVars, type, find_state, step, meter_state, timerVars,
                          listVars, systemVars, iskraVars>>
  BY <1>1, <1>2, StutterHolds DEF requestVars, findVars
<1>3. CASE Find
  BY <1>1, <1>3, FindHolds DEF Find
<1>4. CASE ~MustWait /\ Drive
  <2>1. UNCHANGED <<attached, type>>
    BY <1>1, <1>4 DEF Drive
  <2> QED
    BY <1>4, <2>1, DriveIs, ListHolds, EltakoHolds, IskraHolds
<1> QED
  BY <1>2, <1>3, <1>4 DEF MeterTick

\* The bus settles a request: an answer comes from a meter.
LEMMA BusHolds ==
  ASSUME IInv, BusSettles
  PROVE  IInv' /\ Protocol
<1>1. /\ request = "waiting" /\ request' \in Settled
      /\ UNCHANGED <<query, attached, type, find_state, step, meter_state, iskraVars>>
  BY DEF BusSettles, Settling, HealthyOutcomes, Heard, Settled, Modbus!Settled, busVars, findVars
<1>2. request' = "answer" => attached \in DOMAIN MeterOf
  BY DEF BusSettles, Settling, HealthyOutcomes, Heard, IInv
<1>3. request # "none" /\ request' # "none" /\ request \notin Settled
  BY <1>1 DEF Settled, Modbus!Settled
<1>4. Searching => Searching'
  BY <1>1, <1>3 DEF Searching, iskraVars
<1>5. Driving => Driving'
  BY <1>1, <1>3 DEF Driving, iskraVars
<1> QED
  BY <1>1, <1>2, <1>4, <1>5
     DEF IInv, DetectionIsRight, Protocol, Modbus!Settle, Settled, Modbus!Settled

\* Every step keeps the invariant and is a step of ModbusRequest.
LEMMA StepHolds == IInv /\ [Next]_vars => IInv' /\ [Modbus!Start \/ Modbus!Settle \/ Modbus!Clear]_request
<1> SUFFICES ASSUME IInv, [Next]_vars PROVE IInv' /\ Protocol
  BY DEF Protocol
<1>1. CASE BusRecovers
  BY <1>1, StutterHolds DEF BusRecovers, Recover, requestVars
<1>2. CASE TimePasses
  BY <1>2, StutterHolds DEF TimePasses, busVars
<1>3. CASE UNCHANGED vars
  BY <1>3, StutterHolds DEF vars, requestVars, busVars
<1> QED
  BY <1>1, <1>2, <1>3, TickHolds, BusHolds DEF Next

\* meter_find_meter_type and the drivers start a Modbus request only when the
\* one before is cleared, and clear it only when it is settled, for every
\* meter, register list and timing.
THEOREM RequestsFollowProtocol == Spec => RequestProtocol
<1>1. Init => request = "none"
  BY DEF Init, DetectionInit
<1> QED
  BY <1>1, InitHolds, StepHolds, PTL DEF Spec, RequestProtocol, Modbus!Spec

\* meter_find_meter_type finds the meter that is on the bus or none, whatever
\* is lost or refused, but for Eltako's default.
THEOREM DetectionCorrect == Spec => []DetectionIsRight
<1>1. IInv => DetectionIsRight
  BY DEF IInv
<1> QED
  BY <1>1, InitHolds, StepHolds, PTL DEF Spec

-----------------------------------------------------------------------------
(* The types.  What IInv does not say yet, by who keeps it: the bus, the   *)
(* detection, meter_tick, the walks over the list and the system types.    *)

BusFields ==
  /\ attached \in Attached /\ disturbed \in BOOLEAN
  /\ reqAge \in 0 .. TIMEOUT
  /\ wiring \in Wirings /\ configured \in {"1P2W", "3P4W"}

FindFields == find_state \in 0 .. 4 /\ step \in [Manufacturers -> 0 .. 7]

TickFields ==
  /\ meter_state \in 0 .. 8 /\ last_state \in 0 .. 8 \cup {255}
  /\ sinceChange \in 0 .. WATCHDOG /\ firstTick \in NoWait .. FIRST_WAIT
  /\ errorWait \in NoWait .. ERROR_WAIT /\ ticked \in BOOLEAN

\* Only a list is walked by fast reads, and only once they were due, which keeps
\* register_fast_time from getting ahead of now.
FastFields ==
  /\ sinceFast \in 0 .. SINCE /\ fast_pos \in DOMAIN FastRead
  /\ read_fast \in BOOLEAN /\ (read_fast => type \in ListTypes /\ sinceFast >= FAST)

\* eltako_data_i counts the registers first and the computed values then; the
\* others' register_full_position is a place in the list.
FullFields ==
  /\ full_pos \in Nat \ {0} /\ each_value_read_once \in BOOLEAN
  /\ volts \in {"unset", "read", "garbage"}
  /\ data_new \in BOOLEAN
  /\ type \in {"UNKNOWN", "UNSUPPORTED"} => full_pos = 1
  /\ type \in ListTypes \cup IskraTypes => full_pos \in DOMAIN FastRead
  /\ type \in EltakoTypes =>
       IF meter_state = 2 THEN full_pos <= Len(FastRead) + 1
       ELSE IF meter_state = 3 /\ data_new THEN full_pos <= CALC_STEPS + 1
       ELSE full_pos = 1

SystemFields ==
  /\ phases_connected \in {"none", "one", "three", "other"}
  /\ system_type_read \in {"zero", "1P2W", "3P4W"} /\ new_system_type \in BOOLEAN
  /\ fast_active \in BOOLEAN /\ fast_state \in 0 .. 3

Fields == BusFields /\ FindFields /\ TickFields /\ FastFields /\ FullFields /\ SystemFields

\* What the constants are, as the provers need it.
LEMMA ConstantsAre ==
  /\ {FIRST_WAIT, ERROR_WAIT, FAST, INTERVAL, WATCHDOG, LATENCY, CALC_STEPS} \subseteq Nat
  /\ FIRST_WAIT \in Nat /\ ERROR_WAIT \in Nat /\ FAST \in Nat /\ INTERVAL \in Nat
  /\ WATCHDOG \in Nat /\ LATENCY \in Nat /\ CALC_STEPS \in Nat
  /\ TIMEOUT \in Nat /\ TIMEOUT > 0 /\ LATENCY <= TIMEOUT /\ NoWait = -1
  /\ SINCE \in Nat /\ 2 * FAST <= SINCE /\ INTERVAL <= SINCE
<1>1. /\ {FIRST_WAIT, ERROR_WAIT, FAST, INTERVAL, WATCHDOG, LATENCY, CALC_STEPS} \subseteq Nat
      /\ TIMEOUT \in Nat /\ TIMEOUT > 0 /\ LATENCY <= TIMEOUT /\ NoWait = -1
  BY DriverAssumption, DetectionAssumption DEF NoWait
<1>2. \A a, b \in Nat : LET m == Max({a, b}) IN m \in Nat /\ a <= m /\ b <= m
  <2> SUFFICES ASSUME NEW a \in Nat, NEW b \in Nat
               PROVE  LET m == Max({a, b}) IN m \in Nat /\ a <= m /\ b <= m
    OBVIOUS
  <2>1. \E x \in {a, b} : \A y \in {a, b} : x >= y
    OBVIOUS
  <2>2. Max({a, b}) \in {a, b} /\ \A y \in {a, b} : Max({a, b}) >= y
    BY <2>1, Zenon DEF Max
  <2> QED
    BY <2>2
<1>3. 2 * FAST \in Nat /\ INTERVAL \in Nat
  BY <1>1
<1> QED
  BY <1>1, <1>2, <1>3, Zenon DEF SINCE

\* A clock that stops at its cap.
LEMMA CappedIs ==
  ASSUME NEW cap \in Nat, NEW age \in Int, age <= cap
  PROVE  /\ Capped(age, cap) \in Int /\ age <= Capped(age, cap)
         /\ Capped(age, cap) <= cap /\ Capped(age, cap) <= age + 1
BY DEF Capped

\* The list has a first register, and the walks stay in it.
LEMMA ListIs ==
  /\ Len(FastRead) \in Nat /\ Len(FastRead) >= 1 /\ DOMAIN FastRead = 1 .. Len(FastRead)
  /\ 1 \in DOMAIN FastRead
BY ListAssumption

\* After meter_init all is zero.
LEMMA FieldsInit == Init => Fields
<1> SUFFICES ASSUME Init PROVE Fields
  OBVIOUS
<1>1. BusFields /\ FindFields
  BY ConstantsAre, DriverAssumption DEF Init, DetectionInit, BusFields, FindFields
<1>2. /\ meter_state \in 0 .. 8 /\ last_state \in 0 .. 8 \cup {255}
      /\ sinceChange \in 0 .. WATCHDOG /\ firstTick \in NoWait .. FIRST_WAIT
      /\ errorWait \in NoWait .. ERROR_WAIT
      /\ sinceFast \in 0 .. SINCE /\ fast_pos \in DOMAIN FastRead /\ full_pos = 1
      /\ full_pos \in Nat \ {0} /\ full_pos \in DOMAIN FastRead
      /\ fast_state \in 0 .. 3
  <2>1. /\ meter_state = 0 /\ last_state = 255 /\ sinceChange = 0 /\ firstTick = 0
        /\ errorWait = NoWait /\ sinceFast = 0 /\ fast_pos = 1 /\ full_pos = 1 /\ fast_state = 0
    BY Zenon DEF Init
  <2> QED
    BY <2>1, ConstantsAre, ListIs
<1>3. {read_fast, each_value_read_once, new_system_type, fast_active, data_new, ticked} \subseteq {FALSE}
  BY Zenon DEF Init
<1>4. TickFields
  BY <1>2, <1>3, Zenon DEF TickFields
<1>5. FastFields
  BY <1>2, <1>3, Zenon DEF FastFields
<1>6. type \notin ListTypes \cup IskraTypes \cup EltakoTypes
  BY DEF Init, DetectionInit, ListTypes, IskraTypes, EltakoTypes
<1>7. FullFields
  BY <1>2, <1>3, <1>6, Zenon DEF FullFields, Init
<1>8. SystemFields
  BY <1>2, <1>3, Zenon DEF SystemFields, Init
<1> QED
  BY <1>1, <1>4, <1>5, <1>7, <1>8 DEF Fields

\* What meter_tick calls, as far as it is common to the lemmas that follow.
LEMMA TickIs ==
  ASSUME IInv, MeterTick
  PROVE  \/ UNCHANGED <<requestVars, findVars, meter_state, timerVars, listVars, systemVars, iskraVars>>
         \/ type = "UNKNOWN" /\ Find
         \/ /\ UNCHANGED findVars /\ type \in FoundTypes
            /\ \/ type \in ListTypes /\ (GenericTick \/ EastronTick)
               \/ type \in EltakoTypes /\ EltakoTick
               \/ type \in IskraTypes /\ IskraTick
<1>1. CASE /\ MustWait
           /\ UNCHANGED <<requestVars, type, find_state, step, meter_state, timerVars,
                          listVars, systemVars, iskraVars>>
  BY <1>1 DEF findVars
<1>2. CASE Find
  BY <1>2 DEF Find
<1>3. CASE ~MustWait /\ Drive
  <2>1. UNCHANGED findVars
    BY <1>3 DEF Drive, findVars
  <2> QED
    BY <1>3, <2>1, DriveIs
<1> QED
  BY <1>1, <1>2, <1>3 DEF MeterTick

\* A tick leaves the request's age or begins a new one, and leaves the bus alone.
LEMMA BusStep ==
  ASSUME IInv, BusFields, [Next]_vars
  PROVE  BusFields'
<1> USE ConstantsAre
<1>1. CASE MeterTick
  <2>1. UNCHANGED <<busVars, worldVars>>
    BY <1>1 DEF MeterTick
  <2>2. ASSUME NEW what, Ask(what) PROVE reqAge' = 0
    BY <2>2 DEF Ask, Begin
  <2>3. Find => reqAge' = 0 \/ reqAge' = reqAge
    BY DEF Find, FindMeterType, Begin, ClearRequest, requestVars
  <2>4. GenericTick \/ EastronTick => reqAge' = 0 \/ reqAge' = reqAge
    BY <2>2, Zenon
       DEF GenericTick, EastronTick, ListRequest, ListResponse, ListNotDone, GenericDone, Waits,
           EastronSystemType, EastronAsk, EastronResponse, ClearRequest, requestVars
  <2>5. EltakoTick => reqAge' = 0 \/ reqAge' = reqAge
    BY <2>2, Zenon
       DEF EltakoTick, EltakoRequest, EltakoResponseRead, EltakoHandleData, EltakoCalculate, Waits,
           ClearRequest, requestVars
  <2>6. IskraTick => reqAge' = 0 \/ reqAge' = reqAge
    BY <2>2, Zenon DEF IskraTick, IskraFastTick, IskraFullTick, ClearRequest, requestVars
  <2>7. reqAge' = 0 \/ reqAge' = reqAge
    BY <1>1, <2>3, <2>4, <2>5, <2>6, TickIs DEF requestVars
  <2> QED
    BY <2>1, <2>7 DEF BusFields, busVars, worldVars
<1>2. CASE BusSettles
  BY <1>2 DEF BusSettles, Settling, BusFields, busVars
<1>3. CASE BusRecovers
  BY <1>3 DEF BusRecovers, Recover, BusFields, worldVars, requestVars
<1>4. CASE TimePasses
  <2>1. request = "waiting" => reqAge < TIMEOUT
    BY <1>4 DEF TimePasses, Deadline, BusFields
  <2>2. reqAge' \in 0 .. TIMEOUT
    BY <1>4, <2>1 DEF TimePasses, BusFields
  <2> QED
    BY <1>4, <2>2 DEF TimePasses, BusFields, busVars, worldVars
<1>5. CASE UNCHANGED vars
  BY <1>5 DEF vars, BusFields, busVars, worldVars, requestVars
<1> QED
  BY <1>1, <1>2, <1>3, <1>4, <1>5 DEF Next

\* The detection's own state machines.
LEMMA FindStep ==
  ASSUME IInv, FindFields, [Next]_vars
  PROVE  FindFields'
<1>1. CASE type = "UNKNOWN" /\ Find
  <2>1. \A m \in Manufacturers : step[m] \in 0 .. 7 /\ (step[m] % 2 = 0 => step[m] + 1 \in 0 .. 7)
    <3>1. \A n \in 0 .. 7 : n % 2 = 0 => n + 1 \in 0 .. 7
      OBVIOUS
    <3> QED
      BY <3>1 DEF FindFields
  <2>2. \A m \in Manufacturers : m \in 0 .. 3 /\ m + 1 \in 0 .. 4
    BY DEF Manufacturers
  <2>3. Eltako \in Manufacturers
    BY DEF Eltako, Manufacturers
  <2>4. step' \in [Manufacturers -> 0 .. 7]
    BY <1>1, <2>1, <2>3 DEF Find, FindMeterType, EltakoResponse, FindFields
  <2>5. find_state' \in 0 .. 4
    BY <1>1, <2>2, <2>3 DEF Find, FindMeterType, EltakoResponse, Found, Ongoing, FindFields
  <2> QED
    BY <2>4, <2>5 DEF FindFields
<1>2. CASE UNCHANGED findVars
  BY <1>2 DEF findVars, FindFields
<1> QED
  BY <1>1, <1>2, TickIs
     DEF Next, BusSettles, Settling, BusRecovers, Recover, TimePasses, vars

\* meter_tick's own state: IInv knows the driver's states already.
LEMMA TickStep ==
  ASSUME IInv, IInv', TickFields, [Next]_vars
  PROVE  TickFields'
<1> USE ConstantsAre
<1>1. meter_state' \in 0 .. 8
  <2>1. CASE type' = "UNKNOWN"
    BY <2>1 DEF IInv, Searching
  <2>2. CASE type' \in FoundTypes
    BY <2>2 DEF IInv, Driving
  <2>3. CASE type' = "UNSUPPORTED"
    <3>1. meter_state' = meter_state
      <4>1. type \notin FoundTypes \/ type' # type
        BY <2>3 DEF FoundTypes, ListTypes, EltakoTypes, IskraTypes
      <4> QED
        BY <2>3, <4>1, TickIs
           DEF Next, Find, BusSettles, BusRecovers, TimePasses, vars, findVars
    <3> QED
      BY <3>1 DEF TickFields
  <2> QED
    BY <2>1, <2>2, <2>3 DEF IInv
<1>2. CASE MeterTick
  <2>1. ticked' = TRUE
    BY <1>2 DEF MeterTick
  <2>2. \/ UNCHANGED timerVars
        \/ /\ firstTick' = NoWait /\ errorWait' = ErrorWaitAfter
           /\ last_state' \in {last_state, meter_state} /\ sinceChange' \in {0, sinceChange}
    BY <1>2 DEF MeterTick, Find, Drive
  <2>3. ErrorWaitAfter \in {0, NoWait}
    BY DEF ErrorWaitAfter
  <2>4. 0 \in NoWait .. ERROR_WAIT /\ NoWait \in NoWait .. ERROR_WAIT
        /\ NoWait \in NoWait .. FIRST_WAIT
    OBVIOUS
  <2>5. /\ last_state' \in 0 .. 8 \cup {255} /\ sinceChange' \in 0 .. WATCHDOG
        /\ firstTick' \in NoWait .. FIRST_WAIT /\ errorWait' \in NoWait .. ERROR_WAIT
    BY <2>2, <2>3, <2>4 DEF TickFields, timerVars
  <2> QED
    BY <1>1, <2>1, <2>5 DEF TickFields
<1>3. CASE TimePasses
  <2>1. /\ last_state' = last_state /\ ticked' = FALSE
        /\ sinceChange' = Capped(sinceChange, WATCHDOG)
        /\ firstTick' = IF firstTick = NoWait THEN NoWait ELSE Capped(firstTick, FIRST_WAIT)
        /\ errorWait' = IF errorWait = NoWait THEN NoWait ELSE Capped(errorWait, ERROR_WAIT)
    BY <1>3 DEF TimePasses
  <2>2. sinceChange' \in 0 .. WATCHDOG
    BY <2>1 DEF Capped, TickFields
  <2>3. firstTick' \in NoWait .. FIRST_WAIT
    BY <2>1 DEF Capped, TickFields
  <2>4. errorWait' \in NoWait .. ERROR_WAIT
    BY <2>1 DEF Capped, TickFields
  <2> QED
    BY <1>1, <2>1, <2>2, <2>3, <2>4 DEF TickFields
<1>4. CASE UNCHANGED <<timerVars, ticked>>
  BY <1>1, <1>4 DEF TickFields, timerVars
<1> QED
  BY <1>2, <1>3, <1>4 DEF Next, BusSettles, BusRecovers, vars

\* The walk over the fast registers, and the clock that starts it.
LEMMA FastStep ==
  ASSUME IInv, FastFields, [Next]_vars
  PROVE  FastFields'
<1> DEFINE fast == <<read_fast, fast_pos>>
<1>1. CASE type \in ListTypes /\ type' = type /\ ListRequest
  <2>1. UNCHANGED <<sinceFast, fast_pos>> /\ read_fast' = (sinceFast >= FAST \/ read_fast)
    BY <1>1 DEF ListRequest
  <2>2. read_fast' \in BOOLEAN
    BY <2>1
  <2>3. read_fast' => sinceFast' >= FAST
    BY <2>1 DEF FastFields
  <2> QED
    BY <1>1, <2>1, <2>2, <2>3, Zenon DEF FastFields
<1>2. CASE type \in ListTypes /\ type' = type /\ ListResponse /\ TakeFast
  <2>1. /\ read_fast /\ fast_pos' = NextPos(fast_pos, TRUE)
        /\ read_fast' = ~Wraps(fast_pos, TRUE)
        /\ sinceFast' = IF Wraps(fast_pos, TRUE) THEN NextFastTime ELSE sinceFast
    BY <1>2 DEF TakeFast
  <2>2. fast_pos' \in DOMAIN FastRead
    BY <2>1, WalkStaysInList DEF FastFields
  <2>3. sinceFast \in 0 .. SINCE /\ sinceFast >= FAST
    BY <2>1 DEF FastFields
  <2>4. NextFastTime \in 0 .. SINCE
    BY <2>3, ConstantsAre DEF NextFastTime
  <2>5. sinceFast' \in 0 .. SINCE
    BY <2>1, <2>3, <2>4, Zenon
  <2>6. read_fast' \in BOOLEAN /\ (read_fast' => sinceFast' = sinceFast)
    BY <2>1
  <2>7. read_fast' => sinceFast' >= FAST
    BY <2>3, <2>6
  <2> QED
    BY <1>2, <2>2, <2>5, <2>6, <2>7, Zenon DEF FastFields
<1>3. CASE /\ type \in EltakoTypes \cup IskraTypes /\ type' = type
           /\ UNCHANGED fast /\ sinceFast' \in {0, sinceFast}
  <2>1. type \notin ListTypes
    BY <1>3, TypesDiffer
  <2>2. sinceFast' \in 0 .. SINCE
    BY <1>3, ConstantsAre DEF FastFields
  <2> QED
    BY <1>3, <2>1, <2>2, Zenon DEF FastFields
<1>4. CASE TimePasses
  <2>1. UNCHANGED <<fast, type>> /\ sinceFast' = Capped(sinceFast, SINCE)
    BY <1>4 DEF TimePasses, listVars, findVars
  <2>2. sinceFast' \in 0 .. SINCE /\ (sinceFast >= FAST => sinceFast' >= FAST)
    BY <2>1, ConstantsAre DEF FastFields, Capped
  <2>3. read_fast' = read_fast /\ fast_pos' = fast_pos /\ type' = type
    BY <2>1
  <2> QED
    BY <2>2, <2>3, Zenon DEF FastFields
<1>5. CASE type = "UNKNOWN" /\ UNCHANGED <<sinceFast, fast>>
  <2>1. type \notin ListTypes
    BY <1>5 DEF ListTypes
  <2> QED
    BY <1>5, <2>1, Zenon DEF FastFields
<1>6. CASE UNCHANGED <<sinceFast, fast, type>>
  BY <1>6, Zenon DEF FastFields
<1>7. CASE type \in ListTypes /\ type' = type /\ (GenericTick \/ EastronTick)
  BY <1>1, <1>2, <1>6, <1>7, Zenon
     DEF GenericTick, EastronTick, ListResponse, TakeFull, ListNotDone, GenericDone, Waits, listVars
<1>8. CASE type \in EltakoTypes /\ type' = type /\ EltakoTick
  <2>1. UNCHANGED fast /\ sinceFast' \in {0, sinceFast}
    BY <1>8 DEF EltakoTick, EltakoRequest, EltakoResponseRead, EltakoHandleData, EltakoCalculate,
                Waits, listVars
  <2> QED
    BY <1>3, <1>8, <2>1
<1>9. CASE type \in IskraTypes /\ type' = type /\ IskraTick
  <2>1. UNCHANGED fast
    BY <1>9 DEF IskraTick
  <2>2. sinceFast' \in {0, sinceFast}
    BY <1>9 DEF IskraTick, IskraFastTick
  <2> QED
    BY <1>3, <1>9, <2>1, <2>2
<1>10. CASE MeterTick
  BY <1>5, <1>6, <1>7, <1>8, <1>9, <1>10, TickIs
     DEF Find, listVars, timerVars, findVars
<1> QED
  BY <1>4, <1>6, <1>10
     DEF Next, BusSettles, Settling, BusRecovers, Recover, vars, timerVars, listVars, findVars

\* Whatever meter_handle_new_data stores is read or garbage.
LEMMA StoredIs ==
  ASSUME FullFields, NEW pos
  PROVE  Stored(pos) \in {"unset", "read", "garbage"}
BY DEF FullFields, Stored

\* The walk over the others, and Eltako's and Iskra's.
LEMMA FullStep ==
  ASSUME IInv, FullFields, [Next]_vars
  PROVE  FullFields'
<1> USE ListIs
<1> DEFINE V == {"unset", "read", "garbage"}
<1>1. CASE /\ type \in ListTypes \cup IskraTypes /\ type' = type
           /\ full_pos' \in DOMAIN FastRead /\ each_value_read_once' \in BOOLEAN
           /\ volts' \in V /\ data_new' = data_new
  <2>1. type \notin EltakoTypes \cup {"UNKNOWN", "UNSUPPORTED"}
    BY <1>1 DEF ListTypes, IskraTypes, EltakoTypes
  <2>2. full_pos' \in Nat \ {0}
    BY <1>1
  <2>3. data_new \in BOOLEAN
    BY DEF FullFields
  <2> QED
    BY <1>1, <2>1, <2>2, <2>3, Zenon DEF FullFields
<1>2. CASE type = "UNKNOWN" /\ UNCHANGED <<listVars, data_new>>
  <2>1. full_pos = 1 /\ UNCHANGED <<full_pos, each_value_read_once, volts, data_new>>
    BY <1>2 DEF FullFields, listVars
  <2>2. 1 <= Len(FastRead) + 1 /\ 1 <= CALC_STEPS + 1
    BY ConstantsAre
  <2> QED
    BY <2>1, <2>2 DEF FullFields
<1>3. CASE UNCHANGED <<listVars, data_new, type, meter_state>>
  BY <1>3, Zenon DEF FullFields, listVars
<1>4. CASE type \in ListTypes /\ type' = type /\ (GenericTick \/ EastronTick)
  <2>1. data_new' = data_new
    BY <1>4, Zenon DEF GenericTick, EastronTick, Waits, iskraVars
  <2>2. full_pos \in DOMAIN FastRead /\ volts \in V /\ each_value_read_once \in BOOLEAN
    BY <1>4, Zenon DEF FullFields
  <2>3. CASE ListResponse /\ TakeFull
    <3>1. full_pos' \in DOMAIN FastRead
      BY <2>2, <2>3, WalkStaysInList DEF TakeFull
    <3>2. volts' \in V /\ each_value_read_once' \in BOOLEAN
      BY <2>3, StoredIs, Zenon DEF TakeFull
    <3> QED
      BY <1>1, <1>4, <2>1, <3>1, <3>2
  <2>4. CASE ListResponse /\ TakeFast
    <3>1. UNCHANGED <<full_pos, each_value_read_once>> /\ volts' \in V
      BY <2>4, StoredIs, Zenon DEF TakeFast
    <3> QED
      BY <1>1, <1>4, <2>1, <2>2, <3>1
  <2>5. CASE UNCHANGED <<full_pos, each_value_read_once, volts>>
    BY <1>1, <1>4, <2>1, <2>2, <2>5
  <2> QED
    BY <1>4, <2>3, <2>4, <2>5, Zenon
       DEF GenericTick, EastronTick, ListRequest, ListResponse, ListNotDone, GenericDone, Waits, listVars
<1>5. CASE type \in IskraTypes /\ type' = type /\ IskraTick
  <2>1. data_new' = data_new
    BY <1>5 DEF IskraTick
  <2>2. full_pos \in DOMAIN FastRead /\ volts \in V /\ each_value_read_once \in BOOLEAN
    BY <1>5, Zenon DEF FullFields
  <2>3. full_pos' \in {full_pos, IskraNext(full_pos)}
    BY <1>5, Zenon DEF IskraTick, IskraFullTick
  <2>4. full_pos' \in DOMAIN FastRead
    BY <2>2, <2>3 DEF IskraNext
  <2>5. volts' \in V
    BY <1>5, <2>2, StoredIs, Zenon DEF IskraTick, IskraFastTick, IskraFullTick
  <2>6. each_value_read_once' \in BOOLEAN
    BY <1>5, <2>2, Zenon DEF IskraTick, IskraFullTick
  <2> QED
    BY <1>1, <1>5, <2>1, <2>4, <2>5, <2>6
<1>6. CASE type \in EltakoTypes /\ type' = type /\ EltakoTick
  <2>1. type \notin ListTypes \cup IskraTypes \cup {"UNKNOWN", "UNSUPPORTED"}
    BY <1>6 DEF ListTypes, IskraTypes, EltakoTypes
  <2>2. /\ full_pos \in Nat \ {0}
        /\ IF meter_state = 2 THEN full_pos <= Len(FastRead) + 1
           ELSE IF meter_state = 3 /\ data_new THEN full_pos <= CALC_STEPS + 1
           ELSE full_pos = 1
    BY <1>6, Zenon DEF FullFields
  <2>3. each_value_read_once \in BOOLEAN /\ data_new \in BOOLEAN /\ volts \in V
    BY Zenon DEF FullFields
  <2>4. ASSUME full_pos' \in Nat \ {0},
               IF meter_state' = 2 THEN full_pos' <= Len(FastRead) + 1
               ELSE IF meter_state' = 3 /\ data_new' THEN full_pos' <= CALC_STEPS + 1
               ELSE full_pos' = 1,
               each_value_read_once' \in BOOLEAN, data_new' \in BOOLEAN, volts' \in V
        PROVE  FullFields'
    BY <1>6, <2>1, <2>4, Zenon DEF FullFields
  <2>5. CASE EltakoRequest
    <3>1. UNCHANGED <<full_pos, each_value_read_once, volts, data_new>>
          /\ meter_state = 0 /\ meter_state' = 1
      BY <2>5 DEF EltakoRequest, listVars
    <3> QED
      BY <2>2, <2>3, <2>4, <3>1
  <2>6. CASE EltakoResponseRead
    <3>1. /\ full_pos' = 1 /\ meter_state' = 2 /\ data_new' = TRUE
          /\ UNCHANGED <<each_value_read_once, volts>>
      BY <2>6 DEF EltakoResponseRead
    <3> QED
      BY <2>3, <2>4, <3>1
  <2>7. CASE EltakoHandleData
    <3>1. UNCHANGED <<each_value_read_once, data_new>> /\ volts' \in V
      BY <2>3, <2>7 DEF EltakoHandleData
    <3>2. meter_state = 2 /\ full_pos \in Nat
      BY <2>2, <2>7 DEF EltakoHandleData
    <3>3. CASE full_pos <= Len(FastRead) /\ full_pos' = full_pos + 1 /\ meter_state' = meter_state
      BY <2>3, <2>4, <3>1, <3>2, <3>3
    <3>4. CASE full_pos' = 1 /\ meter_state' = 3
      <4>1. 1 <= CALC_STEPS + 1
        BY ConstantsAre
      <4> QED
        BY <2>3, <2>4, <3>1, <3>4, <4>1
    <3> QED
      BY <2>7, <3>3, <3>4, Zenon DEF EltakoHandleData, requestVars
  <2>8. CASE EltakoCalculate
    <3>1. meter_state = 3 /\ volts' = volts
      BY <2>8 DEF EltakoCalculate
    <3>2. CASE data_new' = FALSE /\ full_pos' = 1 /\ meter_state' \in {0, 3}
               /\ UNCHANGED each_value_read_once
      <4>1. data_new' \in BOOLEAN /\ ~data_new'
        BY <3>2, Zenon
      <4>3. meter_state' # 2
        BY <3>2
      <4>2. full_pos' \in Nat \ {0}
        BY <3>2
      <4> QED
        BY <2>3, <2>4, <3>1, <3>2, <4>1, <4>2, <4>3, Zenon
    <3>3. CASE /\ data_new /\ meter_state' = meter_state
               /\ full_pos' = IF full_pos <= CALC_STEPS THEN full_pos + 1 ELSE 1
               /\ data_new' = (full_pos <= CALC_STEPS)
               /\ each_value_read_once' = (each_value_read_once \/ full_pos > CALC_STEPS)
      <4>1. each_value_read_once' \in BOOLEAN /\ data_new' \in BOOLEAN
        BY <3>3
      <4>2. full_pos' \in Nat \ {0}
        BY <2>2, <3>3
      <4>3. IF data_new' THEN full_pos' <= CALC_STEPS + 1 ELSE full_pos' = 1
        <5>1. CASE full_pos <= CALC_STEPS
          <6>1. full_pos' <= CALC_STEPS + 1
            BY <2>2, <3>3, <5>1, ConstantsAre
          <6>2. data_new'
            BY <3>3, <5>1, Zenon
          <6> QED
            BY <6>1, <6>2, Zenon
        <5>2. CASE ~(full_pos <= CALC_STEPS)
          <6>1. ~data_new' /\ full_pos' = 1
            BY <3>3, <5>2, Zenon
          <6> QED
            BY <6>1, Zenon
        <5> QED
          BY <5>1, <5>2
      <4>4. meter_state' = 3 /\ meter_state' # 2
        BY <3>1, <3>3
      <4> QED
        BY <2>3, <2>4, <3>1, <4>1, <4>2, <4>3, <4>4, Zenon
    <3>4. CASE ~data_new /\ UNCHANGED <<data_new, full_pos, meter_state, each_value_read_once>>
      BY <2>2, <2>3, <2>4, <3>1, <3>4, Zenon
    <3> QED
      BY <2>8, <3>1, <3>2, <3>3, <3>4, Zenon DEF EltakoCalculate
  <2>9. CASE Waits({1})
    <3>1. UNCHANGED <<listVars, data_new, meter_state>>
      BY <2>9 DEF Waits, iskraVars
    <3> QED
      BY <1>3, <1>6, <3>1
  <2> QED
    BY <1>6, <2>5, <2>6, <2>7, <2>8, <2>9 DEF EltakoTick
<1>7. CASE MeterTick
  BY <1>2, <1>3, <1>4, <1>5, <1>6, <1>7, TickIs DEF Find, iskraVars, findVars
<1> QED
  BY <1>3, <1>7
     DEF Next, BusSettles, Settling, BusRecovers, Recover, TimePasses, vars, iskraVars, findVars

\* The phases, the system type and Iskra's fast read.
LEMMA SystemStep ==
  ASSUME IInv, BusFields, FullFields, SystemFields, [Next]_vars
  PROVE  SystemFields'
<1> DEFINE P == {"none", "one", "three", "other"}
           fast == <<fast_active, fast_state>>
<1>1. \A p \in PhasesSeen : p \in P
  BY DriverAssumption DEF PhasesSeen, FullFields, BusFields
<1>2. HandlePhases => phases_connected' \in P
  BY <1>1 DEF HandlePhases
<1>3. wiring \in P /\ configured \in {"zero", "1P2W", "3P4W"}
  BY DriverAssumption DEF BusFields
<1>4. CASE UNCHANGED <<systemVars, fast>>
  BY <1>4 DEF SystemFields, systemVars
<1>5. CASE (GenericTick \/ EastronTick)
  <2>1. UNCHANGED fast
    BY <1>5, Zenon DEF GenericTick, EastronTick, Waits, iskraVars
  <2>2. phases_connected' \in P
    BY <1>2, <1>5, Zenon
       DEF GenericTick, EastronTick, ListRequest, ListResponse, ListNotDone, GenericDone, Waits,
           EastronSystemType, systemVars, SystemFields
  <2>3. system_type_read' \in {"zero", "1P2W", "3P4W"}
    BY <1>3, <1>5, Zenon
       DEF GenericTick, EastronTick, ListRequest, ListResponse, ListNotDone, GenericDone, Waits,
           EastronSystemType, systemVars, SystemFields
  <2>4. new_system_type' \in BOOLEAN
    <3>1. \/ new_system_type' = (new_system_type \/ Misfit(phases_connected'))
          \/ new_system_type' = FALSE
          \/ new_system_type' = new_system_type
      BY <1>5, Zenon
         DEF GenericTick, EastronTick, ListRequest, ListResponse, ListNotDone, GenericDone, Waits,
             EastronSystemType, systemVars
    <3>2. new_system_type \in BOOLEAN
      BY DEF SystemFields
    <3> QED
      BY <3>1, <3>2
  <2> QED
    BY <2>1, <2>2, <2>3, <2>4, Zenon DEF SystemFields
<1>6. CASE EltakoTick
  <2>1. UNCHANGED <<system_type_read, new_system_type, fast>>
    BY <1>6, Zenon DEF EltakoTick, Waits, systemVars, iskraVars
  <2>2. phases_connected' \in P
    BY <1>2, <1>6, Zenon
       DEF EltakoTick, EltakoRequest, EltakoResponseRead, EltakoHandleData, EltakoCalculate, Waits,
           systemVars, SystemFields
  <2> QED
    BY <2>1, <2>2, Zenon DEF SystemFields
<1>7. CASE IskraTick
  <2>1. UNCHANGED <<system_type_read, new_system_type>>
    BY <1>7 DEF IskraTick
  <2>2. phases_connected' \in P
    BY <1>2, <1>3, <1>7, Zenon DEF IskraTick, IskraFastTick, IskraFullTick, SystemFields
  <2>3. fast_active' \in {TRUE, FALSE, fast_active}
    BY <1>7, Zenon DEF IskraTick, IskraFastTick
  <2>4. fast_state' \in {0, 1, 2, 3, fast_state}
    BY <1>7, Zenon DEF IskraTick, IskraFastTick
  <2>5. fast_active' \in BOOLEAN
    BY <2>3, Zenon DEF SystemFields
  <2>6. fast_state' \in 0 .. 3
    BY <2>4 DEF SystemFields
  <2> QED
    BY <2>1, <2>2, <2>5, <2>6, Zenon DEF SystemFields
<1> QED
  BY <1>4, <1>5, <1>6, <1>7, TickIs
     DEF Next, Find, BusSettles, BusRecovers, TimePasses, vars, iskraVars, systemVars

\* The same as implications, to be carried along a behaviour.
LEMMA FieldsStep == IInv /\ Fields /\ [Next]_vars => IInv' /\ Fields'
<1> SUFFICES ASSUME IInv, Fields, [Next]_vars PROVE IInv' /\ Fields'
  OBVIOUS
<1>1. IInv'
  BY StepHolds
<1> QED
  BY <1>1, BusStep, FindStep, TickStep, FastStep, FullStep, SystemStep DEF Fields

\* The rings', lists' and switches' bounds of every driver, for every meter, list
\* and timing: positions stay in the list that meter.current_meter points to and
\* eltako_data_i in the data that was read.
THEOREM TypeCorrect == Spec => []TypeOK
<1>1. IInv /\ Fields => TypeOK
  <2> SUFFICES ASSUME IInv, Fields PROVE TypeOK
    OBVIOUS
  <2>1. /\ attached \in Attached /\ disturbed \in BOOLEAN
        /\ request \in Settled \cup {"none", "waiting"} /\ reqAge \in 0 .. TIMEOUT
        /\ find_state \in 0 .. 4 /\ step \in [Manufacturers -> 0 .. 7]
        /\ meter_state \in 0 .. 8 /\ last_state \in 0 .. 8 \cup {255}
        /\ sinceChange \in 0 .. WATCHDOG /\ firstTick \in NoWait .. FIRST_WAIT
        /\ errorWait \in NoWait .. ERROR_WAIT /\ sinceFast \in 0 .. SINCE
        /\ fast_pos \in DOMAIN FastRead
    BY Zenon DEF IInv, Fields, BusFields, FindFields, TickFields, FastFields
  <2>2. /\ {read_fast, each_value_read_once, new_system_type, fast_active, data_new, ticked}
             \subseteq BOOLEAN
        /\ volts \in {"unset", "read", "garbage"}
        /\ system_type_read \in {"zero", "1P2W", "3P4W"} /\ configured \in {"1P2W", "3P4W"}
        /\ fast_state \in 0 .. 3
    BY Zenon DEF Fields, BusFields, TickFields, FastFields, FullFields, SystemFields
  <2>3. type \in Types /\ type \in FoundTypes \cup {"UNKNOWN", "UNSUPPORTED"}
    BY MetersAre DEF IInv, Types, FoundTypes, ListTypes, EltakoTypes, IskraTypes
  <2>4. {phases_connected, wiring} \subseteq {"none", "one", "three", "other"}
    BY DriverAssumption DEF Fields, BusFields, SystemFields
  <2>5. full_pos \in 1 .. (IF type \in EltakoTypes THEN Len(FastRead) + 1 + CALC_STEPS
                                                  ELSE Len(FastRead))
    <3>1. CASE type \in EltakoTypes
      <4>1. /\ full_pos \in Nat \ {0}
            /\ full_pos <= Len(FastRead) + 1 \/ full_pos <= CALC_STEPS + 1 \/ full_pos = 1
        BY <3>1, Zenon DEF Fields, FullFields
      <4>2. full_pos \in 1 .. (Len(FastRead) + 1 + CALC_STEPS)
        BY <4>1, ListIs, ConstantsAre
      <4> QED
        BY <3>1, <4>2, Zenon
    <3>2. CASE type \notin EltakoTypes
      <4>1. full_pos = 1 \/ full_pos \in DOMAIN FastRead
        BY <2>3, <3>2, Zenon DEF Fields, FullFields, FoundTypes
      <4>2. full_pos \in 1 .. Len(FastRead)
        BY <4>1, ListIs
      <4> QED
        BY <3>2, <4>2, Zenon
    <3> QED
      BY <3>1, <3>2
  <2> QED
    BY <2>1, <2>2, <2>3, <2>4, <2>5, Zenon DEF TypeOK
<1> QED
  BY <1>1, InitHolds, FieldsInit, FieldsStep, PTL DEF Spec

-----------------------------------------------------------------------------
(* The watchdog.  Every driver but Iskra's stays in a state only to wait   *)
(* for a response, Eltako's also to go through its registers and to let    *)
(* its interval pass; each of these is bounded by a clock or a position    *)
(* that the watchdog's own clock cannot outrun.                            *)

LongEnough == WATCHDOG > TIMEOUT + 1 /\ WATCHDOG > Len(FastRead) /\ WATCHDOG > INTERVAL

\* What the watchdog's clock is bounded by when the state is the last tick's.
Bound ==
  IF type \in EltakoTypes /\ meter_state = 2
  THEN sinceChange + 1 <= full_pos /\ (ticked => sinceChange + 2 <= full_pos)
  ELSE IF type \in EltakoTypes /\ meter_state = 3
  THEN sinceChange <= sinceFast /\ sinceFast <= INTERVAL /\ (ticked => sinceFast < INTERVAL)
  ELSE /\ request # "none" /\ sinceChange <= reqAge + 1
       /\ request = "waiting" \/ ticked => sinceChange <= reqAge

Watched ==
  /\ firstTick # NoWait => type = "UNKNOWN"
  /\ type = "UNKNOWN" => last_state = 255
  /\ type \in ListTypes \cup EltakoTypes =>
       /\ errorWait # NoWait => last_state # meter_state
       /\ last_state = meter_state => Bound

\* A step of the drivers that goes on to another state.
LEMMA NewState ==
  ASSUME firstTick' = NoWait \/ type' = "UNKNOWN", type' = "UNKNOWN" => last_state' = 255,
         last_state' # meter_state'
  PROVE  Watched'
BY Zenon DEF Watched

\* meter_generic_tick and meter_eastron_tick stay only to wait.
LEMMA ListMoves ==
  ASSUME IInv, type \in ListTypes, GenericTick \/ EastronTick
  PROVE  \/ meter_state' # meter_state
         \/ request = "waiting" /\ UNCHANGED <<requestVars, meter_state, full_pos, sinceFast>>
<1> USE DEF Settled, Modbus!Settled
<1>1. /\ meter_state \in 0 .. 8 /\ (meter_state \in {1, 3, 5, 7} <=> request # "none")
      /\ request \in Settled \cup {"none", "waiting"}
  BY DEF IInv, Driving, FoundTypes
<1>2. CASE Waits({1}) \/ Waits({1, 3, 5, 7})
  <2>1. meter_state \in {1, 3, 5, 7} /\ ~ResponseReady
        /\ UNCHANGED <<requestVars, meter_state, full_pos, sinceFast>>
    BY <1>2 DEF Waits, listVars
  <2> QED
    BY <1>1, <2>1 DEF ResponseReady
<1>3. CASE ListRequest \/ ListResponse \/ ListNotDone \/ GenericDone
  <2>1. \/ meter_state = 0 /\ meter_state' = 1
        \/ meter_state = 1 /\ (meter_state' = 0 \/ meter_state' = 2)
        \/ meter_state = 2 /\ meter_state' = 0
    BY <1>3, Zenon DEF ListRequest, ListResponse, TakeFast, TakeFull, ListNotDone, GenericDone
  <2> QED
    BY <2>1
<1>4. CASE EastronSystemType
  <2>1. \/ meter_state = 2 /\ meter_state' = 3
        \/ meter_state = 3 /\ meter_state' = 4
        \/ meter_state = 4 /\ (meter_state' = 0 \/ meter_state' = 5)
        \/ meter_state = 5 /\ meter_state' = 6
        \/ meter_state = 6 /\ (meter_state' = 7 \/ meter_state' = 0)
        \/ meter_state = 7 /\ meter_state' = 8
        \/ meter_state = 8 /\ meter_state' = 0
    BY <1>4, Zenon DEF EastronSystemType, EastronAsk, EastronResponse
  <2> QED
    BY <2>1
<1> QED
  BY <1>2, <1>3, <1>4, Zenon DEF GenericTick, EastronTick

\* meter_eltako_tick stays to wait, to handle a register, or to compute.
LEMMA EltakoMoves ==
  ASSUME IInv, type \in EltakoTypes, EltakoTick
  PROVE  \/ meter_state' # meter_state
         \/ /\ meter_state = 1 /\ request = "waiting"
            /\ UNCHANGED <<requestVars, meter_state, full_pos, sinceFast>>
         \/ /\ meter_state = 2 /\ full_pos' = full_pos + 1
            /\ UNCHANGED <<requestVars, meter_state, sinceFast>>
         \/ /\ meter_state = 3 /\ sinceFast < INTERVAL
            /\ UNCHANGED <<requestVars, meter_state, sinceFast>>
<1> USE DEF Settled, Modbus!Settled
<1>1. /\ meter_state \in 0 .. 3 /\ (meter_state = 1 => request # "none")
      /\ request \in Settled \cup {"none", "waiting"}
  BY DEF IInv, Driving, FoundTypes
<1>2. CASE Waits({1})
  <2>1. meter_state = 1 /\ ~ResponseReady
        /\ UNCHANGED <<requestVars, meter_state, full_pos, sinceFast>>
    BY <1>2 DEF Waits, listVars
  <2> QED
    BY <1>1, <2>1 DEF ResponseReady
<1>3. CASE EltakoRequest \/ EltakoResponseRead
  <2>1. \/ meter_state = 0 /\ meter_state' = 1
        \/ meter_state = 1 /\ meter_state' = 2
    BY <1>3, Zenon DEF EltakoRequest, EltakoResponseRead
  <2> QED
    BY <2>1
<1>4. CASE EltakoHandleData
  <2>1. meter_state = 2 /\ UNCHANGED sinceFast
        /\ \/ meter_state' = 3
           \/ full_pos' = full_pos + 1 /\ UNCHANGED <<requestVars, meter_state>>
    BY <1>4, Zenon DEF EltakoHandleData
  <2> QED
    BY <2>1
<1>5. CASE EltakoCalculate
  <2>1. meter_state = 3 /\ UNCHANGED <<requestVars, sinceFast>>
        /\ \/ meter_state' = 0
           \/ sinceFast < INTERVAL /\ UNCHANGED meter_state
    BY <1>5, Zenon DEF EltakoCalculate
  <2> QED
    BY <2>1
<1> QED
  BY <1>2, <1>3, <1>4, <1>5 DEF EltakoTick

\* A tick of the driver stays within the bound, or begins it anew.
LEMMA TickWatched ==
  ASSUME IInv, Fields, Watched, ~MustWait, Drive, ticked' = TRUE, firstTick' = NoWait,
         errorWait' = ErrorWaitAfter
  PROVE  Watched'
<1> USE ConstantsAre, ListIs
<1>1. /\ type' = type /\ type # "UNKNOWN" /\ last_state' = meter_state
      /\ sinceChange' = IF last_state # meter_state THEN 0 ELSE sinceChange
  BY DEF Drive
<1>2. CASE meter_state' # meter_state
  BY <1>1, <1>2, NewState
<1>3. CASE type \notin ListTypes \cup EltakoTypes
  BY <1>1, <1>3, Zenon DEF Watched
<1>4. /\ full_pos \in Nat /\ full_pos >= 1 /\ reqAge \in Nat /\ sinceFast \in Nat
      /\ sinceChange \in Nat /\ request \in Settled \cup {"none", "waiting"}
  BY DEF Fields, FullFields, BusFields, FastFields, TickFields, IInv
<1>5. CASE /\ request = "waiting" /\ UNCHANGED <<requestVars, meter_state>>
           /\ type \in ListTypes \/ (type \in EltakoTypes /\ meter_state = 1)
  <2>1. errorWait' = NoWait
    BY <1>5 DEF ErrorWaitAfter
  <2>2. ~(type \in EltakoTypes /\ (meter_state = 2 \/ meter_state = 3))
    BY <1>5, TypesDiffer
  <2>3. last_state = meter_state => sinceChange <= reqAge
    BY <1>5, <2>2, Zenon DEF Watched, Bound
  <2>4. sinceChange' <= reqAge' /\ sinceChange' <= reqAge' + 1
    BY <1>1, <1>4, <1>5, <2>3 DEF requestVars
  <2>5. request' # "none" /\ meter_state' = meter_state
    BY <1>5 DEF requestVars
  <2> QED
    BY <1>1, <2>1, <2>2, <2>4, <2>5, Zenon DEF Watched, Bound
<1>6. CASE /\ type \in EltakoTypes /\ meter_state = 2 /\ full_pos' = full_pos + 1
           /\ UNCHANGED <<requestVars, meter_state>>
  <2>1. errorWait' = NoWait
    BY <1>6 DEF ErrorWaitAfter
  <2>2. last_state = meter_state => sinceChange + 1 <= full_pos
    BY <1>6, Zenon DEF Watched, Bound
  <2>3. sinceChange' + 1 <= full_pos' /\ sinceChange' + 2 <= full_pos'
    BY <1>1, <1>4, <1>6, <2>2
  <2>4. meter_state' = 2 /\ type' \in EltakoTypes
    BY <1>1, <1>6
  <2>5. Bound'
    BY <2>3, <2>4, Zenon DEF Bound
  <2> QED
    BY <1>1, <2>1, <2>5, Zenon DEF Watched
<1>7. CASE /\ type \in EltakoTypes /\ meter_state = 3 /\ sinceFast < INTERVAL
           /\ UNCHANGED <<requestVars, meter_state, sinceFast>>
  <2>1. errorWait' = NoWait
    BY <1>7 DEF ErrorWaitAfter
  <2>2. last_state = meter_state => sinceChange <= sinceFast
    <3>1. meter_state # 2
      BY <1>7
    <3> QED
      BY <1>7, <3>1, Zenon DEF Watched, Bound
  <2>3. sinceChange' <= sinceFast' /\ sinceFast' <= INTERVAL /\ sinceFast' < INTERVAL
    BY <1>1, <1>4, <1>7, <2>2
  <2>4. meter_state' = 3 /\ meter_state' # 2 /\ type' \in EltakoTypes
    BY <1>1, <1>7
  <2>5. Bound'
    BY <2>3, <2>4, Zenon DEF Bound
  <2> QED
    BY <1>1, <2>1, <2>5, Zenon DEF Watched
<1> QED
  BY <1>2, <1>3, <1>5, <1>6, <1>7, DriveIs, ListMoves, EltakoMoves, TypesDiffer

\* Every step keeps the bound.
LEMMA WatchedStep == IInv /\ Fields /\ Watched /\ [Next]_vars => Watched'
<1> SUFFICES ASSUME IInv, Fields, Watched, [Next]_vars PROVE Watched'
  OBVIOUS
<1> USE ConstantsAre
<1> DEFINE kept == <<type, last_state, meter_state, errorWait, firstTick, sinceChange,
                     sinceFast, full_pos, reqAge>>
<1>1. /\ full_pos \in Nat /\ reqAge \in Nat /\ sinceFast \in 0 .. SINCE
      /\ sinceChange \in 0 .. WATCHDOG
  BY DEF Fields, FullFields, BusFields, FastFields, TickFields
<1>2. CASE UNCHANGED kept /\ ticked' = ticked /\ request' = request
  BY <1>2, Zenon DEF Watched, Bound
<1>3. CASE BusSettles
  <2>1. UNCHANGED kept /\ ticked' = ticked /\ request = "waiting" /\ request' # "none"
    BY <1>3 DEF BusSettles, Settling, HealthyOutcomes, timerVars, listVars, findVars
  <2> QED
    BY <2>1, Zenon DEF Watched, Bound
<1>4. CASE TimePasses
  <2>1. /\ UNCHANGED <<type, last_state, meter_state, request, full_pos>>
        /\ ticked = TRUE /\ ticked' = FALSE
        /\ (firstTick = NoWait => firstTick' = NoWait) /\ (errorWait = NoWait => errorWait' = NoWait)
        /\ reqAge' = (IF request = "waiting" THEN reqAge + 1 ELSE reqAge)
        /\ sinceChange' = Capped(sinceChange, WATCHDOG) /\ sinceFast' = Capped(sinceFast, SINCE)
    BY <1>4 DEF TimePasses, Fields, TickFields, findVars, listVars
  <2>2. sinceChange' <= sinceChange + 1
    BY <1>1, <2>1 DEF Capped
  <2>3. CASE type \in ListTypes \cup EltakoTypes /\ last_state = meter_state
    <3>1. Bound
      BY <2>3 DEF Watched
    <3>2. CASE type \in EltakoTypes /\ meter_state = 2
      <4>1. sinceChange + 2 <= full_pos
        BY <2>1, <3>1, <3>2, Zenon DEF Bound
      <4>2. sinceChange' + 1 <= full_pos'
        BY <1>1, <2>1, <4>1 DEF Capped
      <4> QED
        BY <2>1, <2>3, <3>2, <4>2, Zenon DEF Watched, Bound
    <3>3. CASE type \in EltakoTypes /\ meter_state = 3
      <4>1. meter_state # 2
        BY <3>3
      <4>2. sinceChange <= sinceFast /\ sinceFast < INTERVAL
        BY <2>1, <3>1, <3>3, <4>1, Zenon DEF Bound
      <4>3. sinceChange' <= sinceFast' /\ sinceFast' <= INTERVAL
        BY <1>1, <2>1, <4>2 DEF Capped
      <4> QED
        BY <2>1, <2>3, <3>3, <4>1, <4>3, Zenon DEF Watched, Bound
    <3>4. CASE ~(type \in EltakoTypes /\ (meter_state = 2 \/ meter_state = 3))
      <4>1. request # "none" /\ sinceChange <= reqAge
        BY <2>1, <3>1, <3>4, Zenon DEF Bound
      <4>2. sinceChange' <= reqAge' + 1 /\ (request = "waiting" => sinceChange' <= reqAge')
        BY <1>1, <2>1, <4>1 DEF Capped
      <4> QED
        BY <2>1, <2>3, <3>4, <4>1, <4>2, Zenon DEF Watched, Bound
    <3> QED
      BY <3>2, <3>3, <3>4
  <2>4. CASE ~(type \in ListTypes \cup EltakoTypes /\ last_state = meter_state)
    BY <2>1, <2>4, Zenon DEF Watched
  <2> QED
    BY <2>3, <2>4
<1>5. CASE MeterTick
  <2>1. CASE MustWait /\ UNCHANGED <<requestVars, type, find_state, step, meter_state, timerVars,
                                     listVars, systemVars, iskraVars>>
    <3>1. UNCHANGED kept
      BY <2>1 DEF requestVars, timerVars, listVars
    <3>2. type \in ListTypes \cup EltakoTypes => errorWait # NoWait
      <4>1. type \in ListTypes \cup EltakoTypes => type # "UNKNOWN" /\ type # "UNSUPPORTED"
        BY DEF ListTypes, EltakoTypes
      <4> QED
        BY <2>1, <4>1, Zenon DEF MustWait, Watched
    <3> QED
      BY <3>1, <3>2, Zenon DEF Watched
  <2>2. CASE Find /\ firstTick' = NoWait
    <3>1. last_state' = 255 /\ meter_state' = 0
      BY <2>2 DEF Find, Watched, IInv, Searching
    <3>2. last_state' # meter_state'
      BY <3>1
    <3> QED
      BY <2>2, <3>1, <3>2, NewState
  <2>3. CASE ~MustWait /\ Drive /\ firstTick' = NoWait /\ errorWait' = ErrorWaitAfter
    <3>1. ticked' = TRUE
      BY <1>5 DEF MeterTick
    <3> QED
      BY <2>3, <3>1, TickWatched
  <2> QED
    BY <1>5, <2>1, <2>2, <2>3, Zenon DEF MeterTick
<1> QED
  BY <1>2, <1>3, <1>4, <1>5
     DEF Next, BusRecovers, Recover, vars, requestVars, timerVars, listVars, findVars

\* meter.c:584 "This should never happen": with a watchdog that is longer than a
\* request, than a round for each of Eltako's registers and than its interval, no
\* driver but Iskra's is ever caught in a state, whatever the bus does.
THEOREM WatchdogQuiet == LongEnough => (Spec => []WatchdogStaysQuiet)
<1> SUFFICES ASSUME LongEnough PROVE Spec => []WatchdogStaysQuiet
  OBVIOUS
<1>1. Init => Watched
  <2> SUFFICES ASSUME Init PROVE Watched
    OBVIOUS
  <2>1. type = "UNKNOWN" /\ last_state = 255 /\ type \notin ListTypes \cup EltakoTypes
    BY DEF Init, DetectionInit, ListTypes, EltakoTypes
  <2> QED
    BY <2>1, Zenon DEF Watched
<1>2. IInv /\ Fields /\ Watched => WatchdogStaysQuiet
  <2> SUFFICES ASSUME IInv, Fields, Watched, Hung, type \notin IskraTypes PROVE FALSE
    BY DEF WatchdogStaysQuiet
  <2>1. type \in ListTypes \cup EltakoTypes /\ last_state = meter_state /\ sinceChange = WATCHDOG
    BY DEF IInv, Hung, FoundTypes
  <2>2. Bound
    BY <2>1 DEF Watched
  <2>3. reqAge \in 0 .. TIMEOUT /\ sinceFast \in 0 .. SINCE
    BY DEF Fields, BusFields, FastFields
  <2>4. CASE type \in EltakoTypes /\ meter_state = 2
    <3>1. sinceChange + 1 <= full_pos
      BY <2>2, <2>4, Zenon DEF Bound
    <3>2. full_pos \in Nat /\ full_pos <= Len(FastRead) + 1
      BY <2>4 DEF Fields, FullFields
    <3> QED
      BY <2>1, <3>1, <3>2, ConstantsAre, ListIs DEF LongEnough
  <2>5. CASE type \in EltakoTypes /\ meter_state = 3
    <3>1. meter_state # 2
      BY <2>5
    <3>2. sinceChange <= sinceFast /\ sinceFast <= INTERVAL
      BY <2>2, <2>5, <3>1, Zenon DEF Bound
    <3> QED
      BY <2>1, <2>3, <3>2, ConstantsAre DEF LongEnough
  <2>6. CASE ~(type \in EltakoTypes /\ (meter_state = 2 \/ meter_state = 3))
    <3>1. sinceChange <= reqAge + 1
      BY <2>2, <2>6, Zenon DEF Bound
    <3> QED
      BY <2>1, <2>3, <3>1, ConstantsAre DEF LongEnough
  <2> QED
    BY <2>4, <2>5, <2>6
<1> QED
  BY <1>1, <1>2, InitHolds, FieldsInit, FieldsStep, WatchedStep, PTL DEF Spec
=============================================================================
