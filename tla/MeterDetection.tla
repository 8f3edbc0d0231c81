--------------------------- MODULE MeterDetection ---------------------------
(***************************************************************************)
(* warp/meter.c meter_find_meter_type and the *_is_connected functions:    *)
(* the manufacturers' protocols are tried in turn until one gets the       *)
(* answer it looks for.  Every is_connected function is a state machine of *)
(* its own that alternates between a request (even steps) and its response *)
(* (odd steps).                                                            *)
(*                                                                         *)
(* A request is that of ModbusRequest; the meter on the bus answers what   *)
(* its own manufacturer's driver asks.  What another one asks it refuses,  *)
(* or answers with what it has in that register, or does not hear.  The    *)
(* build is the energy manager's (no HAS_HARDWARE_VERSION).                *)
(***************************************************************************)
EXTENDS Integers

Manufacturers == 0 .. 3   \* generic, Eastron, Eltako, Iskra
Eltako == 2
Iskra == 3

\* The meters that some is_connected function can return; none returns the
\* DMED341MID7ER or the SDM72CTM.
MeterOf == [DEM4A |-> 0, SDM72V1 |-> 1, SDM72V2 |-> 1, SDM630 |-> 1,
            SDM630MCTV2 |-> 1, DSZ15DZMOD |-> 2, DSZ16DZE |-> 2,
            WM3M4 |-> 3, WM3M4C |-> 3]
EltakoTypes == {"DSZ15DZMOD", "DSZ16DZE"}
Types == {"UNKNOWN", "UNSUPPORTED"} \cup DOMAIN MeterOf

CONSTANTS
  Attached,      \* the meters that may be on the bus; "nothing" is one too
  TIMEOUT        \* the 1000 ms after which modbus.c gives a request up

ASSUME DetectionAssumption ==
  /\ Attached \subseteq DOMAIN MeterOf \cup {"nothing"}
  /\ TIMEOUT \in Nat \ {0}

VARIABLES
  attached,     \* the meter on the bus
  disturbed,    \* requests may be lost or refused; ends some time
  request,      \* as in ModbusRequest
  query,        \* whose registers the request reads or writes, and which
  reqAge,       \* time since modbus_start_tx, up to TIMEOUT
  type,         \* meter.type
  find_state,   \* the static of meter_find_meter_type
  step          \* step[m]: the static of manufacturer m's is_connected

busVars == <<attached, disturbed>>
requestVars == <<request, query, reqAge>>
findVars == <<type, find_state, step>>

Modbus == INSTANCE ModbusRequest
Settled == Modbus!Settled

DetectionInit ==
  /\ attached \in Attached
  /\ disturbed \in BOOLEAN
  /\ request = "none" /\ query = <<0, "none">> /\ reqAge = 0
  /\ type = "UNKNOWN" /\ find_state = 0
  /\ step = [m \in Manufacturers |-> 0]

\* meter_read_registers, meter_write_register: modbus_start_tx does not look
\* whether the request before is cleared.
Begin(manufacturer, what) ==
  /\ request' = "waiting"
  /\ query' = <<manufacturer, what>>
  /\ reqAge' = 0

\* Bug: the response stays in place for the next request.
LeaveRequest == UNCHANGED requestVars

\* modbus_clear_request
ClearRequest == request' = "none" /\ UNCHANGED <<query, reqAge>>

\* What the even steps ask for.
Asked(m, s) == CASE s = 0 -> "identity"
                 [] s = 2 -> "meter code"
                 [] s = 4 -> "reverse word 1"
                 [] s = 6 -> "reverse word 2"

\* The meter that the response names: "nothing" if there was an error, and
\* "foreign" if the register means something else in the meter that answered;
\* it is then supposed to hold none of the codes that are looked for.
Named == IF request # "answer" THEN "nothing"
         ELSE IF MeterOf[attached] = query[1] THEN attached ELSE "foreign"

\* The type that is_connected returns for what an identity request has named.
TypeOf(meter) == CASE meter \in {"nothing", "foreign"} -> "UNKNOWN"
                   [] meter = "SDM72V1"              -> "UNSUPPORTED"
                   [] OTHER                          -> meter

Found(t) ==
  /\ type' = t
  /\ find_state' = IF t = "UNKNOWN" THEN find_state + 1 ELSE 0

Ongoing == UNCHANGED <<type, find_state>>

\* Bug: any answer counts as Eltako's manufacturing code.
EltakoResponseUnchecked(s) ==
  \/ /\ s = 1 /\ Named = "nothing"
     /\ step' = [step EXCEPT ![Eltako] = 0] /\ Found("UNKNOWN")
  \/ /\ s = 1 /\ Named # "nothing"
     /\ step' = [step EXCEPT ![Eltako] = 2] /\ Ongoing
  \/ /\ s = 3 /\ Named # "DSZ16DZE"
     /\ UNCHANGED step /\ Found("DSZ15DZMOD")
  \/ /\ s = 3 /\ Named = "DSZ16DZE"
     /\ step' = [step EXCEPT ![Eltako] = 4] /\ Ongoing
  \/ /\ s = 5
     /\ step' = [step EXCEPT ![Eltako] = 6] /\ Ongoing
  \/ /\ s = 7
     /\ step' = [step EXCEPT ![Eltako] = 0] /\ Found("DSZ16DZE")

\* The odd steps of meter_eltako_is_connected.  A meter code that was not
\* read stands for the DSZ15DZMOD, and the step is not reset with it; the
\* responses to the two writes are not looked at.
EltakoResponse(s) ==
  \/ /\ s = 1 /\ Named \notin EltakoTypes
     /\ step' = [step EXCEPT ![Eltako] = 0] /\ Found("UNKNOWN")
  \/ /\ s = 1 /\ Named \in EltakoTypes
     /\ step' = [step EXCEPT ![Eltako] = 2] /\ Ongoing
  \/ /\ s = 3 /\ Named # "DSZ16DZE"
     /\ UNCHANGED step /\ Found("DSZ15DZMOD")
  \/ /\ s = 3 /\ Named = "DSZ16DZE"
     /\ step' = [step EXCEPT ![Eltako] = 4] /\ Ongoing
  \/ /\ s = 5
     /\ step' = [step EXCEPT ![Eltako] = 6] /\ Ongoing
  \/ /\ s = 7
     /\ step' = [step EXCEPT ![Eltako] = 0] /\ Found("DSZ16DZE")

\* meter_find_meter_type
FindMeterType ==
  LET m == find_state
      s == step[m]
  IN  \/ /\ m \notin Manufacturers
         /\ find_state' = 0
         /\ UNCHANGED <<requestVars, type, step>>
      \/ /\ m \in Manufacturers /\ s % 2 = 0
         /\ Begin(m, Asked(m, s))
         /\ step' = [step EXCEPT ![m] = s + 1]
         /\ Ongoing
      \/ /\ m \in Manufacturers /\ s % 2 = 1 /\ request \notin Settled
         /\ UNCHANGED <<requestVars, step>>
         /\ Ongoing
      \/ /\ m \in Manufacturers \ {Eltako} /\ s = 1 /\ request \in Settled
         /\ ClearRequest
         /\ step' = [step EXCEPT ![m] = 0]
         /\ Found(TypeOf(Named))
      \/ /\ m = Eltako /\ s % 2 = 1 /\ request \in Settled
         /\ ClearRequest
         /\ EltakoResponse(s)

-----------------------------------------------------------------------------
(* The bus and the meter (external).                                       *)

Writable(what) == ~(attached = "SDM72V2" /\ what \in {"1P2W", "3P4W"})

\* Iskra's meters have a slave address and a baud rate of their own.
Heard == /\ attached # "nothing"
         /\ MeterOf[attached] = Iskra <=> query[1] = Iskra

\* What the undisturbed bus may make of the request.
HealthyOutcomes ==
  IF ~Heard THEN {"timeout"}
  ELSE IF MeterOf[attached] # query[1] THEN {"answer", "exception"}
  ELSE IF Writable(query[2]) THEN {"answer"} ELSE {"exception"}

Settling ==
  /\ request = "waiting"
  /\ \/ request' \in HealthyOutcomes
     \/ disturbed /\ request' = "timeout"
     \/ disturbed /\ request' = "exception" /\ Heard
  /\ request' = "timeout" => reqAge = TIMEOUT
  /\ UNCHANGED <<query, reqAge, busVars, findVars>>

Recover ==
  /\ disturbed
  /\ disturbed' = FALSE
  /\ UNCHANGED <<attached, requestVars, findVars>>
=============================================================================
