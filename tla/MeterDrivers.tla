---------------------------- MODULE MeterDrivers ----------------------------
(***************************************************************************)
(* warp/meter.c meter_tick with the drivers it calls once the meter's type *)
(* is found: meter_generic_tick, meter_eastron_tick, meter_eltako_tick and *)
(* meter_iskra_tick, over the requests of ModbusRequest.                   *)
(*                                                                         *)
(* Time passes in units, at most one between two rounds of the main loop.  *)
(* A list of registers stands for the meters' lists; of the values read    *)
(* only the voltages matter, from which the connected phases follow.       *)
(***************************************************************************)
EXTENDS MeterDetection, RegisterList

CONSTANTS
  Wirings,      \* which phases may be connected: "one", "three", "other"
  FIRST_WAIT,   \* the 2500 ms before the first request
  ERROR_WAIT,   \* the 500 ms after a request that was given up
  FAST,         \* the 500 ms between two fast reads
  INTERVAL,     \* METER_ISKRA_FAST_INTERVAL_MS, and Eltako's 100 ms
  WATCHDOG,     \* the 60 s after which meter_tick hangs
  LATENCY,      \* how long a healthy meter takes to answer
  CALC_STEPS    \* the steps of meter_eltako_handle_register_set_read_done

ASSUME DriverAssumption ==
  /\ Wirings \subseteq {"one", "three", "other"}
  /\ {FIRST_WAIT, ERROR_WAIT, FAST, INTERVAL, WATCHDOG, LATENCY, CALC_STEPS} \subseteq Nat
  /\ LATENCY <= TIMEOUT

VARIABLES
  meter_state,      \* meter.state
  last_state,       \* the static last_state of meter_tick
  sinceChange,      \* time since meter.timeout, up to WATCHDOG
  firstTick,        \* time since meter.first_tick, NoWait when that is 0
  errorWait,        \* time since meter.error_wait_time, NoWait when that is 0
  sinceFast,        \* since register_fast_time, fast_start_time or
                    \* eltako_time_since_read, whichever the driver has
  read_fast,        \* the static read_fast
  fast_pos,         \* meter.register_fast_position
  full_pos,         \* meter.register_full_position, eltako_data_i
  each_value_read_once,
  volts,            \* VoltageL1N to L3N: "unset", "read" or "garbage"
  phases_connected, \* "none", "one", "three", "other"
  system_type_read, \* meter.system_type_read: "zero", "1P2W" or "3P4W"
  new_system_type,
  fast_active,      \* meter_iskra.fast_active
  fast_state,       \* meter_iskra.fast_state
  data_new,         \* the static eltako_data_new
  wiring,           \* the phases that really are connected
  configured,       \* the system type that the meter has
  ticked            \* has meter_tick run since time last passed?

listVars == <<read_fast, fast_pos, full_pos, each_value_read_once, volts>>
systemVars == <<phases_connected, system_type_read, new_system_type>>
iskraVars == <<fast_active, fast_state, data_new>>
worldVars == <<wiring, configured>>
timerVars == <<last_state, sinceChange, firstTick, errorWait, sinceFast>>
vars == <<busVars, requestVars, findVars, meter_state, timerVars, listVars,
          systemVars, iskraVars, worldVars, ticked>>

NoWait == -1
SINCE == Max({2 * FAST, INTERVAL})   \* a bound for sinceFast
Capped(age, cap) == IF age < cap THEN age + 1 ELSE cap

Init ==
  /\ DetectionInit
  /\ meter_state = 0 /\ last_state = 255 /\ sinceChange = 0
  /\ firstTick = 0 /\ errorWait = NoWait /\ sinceFast = 0
  /\ read_fast = FALSE /\ fast_pos = 1 /\ full_pos = 1
  /\ each_value_read_once = FALSE /\ volts = "unset"
  /\ phases_connected = "none" /\ system_type_read = "zero" /\ new_system_type = FALSE
  /\ fast_active = FALSE /\ fast_state = 0 /\ data_new = FALSE
  /\ wiring \in Wirings /\ configured \in {"1P2W", "3P4W"}
  /\ attached \notin {"SDM630", "SDM630MCTV2"} => configured = "3P4W"
  /\ ticked = FALSE

\* The phases that meter_handle_phases_connected may see: a voltage that was
\* never stored is NaN, one stored after an error is anything.
PhasesSeen == CASE volts = "unset"   -> {"none"}
                [] volts = "read"    -> {wiring}
                [] volts = "garbage" -> {"none", "one", "three", "other"}
HandlePhases == phases_connected' \in PhasesSeen

\* What meter_handle_new_data stores for the register at pos; the first one of
\* a list is a voltage.
Stored(pos) == IF pos # 1 THEN volts ELSE IF request = "answer" THEN "read" ELSE "garbage"

\* meter_is_response_ready and what follows on it: a request that was given up
\* makes meter_tick wait.
ResponseReady == request \in Settled

Ask(what) == Begin(MeterOf[type], what)

-----------------------------------------------------------------------------
(* meter_generic_tick and meter_eastron_tick                               *)

ListRequest ==
  /\ meter_state = 0
  /\ read_fast' = (sinceFast >= FAST \/ read_fast)
  /\ Ask("register")
  /\ meter_state' = 1
  /\ UNCHANGED <<sinceFast, fast_pos, full_pos, each_value_read_once, volts, systemVars>>

\* register_fast_time += 500, taken to now when even that is over.
NextFastTime == IF sinceFast >= 2 * FAST THEN 0 ELSE sinceFast - FAST

\* Bug: read_fast stays set when the walk has come to its end.
TakeFastForEver ==
  /\ read_fast
  /\ meter_state' = 0
  /\ fast_pos' = NextPos(fast_pos, TRUE)
  /\ volts' = Stored(fast_pos)
  /\ UNCHANGED <<read_fast, sinceFast, full_pos, each_value_read_once>>

TakeFast ==
  /\ read_fast
  /\ meter_state' = 0
  /\ fast_pos' = NextPos(fast_pos, TRUE)
  /\ volts' = Stored(fast_pos)
  /\ read_fast' = ~Wraps(fast_pos, TRUE)
  /\ sinceFast' = IF Wraps(fast_pos, TRUE) THEN NextFastTime ELSE sinceFast
  /\ UNCHANGED <<full_pos, each_value_read_once>>

TakeFull ==
  /\ ~read_fast
  /\ meter_state' = 2
  /\ full_pos' = NextPos(full_pos, FALSE)
  /\ volts' = Stored(full_pos)
  /\ each_value_read_once' = (each_value_read_once \/ Wraps(full_pos, FALSE))
  /\ UNCHANGED <<read_fast, sinceFast, fast_pos>>

ListResponse ==
  /\ meter_state = 1 /\ ResponseReady
  /\ TakeFast \/ TakeFull
  /\ ClearRequest
  /\ UNCHANGED systemVars

\* State 2, before the drivers part: is the list done?
ListDone == full_pos = 1 /\ each_value_read_once

ListNotDone ==
  /\ meter_state = 2 /\ ~ListDone
  /\ meter_state' = 0
  /\ UNCHANGED <<requestVars, sinceFast, listVars, systemVars>>

GenericDone ==
  /\ meter_state = 2 /\ ListDone
  /\ HandlePhases
  /\ meter_state' = 0
  /\ UNCHANGED <<requestVars, sinceFast, listVars, system_type_read, new_system_type>>

\* The system type that fits the phases, if it has to be one.
Fitting(phases) == CASE phases = "one"   -> {"1P2W"}
                     [] phases = "three" -> {"3P4W"}
                     [] OTHER            -> {}

\* Bug: the type that was read is not compared with the one that fits.
MisfitAlways(phases) == Fitting(phases) # {}

\* meter_eastron_handle_new_system_type: is a new one needed?  What was not
\* read yet is not an allowed type.
Misfit(phases) == IF system_type_read' = "zero" THEN TRUE
                  ELSE Fitting(phases) \ {system_type_read'} # {}

\* The states of meter_eastron_tick from 2 on; "to" says where it goes on.
EastronAsk(from, what, to) ==
  /\ meter_state = from
  /\ Ask(what)
  /\ meter_state' = to

EastronResponse(from, to) ==
  /\ meter_state = from /\ ResponseReady
  /\ ClearRequest
  /\ meter_state' = to

EastronSystemType ==
  \/ /\ ListDone
     /\ EastronAsk(2, "system type", 3)
     /\ UNCHANGED systemVars
  \/ /\ EastronResponse(3, 4)
     /\ system_type_read' = IF request = "answer" THEN configured ELSE system_type_read
     /\ HandlePhases
     /\ new_system_type' = (new_system_type \/ Misfit(phases_connected'))
  \/ /\ meter_state = 4 /\ ~new_system_type
     /\ meter_state' = 0
     /\ UNCHANGED <<requestVars, systemVars>>
  \/ /\ new_system_type
     /\ EastronAsk(4, "password", 5)
     /\ new_system_type' = FALSE
     /\ UNCHANGED <<phases_connected, system_type_read>>
  \/ /\ EastronResponse(5, 6) \/ EastronResponse(7, 8)
     /\ UNCHANGED systemVars
  \/ /\ \E t \in Fitting(phases_connected) : EastronAsk(6, t, 7)
     /\ UNCHANGED systemVars
  \/ /\ \/ meter_state = 6 /\ Fitting(phases_connected) = {}
        \/ meter_state = 8
     /\ meter_state' = 0
     /\ UNCHANGED <<requestVars, systemVars>>

Waits(states) ==
  /\ meter_state \in states /\ ~ResponseReady
  /\ UNCHANGED <<requestVars, meter_state, sinceFast, listVars, systemVars, iskraVars>>

GenericTick ==
  \/ ListRequest /\ UNCHANGED iskraVars
  \/ ListResponse /\ UNCHANGED iskraVars
  \/ ListNotDone /\ UNCHANGED iskraVars
  \/ GenericDone /\ UNCHANGED iskraVars
  \/ Waits({1})

EastronTick ==
  \/ ListRequest /\ UNCHANGED iskraVars
  \/ ListResponse /\ UNCHANGED iskraVars
  \/ ListNotDone /\ UNCHANGED iskraVars
  \/ EastronSystemType /\ UNCHANGED <<sinceFast, listVars, iskraVars>>
  \/ Waits({1, 3, 5, 7})

-----------------------------------------------------------------------------
(* meter_eltako_tick: all registers at once, then one per round, then the  *)
(* computed values one per round until 100 ms have passed.                 *)

EltakoRequest ==
  /\ meter_state = 0
  /\ Ask("register")
  /\ meter_state' = 1
  /\ UNCHANGED <<sinceFast, listVars, phases_connected, data_new>>

\* Bug: the time of the read is not noted.
EltakoResponseUntimed ==
  /\ meter_state = 1 /\ ResponseReady
  /\ meter_state' = 2
  /\ data_new' = TRUE
  /\ full_pos' = 1
  /\ UNCHANGED <<requestVars, sinceFast, read_fast, fast_pos, each_value_read_once, volts,
                 phases_connected>>

EltakoResponseRead ==
  /\ meter_state = 1 /\ ResponseReady
  /\ sinceFast' = 0
  /\ meter_state' = 2
  /\ data_new' = TRUE
  /\ full_pos' = 1
  /\ UNCHANGED <<requestVars, read_fast, fast_pos, each_value_read_once, volts,
                 phases_connected>>

\* The values of an earlier answer are in eltako_data after an error.
EltakoHandleData ==
  /\ meter_state = 2
  /\ \/ /\ full_pos <= Len(FastRead)
        /\ volts' = IF full_pos = 1 /\ request = "answer" THEN "read" ELSE volts
        /\ full_pos' = full_pos + 1
        /\ UNCHANGED <<requestVars, meter_state, phases_connected>>
     \/ /\ full_pos > Len(FastRead)
        /\ ClearRequest
        /\ meter_state' = 3
        /\ HandlePhases
        /\ full_pos' = 1
        /\ UNCHANGED volts
  /\ UNCHANGED <<sinceFast, data_new, read_fast, fast_pos, each_value_read_once>>

\* Bug: once all is computed, the time is not looked at any more.
EltakoCalculateOnly ==
  /\ meter_state = 3
  /\ \/ /\ data_new
        /\ full_pos' = IF full_pos <= CALC_STEPS THEN full_pos + 1 ELSE 1
        /\ data_new' = (full_pos <= CALC_STEPS)
        /\ each_value_read_once' = (each_value_read_once \/ full_pos > CALC_STEPS)
     \/ ~data_new /\ UNCHANGED <<data_new, full_pos, each_value_read_once>>
  /\ UNCHANGED <<requestVars, meter_state, sinceFast, read_fast, fast_pos, volts,
                 phases_connected>>

EltakoCalculate ==
  /\ meter_state = 3
  /\ \/ /\ sinceFast >= INTERVAL
        /\ data_new' = FALSE /\ full_pos' = 1 /\ meter_state' = 0
        /\ UNCHANGED each_value_read_once
     \/ /\ sinceFast < INTERVAL /\ data_new
        /\ full_pos' = IF full_pos <= CALC_STEPS THEN full_pos + 1 ELSE 1
        /\ data_new' = (full_pos <= CALC_STEPS)
        /\ each_value_read_once' = (each_value_read_once \/ full_pos > CALC_STEPS)
        /\ UNCHANGED meter_state
     \/ /\ sinceFast < INTERVAL /\ ~data_new
        /\ UNCHANGED <<data_new, full_pos, meter_state, each_value_read_once>>
  /\ UNCHANGED <<requestVars, sinceFast, read_fast, fast_pos, volts, phases_connected>>

EltakoTick ==
  \/ /\ EltakoRequest \/ EltakoResponseRead \/ EltakoHandleData \/ EltakoCalculate
     /\ UNCHANGED <<system_type_read, new_system_type, fast_active, fast_state>>
  \/ Waits({1})

-----------------------------------------------------------------------------
(* meter_iskra_tick: between two requests of the full list, every 100 ms,  *)
(* the fast registers in two blocks.                                       *)

FastDue == fast_active \/ (meter_state = 0 /\ sinceFast >= INTERVAL)

IskraFastTick ==
  \/ /\ fast_state = 0
     /\ fast_active' = TRUE
     /\ sinceFast' = 0
     /\ Ask("fast block")
     /\ fast_state' = 1
     /\ UNCHANGED <<volts, phases_connected>>
  \/ /\ fast_state = 1 /\ ResponseReady
     /\ IF request = "answer"
        THEN volts' = "read" /\ phases_connected' = wiring
        ELSE UNCHANGED <<volts, phases_connected>>
     /\ ClearRequest
     /\ fast_state' = 2
     /\ UNCHANGED <<fast_active, sinceFast>>
  \/ /\ fast_state = 2
     /\ Ask("fast block")
     /\ fast_state' = 3
     /\ UNCHANGED <<fast_active, sinceFast, volts, phases_connected>>
  \/ /\ fast_state = 3 /\ ResponseReady
     /\ ClearRequest
     /\ fast_state' = 0
     /\ fast_active' = FALSE
     /\ UNCHANGED <<sinceFast, volts, phases_connected>>
  \/ /\ fast_state \in {1, 3} /\ ~ResponseReady
     /\ UNCHANGED <<requestVars, fast_state, fast_active, sinceFast, volts, phases_connected>>

\* The full list, one register after the other, fast or not.
IskraNext(pos) == IF pos < Len(FastRead) THEN pos + 1 ELSE 1

IskraFullTick ==
  \/ /\ meter_state \in {0, 3, 5}
     /\ Ask("register")
     /\ meter_state' = meter_state + 1
     /\ UNCHANGED <<full_pos, each_value_read_once, volts, phases_connected>>
  \/ /\ meter_state = 1 /\ ResponseReady
     /\ volts' = Stored(full_pos)
     /\ ClearRequest
     /\ meter_state' = 2
     /\ full_pos' = IskraNext(full_pos)
     /\ each_value_read_once' = (each_value_read_once \/ IskraNext(full_pos) = 1)
     /\ UNCHANGED phases_connected
  \/ /\ meter_state = 2 /\ ~ListDone
     /\ meter_state' = 0
     /\ UNCHANGED <<requestVars, full_pos, each_value_read_once, volts, phases_connected>>
  \/ /\ meter_state = 2 /\ ListDone
     /\ HandlePhases
     /\ meter_state' = 3
     /\ UNCHANGED <<requestVars, full_pos, each_value_read_once, volts>>
  \/ /\ meter_state \in {4, 6} /\ ResponseReady
     /\ ClearRequest
     /\ meter_state' = meter_state + 1
     /\ UNCHANGED <<full_pos, each_value_read_once, volts, phases_connected>>
  \/ /\ meter_state = 7
     /\ meter_state' = 0
     /\ UNCHANGED <<requestVars, full_pos, each_value_read_once, volts, phases_connected>>
  \/ /\ meter_state \in {1, 4, 6} /\ ~ResponseReady
     /\ UNCHANGED <<requestVars, meter_state, full_pos, each_value_read_once, volts,
                    phases_connected>>

IskraTick ==
  /\ \/ FastDue /\ IskraFastTick /\ UNCHANGED <<meter_state, full_pos, each_value_read_once>>
     \/ ~FastDue /\ IskraFullTick /\ UNCHANGED <<fast_active, fast_state, sinceFast>>
  /\ UNCHANGED <<read_fast, fast_pos, system_type_read, new_system_type, data_new>>

-----------------------------------------------------------------------------
(* meter_tick                                                              *)

\* Is it one of the early returns?
MustWait == \/ type = "UNSUPPORTED"
            \/ errorWait # NoWait /\ errorWait < ERROR_WAIT
            \/ firstTick # NoWait /\ firstTick < FIRST_WAIT

IskraTypes == {"WM3M4", "WM3M4C"}

\* meter_has_errors, when this tick takes a response.
ErrorWaitAfter ==
  LET taken == IF type \in EltakoTypes THEN meter_state = 1 ELSE request' = "none"
  IN IF request = "timeout" /\ taken THEN 0 ELSE NoWait

Find ==
  /\ type = "UNKNOWN"
  /\ FindMeterType
  /\ sinceChange' = IF type' # "UNKNOWN" THEN 0 ELSE sinceChange
  /\ UNCHANGED <<last_state, meter_state, sinceFast, listVars, systemVars, iskraVars>>

Hung == type \notin {"UNKNOWN", "UNSUPPORTED"}
        /\ last_state = meter_state /\ sinceChange = WATCHDOG

Drive ==
  /\ type # "UNKNOWN" /\ ~Hung
  /\ last_state' = meter_state
  /\ sinceChange' = IF last_state # meter_state THEN 0 ELSE sinceChange
  /\ CASE type \in {"SDM72V2", "SDM630", "SDM630MCTV2"} -> EastronTick
       [] type = "DEM4A"                                -> GenericTick
       [] type \in IskraTypes                           -> IskraTick
       [] type \in EltakoTypes                          -> EltakoTick
  /\ UNCHANGED <<type, find_state, step>>

MeterTick ==
  /\ ticked' = TRUE
  /\ \/ MustWait /\ UNCHANGED <<requestVars, type, find_state, step, meter_state, timerVars,
                                listVars, systemVars, iskraVars>>
     \/ /\ ~MustWait
        /\ Find \/ Drive
        /\ firstTick' = NoWait
        /\ errorWait' = ErrorWaitAfter
  /\ UNCHANGED <<busVars, worldVars>>

-----------------------------------------------------------------------------
\* A write takes effect with the answer, and perhaps without one.
Written == MeterOf[attached] = query[1] /\ Writable(query[2])

BusSettles ==
  /\ Settling
  /\ \/ /\ query[2] \in {"1P2W", "3P4W"} /\ Written
        /\ request' \in {"answer", "timeout"}
        /\ configured' = query[2]
     \/ /\ query[2] \in {"1P2W", "3P4W"} => request' # "answer"
        /\ UNCHANGED configured
  /\ UNCHANGED <<meter_state, timerVars, listVars, systemVars, iskraVars, wiring, ticked>>

BusRecovers ==
  /\ Recover
  /\ UNCHANGED <<meter_state, timerVars, listVars, systemVars, iskraVars, worldVars, ticked>>

\* A request is settled in time.
Deadline == IF ~disturbed /\ Heard THEN LATENCY ELSE TIMEOUT

TimePasses ==
  /\ ticked
  /\ request = "waiting" => reqAge < Deadline
  /\ ticked' = FALSE
  /\ reqAge' = IF request = "waiting" THEN reqAge + 1 ELSE reqAge
  /\ sinceChange' = Capped(sinceChange, WATCHDOG)
  /\ firstTick' = IF firstTick = NoWait THEN NoWait ELSE Capped(firstTick, FIRST_WAIT)
  /\ errorWait' = IF errorWait = NoWait THEN NoWait ELSE Capped(errorWait, ERROR_WAIT)
  /\ sinceFast' = Capped(sinceFast, SINCE)
  /\ UNCHANGED <<busVars, request, query, findVars, meter_state, last_state, listVars,
                 systemVars, iskraVars, worldVars>>

Next == MeterTick \/ BusSettles \/ BusRecovers \/ TimePasses

\* The main loop and the bus go on, a disturbance ends, and time passes even
\* though no time may be left while an answer is due.
Fairness ==
  /\ WF_vars(MeterTick) /\ WF_vars(BusSettles) /\ WF_vars(BusRecovers)
  /\ SF_vars(TimePasses)

Spec == Init /\ [][Next]_vars
FairSpec == Spec /\ Fairness
-----------------------------------------------------------------------------
(* Properties.                                                             *)

\* The types of the drivers' and the detection's fields; positions stay in
\* the lists, the states in their switches.
TypeOK ==
  /\ attached \in Attached /\ disturbed \in BOOLEAN
  /\ request \in Settled \cup {"none", "waiting"} /\ reqAge \in 0 .. TIMEOUT
  /\ type \in Types /\ find_state \in 0 .. 4
  /\ step \in [Manufacturers -> 0 .. 7]
  /\ meter_state \in 0 .. 8 /\ last_state \in 0 .. 8 \cup {255}
  /\ sinceChange \in 0 .. WATCHDOG /\ firstTick \in NoWait .. FIRST_WAIT
  /\ errorWait \in NoWait .. ERROR_WAIT /\ sinceFast \in 0 .. SINCE
  /\ fast_pos \in DOMAIN FastRead
  /\ full_pos \in 1 .. (IF type \in EltakoTypes THEN Len(FastRead) + 1 + CALC_STEPS
                                                ELSE Len(FastRead))
  /\ {read_fast, each_value_read_once, new_system_type, fast_active, data_new, ticked}
       \subseteq BOOLEAN
  /\ volts \in {"unset", "read", "garbage"}
  /\ {phases_connected, wiring} \subseteq {"none", "one", "three", "other"}
  /\ system_type_read \in {"zero", "1P2W", "3P4W"} /\ configured \in {"1P2W", "3P4W"}
  /\ fast_state \in 0 .. 3

\* The meter that is found is the one on the bus, whatever is lost, refused or
\* answered with another register while the manufacturers are tried in turn,
\* but for the default that meter_eltako.c:134 names: "Assume DSZ15DZMOD as
\* default".
DetectionIsRight ==
  /\ type = "UNSUPPORTED" => attached = "SDM72V1"
  /\ type \in DOMAIN MeterOf =>
       type = attached \/ (type = "DSZ15DZMOD" /\ attached = "DSZ16DZE")

\* meter.c:584 "This should never happen": no driver but Iskra's stays in a
\* state for the watchdog's time, whatever the bus does.
WatchdogStaysQuiet == Hung => type \in IskraTypes

\* All of the detection and the drivers use the Modbus master as it expects:
\* a request is started only after the one before is cleared, and cleared
\* only when it is settled (modbus_start_tx checks neither).
RequestProtocol == Modbus!Spec

\* Every supported meter is found in the end, and all its values are read
\* once, the ones that meter_eltako.c computes in what is left of its 100 ms
\* included (each_value_read_once).
AllValuesAreRead ==
  attached \notin {"nothing", "SDM72V1"} => <>(each_value_read_once \/ Hung)

\* The list is read again and again: neither the fast reads nor the system
\* type, the status registers or the computed values keep it from its turn.
ReadingGoesOn ==
  \/ <>[](type \in {"UNKNOWN", "UNSUPPORTED"} \/ Hung)
  \/ []<>(full_pos = 1) /\ []<>(full_pos # 1)

\* Once the bus is healthy the SDM630 has the system type that fits its phases
\* and is not written any more, even if a read that failed has made
\* meter_eastron.c write another one before.
SystemTypeSettles ==
  attached = "SDM630" =>
    <>[](Fitting(wiring) \subseteq {configured} /\ meter_state # 7)
=============================================================================
