---------------------------- MODULE CallbackValue ----------------------------
(***************************************************************************)
(* utility/callback_value.h: the callbacks that report a value to the host *)
(* by period, threshold and change, asked by CommunicationCallback and     *)
(* sharing the one send buffer of SPITFP.                                  *)
(*                                                                         *)
(* The clock is a uint32_t; here it has CLOCK ticks, and instead of the    *)
(* time and last_time a callback keeps their difference.  A configuration  *)
(* is kept as the host gave it, from which Threshold computes the fields   *)
(* the code compares with.                                                 *)
(***************************************************************************)
EXTENDS CommunicationCallback

CONSTANTS
  VALUE_MIN, VALUE_MAX,  \* CALLBACK_VALUE_MIN and _MAX
  CLOCK,                 \* 2^32
  Configs,               \* Configs[h]: configurations the host sets for h
  Sensed,                \* Sensed[h]: what get_callback_value(h) may return
  None                   \* no value

Values == VALUE_MIN .. VALUE_MAX
Config == [period : 0 .. CLOCK - 1, value_has_to_change : BOOLEAN,
           option : {"x", "o", "i", "<", ">", "invalid"},
           min : Values, max : Values]

ASSUME ValueAssumption ==
  /\ VALUE_MIN \in Int /\ VALUE_MAX \in Int /\ VALUE_MIN <= VALUE_MAX
  /\ CLOCK \in Nat \ {0}
  /\ \A h \in Handlers : Configs[h] \subseteq Config /\ Sensed[h] \subseteq Values
  /\ None \notin Values

VARIABLES
  config,         \* period, value_has_to_change and threshold_*_user
  elapsed,        \* the time minus last_time
  value_last,
  cb,             \* the message while is_buffered, None otherwise
  send_possible,  \* bootloader_spitfp_is_send_possible
  sensor,         \* what get_callback_value would return
  received        \* history: the last value sent to the host, or None

valueVars == <<config, elapsed, value_last, cb>>
hostVars == <<send_possible, sensor, received>>
vars == <<dispatchVars, valueVars, hostVars>>

Off == [period |-> 0, value_has_to_change |-> FALSE, option |-> "x",
        min |-> VALUE_MIN, max |-> VALUE_MIN]

Init ==
  /\ DispatchInit
  /\ config = [h \in Handlers |-> Off]
  /\ elapsed = [h \in Handlers |-> 0]
  /\ value_last = [h \in Handlers |-> VALUE_MAX]
  /\ cb = [h \in Handlers |-> None]
  /\ send_possible = TRUE
  /\ sensor \in [Handlers -> Values]
  /\ \A h \in Handlers : sensor[h] \in Sensed[h]
  /\ received = [h \in Handlers |-> None]

\* threshold_option, threshold_min and threshold_max.
Threshold(c) ==
  CASE c.option = "<" -> [option |-> "o", min |-> c.min, max |-> VALUE_MAX]
    [] c.option = ">" -> [option |-> "o", min |-> VALUE_MIN, max |-> c.min]
    [] OTHER -> [option |-> c.option, min |-> c.min, max |-> c.max]

\* set_callback_value_callback_configuration; an unknown option is answered
\* with an error and changes nothing.
Configure(h, c) ==
  /\ Idle
  /\ IF c.option = "invalid"
     THEN UNCHANGED <<config, elapsed>>
     ELSE /\ config' = [config EXCEPT ![h] = c]
          /\ elapsed' = [elapsed EXCEPT ![h] = c.period]
  /\ UNCHANGED <<dispatchVars, hostVars, value_last, cb>>

Inside(c, value) ==
  LET t == Threshold(c)
      within == t.min <= value /\ value <= t.max
  IN  (t.option = "o" => ~within) /\ (t.option = "i" => within)

\* Is a callback triggered?  The checks before "If none of the above".
Triggered(h) ==
  /\ config[h].period # 0
  /\ elapsed[h] >= config[h].period
  /\ config[h].value_has_to_change => sensor[h] # value_last[h]
  /\ Inside(config[h], sensor[h])

Capture(h) == cb[h] = None /\ Triggered(h)

\* Bug: a message that has waited is filled anew when it can be sent.
MessageRefilled(h) == IF cb[h] # None \/ Triggered(h) THEN sensor[h] ELSE None

\* The message to send, if there is one.
Message(h) == IF Capture(h) THEN sensor[h] ELSE cb[h]

\* Bug: last_time is set when the check is made, not when it triggers.
RestartsAlways(h) == cb[h] = None
Restarts(h) == Capture(h)

\* handle_callback_value_callback, asked by the dispatcher.
Handle(h) ==
  LET message == Message(h)
      sent    == message # None /\ send_possible
  IN  /\ elapsed' = IF Restarts(h) THEN [elapsed EXCEPT ![h] = 0] ELSE elapsed
      /\ value_last' = IF Capture(h) THEN [value_last EXCEPT ![h] = sensor[h]]
                                     ELSE value_last
      /\ cb' = [cb EXCEPT ![h] = IF sent THEN None ELSE message]
      /\ received' = IF sent THEN [received EXCEPT ![h] = message] ELSE received
      /\ send_possible' = (send_possible /\ ~sent)
      /\ Ask(sent)
      /\ UNCHANGED <<config, sensor>>

AskNext == ~Idle /\ Handle(communication_callbacks[cb_index])

TickStarts == Tick /\ UNCHANGED <<valueVars, hostVars>>

MsPasses ==
  /\ Pass
  /\ elapsed' = [h \in Handlers |-> (elapsed[h] + 1) % CLOCK]
  /\ UNCHANGED <<config, value_last, cb, hostVars>>

\* The host acknowledges a message; bootloader_tick sees it between two ticks.
Acknowledged ==
  /\ Idle
  /\ ~send_possible
  /\ send_possible' = TRUE
  /\ UNCHANGED <<dispatchVars, valueVars, sensor, received>>

Sense(h) ==
  /\ \E v \in Sensed[h] \ {sensor[h]} : sensor' = [sensor EXCEPT ![h] = v]
  /\ UNCHANGED <<dispatchVars, valueVars, send_possible, received>>

Next ==
  \/ TickStarts
  \/ AskNext
  \/ MsPasses
  \/ Acknowledged
  \/ \E h \in Handlers : Sense(h) \/ \E c \in Configs[h] : Configure(h, c)

Spec == Init /\ [][Next]_vars

\* The main loop runs on, time passes, and the host acknowledges what it gets:
\* an acknowledgement stays in the receive buffer until bootloader_tick, between
\* two of the ticks here, so it is not missed because the loop has gone on.
FairSpec ==
  Spec /\ WF_vars(TickStarts) /\ WF_vars(AskNext)
       /\ WF_vars(MsPasses) /\ SF_vars(Acknowledged)
-----------------------------------------------------------------------------

\* The types of the fields: no invalid option is kept, the elapsed time wraps
\* with the clock, and the list of handlers stays a permutation.
TypeOK ==
  /\ DispatchTypeOK
  /\ config \in [Handlers -> Config]
  /\ \A h \in Handlers : config[h].option # "invalid"
  /\ elapsed \in [Handlers -> 0 .. CLOCK - 1]
  /\ value_last \in [Handlers -> Values]
  /\ cb \in [Handlers -> Values \cup {None}]
  /\ send_possible \in BOOLEAN
  /\ sensor \in [Handlers -> Values]
  /\ received \in [Handlers -> Values \cup {None}]

\* value_has_to_change is decided against what the host knows: value_last is
\* the last value sent, or the one that waits in the buffer, however sending
\* was delayed (callback_value.h:286-327).
LastIsKnown ==
  \A h \in Handlers :
    IF cb[h] # None THEN value_last[h] = cb[h]
    ELSE received[h] # None => value_last[h] = received[h]

\* The rotation of the list is fair: with handlers in front of it that always
\* have something to send and one message per acknowledgement, a buffered
\* message is sent all the same (communication_callback.c:42-47).
BufferedIsSent == \A h \in Handlers : cb[h] # None ~> cb[h] = None

\* A value that stays is reported: if the callback remains configured and the
\* sensor remains at a value that passes the threshold, the host gets to know
\* that value.  The exception is VALUE_MAX before anything was sent, with
\* which value_last is initialized: value_has_to_change then takes it for a
\* value already reported (callback_value.h:154, 307).
Wanted(h, v) ==
  /\ config[h].period # 0
  /\ sensor[h] = v
  /\ Inside(config[h], v)
  /\ ~(v = VALUE_MAX /\ received[h] = None)
StableIsReported ==
  \A h \in Handlers : \A v \in Sensed[h] : []<>(Wanted(h, v) => received[h] = v)
=============================================================================
