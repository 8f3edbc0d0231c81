-------------------------- MODULE MCCallbackValue --------------------------
(* The instance of CallbackValue that TLC explores.                        *)
EXTENDS CallbackValue

CONSTANTS busy, other

Cfg(period, change, option) ==
  [period |-> period, value_has_to_change |-> change, option |-> option,
   min |-> 0, max |-> 0]

\* busy has something to send whenever it is asked; the other one is
\* reconfigured at any time and its value changes.
MCConfigs ==
  [h \in Handlers |->
     IF h = busy THEN {Cfg(1, FALSE, "x")}
     ELSE {Cfg(0, FALSE, "x"), Cfg(2, TRUE, "x"), Cfg(1, FALSE, ">"),
           Cfg(2, FALSE, "invalid")}]
MCSensed == [h \in Handlers |-> IF h = busy THEN {0} ELSE {0, 1}]
=============================================================================
