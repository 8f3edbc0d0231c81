--------------------------- MODULE CallbackProofs ---------------------------
(***************************************************************************)
(* For every number of handlers and whichever of them send, the list stays *)
(* a permutation and a tick asks everybody exactly once; and with the      *)
(* handlers of callback_value.h, whatever the host sets and the sensors    *)
(* say, value_last is what the host knows or is about to get.              *)
(***************************************************************************)
EXTENDS CallbackValue, TLAPS

\* Inductive form of AskedOnce: of the rounds done, cb_index handlers stayed
\* in front of the index, the others are at the back.
AskedSlots == (0 .. cb_index - 1)
                \cup (HANDLER_NUM - (rounds - cb_index) .. HANDLER_NUM - 1)
AskedAreKnown == asked = {communication_callbacks[i] : i \in AskedSlots}

IInv == DispatchTypeOK /\ AskedAreKnown

\* Moving an entry to the back permutes the list.
LEMMA ToTheBackPermutes ==
  ASSUME NEW list \in Bijections, NEW i \in Slots
  PROVE  ToTheBack(list, i) \in Bijections
<1> DEFINE new == ToTheBack(list, i)
<1> USE CallbackAssumption DEF Slots
<1>1. new \in [Slots -> Handlers]
  BY DEF ToTheBack, Bijections
<1>2. ASSUME NEW a \in Slots, NEW b \in Slots, new[a] = new[b]
      PROVE  a = b
  <2> DEFINE Old(j) == IF j < i THEN j ELSE IF j < HANDLER_NUM - 1 THEN j + 1 ELSE i
  <2>1. Old(a) \in Slots /\ Old(b) \in Slots
    OBVIOUS
  <2>2. new[a] = list[Old(a)] /\ new[b] = list[Old(b)]
    BY DEF ToTheBack
  <2>3. Old(a) = Old(b)
    BY <1>2, <2>1, <2>2 DEF Bijections
  <2>4. QED
    BY <2>3
<1>3. ASSUME NEW h \in Handlers
      PROVE  \E j \in Slots : new[j] = h
  <2>1. PICK j \in Slots : list[j] = h
    BY DEF Bijections
  <2>2. CASE j < i
    BY <2>1, <2>2 DEF ToTheBack
  <2>3. CASE j = i
    <3>1. new[HANDLER_NUM - 1] = h
      BY <2>1, <2>3 DEF ToTheBack
    <3>2. QED
      BY <3>1
  <2>4. CASE j > i
    <3>1. j - 1 \in Slots /\ new[j - 1] = h
      BY <2>1, <2>4 DEF ToTheBack
    <3>2. QED
      BY <3>1
  <2>5. QED
    BY <2>2, <2>3, <2>4
<1>4. QED
  BY <1>1, <1>2, <1>3 DEF Bijections

\* At the start nobody was asked and the list is a permutation.
LEMMA InitHolds == DispatchInit => IInv
<1> SUFFICES ASSUME DispatchInit PROVE IInv
  OBVIOUS
<1> USE CallbackAssumption DEF DispatchInit, Slots
<1>1. DispatchTypeOK
  BY DEF DispatchTypeOK
<1>2. AskedSlots = Slots
  BY DEF AskedSlots
<1>3. Handlers = {communication_callbacks[i] : i \in Slots}
  BY DEF Bijections
<1>4. QED
  BY <1>1, <1>2, <1>3 DEF IInv, AskedAreKnown

\* A round: the handlers asked before keep a place among the asked ones, and
\* the one just asked joins them in front of the index or at the back.
LEMMA AskHolds ==
  ASSUME IInv, NEW sent \in BOOLEAN, Ask(sent)
  PROVE  IInv'
<1> DEFINE list == communication_callbacks
<1> USE CallbackAssumption DEF Slots
<1>1. /\ list \in Bijections /\ rounds \in 0 .. HANDLER_NUM - 1
      /\ cb_index \in 0 .. rounds /\ cb_index \in Slots
  BY DEF IInv, DispatchTypeOK, Ask, Idle
<1>2. list[cb_index] \in Handlers
  BY <1>1 DEF Bijections
<1>3. CASE sent
  <2>1. /\ list' = ToTheBack(list, cb_index)
        /\ cb_index' = cb_index
        /\ rounds' = rounds + 1
        /\ asked' = asked \cup {list[cb_index]}
        /\ tickAge' = tickAge
    BY <1>3 DEF Ask, NextIndex
  <2>2. DispatchTypeOK'
    BY <1>1, <1>2, <2>1, ToTheBackPermutes DEF IInv, DispatchTypeOK
  <2>3. AskedSlots' = (0 .. cb_index - 1)
                         \cup (HANDLER_NUM - (rounds + 1 - cb_index) .. HANDLER_NUM - 1)
    <3>1. cb_index' = cb_index /\ rounds' = rounds + 1
      BY <2>1
    <3>2. QED
      BY <1>1, <3>1 DEF AskedSlots
  <2>4. ASSUME NEW h
        PROVE  h \in asked' => \E i \in AskedSlots' : list'[i] = h
    <3>1. CASE h = list[cb_index]
      <4>1. HANDLER_NUM - 1 \in AskedSlots' /\ list'[HANDLER_NUM - 1] = h
        BY <1>1, <2>1, <2>3, <3>1 DEF ToTheBack
      <4>2. QED
        BY <4>1
    <3>2. ASSUME h \in asked
          PROVE  \E i \in AskedSlots' : list'[i] = h
      <4>1. PICK i \in AskedSlots : list[i] = h
        BY <3>2 DEF IInv, AskedAreKnown
      <4>2. CASE i < cb_index
        BY <1>1, <2>1, <2>3, <4>1, <4>2 DEF ToTheBack, AskedSlots
      <4>3. CASE i >= cb_index
        <5>1. i - 1 \in AskedSlots' /\ list'[i - 1] = h
          BY <1>1, <2>1, <2>3, <4>1, <4>3 DEF ToTheBack, AskedSlots
        <5>2. QED
          BY <5>1
      <4>4. QED
        BY <1>1, <4>2, <4>3 DEF AskedSlots
    <3>3. QED
      BY <2>1, <3>1, <3>2
  <2>5. ASSUME NEW i \in AskedSlots'
        PROVE  list'[i] \in asked'
    <3>1. CASE i < cb_index
      BY <1>1, <2>1, <2>3, <3>1 DEF ToTheBack, IInv, AskedAreKnown, AskedSlots
    <3>2. CASE i = HANDLER_NUM - 1 /\ i >= cb_index
      BY <1>1, <2>1, <3>2 DEF ToTheBack
    <3>3. CASE i >= cb_index /\ i < HANDLER_NUM - 1
      <4>1. i + 1 \in AskedSlots /\ list'[i] = list[i + 1]
        BY <1>1, <2>1, <2>3, <3>3 DEF ToTheBack, AskedSlots
      <4>2. QED
        BY <2>1, <4>1 DEF IInv, AskedAreKnown
    <3>4. QED
      BY <1>1, <2>3, <3>1, <3>2, <3>3
  <2>6. AskedAreKnown'
    BY <2>4, <2>5 DEF AskedAreKnown
  <2>7. QED
    BY <2>2, <2>6 DEF IInv
<1>4. CASE ~sent
  <2>1. /\ list' = list
        /\ cb_index' = cb_index + 1
        /\ rounds' = rounds + 1
        /\ asked' = asked \cup {list[cb_index]}
        /\ tickAge' = tickAge
    BY <1>4 DEF Ask, NextIndex
  <2>2. DispatchTypeOK'
    BY <1>1, <1>2, <2>1 DEF IInv, DispatchTypeOK
  <2>3. AskedSlots' = AskedSlots \cup {cb_index}
    BY <1>1, <2>1 DEF AskedSlots
  <2>4. AskedAreKnown'
    BY <2>1, <2>3 DEF IInv, AskedAreKnown
  <2>5. QED
    BY <2>2, <2>4 DEF IInv
<1>5. QED
  BY <1>3, <1>4

\* A round of communication_callback_tick keeps track of who was asked.
LEMMA StepHolds == IInv /\ [DispatchNext]_dispatchVars => IInv'
<1> SUFFICES ASSUME IInv, [DispatchNext]_dispatchVars PROVE IInv'
  OBVIOUS
<1>1. CASE Tick
  <2>1. DispatchTypeOK'
    BY <1>1, CallbackAssumption DEF Tick, IInv, DispatchTypeOK
  <2>2. AskedSlots' = {}
    BY <1>1, CallbackAssumption DEF Tick, AskedSlots
  <2>3. QED
    BY <1>1, <2>1, <2>2 DEF Tick, IInv, AskedAreKnown
<1>2. CASE Pass
  BY <1>2, CallbackAssumption
     DEF Pass, IInv, DispatchTypeOK, AskedAreKnown, AskedSlots
<1>3. CASE \E sent \in BOOLEAN : Ask(sent)
  BY <1>3, AskHolds
<1>4. CASE UNCHANGED dispatchVars
  BY <1>4 DEF dispatchVars, IInv, DispatchTypeOK, AskedAreKnown, AskedSlots
<1>5. QED
  BY <1>1, <1>2, <1>3, <1>4 DEF DispatchNext

\* The slots that were asked leave out the next one, and in the end nobody.
LEMMA IInvImplies == IInv => AskedOnce
<1> SUFFICES ASSUME IInv PROVE AskedOnce
  OBVIOUS
<1> DEFINE list == communication_callbacks
<1> USE CallbackAssumption DEF Slots
<1>1. /\ list \in Bijections /\ rounds \in 0 .. HANDLER_NUM
      /\ cb_index \in 0 .. rounds
  BY DEF IInv, DispatchTypeOK
<1>2. AskedSlots \subseteq Slots
  BY <1>1 DEF AskedSlots
<1>3. ASSUME ~Idle PROVE list[cb_index] \notin asked
  <2>1. cb_index \in Slots /\ cb_index \notin AskedSlots
    BY <1>1, <1>3 DEF Idle, AskedSlots
  <2>2. QED
    BY <1>1, <1>2, <2>1 DEF IInv, AskedAreKnown, Bijections
<1>4. ASSUME Idle PROVE asked = Handlers
  <2>1. AskedSlots = Slots
    BY <1>1, <1>4 DEF Idle, AskedSlots
  <2>2. QED
    BY <1>1, <2>1 DEF IInv, AskedAreKnown, Bijections
<1>5. QED
  BY <1>3, <1>4 DEF AskedOnce

-----------------------------------------------------------------------------

\* The callbacks only move the dispatcher as communication_callback.c does.
LEMMA StepDispatches == [Next]_vars => [DispatchNext]_dispatchVars
<1> SUFFICES ASSUME Next PROVE [DispatchNext]_dispatchVars
  BY DEF vars
<1>1. CASE AskNext
  <2> DEFINE h == communication_callbacks[cb_index]
             sent == Message(h) # None /\ send_possible
  <2>1. Ask(sent)
    BY <1>1 DEF AskNext, Handle
  <2>2. CASE sent
    BY <2>1, <2>2 DEF DispatchNext, Ask, NextIndex
  <2>3. CASE ~sent
    BY <2>1, <2>3 DEF DispatchNext, Ask, NextIndex
  <2>4. QED
    BY <2>2, <2>3
<1>2. CASE TickStarts \/ MsPasses
  BY <1>2 DEF TickStarts, MsPasses, DispatchNext
<1>3. CASE Acknowledged
  BY <1>3 DEF Acknowledged
<1>4. ASSUME NEW h \in Handlers, Sense(h) \/ \E c \in Configs[h] : Configure(h, c)
      PROVE  [DispatchNext]_dispatchVars
  BY <1>4 DEF Sense, Configure
<1>5. QED
  BY <1>1, <1>2, <1>3, <1>4 DEF Next

\* A tick asks each handler exactly once, whichever of them send
\* (communication_callback.c:41-51).
THEOREM AskedExactlyOnce == Spec => []AskedOnce
<1>1. Init => DispatchInit
  BY DEF Init
<1>2. QED
  BY <1>1, InitHolds, StepHolds, StepDispatches, IInvImplies, PTL DEF Spec

-----------------------------------------------------------------------------

\* What a handler leaves behind, its message and its fields.
LEMMA HandleKeepsTypes ==
  ASSUME TypeOK, NEW h \in Handlers, Handle(h)
  PROVE  /\ config' \in [Handlers -> Config]
         /\ \A g \in Handlers : config'[g].option # "invalid"
         /\ elapsed' \in [Handlers -> 0 .. CLOCK - 1]
         /\ value_last' \in [Handlers -> Values]
         /\ cb' \in [Handlers -> Values \cup {None}]
         /\ send_possible' \in BOOLEAN
         /\ sensor' \in [Handlers -> Values]
         /\ received' \in [Handlers -> Values \cup {None}]
<1>1. /\ sensor[h] \in Values
      /\ Message(h) \in Values \cup {None}
  BY DEF TypeOK, Message
<1>2. 0 \in 0 .. CLOCK - 1
  BY ValueAssumption
<1>3. elapsed' \in [Handlers -> 0 .. CLOCK - 1] /\ config' = config /\ sensor' = sensor
  BY <1>2 DEF Handle, TypeOK
<1>4. value_last' \in [Handlers -> Values]
  BY <1>1 DEF Handle, TypeOK
<1>5. cb' \in [Handlers -> Values \cup {None}]
  BY <1>1 DEF Handle, TypeOK
<1>6. received' \in [Handlers -> Values \cup {None}]
  BY <1>1 DEF Handle, TypeOK
<1>7. send_possible' \in BOOLEAN
  BY DEF Handle, TypeOK
<1>8. QED
  BY <1>3, <1>4, <1>5, <1>6, <1>7 DEF TypeOK

\* Every step of a handler, its host or its sensor keeps the types.
LEMMA StepKeepsTypes == TypeOK /\ IInv /\ IInv' /\ [Next]_vars => TypeOK'
<1> SUFFICES ASSUME TypeOK, IInv, IInv', [Next]_vars PROVE TypeOK'
  OBVIOUS
<1>1. DispatchTypeOK'
  BY DEF IInv
<1>2. CASE AskNext
  <2>1. communication_callbacks[cb_index] \in Handlers
    BY <1>2, CallbackAssumption
       DEF AskNext, Idle, TypeOK, DispatchTypeOK, Bijections, Slots
  <2>2. QED
    BY <1>1, <1>2, <2>1, HandleKeepsTypes DEF AskNext, TypeOK
<1>3. CASE TickStarts
  BY <1>1, <1>3 DEF TickStarts, TypeOK, valueVars, hostVars
<1>4. CASE MsPasses
  <2>1. \A e \in 0 .. CLOCK - 1 : (e + 1) % CLOCK \in 0 .. CLOCK - 1
    BY ValueAssumption
  <2>2. elapsed' \in [Handlers -> 0 .. CLOCK - 1]
    BY <1>4, <2>1 DEF MsPasses, TypeOK
  <2>3. QED
    BY <1>1, <1>4, <2>2 DEF MsPasses, TypeOK, hostVars
<1>5. CASE Acknowledged
  BY <1>1, <1>5 DEF Acknowledged, TypeOK, valueVars
<1>6. ASSUME NEW h \in Handlers, Sense(h)
      PROVE  TypeOK'
  BY <1>1, <1>6, ValueAssumption DEF Sense, TypeOK, valueVars
<1>7. ASSUME NEW h \in Handlers, NEW c \in Configs[h], Configure(h, c)
      PROVE  TypeOK'
  <2>1. c \in Config /\ c.period \in 0 .. CLOCK - 1
    BY ValueAssumption DEF Config
  <2>2. CASE c.option = "invalid"
    BY <1>1, <1>7, <2>2 DEF Configure, TypeOK, hostVars
  <2>3. CASE c.option # "invalid"
    <3>1. /\ config' = [config EXCEPT ![h] = c]
          /\ elapsed' = [elapsed EXCEPT ![h] = c.period]
          /\ UNCHANGED <<hostVars, value_last, cb>>
      BY <1>7, <2>3 DEF Configure
    <3>2. /\ config' \in [Handlers -> Config]
          /\ elapsed' \in [Handlers -> 0 .. CLOCK - 1]
      BY <2>1, <3>1 DEF TypeOK
    <3>3. \A g \in Handlers : config'[g].option # "invalid"
      BY <2>3, <3>1 DEF TypeOK
    <3>4. QED
      BY <1>1, <3>1, <3>2, <3>3 DEF TypeOK, hostVars
  <2>4. QED
    BY <2>2, <2>3
<1>8. CASE UNCHANGED vars
  BY <1>1, <1>8 DEF vars, valueVars, hostVars, TypeOK
<1>9. QED
  BY <1>2, <1>3, <1>4, <1>5, <1>6, <1>7, <1>8 DEF Next

\* callback_value_init leaves every field in its range.
LEMMA InitTyped == Init => TypeOK
<1> SUFFICES ASSUME Init PROVE TypeOK
  OBVIOUS
<1>1. DispatchTypeOK
  BY InitHolds DEF Init, IInv
<1>2. Off \in Config /\ Off.option # "invalid"
  BY ValueAssumption DEF Off, Config, Values
<1>3. VALUE_MAX \in Values /\ 0 \in 0 .. CLOCK - 1
  BY ValueAssumption DEF Values
<1>4. QED
  BY <1>1, <1>2, <1>3 DEF Init, TypeOK

\* The list of handlers stays a permutation of them for every HANDLER_NUM
\* (communication_callback.c:43-47), and no configuration that was answered
\* with an error is in effect (callback_value.h:224-226).
THEOREM TypeCorrect == Spec => []TypeOK
<1>1. Init => IInv
  BY InitHolds DEF Init
<1>2. QED
  BY <1>1, InitTyped, StepHolds, StepDispatches, StepKeepsTypes, PTL DEF Spec

\* A handler takes value_last and the message from the same value.
LEMMA HandleKeepsLast ==
  ASSUME TypeOK, LastIsKnown, NEW h \in Handlers, Handle(h)
  PROVE  LastIsKnown'
<1> SUFFICES ASSUME NEW g \in Handlers
             PROVE  IF cb'[g] # None THEN value_last'[g] = cb'[g]
                    ELSE received'[g] # None => value_last'[g] = received'[g]
  BY DEF LastIsKnown
<1> DEFINE sent == Message(h) # None /\ send_possible
<1>1. /\ value_last' = IF Capture(h) THEN [value_last EXCEPT ![h] = sensor[h]]
                                     ELSE value_last
      /\ cb' = [cb EXCEPT ![h] = IF sent THEN None ELSE Message(h)]
      /\ received' = IF sent THEN [received EXCEPT ![h] = Message(h)] ELSE received
  BY DEF Handle
<1>2. CASE g # h
  BY <1>1, <1>2 DEF TypeOK, LastIsKnown
<1>3. CASE g = h
  <2>1. CASE Capture(h)
    <3>1. value_last'[h] = Message(h) /\ Message(h) # None
      BY <1>1, <2>1, ValueAssumption DEF Message, TypeOK
    <3>2. QED
      BY <1>1, <1>3, <3>1 DEF TypeOK
  <2>2. CASE ~Capture(h)
    <3>1. value_last'[h] = value_last[h] /\ Message(h) = cb[h]
      BY <1>1, <2>2 DEF Message
    <3>2. QED
      BY <1>1, <1>3, <3>1 DEF TypeOK, LastIsKnown
  <2>3. QED
    BY <2>1, <2>2
<1>4. QED
  BY <1>2, <1>3

\* No step separates value_last from what the host has or gets next.
LEMMA StepKeepsLast == TypeOK /\ LastIsKnown /\ [Next]_vars => LastIsKnown'
<1> SUFFICES ASSUME TypeOK, LastIsKnown, [Next]_vars PROVE LastIsKnown'
  OBVIOUS
<1>1. CASE AskNext
  <2>1. communication_callbacks[cb_index] \in Handlers
    BY <1>1, CallbackAssumption
       DEF AskNext, Idle, TypeOK, DispatchTypeOK, Bijections, Slots
  <2>2. QED
    BY <1>1, <2>1, HandleKeepsLast DEF AskNext
<1>2. CASE UNCHANGED <<value_last, cb, received>>
  BY <1>2 DEF LastIsKnown
<1>3. QED
  BY <1>1, <1>2 DEF Next, TickStarts, MsPasses, Acknowledged, Sense, Configure,
                    vars, valueVars, hostVars

\* value_last is the last value the host was sent, or the one that waits to
\* be sent, however often sending was impossible and whatever was configured
\* in between (callback_value.h:286-327).
THEOREM LastKnown == Spec => []LastIsKnown
<1>1. Init => LastIsKnown
  BY DEF Init, LastIsKnown
<1>2. QED
  BY <1>1, TypeCorrect, StepKeepsLast, PTL DEF Spec
=============================================================================
