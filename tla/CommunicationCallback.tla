------------------------ MODULE CommunicationCallback ------------------------
(***************************************************************************)
(* utility/communication_callback.c: the handlers take turns.  A tick asks *)
(* HANDLER_NUM times the handler at cb_index; one that has sent something  *)
(* goes to the back, so the list changes while the loop walks over it.     *)
(*                                                                         *)
(* What a handler answers is open here; CallbackValue says it for the      *)
(* handlers of callback_value.h.                                           *)
(***************************************************************************)
EXTENDS Integers

CONSTANTS
  Handlers,     \* COMMUNICATION_CALLBACK_LIST_INIT, as a set
  HANDLER_NUM,  \* COMMUNICATION_CALLBACK_HANDLER_NUM
  TICK_WAIT,    \* COMMUNICATION_CALLBACK_TICK_WAIT_MS
  MAX_LAG       \* bound: the main loop calls the tick at least this often

Slots == 0 .. HANDLER_NUM - 1
Bijections == {f \in [Slots -> Handlers] :
                 /\ \A i, j \in Slots : f[i] = f[j] => i = j
                 /\ \A h \in Handlers : \E i \in Slots : f[i] = h}

ASSUME CallbackAssumption ==
  /\ HANDLER_NUM \in Nat \ {0}
  /\ TICK_WAIT \in Nat
  /\ MAX_LAG \in Nat
  /\ TICK_WAIT <= MAX_LAG

VARIABLES
  communication_callbacks,  \* the list of handlers
  cb_index,                 \* the handler to ask
  rounds,                   \* rounds of the loop done; HANDLER_NUM outside it
  tickAge,                  \* milliseconds since last_tick
  asked                     \* history: the handlers asked in this tick

dispatchVars == <<communication_callbacks, cb_index, rounds, tickAge, asked>>

DispatchInit ==
  /\ communication_callbacks \in Bijections
  /\ cb_index = HANDLER_NUM
  /\ rounds = HANDLER_NUM
  /\ tickAge = 0
  /\ asked = Handlers

Idle == rounds = HANDLER_NUM

\* communication_callback_tick, as far as the head of its loop.
Tick ==
  /\ Idle
  /\ tickAge >= TICK_WAIT
  /\ tickAge' = 0
  /\ cb_index' = 0
  /\ rounds' = 0
  /\ asked' = {}
  /\ UNCHANGED communication_callbacks

\* Bug: the last place keeps its handler and the one that has sent is lost.
ToTheBackLoses(list, i) ==
  [j \in Slots |-> IF i <= j /\ j < HANDLER_NUM - 1 THEN list[j + 1] ELSE list[j]]

\* The list with the entry of slot i moved to the back.
ToTheBack(list, i) ==
  [j \in Slots |-> IF j < i THEN list[j]
                   ELSE IF j < HANDLER_NUM - 1 THEN list[j + 1]
                   ELSE list[i]]

\* Bug: the index moves on in any case.
NextIndexAlways(sent) == cb_index + 1
NextIndex(sent) == IF sent THEN cb_index ELSE cb_index + 1

\* Bug: a plain walk over the list, always in the same order.
AskInOrder(sent) ==
  /\ ~Idle
  /\ cb_index' = cb_index + 1
  /\ rounds' = rounds + 1
  /\ asked' = asked \cup {communication_callbacks[cb_index]}
  /\ UNCHANGED <<communication_callbacks, tickAge>>

\* One round of the loop; sent is what the handler returned.
Ask(sent) ==
  /\ ~Idle
  /\ communication_callbacks' =
       IF sent THEN ToTheBack(communication_callbacks, cb_index)
               ELSE communication_callbacks
  /\ cb_index' = NextIndex(sent)
  /\ rounds' = rounds + 1
  /\ asked' = asked \cup {communication_callbacks[cb_index]}
  /\ UNCHANGED tickAge

\* A millisecond goes by.
Pass ==
  /\ tickAge < MAX_LAG
  /\ tickAge' = tickAge + 1
  /\ UNCHANGED <<communication_callbacks, cb_index, rounds, asked>>

DispatchNext == Tick \/ Pass \/ \E sent \in BOOLEAN : Ask(sent)

DispatchSpec == DispatchInit /\ [][DispatchNext]_dispatchVars

-----------------------------------------------------------------------------

\* The list stays a permutation of the handlers: the rotation neither loses
\* nor repeats one (communication_callback.c:43-47).
DispatchTypeOK ==
  /\ communication_callbacks \in Bijections
  /\ rounds \in 0 .. HANDLER_NUM
  /\ cb_index \in 0 .. rounds
  /\ tickAge \in 0 .. MAX_LAG
  /\ asked \subseteq Handlers

\* However many handlers send and leave their place during the loop, a tick
\* asks each of them exactly once: the next one was not asked yet, and at the
\* end nobody was left out (communication_callback.c:41-51).
AskedOnce ==
  /\ ~Idle => communication_callbacks[cb_index] \notin asked
  /\ Idle => asked = Handlers
=============================================================================
