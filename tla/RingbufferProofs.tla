-------------------------- MODULE RingbufferProofs --------------------------
(***************************************************************************)
(* Ringbuffer.tla proved for every ring length, every byte set and every   *)
(* width of the counters: the indices stay inside the buffer, and the ring *)
(* is a bounded first-in first-out queue.                                  *)
(***************************************************************************)
EXTENDS Ringbuffer, SequenceTheorems, TLAPS

\* The index arithmetic of ringbuffer.c does not reach the wrap of uint16_t:
\* stepping an index goes to the next slot, and the slot after the last one
\* is the first.
LEMMA SuccFact ==
  ASSUME NEW i \in Slots
  PROVE  Succ(i) = (IF i = SIZE - 1 THEN 0 ELSE i + 1) /\ Succ(i) \in Slots
BY RingAssumption DEF Succ, Wrapped, Slots

\* ringbuffer_get_used and ringbuffer_get_free count between 0 and SIZE: at
\* least one slot of the ring is always free.
LEMMA UsedFact ==
  ASSUME start \in Slots, end \in Slots
  PROVE  /\ Used \in 0 .. SIZE - 1
         /\ Free \in 1 .. SIZE
         /\ Used = 0 <=> start = end
         /\ Free = SIZE - Used
BY RingAssumption DEF Used, Free, Slots

\* ringbuffer_remove: the new start lies in the buffer, min(Used, num) slots
\* further round the ring.
LEMMA RemoveFact ==
  ASSUME start \in Slots, end \in Slots, NEW num \in 0 .. SIZE, Remove(num)
  PROVE  \E incr \in 0 .. Used :
           /\ start' = IF start + incr < SIZE THEN start + incr ELSE start + incr - SIZE
           /\ start' \in Slots
<1> DEFINE incr == IF Used < num THEN Used ELSE num
<1>1. incr \in 0 .. Used /\ incr \in 0 .. SIZE - 1
  BY UsedFact, RingAssumption
<1>2. start' = Advanced(start, incr)
  BY DEF Remove
<1> HIDE DEF incr
<1>3. start' = IF start + incr < SIZE THEN start + incr ELSE start + incr - SIZE
  BY <1>1, <1>2, RingAssumption DEF Advanced, Wrapped, Slots
<1>4. start' \in Slots
  BY <1>1, <1>3, RingAssumption DEF Slots
<1> QED BY <1>1, <1>3, <1>4

-----------------------------------------------------------------------------
\* ringbuffer_init leaves a ring of the right types.
LEMMA TypeInit == Init => TypeOK
BY RingAssumption DEF Init, TypeOK, Slots

\* Each function of ringbuffer.c keeps the types.
LEMMA TypeStep == TypeOK /\ [Next]_vars => TypeOK'
<1> SUFFICES ASSUME TypeOK, [Next]_vars
             PROVE  TypeOK'
  OBVIOUS
<1> USE RingAssumption
<1>0. start \in Slots /\ end \in Slots /\ buffer \in [Slots -> Data] /\ 0 \in Slots
  BY DEF TypeOK, Slots
<1>1. ASSUME NEW d \in Data, Add(d) PROVE TypeOK'
  <2>1. Succ(end) \in Slots
    BY <1>0, SuccFact
  <2>2. buffer' \in [Slots -> Data]
    BY <1>0, <1>1 DEF Add
  <2>3. CASE Succ(end) = start
    <3>1. overflows' \in 0 .. OVERFLOW_MOD - 1
      BY <1>1, <2>3 DEF Add, TypeOK
    <3>2. end' \in Slots
      BY <1>0, <1>1, <2>1, <2>3 DEF Add, Slots
    <3> QED BY <1>1, <2>2, <2>3, <3>1, <3>2 DEF Add, TypeOK
  <2>4. CASE Succ(end) # start
    BY <1>1, <2>1, <2>2, <2>4 DEF Add, TypeOK
  <2> QED BY <2>3, <2>4
<1>2. ASSUME NEW num \in 0 .. SIZE, Remove(num) PROVE TypeOK'
  BY <1>0, <1>2, RemoveFact DEF Remove, TypeOK
<1>3. CASE Get
  <2>1. Succ(start) \in Slots
    BY <1>0, SuccFact
  <2> QED BY <1>0, <1>3, <2>1 DEF Get, TypeOK
<1>4. CASE GetUsed
  <2>1. Used \in 0 .. SIZE
    BY <1>0, UsedFact
  <2> QED BY <1>4, <2>1 DEF GetUsed, TypeOK
<1>5. ASSUME NoteFree PROVE low_watermark' \in 1 .. SIZE
  BY <1>0, <1>5, UsedFact DEF NoteFree, TypeOK
<1>6. CASE GetFree
  <2>1. Free \in 0 .. SIZE
    BY <1>0, UsedFact
  <2> QED BY <1>5, <1>6, <2>1 DEF GetFree, TypeOK
<1>7. CASE IsEmpty
  BY <1>7 DEF IsEmpty, TypeOK
<1>8. CASE IsFull
  BY <1>5, <1>8 DEF IsFull, TypeOK
<1>9. CASE Reinit
  BY <1>0, <1>9 DEF Reinit, TypeOK
<1>10. CASE UNCHANGED vars
  BY <1>10 DEF vars, TypeOK
<1> QED BY <1>1, <1>2, <1>3, <1>4, <1>6, <1>7, <1>8, <1>9, <1>10 DEF Next

\* Every index stays inside the buffer and the watermark above zero, whatever
\* functions of ringbuffer.c are called in whatever order.
THEOREM TypeCorrect == Spec => []TypeOK
BY TypeInit, TypeStep, PTL DEF Spec

-----------------------------------------------------------------------------
(***************************************************************************)
(* The ring is a bounded FIFO.  The bytes a state holds are Content; what  *)
(* each function does to them is derived slot by slot.                     *)
(***************************************************************************)

\* What Content is, and that the k-th byte lies in a slot of its own, never
\* in the one slot at `end` that stays unused.
LEMMA ContentFact ==
  ASSUME TypeOK
  PROVE  /\ Content \in Seq(Data)
         /\ Len(Content) = Used
         /\ Used \in 0 .. SIZE - 1
         /\ \A k \in 1 .. Used : Content[k] = buffer[SlotOf(k - 1)]
         /\ \A k \in 0 .. Used - 1 : SlotOf(k) \in Slots /\ SlotOf(k) # end
         /\ Used < SIZE => SlotOf(Used) = end
<1> USE RingAssumption
<1>1. start \in Slots /\ end \in Slots /\ buffer \in [Slots -> Data]
  BY DEF TypeOK
<1>2. Used \in 0 .. SIZE - 1
  BY <1>1, UsedFact
<1>3. \A k \in 0 .. Used - 1 : SlotOf(k) \in Slots /\ SlotOf(k) # end
  BY <1>1, <1>2 DEF SlotOf, Slots, Used
<1>4. SlotOf(Used) = end
  BY <1>1, <1>2 DEF SlotOf, Slots, Used
<1>5. \A k \in 1 .. Used : buffer[SlotOf(k - 1)] \in Data
  BY <1>1, <1>2, <1>3
<1>6. Content \in [1 .. Used -> Data]
  BY <1>5 DEF Content
<1>7. Content \in Seq(Data) /\ Len(Content) = Used
  BY <1>2, <1>6, SeqDef, Used \in Nat
<1>8. \A k \in 1 .. Used : Content[k] = buffer[SlotOf(k - 1)]
  BY DEF Content
<1> QED BY <1>2, <1>3, <1>4, <1>7, <1>8

\* The same as a formula of every state, so that it holds of the next one too.
LEMMA ContentSeq == TypeOK => Content \in Seq(Data) /\ Len(Content) = Used
BY ContentFact

\* The previous lemma for the state after a call of one of ringbuffer.c's functions.
LEMMA ContentSeqNext == (TypeOK => Content \in Seq(Data) /\ Len(Content) = Used)'
BY ContentSeq, PTL

\* The ring is empty exactly when no byte is in it.
LEMMA EmptyFact ==
  ASSUME TypeOK
  PROVE  Content = <<>> <=> start = end
<1>1. Content \in Seq(Data) /\ Len(Content) = Used
  BY ContentFact
<1>2. Used = 0 <=> start = end
  BY UsedFact DEF TypeOK
<1> QED BY <1>1, <1>2, EmptySeq

\* start = end, the test of ringbuffer_get and ringbuffer_is_empty, means that
\* nothing is held.
LEMMA EmptyContent == TypeOK => (start = end => Content = <<>>)
BY EmptyFact

\* The same for the state after a call.
LEMMA EmptyContentNext == (TypeOK => (start = end => Content = <<>>))'
BY EmptyContent, PTL

\* Stepping `end` onto `start` happens exactly when SIZE - 1 bytes are held.
LEMMA FullFact ==
  ASSUME TypeOK
  PROVE  Succ(end) = start <=> Len(Content) = SIZE - 1
<1>1. Len(Content) = Used
  BY ContentFact
<1>2. start \in Slots /\ end \in Slots
  BY DEF TypeOK
<1>3. Succ(end) = IF end = SIZE - 1 THEN 0 ELSE end + 1
  BY <1>2, SuccFact
<1> QED BY <1>1, <1>2, <1>3, RingAssumption DEF Used, Slots

\* An accepted byte goes behind those already there.
LEMMA AcceptFact ==
  ASSUME TypeOK, TypeOK', NEW d \in Data, Add(d), Succ(end) # start
  PROVE  Content' = Append(Content, d)
<1> USE RingAssumption
<1>1. start \in Slots /\ end \in Slots /\ buffer \in [Slots -> Data]
  BY DEF TypeOK
<1>2. start' = start /\ end' = Succ(end) /\ buffer' = [buffer EXCEPT ![end] = d]
  BY DEF Add
<1>3. Succ(end) = IF end = SIZE - 1 THEN 0 ELSE end + 1
  BY <1>1, SuccFact
<1>4. Used' = Used + 1
  BY <1>1, <1>2, <1>3 DEF Used, Slots
<1>5. Content \in Seq(Data) /\ Len(Content) = Used /\ Used \in 0 .. SIZE - 1
  BY ContentFact
<1>6. Content' \in Seq(Data) /\ Len(Content') = Used'
  BY ContentSeqNext
<1>7. Append(Content, d) \in Seq(Data) /\ Len(Append(Content, d)) = Used + 1
  BY <1>5
<1>8. ASSUME NEW k \in 1 .. Used'
      PROVE  Content'[k] = Append(Content, d)[k]
  <2>1. Content'[k] = buffer'[SlotOf(k - 1)']
    BY DEF Content
  <2>2. SlotOf(k - 1)' = SlotOf(k - 1)
    BY <1>2 DEF SlotOf
  <2>3. CASE k = Used + 1
    <3>1. SlotOf(k - 1) = end
      BY <1>5, <2>3, ContentFact
    <3> QED BY <1>1, <1>2, <1>5, <2>1, <2>2, <2>3, <3>1
  <2>4. CASE k \in 1 .. Used
    <3>1. SlotOf(k - 1) \in Slots /\ SlotOf(k - 1) # end
      BY <1>5, <2>4, ContentFact
    <3>2. Content[k] = buffer[SlotOf(k - 1)]
      BY <2>4, ContentFact
    <3> QED BY <1>1, <1>2, <1>5, <2>1, <2>2, <2>4, <3>1, <3>2
  <2> QED BY <1>4, <1>5, <2>3, <2>4
<1> QED BY <1>4, <1>6, <1>7, <1>8, SeqEqual

\* A refused byte is written into the unused slot only.
LEMMA RefuseFact ==
  ASSUME TypeOK, TypeOK', NEW d \in Data, Add(d), Succ(end) = start
  PROVE  Content' = Content
<1> USE RingAssumption
<1>1. start \in Slots /\ end \in Slots /\ buffer \in [Slots -> Data]
  BY DEF TypeOK
<1>2. start' = start /\ buffer' = [buffer EXCEPT ![end] = d]
  BY DEF Add
<1>3. Succ(end) = IF end = SIZE - 1 THEN 0 ELSE end + 1
  BY <1>1, SuccFact
<1>4. end' = end
  <2>1. end' = IF Succ(end) = 0 THEN SIZE - 1 ELSE Succ(end) - 1
    BY DEF Add
  <2> QED BY <1>1, <1>3, <2>1 DEF Slots
<1>5. Used' = Used
  BY <1>2, <1>4 DEF Used
<1>6. Content \in Seq(Data) /\ Len(Content) = Used
  BY ContentFact
<1>7. Content' \in Seq(Data) /\ Len(Content') = Used'
  BY ContentSeqNext
<1>8. ASSUME NEW k \in 1 .. Used
      PROVE  Content'[k] = Content[k]
  <2>1. Content'[k] = buffer'[SlotOf(k - 1)']
    BY <1>5 DEF Content
  <2>2. SlotOf(k - 1)' = SlotOf(k - 1)
    BY <1>2 DEF SlotOf
  <2>3. SlotOf(k - 1) \in Slots /\ SlotOf(k - 1) # end
    BY ContentFact
  <2>4. Content[k] = buffer[SlotOf(k - 1)]
    BY ContentFact
  <2> QED BY <1>1, <1>2, <2>1, <2>2, <2>3, <2>4
<1> QED BY <1>5, <1>6, <1>7, <1>8, SeqEqual

\* Moving `start` forward by n slots drops the n oldest bytes.
LEMMA DropFact ==
  ASSUME TypeOK, TypeOK', NEW n \in 0 .. Used,
         start' = (IF start + n < SIZE THEN start + n ELSE start + n - SIZE),
         UNCHANGED <<buffer, end>>,
         n < Used \/ start' = end
  PROVE  Content' = SubSeq(Content, n + 1, Len(Content))
<1> USE RingAssumption
<1>1. start \in Slots /\ end \in Slots /\ buffer \in [Slots -> Data]
  BY DEF TypeOK
<1>2. Content \in Seq(Data) /\ Len(Content) = Used /\ Used \in 0 .. SIZE - 1
  BY ContentFact
<1>3. Content' \in Seq(Data) /\ Len(Content') = Used'
  BY ContentSeqNext
<1>4. Used' = Used - n
  BY <1>1, <1>2 DEF Used, Slots
<1>5. \A k \in n + 1 .. Len(Content) : Content[k] \in Data
  BY <1>2, ElementOfSeq
<1>6. /\ SubSeq(Content, n + 1, Len(Content)) \in Seq(Data)
      /\ Len(SubSeq(Content, n + 1, Len(Content))) = Used - n
      /\ \A k \in 1 .. Used - n :
           SubSeq(Content, n + 1, Len(Content))[k] = Content[n + k]
  BY <1>2, <1>5
<1>7. ASSUME NEW k \in 1 .. Used'
      PROVE  Content'[k] = SubSeq(Content, n + 1, Len(Content))[k]
  <2>1. Content'[k] = buffer[SlotOf(k - 1)']
    BY DEF Content
  <2>2. SlotOf(k - 1)' = SlotOf(n + k - 1)
    BY <1>1, <1>2, <1>4 DEF SlotOf, Slots
  <2>3. Content[n + k] = buffer[SlotOf(n + k - 1)]
    BY <1>2, <1>4, ContentFact
  <2> QED BY <1>4, <1>6, <2>1, <2>2, <2>3
<1> QED BY <1>3, <1>4, <1>6, <1>7, SeqEqual

\* The initial ring is an empty queue.
LEMMA RefinementInit == Init => Fifo!FifoInit
<1> SUFFICES ASSUME Init PROVE Fifo!FifoInit
  OBVIOUS
<1>1. Content = <<>>
  BY TypeInit, EmptyFact DEF Init
<1> QED BY <1>1 DEF Init, Fifo!FifoInit

\* Every function of ringbuffer.c is one operation of the queue, or none.
LEMMA RefinementStep ==
  TypeOK /\ TypeOK' /\ [Next]_vars => [Fifo!FifoNext]_Fifo!fifoVars
<1> SUFFICES ASSUME TypeOK, TypeOK', [Next]_vars
             PROVE  [Fifo!FifoNext]_Fifo!fifoVars
  OBVIOUS
<1> USE RingAssumption
<1>1. /\ Content \in Seq(Data) /\ Len(Content) = Used
      /\ Used \in 0 .. SIZE - 1
      /\ \A k \in 1 .. Used : Content[k] = buffer[SlotOf(k - 1)]
  BY ContentFact
<1>2. start \in Slots /\ end \in Slots
  BY DEF TypeOK
<1>3. UNCHANGED <<buffer, start, end>> => Content' = Content
  BY DEF Content, Used, SlotOf
<1>4. ASSUME NEW d \in Data, Add(d) PROVE Fifo!FifoNext
  <2>1. CASE Succ(end) = start
    <3>1. Fifo!Refuse
      BY <1>4, <2>1, RefuseFact, FullFact DEF Add, Fifo!Refuse
    <3> QED BY <3>1 DEF Fifo!FifoNext
  <2>2. CASE Succ(end) # start
    <3>1. Len(Content) < SIZE - 1
      BY <1>1, <2>2, FullFact
    <3>2. Fifo!Accept(d)
      BY <1>4, <2>2, <3>1, AcceptFact DEF Add, Fifo!Accept
    <3> QED BY <3>2 DEF Fifo!FifoNext
  <2> QED BY <2>1, <2>2
<1>5. ASSUME NEW num \in 0 .. SIZE, Remove(num) PROVE Fifo!FifoNext
  <2>1. PICK n \in 0 .. Used :
          start' = IF start + n < SIZE THEN start + n ELSE start + n - SIZE
    BY <1>2, <1>5, RemoveFact
  <2>2. UNCHANGED <<buffer, end, ret, data, count>>
    BY <1>5 DEF Remove
  <2>3. n < Used \/ start' = end
    BY <1>1, <1>2, <2>1 DEF Used, Slots
  <2>4. Content' = SubSeq(Content, n + 1, Len(Content))
    BY <2>1, <2>2, <2>3, DropFact
  <2>5. Fifo!Drop(n) /\ n \in 0 .. SIZE - 1
    BY <1>1, <2>2, <2>4 DEF Fifo!Drop
  <2> QED BY <2>5 DEF Fifo!FifoNext
<1>6. CASE Get
  <2>1. CASE start = end
    <3>1. Content = <<>>
      BY <2>1, EmptyFact
    <3>2. Fifo!TakeNothing
      BY <1>3, <1>6, <2>1, <3>1 DEF Get, Fifo!TakeNothing
    <3> QED BY <3>2 DEF Fifo!FifoNext
  <2>2. CASE start # end
    <3>1. Content # <<>>
      BY <2>2, EmptyFact
    <3>2. Used \in 1 .. SIZE - 1
      BY <1>1, <1>2, <2>2, UsedFact
    <3>3. /\ start' = Succ(start)
          /\ data' = buffer[start]
          /\ UNCHANGED <<buffer, end>>
      BY <1>6, <2>2 DEF Get
    <3>4. start' = IF start + 1 < SIZE THEN start + 1 ELSE start + 1 - SIZE
      BY <1>2, <3>3, SuccFact DEF Slots
    <3>5. 1 < Used \/ start' = end
      BY <1>2, <3>2, <3>4 DEF Used, Slots
    <3>6. Content' = SubSeq(Content, 1 + 1, Len(Content))
      BY <3>2, <3>3, <3>4, <3>5, DropFact
    <3>7. Content' = Tail(Content)
      BY <1>1, <3>1, <3>6, TailIsSubSeq
    <3>8. data' = Content[1]
      <4>1. SlotOf(0) = start
        BY <1>2 DEF SlotOf, Slots
      <4> QED BY <1>1, <3>2, <3>3, <4>1
    <3>9. data' = Head(Content)
      BY <1>1, <3>1, <3>8
    <3>10. Fifo!Take
      BY <1>6, <2>2, <3>1, <3>7, <3>9 DEF Get, Fifo!Take
    <3> QED BY <3>10 DEF Fifo!FifoNext
  <2> QED BY <2>1, <2>2
<1>7. CASE GetUsed
  <2>1. Fifo!CountUsed
    BY <1>1, <1>3, <1>7 DEF GetUsed, Fifo!CountUsed
  <2> QED BY <2>1 DEF Fifo!FifoNext
<1>8. CASE GetFree
  <2>1. Free = (SIZE - 1) + 1 - Len(Content)
    BY <1>1 DEF Free
  <2>2. Fifo!CountFree
    BY <1>3, <1>8, <2>1 DEF GetFree, Fifo!CountFree
  <2> QED BY <2>2 DEF Fifo!FifoNext
<1>9. CASE IsEmpty
  <2>1. Fifo!AskEmpty
    BY <1>3, <1>9, EmptyFact DEF IsEmpty, Fifo!AskEmpty
  <2> QED BY <2>1 DEF Fifo!FifoNext
<1>10. CASE IsFull
  <2>1. Free < 2 <=> Len(Content) = SIZE - 1
    BY <1>1 DEF Free
  <2>2. Fifo!AskFull
    BY <1>3, <1>10, <2>1 DEF IsFull, Fifo!AskFull
  <2> QED BY <2>2 DEF Fifo!FifoNext
<1>11. CASE Reinit
  <2>1. Content' = <<>>
    <3>1. TypeOK' => (start' = end' => Content' = <<>>)
      BY EmptyContentNext
    <3> QED BY <1>11, <3>1 DEF Reinit
  <2>2. Fifo!Clear
    BY <1>11, <2>1 DEF Reinit, Fifo!Clear
  <2> QED BY <2>2 DEF Fifo!FifoNext
<1>12. CASE UNCHANGED vars
  BY <1>3, <1>12 DEF vars, Fifo!fifoVars
<1> QED BY <1>4, <1>5, <1>6, <1>7, <1>8, <1>9, <1>10, <1>11, <1>12 DEF Next

\* The ring of ringbuffer.c, for every length, byte set and counter width, is
\* a first-in first-out queue of SIZE - 1 bytes: nothing accepted is lost,
\* duplicated or reordered, and what the counting functions report is right.
THEOREM Refinement == Spec => ImplementsFifo
<1>1. Init => Fifo!FifoInit
  BY RefinementInit
<1>2. TypeOK /\ TypeOK' /\ [Next]_vars => [Fifo!FifoNext]_Fifo!fifoVars
  BY RefinementStep
<1>3. Spec => []TypeOK
  BY TypeCorrect
<1> QED BY <1>1, <1>2, <1>3, PTL DEF Spec, ImplementsFifo, Fifo!FifoSpec
=============================================================================
