------------------------------ MODULE SdProofs ------------------------------
(***************************************************************************)
(* Proofs about SdTask: no buffer overflows, each callback has the data it *)
(* announces while callbacks are sent in time, and a data point is not     *)
(* lost but where sd.c drops it.                                           *)
(***************************************************************************)
EXTENDS SdTask, TLAPS

\* The invariant, part by part.
InitPart ==
  /\ {sd_status, lfs_status} \subseteq Status
  /\ sdmmc_init_last \in {"off", "running", "due"}
  /\ sd_lfs_format \in BOOLEAN

CountPart ==
  /\ errors \in 0 .. LIMIT + 1
  /\ faults \in 0 .. MAX_FAULTS /\ hit \subseteq Faults

Numbers == 1 .. MAX_POINTS

\* The task holds a point only while it writes it.
PointPart ==
  /\ queue \in Seq(Numbers) /\ Len(queue) <= QUEUE
  /\ added \in 0 .. MAX_POINTS
  /\ points \subseteq Numbers
  /\ IF pc = "point" THEN hand \in Numbers ELSE hand = 0

StreamPart ==
  /\ get \in BOOLEAN /\ cb \in BOOLEAN
  /\ cbOffset \in 0 .. CHUNKS /\ cbData \in 0 .. CHUNKS /\ chunk \in 0 .. CHUNKS

Contents == 0 .. MAX_SETS + 1

PagePart ==
  /\ page \in Pages /\ sets \in 0 .. MAX_SETS /\ copied \in Contents
  /\ storage \in [Pages -> Contents]
  /\ file \in [Pages -> Contents]
  /\ lastSet \in [Pages -> Contents]

FlagPart ==
  /\ changed \in [Pages -> BOOLEAN]
  /\ write_to_sd \in [Pages -> BOOLEAN]
  /\ read_from_sd \in [Pages -> BOOLEAN]
  /\ sound \in BOOLEAN

\* A callback is there only while the task waits for it, with the chunk it
\* announces, unless one was late.
Announced ==
  "slow" \notin hit =>
    /\ cb = TRUE => pc = "wait" /\ cbOffset = cbData
    /\ \A i \in DOMAIN got : got[i][1] = got[i][2]

IInv ==
  /\ InitPart /\ CountPart /\ PointPart /\ StreamPart /\ PagePart /\ FlagPart
  /\ got \in Seq((0 .. CHUNKS) \X (0 .. CHUNKS)) /\ Announced

-----------------------------------------------------------------------------
\* A fresh start satisfies the invariant.
LEMMA InitHolds == Init => IInv
<1> SUFFICES ASSUME Init PROVE IInv
  OBVIOUS
<1>1. InitPart
  BY DEF Init, InitPart, Status
<1>2. CountPart
  BY SdAssumption DEF Init, CountPart
<1>3. PointPart
  BY SdAssumption DEF Init, PointPart
<1>4. StreamPart
  <2>1. get \in BOOLEAN /\ cb \in BOOLEAN
    BY DEF Init
  <2>2. cbOffset \in 0 .. CHUNKS /\ cbData \in 0 .. CHUNKS /\ chunk \in 0 .. CHUNKS
    BY SdAssumption DEF Init
  <2> QED
    BY <2>1, <2>2 DEF StreamPart
<1>5. PagePart
  <2>1. {0, 1} \subseteq Contents
    BY SdAssumption DEF Contents
  <2>2. file \in [Pages -> {0, 1}]
    BY DEF Init
  <2>3. page \in Pages /\ sets \in 0 .. MAX_SETS
    BY SdAssumption DEF Init, Pages
  <2> QED
    BY <2>1, <2>2, <2>3 DEF Init, PagePart
<1>6. FlagPart
  BY DEF Init, FlagPart
<1>7. got = <<>> /\ cb = FALSE
  BY DEF Init
<1> QED
  BY <1>1, <1>2, <1>3, <1>4, <1>5, <1>6, <1>7 DEF IInv, Announced

\* What goes wrong is noted, step by step.
LEMMA FaultStep ==
  ASSUME [Next]_vars
  PROVE  UNCHANGED faultVars \/ \E f \in Faults : Fault(f)
<1>1. CASE Task
  BY <1>1 DEF Task, Top, SdmmcInit, FormatAsked, Mount, Reformat, BootCount, TakePoint,
     WritePoint, StartStream, ReadChunk, NextChunk, StreamTimeout, HandlePage, LoadPage, CopyPage,
     CommitPage, Fault
<1>2. CASE Clock \/ Client \/ SendCallback \/ UNCHANGED vars
  BY <1>2 DEF Clock, Client, SecondPasses, DataStorageTick, AddPoint, SetPage, AskStream,
     AskFormat, SendCallback, Fault, vars
<1> QED
  BY <1>1, <1>2 DEF Next

\* The start of the card
LEMMA InitPartHolds ==
  ASSUME IInv, [Next]_vars
  PROVE  InitPart'
<1>1. InitPart
  BY DEF IInv
<1>2. CASE Task
  BY <1>1, <1>2 DEF Task, Top, SdmmcInit, FormatAsked, Mount, Reformat, BootCount, TakePoint,
     WritePoint, StartStream, ReadChunk, NextChunk, StreamTimeout, HandlePage, LoadPage, CopyPage,
     CommitPage, FailStart, InitPart, initVars, Status
<1>3. CASE Clock \/ Client \/ SendCallback \/ UNCHANGED vars
  BY <1>1, <1>3 DEF Clock, Client, SecondPasses, DataStorageTick, AddPoint, SetPage, AskStream,
     AskFormat, SendCallback, vars, InitPart, initVars
<1> QED
  BY <1>2, <1>3 DEF Next

\* The counters
LEMMA CountPartHolds ==
  ASSUME IInv, [Next]_vars
  PROVE  CountPart'
<1>1. CountPart
  BY DEF IInv
<1>2. errors' \in 0 .. LIMIT + 1
  <2>1. errors' \in {errors, 0, Capped(errors)}
    <3>1. CASE Task
      BY <3>1 DEF Task, Top, SdmmcInit, FormatAsked, Mount, Reformat, BootCount, TakePoint,
         WritePoint, StartStream, ReadChunk, NextChunk, StreamTimeout, HandlePage, LoadPage,
         CopyPage, CommitPage, LeaveStream
    <3>2. CASE Clock \/ Client \/ SendCallback \/ UNCHANGED vars
      BY <3>2 DEF Clock, Client, SecondPasses, DataStorageTick, AddPoint, SetPage, AskStream,
         AskFormat, SendCallback, vars
    <3> QED
      BY <3>1, <3>2 DEF Next
  <2> QED
    BY <1>1, <2>1, SdAssumption DEF CountPart, Capped
<1>3. faults' \in 0 .. MAX_FAULTS /\ hit' \subseteq Faults
  <2>1. CASE UNCHANGED faultVars
    BY <1>1, <2>1 DEF CountPart, faultVars
  <2>2. CASE \E f \in Faults : Fault(f)
    BY <1>1, <2>2, SdAssumption DEF CountPart, Fault
  <2> QED
    BY <2>1, <2>2, FaultStep
<1> QED
  BY <1>2, <1>3 DEF CountPart

\* The buffer of data points
LEMMA PointPartHolds ==
  ASSUME IInv, [Next]_vars
  PROVE  PointPart'
<1>1. PointPart
  BY DEF IInv
<1>2. CASE TakePoint /\ queue # <<>>
  <2>1. /\ hand' = queue[Len(queue)] /\ queue' = SubSeq(queue, 1, Len(queue) - 1)
        /\ pc' = "point" /\ UNCHANGED <<added, points>>
    BY <1>2 DEF TakePoint, clientVars, cardVars
  <2>2. Len(queue) \in Nat \ {0} /\ Len(queue) <= QUEUE /\ queue \in Seq(Numbers)
    BY <1>1, <1>2 DEF PointPart
  <2>3. hand' \in Numbers /\ queue' \in Seq(Numbers) /\ Len(queue') <= QUEUE
    BY <2>1, <2>2, SdAssumption
  <2> QED
    BY <1>1, <2>1, <2>3 DEF PointPart
<1>3. CASE WritePoint
  <2>1. hand \in Numbers
    BY <1>1, <1>3 DEF WritePoint, PointPart
  <2>2. /\ pc' = "getter" /\ hand' = 0 /\ added' = added
        /\ points' \in {points, points \cup {hand}}
        /\ queue' = queue \/ (Len(queue) < QUEUE /\ queue' = Append(queue, hand))
    <3>1. pc' = "getter" /\ hand' = 0 /\ added' = added
      BY <1>3 DEF WritePoint, clientVars
    <3>2. points' \in {points, points \cup {hand}}
      BY <1>3 DEF WritePoint
    <3>3. queue' = queue \/ (Len(queue) < QUEUE /\ queue' = Append(queue, hand))
      <4>1. CASE UNCHANGED queue
        BY <4>1
      <4>2. CASE queue' = IF Len(queue) < QUEUE THEN Append(queue, hand) ELSE queue
        BY <4>2
      <4> QED
        BY <1>3, <4>1, <4>2 DEF WritePoint
    <3> QED
      BY <3>1, <3>2, <3>3
  <2>3. queue' \in Seq(Numbers) /\ Len(queue') <= QUEUE
    <3>1. queue \in Seq(Numbers) /\ Len(queue) <= QUEUE /\ QUEUE \in Nat
      BY <1>1, SdAssumption DEF PointPart
    <3>2. Append(queue, hand) \in Seq(Numbers) /\ Len(Append(queue, hand)) = Len(queue) + 1
      BY <2>1, <3>1
    <3>3. Len(queue) < QUEUE => Len(queue) + 1 <= QUEUE
      BY <3>1
    <3> QED
      BY <2>2, <3>1, <3>2, <3>3
  <2>4. points' \subseteq Numbers
    BY <1>1, <2>1, <2>2 DEF PointPart
  <2> QED
    BY <1>1, <2>2, <2>3, <2>4 DEF PointPart
<1>4. CASE AddPoint
  <2>1. added + 1 \in Numbers /\ added' \in 0 .. MAX_POINTS
    BY <1>1, <1>4, SdAssumption DEF AddPoint, PointPart, Numbers
  <2>2. queue' \in Seq(Numbers) /\ Len(queue') <= QUEUE
    BY <1>1, <1>4, <2>1, SdAssumption DEF AddPoint, PointPart
  <2> QED
    BY <1>1, <1>4, <2>1, <2>2 DEF AddPoint, PointPart, locals, cardVars
<1>5. CASE Top
  <2>1. /\ queue' = queue \/ queue' = <<>>
        /\ UNCHANGED <<added, points, hand>> /\ pc # "point" /\ pc' # "point"
    BY <1>5 DEF Top, locals, cardVars, clientVars
  <2>2. queue' \in Seq(Numbers) /\ Len(queue') <= QUEUE
    <3>1. <<>> \in Seq(Numbers) /\ Len(<<>>) = 0 /\ 0 <= QUEUE
      BY SdAssumption
    <3> QED
      BY <1>1, <2>1, <3>1 DEF PointPart
  <2> QED
    BY <1>1, <2>1, <2>2 DEF PointPart
<1>6. CASE FormatAsked \/ Reformat
  BY <1>1, <1>6 DEF FormatAsked, Reformat, FailStart, Wiped, PointPart, locals, cardVars, clientVars
<1>7. CASE \/ SdmmcInit \/ Mount \/ BootCount
           \/ StartStream \/ ReadChunk \/ NextChunk \/ StreamTimeout
           \/ HandlePage \/ LoadPage \/ CopyPage \/ CommitPage
  <2>1. UNCHANGED <<queue, added, points, hand>> /\ pc # "point" /\ pc' # "point"
    BY <1>7 DEF SdmmcInit, Mount, BootCount, StartStream, ReadInto, ReadChunk,
       LeaveStream, NextChunk, StreamTimeout, HandlePage, Onward, LoadPage, CopyPage, CommitPage,
       locals, cardVars, clientVars
  <2> QED
    BY <1>1, <2>1 DEF PointPart
<1>8. CASE \/ Clock \/ (\E p \in Pages : SetPage(p)) \/ AskStream \/ AskFormat
           \/ SendCallback \/ UNCHANGED vars
  <2>1. UNCHANGED <<queue, added, points, hand, pc>>
    BY <1>8 DEF Clock, SecondPasses, DataStorageTick, SetPage, AskStream, AskFormat,
       SendCallback, locals, cardVars, clientVars, vars
  <2> QED
    BY <1>1, <2>1 DEF PointPart
<1>9. CASE TakePoint /\ queue = <<>>
  BY <1>1, <1>9 DEF TakePoint, PointPart, cardVars, clientVars
<1>10. CASE TakePoint
  BY <1>2, <1>9, <1>10
<1> QED
  BY <1>3, <1>4, <1>5, <1>6, <1>7, <1>8, <1>10 DEF Next, Task, Client

\* The stream's flags and chunks
LEMMA StreamPartHolds ==
  ASSUME IInv, [Next]_vars
  PROVE  StreamPart'
<1>1. StreamPart
  BY DEF IInv
<1>2. 0 \in 0 .. CHUNKS /\ 1 \in 0 .. CHUNKS
  BY SdAssumption
<1>3. CASE Top
  BY <1>1, <1>2, <1>3 DEF Top, StreamPart, streamVars, locals
<1>4. CASE StartStream
  BY <1>1, <1>2, <1>4 DEF StartStream, ReadInto, StreamPart
<1>5. CASE ReadChunk
  BY <1>1, <1>5 DEF ReadChunk, StreamPart
<1>6. CASE NextChunk
  <2>1. chunk < CHUNKS => chunk + 1 \in 0 .. CHUNKS
    BY <1>1, SdAssumption DEF StreamPart
  <2> QED
    BY <1>1, <1>2, <1>6, <2>1 DEF NextChunk, ReadInto, StreamPart
<1>7. CASE AskStream \/ SendCallback
  BY <1>1, <1>7 DEF AskStream, SendCallback, StreamPart, locals
<1>8. CASE \/ SdmmcInit \/ FormatAsked \/ Mount \/ Reformat \/ BootCount \/ TakePoint
           \/ WritePoint \/ StreamTimeout
           \/ HandlePage \/ LoadPage \/ CopyPage \/ CommitPage
  BY <1>1, <1>8 DEF SdmmcInit, FormatAsked, Mount, Reformat, BootCount, TakePoint, WritePoint,
     StreamTimeout, HandlePage, LoadPage, CopyPage, CommitPage, StreamPart, streamVars, locals
<1>9. CASE Clock \/ AddPoint \/ (\E p \in Pages : SetPage(p)) \/ AskFormat \/ UNCHANGED vars
  BY <1>1, <1>9 DEF Clock, SecondPasses, DataStorageTick, AddPoint, SetPage, AskFormat, vars,
     StreamPart, streamVars, locals
<1> QED
  BY <1>3, <1>4, <1>5, <1>6, <1>7, <1>8, <1>9 DEF Next, Task, Client

\* The pages' contents, in memory and on the card
LEMMA PagePartHolds ==
  ASSUME IInv, [Next]_vars
  PROVE  PagePart'
<1>1. PagePart
  BY DEF IInv
<1>2. 1 \in Pages /\ 0 \in Contents
  BY SdAssumption DEF Pages, Contents
<1>3. CASE FormatAsked \/ Reformat
  BY <1>1, <1>2, <1>3 DEF FormatAsked, Reformat, Wiped, FailStart, PagePart, locals, pageVars,
     cardVars, clientVars
<1>4. CASE StartStream \/ ReadChunk \/ NextChunk \/ StreamTimeout \/ HandlePage
  BY <1>1, <1>2, <1>4 DEF StartStream, ReadChunk, LeaveStream, NextChunk, StreamTimeout,
     HandlePage, Onward, PagePart, pageVars, cardVars, clientVars
<1>5. CASE LoadPage
  BY <1>1, <1>2, <1>5 DEF LoadPage, Onward, PagePart, cardVars, clientVars
<1>6. CASE CopyPage \/ CommitPage
  BY <1>1, <1>2, <1>6 DEF CopyPage, CommitPage, Onward, PagePart, pageVars, cardVars, clientVars
<1>7. CASE \E p \in Pages : SetPage(p)
  <2>1. sets < MAX_SETS => sets + 1 \in 0 .. MAX_SETS /\ sets + 2 \in Contents
    BY <1>1, SdAssumption DEF PagePart, Contents
  <2> QED
    BY <1>1, <1>7, <2>1 DEF SetPage, PagePart, locals, cardVars
<1>8. CASE Top \/ SdmmcInit \/ Mount \/ BootCount \/ TakePoint \/ WritePoint
  BY <1>1, <1>8 DEF Top, SdmmcInit, Mount, BootCount, TakePoint, WritePoint, PagePart, locals,
     pageVars, cardVars, clientVars
<1>9. CASE Clock \/ AddPoint \/ AskStream \/ AskFormat \/ SendCallback \/ UNCHANGED vars
  BY <1>1, <1>9 DEF Clock, SecondPasses, DataStorageTick, AddPoint, AskStream, AskFormat,
     SendCallback, vars, PagePart, locals, pageVars, cardVars, clientVars
<1> QED
  BY <1>3, <1>4, <1>5, <1>6, <1>7, <1>8, <1>9 DEF Next, Task, Client

\* The pages' flags
LEMMA FlagPartHolds ==
  ASSUME IInv, [Next]_vars
  PROVE  FlagPart'
<1>1. FlagPart
  BY DEF IInv
<1>2. CASE Task
  BY <1>1, <1>2 DEF Task, Top, SdmmcInit, FormatAsked, Mount, Reformat, BootCount, TakePoint,
     WritePoint, StartStream, ReadChunk, NextChunk, StreamTimeout, HandlePage, LoadPage, CopyPage,
     CommitPage, Wiped, FlagPart, pageVars, cardVars
<1>3. CASE Clock \/ Client \/ SendCallback \/ UNCHANGED vars
  BY <1>1, <1>3 DEF Clock, Client, SecondPasses, DataStorageTick, AddPoint, SetPage, AskStream,
     AskFormat, SendCallback, vars, FlagPart, pageVars, cardVars
<1> QED
  BY <1>2, <1>3 DEF Next

\* The client's record of a stream
LEMMA GotHolds ==
  ASSUME IInv, [Next]_vars
  PROVE  /\ got' \in Seq((0 .. CHUNKS) \X (0 .. CHUNKS))
         /\ \/ got' = got \/ got' = <<>>
            \/ cb = TRUE /\ cb' = FALSE /\ got' = Append(got, <<cbOffset, cbData>>)
<1>1. got \in Seq((0 .. CHUNKS) \X (0 .. CHUNKS)) /\ cb \in BOOLEAN
  BY DEF IInv, StreamPart
<1>2. CASE SendCallback
  <2>1. cb = TRUE /\ cb' = FALSE /\ got' = Append(got, <<cbOffset, cbData>>)
    BY <1>1, <1>2 DEF SendCallback
  <2>2. <<cbOffset, cbData>> \in (0 .. CHUNKS) \X (0 .. CHUNKS)
    BY DEF IInv, StreamPart
  <2> QED
    BY <1>1, <2>1, <2>2
<1>3. CASE AskStream
  BY <1>3 DEF AskStream
<1>4. CASE Task
  BY <1>1, <1>4 DEF Task, Top, SdmmcInit, FormatAsked, Mount, Reformat, BootCount, TakePoint,
     WritePoint, StartStream, ReadChunk, NextChunk, StreamTimeout, HandlePage, LoadPage, CopyPage,
     CommitPage, clientVars
<1>5. CASE Clock \/ AddPoint \/ (\E p \in Pages : SetPage(p)) \/ AskFormat \/ UNCHANGED vars
  BY <1>1, <1>5 DEF Clock, SecondPasses, DataStorageTick, AddPoint, SetPage, AskFormat, vars,
     clientVars
<1> QED
  BY <1>2, <1>3, <1>4, <1>5 DEF Next, Client

\* A callback that is there stays as it is until it is sent, but when it is late.
LEMMA AnnouncedHolds ==
  ASSUME IInv, [Next]_vars
  PROVE  Announced'
<1> SUFFICES ASSUME "slow" \notin hit'
             PROVE  /\ cb' = TRUE => pc' = "wait" /\ cbOffset' = cbData'
                    /\ \A i \in DOMAIN got' : got'[i][1] = got'[i][2]
  BY DEF Announced
<1>1. "slow" \notin hit
  BY FaultStep DEF Fault, faultVars
<1>2. /\ cb = TRUE => pc = "wait" /\ cbOffset = cbData
      /\ \A i \in DOMAIN got : got[i][1] = got[i][2]
      /\ cb \in BOOLEAN
  BY <1>1 DEF IInv, Announced, StreamPart
<1>3. cb' = TRUE => pc' = "wait" /\ cbOffset' = cbData'
  <2>1. CASE ReadChunk
    BY <1>2, <2>1 DEF ReadChunk
  <2>2. CASE NextChunk
    BY <1>2, <2>2 DEF NextChunk
  <2>3. CASE StreamTimeout
    BY <2>3 DEF StreamTimeout, Fault
  <2>4. CASE Top \/ StartStream
    BY <1>2, <2>4 DEF Top, StartStream, streamVars
  <2>5. CASE \/ SdmmcInit \/ FormatAsked \/ Mount \/ Reformat \/ BootCount \/ TakePoint
             \/ WritePoint \/ HandlePage \/ LoadPage \/ CopyPage \/ CommitPage
    BY <1>2, <2>5 DEF SdmmcInit, FormatAsked, Mount, Reformat, BootCount, TakePoint, WritePoint,
       HandlePage, LoadPage, CopyPage, CommitPage, streamVars
  <2>6. CASE Clock \/ Client \/ SendCallback \/ UNCHANGED vars
    BY <1>2, <2>6 DEF Clock, Client, SecondPasses, DataStorageTick, AddPoint, SetPage, AskStream,
       AskFormat, SendCallback, vars, streamVars
  <2> QED
    BY <2>1, <2>2, <2>3, <2>4, <2>5, <2>6 DEF Next, Task
<1>4. \A i \in DOMAIN got' : got'[i][1] = got'[i][2]
  <2>1. CASE got' = got \/ got' = <<>>
    BY <1>2, <2>1
  <2>2. CASE cb = TRUE /\ got' = Append(got, <<cbOffset, cbData>>)
    <3>1. got \in Seq((0 .. CHUNKS) \X (0 .. CHUNKS))
      BY DEF IInv
    <3>2. /\ DOMAIN got' = 1 .. Len(got) + 1
          /\ \A i \in 1 .. Len(got) : got'[i] = got[i]
          /\ got'[Len(got) + 1] = <<cbOffset, cbData>>
      BY <2>2, <3>1
    <3>3. cbOffset = cbData
      BY <1>2, <2>2
    <3> QED
      BY <1>2, <3>1, <3>2, <3>3
  <2> QED
    BY <2>1, <2>2, GotHolds
<1> QED
  BY <1>3, <1>4

-----------------------------------------------------------------------------
\* Every step keeps the invariant.
LEMMA StepHolds == IInv /\ [Next]_vars => IInv'
<1> SUFFICES ASSUME IInv, [Next]_vars PROVE IInv'
  OBVIOUS
<1> QED
  BY InitPartHolds, CountPartHolds, PointPartHolds, StreamPartHolds, PagePartHolds, FlagPartHolds,
     GotHolds, AnnouncedHolds DEF IInv

\* The fields keep their types and the buffer of data points never overflows, even
\* when a point that could not be written is put back (sd.c, data_storage.c).
THEOREM TypeCorrect == Spec => []TypeOK
<1>1. IInv => TypeOK
  <2> SUFFICES ASSUME IInv PROVE TypeOK
    OBVIOUS
  <2>1. /\ {sd_status, lfs_status} \subseteq Status
        /\ sdmmc_init_last \in {"off", "running", "due"}
        /\ errors \in 0 .. LIMIT + 1 /\ hit \subseteq Faults /\ faults \in 0 .. MAX_FAULTS
    BY DEF IInv, InitPart, CountPart
  <2>2. {sd_lfs_format, get, cb, sound} \subseteq BOOLEAN
    BY DEF IInv, InitPart, StreamPart, FlagPart
  <2>3. /\ queue \in Seq(1 .. MAX_POINTS) /\ Len(queue) <= QUEUE
        /\ points \subseteq 1 .. MAX_POINTS
    BY DEF IInv, PointPart, Numbers
  <2>4. {cbOffset, cbData, chunk} \subseteq 0 .. CHUNKS
    BY DEF IInv, StreamPart
  <2>5. /\ page \in Pages
        /\ {storage, file, lastSet} \subseteq [Pages -> 0 .. MAX_SETS + 1]
    BY DEF IInv, PagePart, Contents
  <2>6. {changed, write_to_sd, read_from_sd} \subseteq [Pages -> BOOLEAN]
    BY DEF IInv, FlagPart
  <2> QED
    BY <2>1, <2>2, <2>3, <2>4, <2>5, <2>6, Zenon DEF TypeOK
<1> QED
  BY <1>1, InitHolds, StepHolds, PTL DEF Spec

\* While callbacks are sent in time, no chunk is read over one that is announced
\* and not yet sent (sd_tick_task_handle_wallbox_data).
THEOREM StreamIsWhole == Spec => []ChunksAreWhole
<1>1. IInv => ChunksAreWhole
  BY DEF IInv, Announced, ChunksAreWhole
<1> QED
  BY <1>1, InitHolds, StepHolds, PTL DEF Spec

-----------------------------------------------------------------------------
\* A point that is added is in the buffer with those that were.
LEMMA AppendAdds ==
  ASSUME NEW S, NEW s \in Seq(S), NEW x \in S
  PROVE  Elements(s) \cup {x} \subseteq Elements(Append(s, x))
<1>1. /\ DOMAIN Append(s, x) = 1 .. Len(s) + 1 /\ DOMAIN s = 1 .. Len(s) /\ Len(s) \in Nat
      /\ \A i \in 1 .. Len(s) : Append(s, x)[i] = s[i]
      /\ Append(s, x)[Len(s) + 1] = x
  OBVIOUS
<1> QED
  BY <1>1 DEF Elements

\* The last point of the buffer is the only one that is taken out of it.
LEMMA TakeLeaves ==
  ASSUME NEW S, NEW s \in Seq(S), s # <<>>
  PROVE  Elements(s) \subseteq Elements(SubSeq(s, 1, Len(s) - 1)) \cup {s[Len(s)]}
<1> DEFINE front == SubSeq(s, 1, Len(s) - 1)
<1>1. /\ Len(s) \in Nat \ {0} /\ DOMAIN s = 1 .. Len(s)
      /\ DOMAIN front = 1 .. Len(s) - 1
      /\ \A i \in 1 .. Len(s) - 1 : front[i] = s[i]
  OBVIOUS
<1>2. SUFFICES ASSUME NEW i \in 1 .. Len(s), i # Len(s)
               PROVE  s[i] \in Elements(front)
  <2>1. Elements(s) = {s[i] : i \in 1 .. Len(s)}
    BY <1>1 DEF Elements
  <2> QED
    BY <2>1
<1>3. i \in 1 .. Len(s) - 1
  <2>1. Len(s) \in Nat
    OBVIOUS
  <2> QED
    BY <1>2, <2>1
<1>4. front[i] = s[i] /\ i \in DOMAIN front
  BY <1>1, <1>3
<1> HIDE DEF front
<1> QED
  BY <1>4 DEF Elements

\* A data point is lost only when the card is started anew or formatted, or when
\* it could not be written and the buffer has been filled meanwhile.
THEOREM PointsStay == Spec => PointsAreKept
<1> DEFINE Lossy == \/ pc' = "sdmmc" \/ pc \in {"format", "reformat"}
                    \/ pc = "point" /\ Len(queue) = QUEUE
           Keeps == \A d \in 1 .. added : d \in Held /\ d \notin Held' => Lossy
<1>1. ASSUME IInv, [Next]_vars PROVE Keeps \/ UNCHANGED vars
  <2>1. PointPart /\ QUEUE \in Nat
    BY <1>1, SdAssumption DEF IInv
  <2>2. CASE TakePoint
    <3>1. CASE queue = <<>>
      BY <2>2, <3>1 DEF TakePoint, Held, cardVars
    <3>2. CASE queue # <<>>
      <4>1. hand = 0 /\ queue \in Seq(Numbers)
        BY <2>1, <2>2 DEF PointPart, TakePoint
      <4>2. /\ hand' = queue[Len(queue)] /\ queue' = SubSeq(queue, 1, Len(queue) - 1)
            /\ points' = points
        BY <2>2, <3>2 DEF TakePoint, cardVars
      <4>3. Elements(queue) \subseteq Elements(queue') \cup {hand'}
        BY <3>2, <4>1, <4>2, TakeLeaves
      <4>4. Held \ {0} \subseteq Held'
        BY <4>1, <4>2, <4>3 DEF Held, Elements
      <4>5. 0 \notin 1 .. added
        OBVIOUS
      <4> QED
        BY <4>4, <4>5
    <3> QED
      BY <3>1, <3>2
  <2>3. CASE WritePoint
    <3>1. hand \in Numbers /\ queue \in Seq(Numbers) /\ Len(queue) <= QUEUE /\ pc = "point"
      BY <2>1, <2>3 DEF PointPart, WritePoint
    <3>2. \/ queue' = queue /\ points' = points \cup {hand}
          \/ queue' = Append(queue, hand) /\ points \subseteq points'
          \/ ~(Len(queue) < QUEUE)
      BY <2>3 DEF WritePoint
    <3>3. CASE queue' = queue /\ points' = points \cup {hand}
      BY <3>3 DEF Held, Elements
    <3>4. CASE queue' = Append(queue, hand) /\ points \subseteq points'
      <4>1. Elements(queue) \cup {hand} \subseteq Elements(queue')
        BY <3>1, <3>4, AppendAdds
      <4> QED
        BY <3>4, <4>1 DEF Held
    <3>5. CASE ~(Len(queue) < QUEUE)
      <4>1. Len(queue) = QUEUE
        BY <2>1, <3>1, <3>5
      <4> QED
        BY <3>1, <4>1
    <3> QED
      BY <3>2, <3>3, <3>4, <3>5
  <2>4. CASE AddPoint
    <3>1. added + 1 \in Numbers /\ queue \in Seq(Numbers)
      BY <2>1, <2>4, SdAssumption DEF PointPart, AddPoint, Numbers
    <3>2. queue' = Append(queue, added + 1) /\ UNCHANGED <<hand, points>>
      BY <2>4 DEF AddPoint, locals, cardVars
    <3>3. Elements(queue) \subseteq Elements(queue')
      BY <3>1, <3>2, AppendAdds
    <3> QED
      BY <3>2, <3>3 DEF Held
  <2>5. CASE Top
    <3>1. pc' = "sdmmc" \/ UNCHANGED <<queue, hand, points>>
      BY <2>5 DEF Top, locals, cardVars
    <3> QED
      BY <3>1 DEF Held, Elements
  <2>6. CASE FormatAsked \/ Reformat
    BY <2>6 DEF FormatAsked, Reformat
  <2>7. CASE \/ SdmmcInit \/ Mount \/ BootCount
             \/ StartStream \/ ReadChunk \/ NextChunk \/ StreamTimeout
             \/ HandlePage \/ LoadPage \/ CopyPage \/ CommitPage
    <3>1. UNCHANGED <<queue, hand, points>>
      BY <2>7 DEF SdmmcInit, Mount, BootCount, StartStream, ReadChunk, NextChunk, StreamTimeout,
         HandlePage, LoadPage, CopyPage, CommitPage, locals, cardVars
    <3> QED
      BY <3>1 DEF Held, Elements
  <2>8. CASE \/ Clock \/ (\E p \in Pages : SetPage(p)) \/ AskStream \/ AskFormat
             \/ SendCallback \/ UNCHANGED vars
    <3>1. UNCHANGED <<queue, hand, points>>
      BY <2>8 DEF Clock, SecondPasses, DataStorageTick, SetPage, AskStream, AskFormat,
         SendCallback, locals, cardVars, vars
    <3> QED
      BY <3>1 DEF Held, Elements
  <2> QED
    BY <2>2, <2>3, <2>4, <2>5, <2>6, <2>7, <2>8, <1>1 DEF Next, Task, Client
<1>2. IInv /\ [Next]_vars =>
        [\A d \in 1 .. added :
           d \in Held /\ d \notin Held' =>
             \/ pc' = "sdmmc" \/ pc \in {"format", "reformat"}
             \/ pc = "point" /\ Len(queue) = QUEUE]_vars
  BY <1>1
<1> QED
  BY <1>2, InitHolds, StepHolds, PTL DEF Spec, PointsAreKept
=============================================================================
