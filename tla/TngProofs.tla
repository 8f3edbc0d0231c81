------------------------------ MODULE TngProofs ------------------------------
(***************************************************************************)
(* Proofs about TngUsb: once there is a header in the request buffer       *)
(* (HEADER0 # 0), requests are handled in order whatever the interrupts    *)
(* do, the buffers do not overflow, and what is being sent stays.          *)
(***************************************************************************)
EXTENDS TngUsb, SequenceTheorems, TLAPS

\* The first k chunks of request r, and the one that follows them.
Part(r, k) == [p \in 1 .. k |-> <<r, p>>]
After(r, k) == IF k = 0 THEN <<r, 1>> ELSE NextChunk(<<r, k>>)

\* The receive side: k chunks of request r are in the request buffer; the next
\* one is with the host, or it is in the receive buffer, which is then closed.
Order(r, k) ==
  /\ request = Part(r, k)
  /\ k > 0 => r \in Requests /\ header = LENGTH[r] /\ k <= header
  /\ \/ out = <<>> /\ armed = TRUE /\ host = After(r, k)
     \/ /\ out = <<After(r, k)>> /\ armed = FALSE
        /\ After(r, k)[1] \in Requests
        /\ host = NextChunk(After(r, k))

\* The request in the buffer is the one after those that were handled, or the
\* last of these while it is still there.
Current == IF pc = "remove" THEN Len(executed) ELSE Len(executed) + 1

Receives ==
  /\ header \in Nat \ {0}
  /\ Len(executed) \in Nat /\ RequestsRunInOrder
  /\ \E k \in Nat : Order(Current, k) /\ (pc \in {"execute", "remove"} => k > 0 /\ k = header)

\* The send side: the storage is at most as full as usb_append_to_storage has
\* read, as only the interrupt changes its length meanwhile.
Slots == Requests \cup {0}

Sends ==
  /\ transfer \in BOOLEAN /\ flush \in BOOLEAN
  /\ response \in Slots
  /\ storage \in [1 .. STORAGE -> Slots]
  /\ storageLen \in 0 .. STORAGE
  /\ pc \in {"copy", "length"} => seen \in Nat /\ seen < STORAGE /\ storageLen <= seen
  /\ pc = "transmit" => seen \in 0 .. STORAGE
  /\ inBuffer \in Seq(Slots) /\ Len(inBuffer) <= STORAGE
  /\ got \in Seq(Seq(Slots))

IInv == Receives /\ Sends

-----------------------------------------------------------------------------
\* The first chunks of a request, and how the next one joins them.
LEMMA PartIs ==
  ASSUME NEW r, NEW k \in Nat
  PROVE  /\ Len(Part(r, k)) = k
         /\ Part(r, k) = <<>> <=> k = 0
         /\ k > 0 => Part(r, k)[1] = <<r, 1>>
         /\ Part(r, k) \o << <<r, k + 1>> >> = Part(r, k + 1)
<1>1. Part(r, k) \in Seq({<<r, p>> : p \in Nat}) /\ Len(Part(r, k)) = k
  BY DEF Part
<1>2. Part(r, k) \o << <<r, k + 1>> >> = Part(r, k + 1)
  BY <1>1 DEF Part
<1>3. k > 0 => Part(r, k)[1] = <<r, 1>>
  BY DEF Part
<1> QED
  BY <1>1, <1>2, <1>3

\* The list of handled requests grows by the next number.
LEMMA UptoGrows ==
  ASSUME NEW n \in Nat
  PROVE  /\ Len(Upto(n)) = n
         /\ Append(Upto(n), n + 1) = Upto(n + 1)
<1>1. Upto(n) \in Seq(Nat) /\ Len(Upto(n)) = n
  BY DEF Upto
<1> QED
  BY <1>1 DEF Upto

\* usb_recv puts the next chunk behind the others of its request.
LEMMA TakeHolds ==
  ASSUME NEW r \in Nat, NEW k \in Nat, header \in Nat \ {0},
         request = Part(r, k),
         k > 0 => r \in Requests /\ header = LENGTH[r] /\ k <= header,
         After(r, k)[1] \in Requests,
         Unfinished, UsbRecv(<<After(r, k)>>),
         host' = NextChunk(After(r, k))
  PROVE  header' \in Nat \ {0} /\ Order(r, k + 1)'
<1>1. LENGTH \in Seq(Nat \ {0})
  BY TngAssumption
<1>2. CASE k = 0
  <2>1. request = <<>> /\ After(r, k) = <<r, 1>> /\ r \in Requests
    BY <1>2, PartIs DEF After
  <2>2. request' = Part(r, 1) /\ header' = LENGTH[r] /\ out' = <<>> /\ armed' = TRUE
    <3>1. request' = Part(r, 0) \o << <<r, 0 + 1>> >>
      BY <1>2, <2>1 DEF UsbRecv
    <3> QED
      BY <2>1, <3>1, PartIs DEF UsbRecv
  <2>3. LENGTH[r] \in Nat \ {0}
    BY <1>1, <2>1 DEF Requests
  <2>4. host' = After(r, 1)
    BY <2>1 DEF After
  <2> QED
    BY <1>2, <2>1, <2>2, <2>3, <2>4 DEF Order
<1>3. CASE k > 0
  <2>1. request # <<>> /\ Len(request) = k
    <3>1. k # 0
      BY <1>3
    <3>2. Len(Part(r, k)) = k /\ (Part(r, k) = <<>> <=> k = 0)
      BY PartIs
    <3> QED
      BY <3>1, <3>2
  <2>2. k < header /\ header = LENGTH[r] /\ r \in Requests
    BY <1>3, <2>1 DEF Unfinished
  <2>3. After(r, k) = <<r, k + 1>>
    BY <1>3, <2>2 DEF After, NextChunk
  <2>4. request' = Part(r, k + 1) /\ header' = header /\ out' = <<>> /\ armed' = TRUE
    BY <2>1, <2>3, PartIs DEF UsbRecv
  <2>5. host' = After(r, k + 1)
    BY <1>3, <2>3 DEF After
  <2> QED
    BY <1>3, <2>2, <2>4, <2>5 DEF Order
<1> QED
  BY <1>2, <1>3

-----------------------------------------------------------------------------
\* At the start the host has everything and nothing is being sent.
LEMMA InitHolds == HEADER0 # 0 /\ Init => IInv
<1> SUFFICES ASSUME HEADER0 # 0, Init PROVE IInv
  OBVIOUS
<1>0. header \in Nat \ {0} /\ executed = <<>> /\ pc = "poll"
  BY TngAssumption DEF Init
<1>1. header \in Nat \ {0} /\ Len(executed) = 0 /\ pc = "poll" /\ Current = 1
  <2>1. Len(executed) = 0
    BY <1>0
  <2>2. Current = 1
    BY <1>0, <2>1 DEF Current
  <2> QED
    BY <1>0, <2>1, <2>2
<1>2. executed = Upto(0)
  BY <1>0 DEF Upto
<1>3. Order(1, 0)
  <2>1. Part(1, 0) = <<>>
    BY PartIs
  <2> QED
    BY <2>1 DEF Order, Init, After
<1>4. Receives
  BY <1>1, <1>2, <1>3 DEF Receives, RequestsRunInOrder
<1>5. Sends
  <2>1. storage \in [1 .. STORAGE -> Slots] /\ response \in Slots
    BY DEF Init, Slots
  <2>2. storageLen \in 0 .. STORAGE /\ STORAGE \in Nat
    BY TngAssumption DEF Init
  <2>3. inBuffer = <<>> /\ got = <<>> /\ pc = "poll"
    BY DEF Init
  <2>4. inBuffer \in Seq(Slots) /\ Len(inBuffer) <= STORAGE /\ got \in Seq(Seq(Slots))
    BY <2>2, <2>3
  <2>5. transfer \in BOOLEAN /\ flush \in BOOLEAN
    BY DEF Init
  <2>6. pc \notin {"copy", "length", "transmit"}
    BY <2>3
  <2> QED
    BY <2>1, <2>2, <2>4, <2>5, <2>6, Zenon DEF Sends
<1> QED
  BY <1>4, <1>5 DEF IInv

\* tng_try_usb_recv, from the interrupt or the main loop, with the next chunk.
LEMMA TryHolds ==
  ASSUME NEW r \in Nat, NEW k \in Nat, header \in Nat \ {0},
         request = Part(r, k),
         k > 0 => r \in Requests /\ header = LENGTH[r] /\ k <= header,
         After(r, k)[1] \in Requests,
         TryUsbRecv(<<After(r, k)>>),
         Unfinished \/ armed = FALSE,
         host' = NextChunk(After(r, k))
  PROVE  header' \in Nat \ {0} /\ \E j \in Nat : Order(r, j)'
<1>1. CASE Unfinished
  <2>1. UsbRecv(<<After(r, k)>>)
    BY <1>1 DEF TryUsbRecv
  <2>2. header' \in Nat \ {0} /\ Order(r, k + 1)'
    BY <1>1, <2>1, TakeHolds
  <2> QED
    BY <2>2
<1>2. CASE ~Unfinished
  <2>1. out' = <<After(r, k)>> /\ UNCHANGED <<armed, request, header>> /\ armed = FALSE
    BY <1>2 DEF TryUsbRecv
  <2>2. Order(r, k)'
    BY <2>1 DEF Order
  <2> QED
    BY <2>1, <2>2
<1> QED
  BY <1>1, <1>2

\* usbd_tfp_data_out
LEMMA DataOutHolds ==
  ASSUME IInv, DataOut
  PROVE  Receives'
<1>1. UNCHANGED <<pc, executed>> /\ Current' = Current /\ Current \in Nat
  BY DEF DataOut, mainVars, history, Current, IInv, Receives
<1>2. PICK k \in Nat : /\ Order(Current, k)
                       /\ pc \in {"execute", "remove"} => k > 0 /\ k = header
  BY DEF IInv, Receives
<1>3. /\ request = Part(Current, k) /\ out = <<>> /\ armed = TRUE /\ host = After(Current, k)
      /\ host[1] \in Requests /\ host' = NextChunk(host) /\ header \in Nat \ {0}
      /\ k > 0 => Current \in Requests /\ header = LENGTH[Current] /\ k <= header
      /\ Append(out, host) = <<host>>
  BY <1>2 DEF Order, DataOut, IInv, Receives
<1>4. CASE Unfinished
  <2>1. TryUsbRecv(<<After(Current, k)>>)
    BY <1>3, <1>4 DEF DataOut
  <2>2. header' \in Nat \ {0} /\ \E j \in Nat : Order(Current, j)'
    BY <1>1, <1>3, <1>4, <2>1, TryHolds
  <2>3. pc \notin {"execute", "remove"}
    <3>1. k > 0 /\ k = header => request # <<>> /\ Len(request) = header
      BY <1>3, PartIs
    <3> QED
      BY <1>2, <1>3, <1>4, <3>1 DEF Unfinished
  <2> QED
    BY <1>1, <2>2, <2>3 DEF Receives, IInv, RequestsRunInOrder
<1>5. CASE ~Unfinished
  <2>1. out' = <<host>> /\ armed' = FALSE /\ UNCHANGED <<request, header>>
    BY <1>3, <1>5 DEF DataOut
  <2>2. Order(Current, k)'
    BY <1>1, <1>3, <2>1 DEF Order
  <2> QED
    BY <1>1, <1>2, <2>1, <2>2 DEF Receives, IInv, RequestsRunInOrder
<1> QED
  BY <1>4, <1>5

\* tng_tick with the USB interrupt masked
LEMMA PollHolds ==
  ASSUME IInv, Poll
  PROVE  Receives'
<1>1. /\ UNCHANGED executed /\ pc = "poll" /\ pc' \in {"handle", "reply"}
      /\ Current' = Current /\ Current \in Nat
  BY DEF Poll, history, Current, IInv, Receives
<1>2. PICK k \in Nat : Order(Current, k)
  BY DEF IInv, Receives
<1>3. header \in Nat \ {0} /\ host' = host
  BY DEF IInv, Receives, Poll
<1>4. header' \in Nat \ {0} /\ \E j \in Nat : Order(Current, j)'
  <2>1. CASE UNCHANGED <<out, armed, request, header>>
    <3>1. Order(Current, k)'
      BY <1>1, <1>2, <1>3, <2>1 DEF Order
    <3> QED
      BY <1>3, <2>1, <3>1
  <2>2. CASE TryUsbRecv(out) /\ out = <<>>
    <3>1. UNCHANGED <<out, armed, request, header>>
      BY <2>2 DEF TryUsbRecv
    <3> QED
      BY <2>1, <3>1
  <2>3. CASE TryUsbRecv(out) /\ out # <<>>
    <3>1. /\ request = Part(Current, k) /\ After(Current, k)[1] \in Requests
          /\ k > 0 => Current \in Requests /\ header = LENGTH[Current] /\ k <= header
          /\ out = <<After(Current, k)>> /\ armed = FALSE
          /\ host' = NextChunk(After(Current, k))
      BY <1>2, <1>3, <2>3 DEF Order
    <3>2. TryUsbRecv(<<After(Current, k)>>)
      BY <2>3, <3>1
    <3>3. header' \in Nat \ {0} /\ \E j \in Nat : Order(Current, j)'
      BY <1>1, <1>3, <3>1, <3>2, TryHolds
    <3> QED
      BY <3>3
  <2> QED
    BY <2>1, <2>2, <2>3 DEF Poll
<1> QED
  BY <1>1, <1>4 DEF Receives, IInv, RequestsRunInOrder

\* tng_handle_message runs when the whole request is there.
LEMMA HandleHolds ==
  ASSUME IInv, Handle
  PROVE  Receives'
<1>1. PICK k \in Nat : Order(Current, k)
  BY DEF IInv, Receives
<1>2. UNCHANGED <<recvVars, executed>> /\ pc = "handle" /\ pc' \in {"execute", "reply"}
  BY DEF Handle, history
<1>3. Current' = Current
  BY <1>2 DEF Current
<1>4. Order(Current, k)'
  BY <1>1, <1>2, <1>3 DEF Order, recvVars
<1>5. pc' = "execute" => k > 0 /\ k = header
  <2>1. request = Part(Current, k) /\ (k > 0 => k <= header) /\ header \in Nat \ {0}
    BY <1>1 DEF Order, IInv, Receives
  <2>2. Len(request) = k
    BY <2>1, PartIs
  <2>3. pc' = "execute" => k >= header
    BY <2>2 DEF Handle
  <2> QED
    BY <2>1, <2>3
<1> QED
  BY <1>2, <1>4, <1>5 DEF Receives, IInv, RequestsRunInOrder, recvVars

\* handle_message gets the next request.
LEMMA ExecuteIs ==
  ASSUME IInv, Execute
  PROVE  /\ executed' = Upto(Len(executed) + 1) /\ Len(executed') = Len(executed) + 1
         /\ response' \in {response, Current} /\ Current \in Requests
         /\ Receives'
<1>1. PICK k \in Nat : Order(Current, k) /\ k > 0 /\ k = header
  BY DEF IInv, Receives, Execute
<1>2. request = Part(Current, k) /\ Current \in Requests
  BY <1>1 DEF Order
<1>3. request # <<>>
  <2>1. k # 0
    BY <1>1
  <2>2. Part(Current, k) = <<>> <=> k = 0
    BY PartIs
  <2> QED
    BY <1>2, <2>1, <2>2
<1>4. request[1][1] = Current
  <2>1. k > 0 => Part(Current, k)[1] = <<Current, 1>>
    BY PartIs
  <2> QED
    BY <1>1, <1>2, <2>1
<1>5. Current = Len(executed) + 1 /\ Len(executed) \in Nat
  BY DEF Current, Execute, IInv, Receives
<1>6. executed' = Append(executed, Current) /\ response' \in {response, Current}
  BY <1>3, <1>4 DEF Execute
<1>7. executed' = Upto(Len(executed) + 1) /\ Len(executed') = Len(executed) + 1
  <2>1. executed = Upto(Len(executed))
    BY DEF IInv, Receives, RequestsRunInOrder
  <2>2. PICK n \in Nat : n = Len(executed)
    BY <1>5
  <2>3. executed' = Append(Upto(n), n + 1)
    BY <1>5, <1>6, <2>1, <2>2
  <2>4. Append(Upto(n), n + 1) = Upto(n + 1)
    BY UptoGrows
  <2>5. \A m \in Nat : Len(Upto(m)) = m
    BY UptoGrows
  <2> QED
    BY <2>2, <2>3, <2>4, <2>5
<1>8. Receives'
  <2>1. UNCHANGED recvVars /\ pc' = "remove"
    BY DEF Execute
  <2>2. Current' = Current
    BY <1>5, <1>7, <2>1 DEF Current
  <2>3. Order(Current, k)'
    BY <1>1, <2>1, <2>2 DEF Order, recvVars
  <2>4. header' = header /\ header \in Nat \ {0}
    BY <2>1 DEF recvVars, IInv, Receives
  <2> QED
    BY <1>1, <1>5, <1>7, <2>3, <2>4 DEF Receives, RequestsRunInOrder
<1> QED
  BY <1>2, <1>6, <1>7, <1>8

\* The handled request is all there is in the buffer, so that nothing is left.
LEMMA RemoveHolds ==
  ASSUME IInv, Remove
  PROVE  Receives'
<1>1. PICK k \in Nat : Order(Current, k) /\ k > 0 /\ k = header
  BY DEF IInv, Receives, Remove
<1>2. /\ request = Part(Current, k) /\ header = LENGTH[Current]
      /\ header \in Nat \ {0}
  BY <1>1 DEF Order, IInv, Receives
<1>3. Len(request) = header
  BY <1>1, <1>2, PartIs
<1>4. /\ request' = <<>> /\ UNCHANGED <<host, out, armed, header, executed>>
      /\ pc = "remove" /\ pc' = "reply"
  BY <1>2, <1>3 DEF Remove, history
<1>5. Current = Len(executed) /\ Current' = Current + 1 /\ Current \in Nat
  BY <1>4 DEF Current, IInv, Receives
<1>6. After(Current, k) = <<Current + 1, 1>>
  BY <1>1, <1>2 DEF After, NextChunk
<1>7. After(Current + 1, 0) = <<Current + 1, 1>> /\ Part(Current + 1, 0) = <<>>
  BY PartIs DEF After
<1>8. Order(Current, 0)'
  BY <1>1, <1>4, <1>5, <1>6, <1>7 DEF Order
<1> QED
  BY <1>2, <1>4, <1>8 DEF Receives, IInv, RequestsRunInOrder

\* Every other step leaves the receive side alone.
LEMMA ReceivesStays ==
  ASSUME Receives, UNCHANGED <<recvVars, executed>>,
         pc' = pc \/ {pc, pc'} \cap {"execute", "remove"} = {}
  PROVE  Receives'
<1>1. UNCHANGED <<host, out, armed, request, header, executed>>
  BY DEF recvVars
<1>2. Current' = Current
  BY <1>1 DEF Current
<1>3. PICK k \in Nat : /\ Order(Current, k)
                       /\ pc \in {"execute", "remove"} => k > 0 /\ k = header
  BY DEF Receives
<1>4. Order(Current, k)'
  BY <1>1, <1>2, <1>3 DEF Order
<1>5. pc' \in {"execute", "remove"} => k > 0 /\ k = header'
  BY <1>1, <1>3
<1>6. header' \in Nat \ {0} /\ Len(executed') \in Nat /\ RequestsRunInOrder'
  BY <1>1 DEF Receives, RequestsRunInOrder
<1> QED
  BY <1>4, <1>5, <1>6 DEF Receives

-----------------------------------------------------------------------------
\* Steps that have nothing to do with the buffers for sending.
LEMMA SendsStays ==
  ASSUME Sends, UNCHANGED <<storage, storageLen, inBuffer, transfer, seen, got>>,
         flush' \in BOOLEAN, response' \in Slots,
         pc' = pc \/ pc' \notin {"copy", "length", "transmit"}
  PROVE  Sends'
BY Zenon DEF Sends

\* usb_append_to_storage
LEMMA AppendHolds ==
  ASSUME Sends, AppendCheck \/ AppendCopy \/ AppendLength
  PROVE  Sends'
<1>1. /\ transfer' \in BOOLEAN /\ flush' \in BOOLEAN
      /\ inBuffer' \in Seq(Slots) /\ got' \in Seq(Seq(Slots))
  BY Zenon DEF Sends, AppendCheck, AppendCopy, AppendLength, sendVars, history
<1>2. Len(inBuffer') <= STORAGE
  BY DEF Sends, AppendCheck, AppendCopy, AppendLength, sendVars
<1>3. response' \in Slots
  BY DEF Sends, AppendCheck, AppendCopy, AppendLength, sendVars, Slots
<1>4. storage' \in [1 .. STORAGE -> Slots]
  BY DEF Sends, AppendCheck, AppendCopy, AppendLength, sendVars
<1>5. /\ storageLen' \in 0 .. STORAGE
      /\ pc' \in {"copy", "length"} => seen' \in Nat /\ seen' < STORAGE /\ storageLen' <= seen'
      /\ pc' # "transmit"
  BY TngAssumption DEF Sends, AppendCheck, AppendCopy, AppendLength, sendVars
<1> QED
  BY <1>1, <1>2, <1>3, <1>4, <1>5, Zenon DEF Sends

\* What usb_send_storage puts into in_buffer fits.
LEMMA TransmitFits ==
  ASSUME Sends, NEW n \in 0 .. STORAGE, Transmit(n)
  PROVE  /\ inBuffer' \in Seq(Slots) /\ Len(inBuffer') <= STORAGE
         /\ transfer' \in BOOLEAN
<1>1. storage \in Seq(Slots) /\ Len(storage) = STORAGE
  BY TngAssumption DEF Sends
<1>2. /\ SubSeq(storage, 1, n) \in Seq(Slots)
      /\ Len(SubSeq(storage, 1, n)) = n
  BY <1>1
<1> QED
  BY <1>2 DEF Transmit

\* usb_send
LEMMA UsbSendHolds ==
  ASSUME Sends, UsbSend
  PROVE  Sends'
<1>1. /\ UNCHANGED <<storage, storageLen, seen, flush, got>> /\ response' \in Slots
      /\ pc' \notin {"copy", "length", "transmit"}
  BY DEF UsbSend, Sends, Slots, history
<1>2. CASE UNCHANGED <<inBuffer, transfer>>
  BY <1>1, <1>2, SendsStays DEF Sends
<1>3. CASE inBuffer' = <<response>> /\ transfer' = TRUE
  <2>1. inBuffer' \in Seq(Slots) /\ Len(inBuffer') <= STORAGE
    BY <1>3, TngAssumption DEF Sends
  <2> QED
    BY <1>1, <1>3, <2>1, Zenon DEF Sends
<1> QED
  BY <1>2, <1>3 DEF UsbSend

\* usb_send_storage from the main loop
LEMMA FlushHolds ==
  ASSUME Sends, FlushCheck \/ FlushTransmit \/ FlushReset
  PROVE  Sends'
<1>1. UNCHANGED <<storage, flush, got>> /\ response' \in Slots
  BY DEF FlushCheck, FlushTransmit, FlushReset, Sends, Slots, history
<1>2. /\ storageLen' \in 0 .. STORAGE
      /\ pc' \notin {"copy", "length"}
      /\ pc' = "transmit" => seen' \in 0 .. STORAGE
  BY TngAssumption DEF Sends, FlushCheck, FlushTransmit, FlushReset
<1>3. inBuffer' \in Seq(Slots) /\ Len(inBuffer') <= STORAGE /\ transfer' \in BOOLEAN
  <2>1. CASE UNCHANGED <<inBuffer, transfer>>
    BY <2>1 DEF Sends
  <2>2. CASE FlushTransmit /\ \E n \in {seen, storageLen} : Transmit(n)
    <3>1. {seen, storageLen} \subseteq 0 .. STORAGE
      BY <2>2 DEF Sends, FlushTransmit
    <3> QED
      BY <2>2, <3>1, TransmitFits
  <2> QED
    BY <2>1, <2>2 DEF FlushCheck, FlushTransmit, FlushReset
<1> QED
  BY <1>1, <1>2, <1>3, Zenon DEF Sends

\* usbd_tfp_data_in
LEMMA DataInHolds ==
  ASSUME Sends, DataIn
  PROVE  Sends'
<1>1. UNCHANGED <<response, storage, pc, seen, flush>>
  BY DEF DataIn, mainVars
<1>2. got' \in Seq(Seq(Slots))
  BY DEF DataIn, Sends
<1>3. CASE storageLen = 0
  <2>1. UNCHANGED <<inBuffer, storageLen>> /\ transfer' = FALSE
    BY <1>3 DEF DataIn
  <2> QED
    BY <1>1, <1>2, <2>1, Zenon DEF Sends
<1>4. CASE storageLen # 0
  <2>1. Transmit(storageLen) /\ storageLen' = 0
    BY <1>4 DEF DataIn
  <2>2. /\ inBuffer' \in Seq(Slots) /\ Len(inBuffer') <= STORAGE
        /\ transfer' \in BOOLEAN
    <3>1. storageLen \in 0 .. STORAGE
      BY DEF Sends
    <3> QED
      BY <2>1, <3>1, TransmitFits
  <2>3. /\ pc' \in {"copy", "length"} => seen' \in Nat /\ seen' < STORAGE /\ storageLen' <= seen'
        /\ storageLen' \in 0 .. STORAGE
    BY <1>1, <2>1, TngAssumption DEF Sends
  <2> QED
    BY <1>1, <1>2, <2>2, <2>3, Zenon DEF Sends
<1> QED
  BY <1>3, <1>4

-----------------------------------------------------------------------------
\* Every step keeps the invariant.
LEMMA StepHolds == IInv /\ [Next]_vars => IInv'
<1> SUFFICES ASSUME IInv, [Next]_vars PROVE IInv'
  OBVIOUS
<1>1. Receives /\ Sends
  BY DEF IInv
<1>2. CASE DataOut
  <2>1. UNCHANGED <<storage, storageLen, inBuffer, transfer, seen, got, flush, response, pc>>
    BY <1>2 DEF DataOut, sendVars, mainVars, history
  <2>2. flush' \in BOOLEAN /\ response' \in Slots
    BY <1>1, <2>1 DEF Sends
  <2> QED
    BY <1>1, <1>2, <2>1, <2>2, DataOutHolds, SendsStays DEF IInv
<1>3. CASE Poll \/ Handle \/ Remove
  <2>1. /\ UNCHANGED <<storage, storageLen, inBuffer, transfer, seen, got, flush, response>>
        /\ pc' \notin {"copy", "length", "transmit"}
    BY <1>3 DEF Poll, Handle, Remove, sendVars, history
  <2>2. flush' \in BOOLEAN /\ response' \in Slots
    BY <1>1, <2>1 DEF Sends
  <2>3. Sends'
    BY <1>1, <2>1, <2>2, SendsStays
  <2> QED
    BY <1>3, <2>3, PollHolds, HandleHolds, RemoveHolds DEF IInv
<1>4. CASE Execute
  <2>1. Receives' /\ response' \in Slots
    BY <1>1, <1>4, ExecuteIs DEF Sends, Slots
  <2>2. /\ UNCHANGED <<storage, storageLen, inBuffer, transfer, seen, got, flush>>
        /\ pc' \notin {"copy", "length", "transmit"}
    BY <1>4 DEF Execute
  <2>3. flush' \in BOOLEAN
    BY <1>1, <2>2 DEF Sends
  <2> QED
    BY <1>1, <2>1, <2>2, <2>3, SendsStays DEF IInv
<1>5. CASE Reply
  <2>1. /\ UNCHANGED <<recvVars, executed>>
        /\ {pc, pc'} \cap {"execute", "remove"} = {}
    BY <1>5 DEF Reply, history
  <2>2. /\ UNCHANGED <<storage, storageLen, inBuffer, transfer, seen, got, response>>
        /\ pc' \notin {"copy", "length", "transmit"}
    BY <1>5 DEF Reply, sendVars, history
  <2>3. flush' \in BOOLEAN
    BY <1>5 DEF Reply
  <2>4. response' \in Slots
    BY <1>1, <2>2 DEF Sends
  <2> QED
    BY <1>1, <2>1, <2>2, <2>3, <2>4, ReceivesStays, SendsStays DEF IInv
<1>6. CASE AppendCheck \/ AppendCopy \/ AppendLength
  <2>1. /\ UNCHANGED <<recvVars, executed>>
        /\ {pc, pc'} \cap {"execute", "remove"} = {}
    BY <1>6 DEF AppendCheck, AppendCopy, AppendLength, history
  <2> QED
    BY <1>1, <1>6, <2>1, ReceivesStays, AppendHolds DEF IInv
<1>7. CASE UsbSend \/ FlushCheck \/ FlushTransmit \/ FlushReset
  <2>1. /\ UNCHANGED <<recvVars, executed>>
        /\ {pc, pc'} \cap {"execute", "remove"} = {}
    BY <1>7 DEF UsbSend, FlushCheck, FlushTransmit, FlushReset, history
  <2> QED
    BY <1>1, <1>7, <2>1, ReceivesStays, UsbSendHolds, FlushHolds DEF IInv
<1>8. CASE DataIn
  <2>1. UNCHANGED <<recvVars, executed>> /\ pc' = pc
    BY <1>8 DEF DataIn, mainVars
  <2> QED
    BY <1>1, <1>8, <2>1, ReceivesStays, DataInHolds DEF IInv
<1>9. CASE UNCHANGED vars
  <2>1. /\ UNCHANGED <<recvVars, executed, pc>>
        /\ UNCHANGED <<storage, storageLen, inBuffer, transfer, seen, got, flush, response, pc>>
    BY <1>9 DEF vars, sendVars, mainVars, history
  <2>2. flush' \in BOOLEAN /\ response' \in Slots
    BY <1>1, <2>1 DEF Sends
  <2> QED
    BY <1>1, <2>1, <2>2, ReceivesStays, SendsStays DEF IInv
<1> QED
  BY <1>2, <1>3, <1>4, <1>5, <1>6, <1>7, <1>8, <1>9 DEF Next, MainLoop

\* Requests are handled once each and in order: the interrupt and the main loop,
\* which both take data out of the receive buffer, never take the next request
\* into a buffer that still holds the last one (tng_try_usb_recv).
THEOREM InOrder ==
  HEADER0 # 0 => (Spec => []RequestsRunInOrder)
<1>1. IInv => RequestsRunInOrder
  BY DEF IInv, Receives
<1> QED
  BY <1>1, InitHolds, StepHolds, PTL DEF Spec

\* The storage and in_buffer never overflow, and no request outgrows the length in
\* its header (usb_append_to_storage, tng_try_usb_recv).
THEOREM TypeCorrect ==
  HEADER0 # 0 => (Spec => []TypeOK)
<1>1. IInv => TypeOK
  <2> SUFFICES ASSUME IInv PROVE TypeOK
    OBVIOUS
  <2>1. PICK k \in Nat : Order(Current, k)
    BY DEF IInv, Receives
  <2>2. header \in Nat \ {0} /\ request = Part(Current, k) /\ (k > 0 => k <= header)
    BY <2>1 DEF IInv, Receives, Order
  <2>3. Len(request) <= header
    <3>1. Len(request) = k
      BY <2>2, PartIs
    <3> QED
      BY <2>2, <3>1
  <2>4. {armed, transfer, flush} \subseteq BOOLEAN
    BY <2>1 DEF Order, IInv, Sends
  <2>5. /\ response \in Slots /\ storage \in [1 .. STORAGE -> Slots]
        /\ storageLen \in 0 .. STORAGE /\ Len(inBuffer) <= STORAGE
    BY DEF IInv, Sends
  <2>6. header \in Nat
    BY <2>2
  <2> QED
    BY <2>3, <2>4, <2>5, <2>6, Zenon DEF TypeOK, Slots
<1> QED
  BY <1>1, InitHolds, StepHolds, PTL DEF Spec

\* What is being sent stays in in_buffer until it is sent: neither the main loop
\* nor the interrupt starts a second transfer (usb_send, usb_send_storage).
THEOREM BufferStays ==
  HEADER0 # 0 => (Spec => InBufferStable)
<1>1. IInv /\ [Next]_vars =>
        [transfer /\ transfer' /\ got' = got => inBuffer' = inBuffer]_vars
  <2> SUFFICES ASSUME IInv, Next, transfer, got' = got
               PROVE  inBuffer' = inBuffer
    BY Zenon
  <2>1. CASE DataIn
    <3>1. inBuffer \in Seq(Slots) /\ got \in Seq(Seq(Slots))
      BY DEF IInv, Sends
    <3>2. got' = Append(got, inBuffer)
      BY <2>1 DEF DataIn
    <3>3. Len(got') # Len(got)
      BY <3>1, <3>2
    <3> QED
      BY <3>3
  <2>2. CASE ~DataIn
    BY <2>2 DEF Next, MainLoop, Poll, Handle, Execute, Remove, Reply, UsbSend, AppendCheck,
                AppendCopy, AppendLength, FlushCheck, FlushTransmit, FlushReset, DataOut,
                sendVars
  <2> QED
    BY <2>1, <2>2
<1> QED
  BY <1>1, InitHolds, StepHolds, PTL DEF Spec, InBufferStable
=============================================================================
