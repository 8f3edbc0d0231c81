------------------------------- MODULE TngUsb -------------------------------
(***************************************************************************)
(* tng/tng.c, tng/usb_stm32/usb.c and the data callbacks of usbd_tfp.c:    *)
(* the main loop takes a request out of the USB receive buffer, has it     *)
(* handled and sends the response, while the two endpoint interrupts fill  *)
(* and empty the same buffers.                                             *)
(*                                                                         *)
(* A request is a number; it has LENGTH[r] chunks, one per USB transfer,   *)
(* its header is in the first.  The main loop can be interrupted between   *)
(* any two of its steps unless it has masked the USB interrupt.            *)
(* USBD_LL_Transmit and USBD_LL_PrepareReceive never fail: the HAL returns *)
(* HAL_OK unconditionally (stm32f0xx_hal_pcd_fix.c).                       *)
(***************************************************************************)
EXTENDS Naturals, Sequences

Seqs == INSTANCE SequencesExt

CONSTANTS
  LENGTH,    \* LENGTH[r]: the header.length of request r, in chunks
  STORAGE,   \* how many responses in_buffer_storage holds
  HEADER0    \* header.length in the request buffer at the start: 0 after a
             \* reset, that of the request before this history otherwise

Requests == DOMAIN LENGTH

ASSUME TngAssumption ==
  /\ LENGTH \in Seq(Nat \ {0})
  /\ STORAGE \in Nat \ {0}
  /\ HEADER0 \in Nat

VARIABLES
  \* the receive side
  host,        \* the chunk that the host sends next: <<request, part>>
  out,         \* tfusb.out_buffer[0 .. out_buffer_length)
  armed,       \* may the host send the next transfer?
  request,     \* tng_request_data[0 .. tng_request_length)
  header,      \* tng_request_header->length, kept when the request is gone
  \* the send side
  response,    \* tng_response_data, 0 when its header.length is 0
  storage,     \* in_buffer_storage, slot by slot
  storageLen,  \* in_buffer_storage_length
  inBuffer,    \* in_buffer[0 .. in_buffer_length)
  transfer,    \* transfer_in_progress
  \* the main loop
  pc,          \* where it is
  seen,        \* the storage length that was read last
  flush,       \* does usb_send go on with usb_send_storage?
  \* history
  executed,    \* the requests looked at, in order
  replies,     \* the responses made, in order
  got          \* the transfers that the host has received, in order

recvVars == <<host, out, armed, request, header>>
sendVars == <<response, storage, storageLen, inBuffer, transfer>>
mainVars == <<pc, seen, flush>>
history == <<executed, replies, got>>
vars == <<recvVars, sendVars, mainVars, history>>

\* What the host sends after a chunk.
NextChunk(c) == IF c[2] < LENGTH[c[1]] THEN <<c[1], c[2] + 1>> ELSE <<c[1] + 1, 1>>

Init ==
  /\ host = <<1, 1>> /\ out = <<>> /\ armed = TRUE
  /\ request = <<>> /\ header = HEADER0
  /\ response = 0 /\ storage = [i \in 1 .. STORAGE |-> 0] /\ storageLen = 0
  /\ inBuffer = <<>> /\ transfer = FALSE
  /\ pc = "poll" /\ seen = 0 /\ flush = FALSE
  /\ executed = <<>> /\ replies = <<>> /\ got = <<>>

-----------------------------------------------------------------------------
(* Receiving.                                                              *)

\* A mutant: the received data is not marked as taken.
UsbRecvKeeps(o) ==
  /\ request' = request \o o
  /\ header' = IF request = <<>> THEN LENGTH[o[1][1]] ELSE header
  /\ armed' = TRUE
  /\ out' = o

\* A mutant: the endpoint is not armed again.
UsbRecvUnarmed(o) ==
  /\ request' = request \o o
  /\ header' = IF request = <<>> THEN LENGTH[o[1][1]] ELSE header
  /\ armed' = FALSE
  /\ out' = <<>>

\* usb_recv, with o in the receive buffer: take it and arm the endpoint again.
UsbRecv(o) ==
  /\ request' = request \o o
  /\ header' = IF request = <<>> THEN LENGTH[o[1][1]] ELSE header
  /\ armed' = TRUE
  /\ out' = <<>>

\* tng_try_usb_recv takes data for an unfinished request only.
Unfinished == request = <<>> \/ Len(request) < header

TryUsbRecv(o) ==
  IF Unfinished /\ o # <<>>
  THEN UsbRecv(o)
  ELSE out' = o /\ UNCHANGED <<armed, request, header>>

\* usbd_tfp_data_out: a transfer from the host is complete.
DataOut ==
  /\ armed /\ host[1] \in Requests
  /\ host' = NextChunk(host)
  /\ \/ Unfinished /\ TryUsbRecv(Append(out, host))
     \/ /\ ~Unfinished
        /\ out' = Append(out, host)
        /\ armed' = FALSE
        /\ UNCHANGED <<request, header>>
  /\ UNCHANGED <<sendVars, mainVars, history>>

\* tng_tick up to usb_interrupt_enable: the interrupt is masked meanwhile.
Poll ==
  /\ pc = "poll"
  /\ IF out # <<>> \/ Len(request) >= header
     THEN TryUsbRecv(out) /\ pc' = "handle"
     ELSE UNCHANGED <<out, armed, request, header>> /\ pc' = "reply"
  /\ UNCHANGED <<host, sendVars, seen, flush, history>>

\* Is the request complete and the last response sent?  (After a reset the
\* header is all zero and so is the request's length: the main loop then goes
\* on with a request that is not there.)
Handle ==
  /\ pc = "handle"
  /\ pc' = IF Len(request) >= header /\ response = 0 THEN "execute" ELSE "reply"
  /\ UNCHANGED <<recvVars, sendVars, seen, flush, history>>

\* tng_handle_message and handle_message with what is in the buffer by now; the
\* empty request is refused without a response.  Nor is there one if the request
\* expects none or is for another UID, in which case nobody handles it.
Execute ==
  /\ pc = "execute"
  /\ pc' = "remove"
  /\ IF request = <<>>
     THEN UNCHANGED <<response, executed, replies>>
     ELSE LET r == request[1][1] IN
          /\ executed' = Append(executed, r)
          /\ \/ response' = r /\ replies' = Append(replies, r)
             \/ UNCHANGED <<response, replies>>
  /\ UNCHANGED <<recvVars, storage, storageLen, inBuffer, transfer, seen, flush, got>>

\* The handled request is taken out of the buffer, interrupt masked.  When more
\* than that request is there, the memmove moves the data up, not down: what is
\* left begins with the request just handled.
Remove ==
  /\ pc = "remove"
  /\ request' = IF Len(request) > header
                THEN SubSeq(request, 1, Len(request) - header) ELSE <<>>
  /\ pc' = "reply"
  /\ UNCHANGED <<host, out, armed, header, sendVars, seen, flush, history>>

-----------------------------------------------------------------------------
(* Sending.                                                                *)

\* usb_send_storage up to USBD_LL_Transmit, with the storage's first n responses.
Transmit(n) == inBuffer' = SubSeq(storage, 1, n) /\ transfer' = TRUE

\* usb_send is called when there is a response; it looks at the storage first.
Reply ==
  /\ pc = "reply"
  /\ pc' = IF response = 0 THEN "poll" ELSE IF storageLen > 0 THEN "append" ELSE "send"
  /\ flush' = (storageLen > 0)
  /\ UNCHANGED <<recvVars, sendVars, seen, history>>

\* A mutant: a running transfer is not looked at.
UsbSendBlindly ==
  /\ pc = "send"
  /\ inBuffer' = <<response>> /\ transfer' = TRUE
  /\ response' = 0
  /\ pc' = "poll"
  /\ UNCHANGED <<recvVars, storage, storageLen, seen, flush, history>>

\* usb_send with an empty storage: behind a running transfer the data goes into
\* the storage, otherwise straight to the endpoint.
UsbSend ==
  /\ pc = "send"
  /\ IF transfer
     THEN pc' = "append" /\ UNCHANGED <<inBuffer, transfer, response>>
     ELSE /\ inBuffer' = <<response>> /\ transfer' = TRUE
          /\ response' = 0
          /\ pc' = "poll"
  /\ UNCHANGED <<recvVars, storage, storageLen, seen, flush, history>>

\* A mutant: room for one more than there is.
AppendPastEnd ==
  /\ pc = "append"
  /\ seen' = storageLen
  /\ pc' = IF storageLen <= STORAGE THEN "copy" ELSE "poll"
  /\ UNCHANGED <<recvVars, sendVars, flush, history>>

\* usb_append_to_storage, in three steps: the check for room, the copy behind
\* what was there, and the new length, both by the length read before or the
\* present one, as the compiler likes.
AppendCheck ==
  /\ pc = "append"
  /\ seen' = storageLen
  /\ pc' = IF storageLen < STORAGE THEN "copy" ELSE "poll"
  /\ UNCHANGED <<recvVars, sendVars, flush, history>>

AppendCopy ==
  /\ pc = "copy"
  /\ \E at \in {seen, storageLen} : storage' = [storage EXCEPT ![at + 1] = response]
  /\ pc' = "length"
  /\ UNCHANGED <<recvVars, response, storageLen, inBuffer, transfer, seen, flush,
                 history>>

AppendLength ==
  /\ pc = "length"
  /\ storageLen' \in {seen + 1, storageLen + 1}
  /\ IF flush
     THEN pc' = "flush" /\ UNCHANGED response
     ELSE pc' = "poll" /\ response' = 0
  /\ UNCHANGED <<recvVars, storage, inBuffer, transfer, seen, flush, history>>

\* usb_send_storage from the main loop: the look at the length, the look at
\* transfer_in_progress with the transmission (which no data-in interrupt can
\* come into, as no transfer runs then), and the new length.
FlushCheck ==
  /\ pc = "flush"
  /\ seen' = storageLen
  /\ IF storageLen # 0
     THEN pc' = "transmit" /\ UNCHANGED response
     ELSE pc' = "poll" /\ response' = 0
  /\ UNCHANGED <<recvVars, storage, storageLen, inBuffer, transfer, flush, history>>

FlushTransmit ==
  /\ pc = "transmit"
  /\ IF transfer
     THEN pc' = "poll" /\ response' = 0 /\ UNCHANGED <<inBuffer, transfer>>
     ELSE /\ \E n \in {seen, storageLen} : Transmit(n)
          /\ pc' = "reset" /\ UNCHANGED response
  /\ UNCHANGED <<recvVars, storage, storageLen, seen, flush, history>>

FlushReset ==
  /\ pc = "reset"
  /\ storageLen' = 0 /\ response' = 0
  /\ pc' = "poll"
  /\ UNCHANGED <<recvVars, storage, inBuffer, transfer, seen, flush, history>>

\* usbd_tfp_data_in: the host has what was in in_buffer; go on with the storage,
\* in usb_send_storage.
DataIn ==
  /\ transfer
  /\ got' = Append(got, inBuffer)
  /\ IF storageLen # 0
     THEN Transmit(storageLen) /\ storageLen' = 0
     ELSE transfer' = FALSE /\ UNCHANGED <<inBuffer, storageLen>>
  /\ UNCHANGED <<recvVars, response, storage, mainVars, executed, replies>>

-----------------------------------------------------------------------------
MainLoop ==
  \/ Poll \/ Handle \/ Execute \/ Remove
  \/ Reply \/ UsbSend \/ AppendCheck \/ AppendCopy \/ AppendLength
  \/ FlushCheck \/ FlushTransmit \/ FlushReset

Next == MainLoop \/ DataOut \/ DataIn

Spec == Init /\ [][Next]_vars

\* The main loop goes on, the host sends and fetches.
FairSpec == Spec /\ WF_vars(MainLoop) /\ WF_vars(DataOut) /\ WF_vars(DataIn)

-----------------------------------------------------------------------------
Upto(k) == [i \in 1 .. k |-> i]

\* The types of the buffers' lengths and flags: no request is longer than its header
\* says, and neither the storage nor in_buffer overflows.
TypeOK ==
  /\ {armed, transfer, flush} \subseteq BOOLEAN
  /\ Len(request) <= header /\ header \in Nat
  /\ response \in Requests \cup {0}
  /\ storage \in [1 .. STORAGE -> Requests \cup {0}]
  /\ storageLen \in 0 .. STORAGE
  /\ Len(inBuffer) <= STORAGE

\* Every request is handled once, in the order they came, although both the
\* interrupt and the main loop take data out of the receive buffer
\* (tng_try_usb_recv).
RequestsRunInOrder == executed = Upto(Len(executed))

\* Nothing the host sends gets stuck in the receive buffer (usb_recv arms the
\* endpoint again, whoever calls it).
EveryRequestRuns == <>(executed = Upto(Len(LENGTH)))

\* What the endpoint is sending stays in in_buffer until it is sent (usb_send and
\* usb_send_storage look at transfer_in_progress).
InBufferStable == [][transfer /\ transfer' /\ got' = got => inBuffer' = inBuffer]_vars

\* usb.c:114 "otherwise we would re-order responses" and usb.c:39 (masking the
\* interrupt is "not necessary"): the host receives every response once and in
\* order.
ResponsesInOrder == Seqs!IsPrefix(Seqs!FlattenSeq(got), replies)
=============================================================================
