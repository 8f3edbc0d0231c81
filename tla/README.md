# A TLA+ model of bricklib2

bricklib2 is the library that the firmware of Tinkerforge's co-processor
Bricklets, of the TNG modules and of the WARP chargers and energy managers is
built from. It runs bare metal: one main loop that calls the `*_tick` functions,
interrupt handlers that may run between any two of its instructions, and, on some
products, cooperative tasks that the main loop switches to and that give the
processor back with `coop_task_yield`. There are no tests in the repository; its
documentation is the comments in the source.

This directory models the parts of it in which something can go wrong that a unit
test would hardly reach: the paths that bytes and requests take between
interrupts, main loop and task, and what happens to them when a device at the
other end fails. `PROJECT.json` lists the components, the runs, the lines that
each definition stands for, the hazards and the theorems.

## Inventory

| Component (files under `src/`) | State it keeps | Operations | What must hold |
|---|---|---|---|
| ring buffer (`utility/ringbuffer.c`) | buffer, start, end, counters | add, remove, get, used/free, empty/full, init | a FIFO of size-1 bytes |
| RS485 driver (`warp/rs485.c`) | two rings, hardware FIFOs, direction of the line | four interrupt handlers, `rs485_tick` | nothing is mixed up or sent into an answer |
| Modbus master (`warp/modbus.c`) | wire state, the request, its timeout | `modbus_update_rtu_wire_state_machine`, `modbus_init_new_request`, `modbus_clear_request` | an answer belongs to its request; a request ends |
| energy meter polling (`warp/meter.c`, `meter_generic.c`) | polling state, two positions in the register list, timestamps | `meter_tick`, `meter_generic_tick` | all registers get their turn; values are those of the meter; no hang |
| meter detection and other drivers (`meter.c`, `meter_eastron.c`, `meter_iskra.c`, `meter_eltako.c`) | a step per manufacturer, the state of the driver, the system type, computed values | `meter_find_meter_type`, `*_is_connected`, `meter_*_tick` | the right driver is found; it uses the master correctly; every value is read |
| contactor check (`warp/contactor_check.c`) | edge counter, debounce time | edge interrupt, tick | errors are debounced and seen |
| SD task (`warp/wem/sd.c`) | status of card and file system, four queues of data points, four streams with callbacks | `sd_tick_task` and what it calls, as a cooperative task | accepted points reach the card; streams end; the card comes back |
| data storage (`warp/wem/data_storage.c`) | pages and flags | tick, load and save by the SD task | a page that was set is saved |
| SD block driver, clock, EEPROM, ADC (`warp/wem/*.c`) | registers | sequential commands | - |
| TNG main loop (`tng/tng.c`) | request and response buffer | `tng_tick` | requests run once and in order |
| TNG USB (`tng/usb_stm32/usb.c`, `usbd_tfp.c`) | receive buffer, send buffer, storage, `transfer_in_progress` | `usb_send`, `usb_recv`, endpoint interrupts | data arrives once, in order, unharmed |
| TNG firmware update (`tng/tng_communication.c`, `tng_firmware.c`) | flash pages, pointer | set pointer, write, copy | an interrupted update is harmless |
| SPITFP interrupts (`bootloader/bootloader_xmc_irq.c`) | receive ring, send pointers | rx/tx interrupt | no byte overtakes or is lost unnoticed |
| callbacks (`utility/callback_value.h`, `communication_callback.c`) | last value, last time, thresholds, a message that could not be sent; the list of handlers | configuration, the handler, tick | every handler gets its turn; a change is reported |
| SPI/I2C FIFO, cooperative tasks (`hal/spi_fifo`, `hal/i2c_fifo`, `os/coop_task.c`) | transfer state, mutex | start, next state, cooperative transfers | one transfer at a time |
| numeric helpers, HAL setup, logging, startup, vendored code | - | - | left aside |

How they interact. The RS485 driver and the Modbus master share the two rings:
the interrupts add received bytes and take out bytes to send, the master reads the
length of the receive ring and the frame in its memory, the meters write a request
into the transmit ring and start it. The master reports by the flag
`request.cb_invoke`, which the meter polls. `tng_tick` and the USB interrupts share
the receive buffer, the request buffer, the storage and the send buffer. The SD
task shares its queues and flags with the main loop's message handlers (outside
this repository) and the page flags with `data_storage_tick`.

The hard behaviours: an interrupt between the check and the use of a length; a
frame that is lost, cut, late or not meant for us; an error that must leave
everything ready for the next try; a task that is interrupted at every block it
reads or writes; buffers at their limits; timestamps for which 0 means "none".
The list with lines is `"hazards"` in `PROJECT.json`.

## Modules

```
BoundedFifo            abstract queue of bytes
  ^ implemented by       Ringbuffer   (utility/ringbuffer.c)         RingbufferProofs

Rs485                  warp/rs485.c
  ^ EXTENDS
ModbusMaster           warp/modbus.c (master), starting a request (meter.c)
  ^ EXTENDS              RegisterList (walks over the list)          ListProofs
MeterGeneric           warp/meter.c, meter_generic.c, bus, time      MeterProofs, BusProofs
  | implements           through RequestStatus
  v
ModbusRequest          abstract: a request is started, settled, cleared
  ^ INSTANCE, and used as ModbusRequest allows (RequestProtocol)     DriverProofs
MeterDetection         meter_find_meter_type, *_is_connected
  ^ EXTENDS              RegisterList
MeterDrivers           meter_tick with all four drivers, bus, time

CommunicationCallback  utility/communication_callback.c
  ^ EXTENDS
CallbackValue          utility/callback_value.h, sensor, host, clock  CallbackProofs

TngUsb                 tng/tng.c, usb_stm32/usb.c, usbd_tfp.c, host   TngProofs
SdTask                 warp/wem/sd.c, data_storage.c, card, client    SdProofs

MC*                    the instances TLC explores
```

Operators marked "A mutant" or "Bug" in their comment (`...Keeps`, `...Forgets`,
`...Blindly`, `...NoEnd` and the like) are plausible mistakes in the code. Nothing
uses them; every property is violated when one of them takes the place of the
definition it varies (`"mutants"` in `PROJECT.json`). They are there to show that
the properties can fail.

### Ringbuffer and BoundedFifo

One action per function of `ringbuffer.c`, one variable per field, and `ret`,
`data` and `count` for what the last call returned. `ringbuffer_add` writes the
byte before it knows whether there is room; `ringbuffer_get_free` and
`ringbuffer_is_full` update the low watermark. The indices wrap at `INDEX_MOD`
(2^16) and the overflow counter at `OVERFLOW_MOD` (2^32). A call is one step: the
users mask interrupts, or only one side of a ring is active at a time.

`BoundedFifo` is what the header promises: a queue of `Capacity` bytes.
`ImplementsFifo` says that the ring, seen through `Content` (the bytes from start
to end), is one.

Run `ringbuffer`: `SIZE` 4, two byte values, `INDEX_MOD` 7. Seven is just above the
largest sum that `ringbuffer_remove` forms (3 + 3), so that any sum that is one too
large would wrap; four slots give every relative position of start and end.

### Rs485, ModbusMaster, MeterGeneric

`Rs485` has the rings, the FIFOs and the interrupt handlers; `ModbusMaster` adds the
wire state machine with all its exits and the start and clearing of a request;
`MeterGeneric` adds `meter_tick` and `meter_generic_tick`, and closes the system with
the meter, the bus and time. The main loop alternates between `rs485_tick` (`PollBus`)
and `meter_tick` (`MeterTick`); interrupts, transmission and the meter go on at any
moment between them.

What is abstracted, and why that is harmless:

- A frame is two chunks: enough for it to be cut, mixed with another or to
  arrive partly after a check. Which request an answer answers is kept in its name:
  sending a request turns `v` (an answer to the present request) into `o` (old).
- The receive ring starts at 0, because nothing reads it with `ringbuffer_get`; its
  contents are the sequence `rx`.
- The drain and the state machine of one `rs485_tick` are one step. A byte that
  arrives between the two would be seen one round later.
- The transmit interrupt is served before the next chunk is shifted out, and the
  transmitter-idle interrupt is part of the last `Transmit`.
- Error counters, the request id, phase detection and the conversion of values are
  left out. The model starts when the type of the meter has been found.
- A request to slave address 0, which `modbus.c:256-259` settles when it has been sent,
  is left out: no meter is asked that way. `meter_is_response_ready` compares the
  function code once more; the master accepts no answer with another one, so
  `ResponseReady` does not repeat it.
- Timestamps are ages, capped where nothing distinguishes them any more; the
  sentinel 0 is a value of its own.

Time: a unit passes at most once per round of the main loop, not during a
transmission (the timeout is far longer), and not before a punctual meter has
answered within `LATENCY`. Faults are steps of their own, `MAX_FAULTS` of them: a
request is lost, an answer garbled, refused with an exception, late by any amount or
split, and stray frames or noise come in between.

Runs. `meter`: two faults of the kinds after which the code recovers, with timeouts
in the proportions of the code (`FAST` 10, longer than a healthy round; `TIMEOUT` 8,
`ERROR_WAIT` 4): answers are matched to requests, requests stay apart, the full list
goes on and the values become right again. `meter_faults`: all faults, shorter
times, for the 60 s watchdog: no combination of two faults keeps polling in one
state. A list of three registers, the second one fast, makes both walks skip and
wrap. Two faults are enough for a fault during the recovery from another. They
are temporary: a meter that is slow for ever is not in these runs, so `FullListGoesOn` says
nothing of one whose every answer takes as long as the fast interval. The
constants of `meter` satisfy the hypotheses `PunctualBus` and `LongEnough` of
`BusProofs`, those of `meter_faults` the second: the theorems say for all values what
the runs show for these.

`meter_late` and `meter_once` are counterexamples, see below. With noise or late
answers `Recovers` and `AcceptedAnswerIsOwn` do not hold, as `meter_late` shows; that is why
`meter` does not include these faults.

Fairness: the main loop goes on, interrupts are served, the hardware shifts bytes
out, the meter sends what it began. Time is strongly fair: the main loop could
always do one more round within a unit, but not for ever.

### ModbusRequest, MeterDetection, MeterDrivers

`ModbusRequest` is what the drivers take from the master: a request is started after
the one before was cleared, is settled once (answer, exception or timeout) and stays
as it was settled until it is cleared. `MeterGeneric!ImplementsRequest` says that the
detailed master, seen through `RequestStatus`, is one; the drivers are then modelled
over it, without bytes and interrupts. This is assume and guarantee: the code checks
neither side, so `RequestProtocol` says that the drivers in turn start and clear
requests only when `ModbusRequest` lets them.

`MeterDetection` has the four `is_connected` state machines and their round robin in
`meter_find_meter_type`. An even step asks, an odd step takes the response, as in the
code. `MeterDrivers` adds `meter_tick` with its two waits and its watchdog, and the
ticks of the four drivers. `ListRequest`, `TakeFast`, `TakeFull` are the part that the
generic and the Eastron driver share. The SDM meters' system type is read, compared
with the phases seen and, if it does not fit, written; Eltako's values that are
computed come one per round (`CALC_STEPS` of them) within the time to the next
request; Iskra reads its fast block and its full list with two state machines that
never have a request at the same time.

The bus: while `disturbed`, a request may have any outcome; a disturbance that is there
at first ends (`BusRecovers`). After that the attached meter answers what its own driver
asks, in `LATENCY`; another address or baud rate (Iskra) is not heard. Asked for another
manufacturer's register, it refuses or answers with what it has there, as it likes each
time; the driver then has to tell by the code that it is not its meter. What it has there
is supposed to be none of the codes looked for, 0 included, which Eastron's driver
takes for an early SDM630 (`meter_eastron.c:76`). A write may take effect although its
answer is lost. The DMED341MID7ER and the SDM72CTM are missing because no
`is_connected` function returns them.

Not in these modules: what the values mean (a read is right, failed with garbage, or
unset), the charger's display and Eichrecht code, which is compiled in for the charger
only. `meter_init` is called once; the re-detection that its comment allows for is not
called anywhere in the repository.

Run `meters`: any of seven meters (the two SDM72 generations, SDM630 with its system
type, both Eltako, generic and Iskra) or none, three registers of which the second is
fast, `TIMEOUT` 2 and `FAST` 4 so that a fast read and a failure can overlap, `WATCHDOG` 8
for 60 s: larger than any chain of waits in a state, as in the code. Deadlock is not
checked: the watchdog's endless loop is a real end of the program.

What the properties except, because the code is so:

- An Iskra meter that stops answering, or takes longer than 100 ms for its two fast
  blocks, always has its fast read due. `meter.state` then stays 0 and after 60 s the
  firmware hangs in the loop that `meter.c:584` says should never be reached.
  `WatchdogStaysQuiet` therefore excepts Iskra's types.
- One failed read of the meter code makes a DSZ16DZE a DSZ15DZMOD for good
  (`meter_eltako.c:135`); `DetectionIsRight` has this exception.
- A failed read can make the SDM driver write a wrong system type; it writes the right
  one later (`SystemTypeSettles`).
- Eltako's last values, and with them `each_value_read_once`, are reached only if the
  loop is fast enough for all of them within 100 ms. `CALC_STEPS` 1 supposes it is; that
  the state is left in time when the loop is slow is `WatchdogStaysQuiet`.
- `AllValuesAreRead` says that `each_value_read_once` is set. A failed read counts for
  that flag, as `meter_once` shows of the generic driver; that the values become right is
  `Recovers`, of `meter`.

### CommunicationCallback, CallbackValue

`communication_callback_tick` walks a list of handlers and moves the one that has sent
something to the back of the list while it walks it. `CallbackValue` puts a handler of
`callback_value.h` in every place of that list: period, "value has to change",
threshold options, the value last reported, and the message that waits for the
bootloader's buffer. The millisecond clock wraps (`CLOCK`), the host reconfigures a
handler at any time (`Configure`), the sensor changes its value (`Sense`), and the
bootloader takes one message at a time (`Acknowledged`).

The tick is split between two handlers, so that a reconfiguration may come between
them. `MAX_LAG` bounds how late the main loop may be.

Run `callbacks`: one handler that always has something to send, one that is
reconfigured between four configurations and whose value changes; a clock of 7 ms, so
that every period crosses the wrap. The clock and the tick are weakly
fair; the acknowledgement is strongly fair, because it stays in the receive buffer
until `bootloader_tick`, which runs between two ticks. `StableIsReported` excepts the
value `VALUE_MAX` before anything was sent: `value_last` begins as `CALLBACK_VALUE_MAX`
(`callback_value.h:161`), so a first value of that size counts as already reported
and is never sent.

### TngUsb

The main loop is split where the interrupt can see a difference: the check, the
handling and the removal of a request; in `usb_append_to_storage` the check for room, the
copy and the new length; in `usb_send_storage`, when the main loop calls it, the look at
the length, the look at `transfer_in_progress` with the transmission, and the new length. No
data-in interrupt can come into that transmission, because no transfer runs then; it can
come right after it, and sends the storage once more. The parts between
`usb_interrupt_disable` and `_enable` are one step. `DataIn` and `DataOut` are the endpoint
callbacks, enabled whenever the hardware may raise them. `AppendCopy`, `AppendLength` and
`FlushTransmit` use the length read before or the present one: `tfusb` is not volatile, and
the compiler may do either. A transfer may then be empty. In `Remove`, the `memmove` with
its arguments the wrong way round is modelled as it is.

A request is a number and has one or more transfers; a response is the number of
its request. A request may also be looked at without a response (`Execute`): it expects
none, or it is for another UID. `replies` remembers the responses made and `got` the
transfers received, so that a transfer that ends is told from one that goes on even when
it was empty. `USBD_LL_Transmit` and `USBD_LL_PrepareReceive` never fail here, as the HAL
returns `HAL_OK` unconditionally. The host sends at most one request per transfer.
`HEADER0` is what the request buffer's header says at the start: 0 after a reset, the
length of the previous request otherwise.

Runs: four requests, the second one in two transfers, and room for two responses:
the storage fills up, is refused and is sent by either side. `tng_usb` starts with
an earlier request behind it (`HEADER0` 1). The main loop, the host's sending and
its fetching are weakly fair. `tng_usb_send` and `tng_usb_boot` are counterexamples.

### SdTask

The task's steps go from yield to yield: littlefs yields in every block operation, so
that the main loop runs in the middle of each file operation. `Top` is the head of
the loop, `SdmmcInit` to `BootCount` are `sd_init_task`, `TakePoint` to
`StreamTimeout` are `sd_tick_task_handle_wallbox_data`, `HandlePage` to `CommitPage` are
`sd_tick_task_handle_storage` with the two functions it calls, `DataStorageTick` is
`data_storage_tick`. A few steps end where the task does not yield; what the client
does there it could do at the yield before.

The four kinds of data points have the same handler, written out four times; the
module has it once. The client is external: it adds points only while the card is
usable and there is room, sets a page only once it has been loaded, and has one
stream at a time. `sd_detected` is the constant `true`, as in the code. A page is not
due again (ten minutes) while its file is being written.

Faults: a new card without a file system (`blank`), `sdmmc_init` failing (`card`),
`lfs_mount` failing on a sound card (`mount`), `lfs_format` or the mount after it
(`format`), reading or writing points (`io`; a failed write may still have reached
the card), pages (`page`), a callback not sent for a second (`slow`), and a request to
format (`wipe`).

What the properties except: `ChunksAreWhole` a callback that is late (`slow`), whose buffer
is refilled under it; `PointsAreKept` a restart, a format, and a point that is put back
into a full queue; `PagesAreSaved` a failed write of the page (`page`), which is not tried
again, and, by the client's guard, a page that is set before it was loaded. `StreamsEnd`
leans on the bounded number of faults: the error count is set back by each chunk read and
each look at the callback within its second (`sd.c:1058`, `sd.c:1074`), so a client that
never takes the callback restarts the stream for ever.

Run `sd`: two faults, `LIMIT` 1 in place of 10, so that two I/O errors in a row start
the card anew; a queue of one, so that a point that is put back can find it full;
two chunks per stream; one page, set twice. `sd_retry` is a counterexample.

Fairness: the task is called in every round of the main loop, the second passes,
callbacks are sent. `DataStorageTick` is strongly fair: it cannot run during the
write of its page, which ends.

## What the runs show

| Run | Property | In words |
|---|---|---|
| `ringbuffer` | `ImplementsFifo` (P) | the ring is a queue |
| `meter` | `AcceptedAnswerIsOwn` (P) | with lost, garbled and refused frames, an accepted answer is that of the request |
| | `RequestsStayApart` (P) | a request never runs into the one before, nor into an answer |
| | `FullListGoesOn` | fast registers do not starve the others |
| | `Recovers` | in the end every value is right again |
| `meter_faults` | `WatchdogStaysQuiet` (P) | the deliberate hang is never reached |
| | `ImplementsRequest` (P) | a request is settled once and stays so until it is cleared |
| `meters` | `DetectionIsRight` (P) | the driver that is found is that of the meter |
| | `RequestProtocol` (P) | no driver starts or clears a request out of turn |
| | `WatchdogStaysQuiet` (P) | nor do the other drivers hang, but for Iskra's |
| | `AllValuesAreRead`, `ReadingGoesOn` | every value is read, again and again |
| | `SystemTypeSettles` | an SDM630 ends with the system type that fits |
| `callbacks` | `AskedOnce` (P) | a tick asks every handler exactly once |
| | `LastIsKnown` (P) | a value is compared with what the host has or is about to get |
| | `BufferedIsSent` | a message that had to wait is sent |
| | `StableIsReported` | a value that stays, under a configuration that stays, is reported |
| `tng_usb` | `RequestsRunInOrder` (P), `EveryRequestRuns` | every request runs once, in order |
| | `InBufferStable` (P) | what is being sent is not overwritten |
| `sd` | `PointsAreKept` (P) | a point is in the queue, in the task's hands or on the card, with the exceptions the code has |
| | `ChunksAreWhole` (P) | a callback has the chunk it announces |
| | `PagesAreSaved` | a page that was set is saved in the end |
| | `CardComesBack` | after errors that are not of the file system the card is used again |
| | `StreamsEnd` | a stream ends, through restarts and timeouts |

and one type invariant per specification, all of them proved. (P): also proved, see
below.

The five counterexamples, each against what a comment in the code says (`"findings"`
in `PROJECT.json`):

- `meter_late`: a stray frame between two requests stays in the ring, fails the next
  request, and the real answer is then accepted as the answer to the one after it.
- `meter_once`: a failed read stores an uninitialized value and counts as read.
- `tng_usb_send`: the data-in interrupt inside `usb_append_to_storage` or
  `usb_send_storage` loses, repeats or reorders responses.
- `tng_usb_boot`: between a reset and the first request the main loop handles an
  empty request again and again; a real one that arrives in the middle is dropped.
- `sd_retry`: after the first mount of a new card fails, `lfs_status` is not cleared
  by the successful format and mount, and no retry is scheduled.

## What is proved

Each theorem holds for every value of the constants that the module's assumption
allows. Each proof goes through an inductive invariant, stated at the head of the proof
module, because the property alone is not inductive.

`RingbufferProofs`, from `RingAssumption`:

- `TypeCorrect`: `TypeOK` is inductive: with both indices in `0 .. SIZE-1` the arithmetic
  of `Succ` and `Advanced` stays there, and `Used` stays below `SIZE`, which bounds `count`
  and keeps the watermark above 0.
- `Refinement`: `Spec => ImplementsFifo`. Each byte of `Content` lies in a slot of its own,
  never in the slot at `end` (`ContentFact`); so writing there changes nothing
  (`RefuseFact`), or appends (`AcceptFact`), and moving `start` drops from the front
  (`DropFact`).

`RingAssumption` requires `2 * SIZE <= INDEX_MOD + 1`: above that, `start + incr` in
`ringbuffer_remove` would wrap, and both theorems fail. All rings in the library are
far smaller.

`MeterProofs`: `MasterKeepsPromise`, `Spec => ImplementsRequest`, for every size of the
rings and FIFOs, every timing and every number of faults. Where a request is in its
life follows from `meter_state` and `pc`: a settled request is taken in the same round of
the main loop, and whatever arrives until then goes behind the frame that the
response is read from (`DrainedExtends`, `SameFrame`). `TypeCorrect`: the rings never
overflow, the positions stay in the list, every field in its range.

`BusProofs` builds on the invariants of `MeterProofs`. Its theorems have hypotheses,
because the properties depend on the proportions of the times and on what the bus does;
each is a definition at the head of its section:

- `PunctualBus`: no late answers, no pause inside a frame, no noise; a meter answers
  sooner than `TIMEOUT`, and `GAP` is not 0. Requests may be lost or refused and answers
  garbled, as often as one likes. With it, `RequestsApart` and `AnswerIsOwn`: once an
  answer has begun, it leaves the line no time to be quiet for `GAP`, so it is complete
  when it is looked at (`Complete`); and when a request is given up no answer to it is
  still to come, so the next one finds the line empty (`Before`). Without the hypothesis
  both are false: `meter_late` shows it for noise.
- `LongEnough`: the transmit FIFO holds more than one chunk, and `WATCHDOG` is more than
  `TIMEOUT + 1 + GAP + (MAX_FAULTS + 2) * GAP`: 60 s against a second and some
  milliseconds. With it `WatchdogQuiet`, with every kind of fault. From `TIMEOUT` on,
  `Left` bounds how long the master can still be kept from giving up: every chunk that
  arrives before the line was quiet costs at most `GAP`, and there are only those of one
  answer and of the faults that are left (`LeftShrinks`). `MAX_FAULTS` counts the faults
  of a whole behaviour; in the code it stands for those that can hit one request.
- `HealthyBus`: no faults, buffers for a request and an answer, and `TIMEOUT` more than
  `LATENCY + 2 * GAP + 3`. With it `HealthyReads`: `EachValueWasRead` holds, and
  everything stored is the value asked for. The invariant follows a request through four
  stages (`Leaving`, `Thinking`, `Halfway`, `Answered`) and bounds by `Due` the time until
  a complete answer is accepted: the line may have been quiet once after the first half
  already, so it may have to be quiet twice. It is the other side of `meter_once`: the
  flag is right as long as no request fails.

`ListProofs`: `WalkStaysInList`. The library has no proof that a set of numbers has a
least element that TLAPS can use here; `MinIsLeast` proves it of the sets that the walks
use, on which the positions of both meter modules depend.

`DriverProofs`, on the use of the master: `RequestsFollowProtocol` and
`DetectionCorrect`. The invariant says, for
each stage (searching, driving), what the driver's state tells of the request: in an
even state there is none, in an odd one there is one and it is the driver's own; for
Iskra, the two state machines share one request between them. For the detection it
says which meters can have led to a step. Together with `MasterKeepsPromise` this
closes the argument about the master and its users.

`DriverProofs`, on the fields: `TypeCorrect`, and `WatchdogQuiet` under another
`LongEnough`, by which the watchdog is longer than a request's timeout, than the time to
the next read, and than the list of registers that may be handled one per tick. For
each state of each driver but Iskra's the invariant `Watched` bounds the time since
`meter.state` last changed by the age of the request, by the time since the last read
or by how far Eltako's walk has come. The constants of `meters` satisfy `LongEnough`.

`CallbackProofs`: `AskedExactlyOnce`, `TypeCorrect`, `LastKnown`. The list stays a
permutation of the handlers; the ones asked in this tick are those before `cb_index`
and, at the end of the list, as many as the tick has moved there (`AskedAreKnown`).

`TngProofs`: `InOrder`, `BufferStays`, `TypeCorrect`, under `HEADER0 # 0`, that is, once
there has been a first request; without that `RequestsRunInOrder` does not hold
(`tng_usb_boot`). The receive side of the invariant says that request buffer, receive
buffer and host are one sequence: `k` chunks of the present request, then the next
one, which is either with the host or, with the endpoint closed, in the receive
buffer (`Order`). So the interrupt never adds to a complete request, whatever the
main loop is doing with it. The send side says that the storage is never fuller than
the main loop has read, because only the interrupt changes it meanwhile, and only to
empty it: that is why nothing overflows although `ResponsesInOrder` fails.

`SdProofs`: `TypeCorrect`, `StreamIsWhole`, `PointsStay`, for every number of faults of
every kind. The task holds a point only between taking and writing it (`PointPart`),
and a callback is pending only while the task waits for it (`Announced`).

Only model-checked: liveness, which is out of the prover's reach (`FullListGoesOn`,
`Recovers`, `AllValuesAreRead`, `ReadingGoesOn`, `SystemTypeSettles`, `BufferedIsSent`,
`StableIsReported`, `EveryRequestRuns`, `PagesAreSaved`, `CardComesBack`, `StreamsEnd`).
Every invariant and every action property of the passing runs has a theorem.

## What is not modelled

The components marked `not_modelled` in `PROJECT.json`, with the reason for each. By
far the most lines of the repository (some 330,000 lines of implementation) are not
the library's own: littlefs, FatFs with its code page tables, lwIP, ASF, CMSIS and the
ST HAL are vendored, and register definitions and linker scripts come with them. A
model of them would say nothing about this code. Of the library's own code what is
left out is register setup and startup, bit arithmetic (checksums, hashes), floating
point (meter values, LED colours), formatting (paths, logging), and code whose
counterpart is in another repository: the SPITFP interrupts (bootloader), the SPI and
I2C FIFOs and their mutex (the products' tasks), the firmware update (bootloader).

Within the modelled components:

- `Rs485`, `ModbusMaster`: pin setup, error counters, the slave functions.
  `modbus_clear_request` is one step, although the rings are emptied with the interrupts
  enabled: when it is called the line is quiet.
- `MeterGeneric`, `MeterDrivers`: the conversion of values and
  `meter_fill_communication_values`.
- `TngUsb`: enumeration, and a USB reset in the middle of a transfer, after which
  `transfer_in_progress` stays set and nothing is sent any more.
- `SdTask`: the buffered read handle and the list of missing files (`sd.c:135-302`); a
  file that was missing when it was read and is then written keeps its remembered
  error. `data_storage.has_been_written_once` and `file_not_found` (`sd.c:848`, `864`, `881`)
  are only read by the product firmware. `was_detected` and the wait of three seconds for
  a card that has just been inserted (`sd.c:1356-1364`, second hardware version) only delay
  the first start.
- The contactor check, a single tick with an edge counter and a debounce time.

The product firmware that calls the library is external: it appears as the client in
`SdTask`, the message handlers in `TngUsb` and the configurations in `CallbackValue`.

## Running

`tlc -config MCMeter.cfg MCMeter`, and so on for each `.cfg`; `tlapm MeterProofs.tla` for
each proof module. The longest run takes about a minute with two workers, the longest
proof a few minutes.
