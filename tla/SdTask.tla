------------------------------- MODULE SdTask -------------------------------
(***************************************************************************)
(* warp/wem/sd.c and warp/wem/data_storage.c: the cooperative task that    *)
(* brings up the SD card, writes queued data points, streams stored ones   *)
(* back to a client, and loads and saves the pages of the data storage.    *)
(*                                                                         *)
(* The task gives up the processor in every block it reads or writes, so   *)
(* the main loop, and with it the client's calls, runs in the middle of    *)
(* every file operation; an operation's effect on the card comes with its  *)
(* end.  A few steps below end where the task does not yield: what the     *)
(* client does there it could as well do at the yield before.              *)
(*                                                                         *)
(* The four kinds of data points have the same handler, four times over:   *)
(* the module has one.  The client is outside the library: it asks for     *)
(* one stream at a time and adds points only while the card is usable and  *)
(* there is room (external).                                               *)
(***************************************************************************)
EXTENDS Naturals, Sequences, FiniteSets

CONSTANTS
  PAGES,         \* DATA_STORAGE_PAGES
  QUEUE,         \* SD_WALLBOX_DATA_POINT_LENGTH
  CHUNKS,        \* how many callbacks a stream takes
  LIMIT,         \* the error count above which the card is started anew (10)
  MAX_POINTS,    \* bounds: how many points the client adds,
  MAX_SETS,      \*   how often it sets a page,
  MAX_GETS,      \*   how many streams it asks for,
  Faults,        \* what may go wrong
  MAX_FAULTS     \*   and how often

ASSUME SdAssumption ==
  /\ {PAGES, QUEUE, CHUNKS} \subseteq Nat \ {0}
  /\ {LIMIT, MAX_POINTS, MAX_SETS, MAX_GETS, MAX_FAULTS} \subseteq Nat
  /\ Faults \subseteq
       {"blank", "card", "mount", "format", "io", "page", "slow", "wipe"}

Pages == 1 .. PAGES

VARIABLES
  \* sd.c
  sd_status, lfs_status,   \* "unset", "ok" or "error"
  sdmmc_init_last,         \* "off" (0), "running" or "due" (over a second ago)
  errors,                  \* sd_rw_error_count
  sd_lfs_format,
  queue,                   \* wallbox_data_point[0 .. wallbox_data_point_end)
  get,                     \* new_sd_wallbox_data_points
  cb,                      \* new_sd_wallbox_data_points_cb
  cbOffset,                \* the chunk that is announced
  cbData,                  \* the chunk that is in the callback buffer, 0 when torn
  pc, hand, copied, chunk, page,   \* the task and its locals
  \* data_storage.c
  storage, changed, write_to_sd, read_from_sd,
  \* the card
  sound,                   \* can it be mounted?
  file,                    \* the page files, 0 when there is none
  points,                  \* the data points on it
  \* the client, history and bounds
  added, sets, lastSet, gets, got, faults, hit

initVars == <<sd_status, lfs_status, sdmmc_init_last, sd_lfs_format>>
streamVars == <<get, cb, cbOffset, cbData>>
pageVars == <<storage, changed, write_to_sd, read_from_sd>>
cardVars == <<sound, file, points>>
clientVars == <<added, sets, lastSet, gets, got>>
faultVars == <<faults, hit>>
locals == <<hand, copied, chunk, page>>
vars == <<initVars, errors, queue, streamVars, pc, locals, pageVars, cardVars,
          clientVars, faultVars>>

-----------------------------------------------------------------------------
\* data_storage_init and the start of sd_tick_task; the card has the page files
\* of an earlier run, or it is a new one without a file system.
Init ==
  /\ sd_status = "unset" /\ lfs_status = "unset" /\ sdmmc_init_last = "running"
  /\ errors = 0 /\ sd_lfs_format = FALSE /\ queue = <<>>
  /\ get = FALSE /\ cb = FALSE /\ cbOffset = 0 /\ cbData = 0
  /\ pc = "top" /\ hand = 0 /\ copied = 0 /\ chunk = 0 /\ page = 1
  /\ storage = [p \in Pages |-> 0] /\ changed = [p \in Pages |-> FALSE]
  /\ write_to_sd = [p \in Pages |-> FALSE] /\ read_from_sd = [p \in Pages |-> TRUE]
  /\ points = {}
  /\ \/ sound = TRUE /\ file \in [Pages -> {0, 1}] /\ hit = {}
     \/ /\ "blank" \in Faults
        /\ sound = FALSE /\ file = [p \in Pages |-> 0] /\ hit = {"blank"}
  /\ added = 0 /\ sets = 0 /\ lastSet = file /\ gets = 0 /\ got = <<>>
  /\ faults = 0

Usable == sd_status = "ok" /\ lfs_status = "ok"

\* Something goes wrong, within the bound.
Fault(f) ==
  /\ f \in Faults /\ faults < MAX_FAULTS
  /\ faults' = faults + 1
  /\ hit' = hit \cup {f}

\* lfs_format, which leaves a card that can be mounted when it succeeds.
Wiped(ok) ==
  /\ sound' = ok
  /\ file' = [p \in Pages |-> 0]
  /\ points' = {}

-----------------------------------------------------------------------------
(* Bringing up the card.                                                   *)

\* The top of the task's loop: too many errors, or a format request, start the
\* card anew; so does a failed start, a second later.  sd_init_task begins by
\* clearing all of `sd`, the queues included.
Top ==
  /\ pc = "top"
  /\ IF sd_lfs_format \/ errors > LIMIT \/ sdmmc_init_last = "due"
     THEN /\ pc' = "sdmmc"
          /\ sd_status' = "unset" /\ lfs_status' = "unset" /\ sdmmc_init_last' = "off"
          /\ errors' = 0 /\ queue' = <<>>
          /\ get' = FALSE /\ cb' = FALSE /\ cbOffset' = 0 /\ cbData' = 0
     ELSE /\ pc' = IF Usable THEN "setter" ELSE "top"
          /\ UNCHANGED <<sd_status, lfs_status, sdmmc_init_last, errors, queue, streamVars>>
  /\ UNCHANGED <<sd_lfs_format, locals, pageVars, cardVars, clientVars, faultVars>>

\* A mutant: a failed start is not noted for another try.
SdmmcInitForgets ==
  /\ pc = "sdmmc"
  /\ \/ pc' = "format" /\ UNCHANGED <<sd_status, faultVars>>
     \/ /\ Fault("card")
        /\ sd_status' = "error"
        /\ pc' = "top"
  /\ UNCHANGED <<lfs_status, sdmmc_init_last, sd_lfs_format, errors, queue, streamVars, locals,
                 pageVars, cardVars, clientVars>>

\* sdmmc_init
SdmmcInit ==
  /\ pc = "sdmmc"
  /\ \/ pc' = "format" /\ UNCHANGED <<sd_status, sdmmc_init_last, faultVars>>
     \/ /\ Fault("card")
        /\ sd_status' = "error" /\ sdmmc_init_last' = "running"
        /\ pc' = "top"
  /\ UNCHANGED <<lfs_status, sd_lfs_format, errors, queue, streamVars, locals, pageVars,
                 cardVars, clientVars>>

\* The end of sd_init_task after an error of the file system.
FailStart ==
  /\ lfs_status' = "error" /\ sd_status' = "ok"
  /\ pc' = "top"

\* The format that was asked for, if any.
FormatAsked ==
  /\ pc = "format"
  /\ \/ /\ ~sd_lfs_format
        /\ pc' = "mount"
        /\ UNCHANGED <<sd_status, lfs_status, cardVars, faultVars>>
     \/ /\ sd_lfs_format
        /\ Wiped(TRUE)
        /\ pc' = "mount"
        /\ UNCHANGED <<sd_status, lfs_status, faultVars>>
     \/ /\ sd_lfs_format
        /\ Fault("format")
        /\ FailStart
        /\ Wiped(FALSE) \/ UNCHANGED cardVars
  /\ sd_lfs_format' = FALSE
  /\ UNCHANGED <<sdmmc_init_last, errors, queue, streamVars, locals, pageVars, clientVars>>

\* The first lfs_mount; when it fails, lfs_status says so from now on.
Mount ==
  /\ pc = "mount"
  /\ \/ /\ sound
        /\ lfs_status' = "ok" /\ pc' = "boot_count"
        /\ UNCHANGED faultVars
     \/ /\ ~sound
        /\ lfs_status' = "error" /\ pc' = "reformat"
        /\ UNCHANGED faultVars
     \/ /\ Fault("mount")
        /\ lfs_status' = "error" /\ pc' = "reformat"
  /\ UNCHANGED <<sd_status, sdmmc_init_last, sd_lfs_format, errors, queue, streamVars, locals,
                 pageVars, cardVars, clientVars>>

\* A card that cannot be mounted is formatted and mounted again, which may fail
\* in either step.  lfs_status is left as the first mount has set it.
Reformat ==
  /\ pc = "reformat"
  /\ \/ /\ Wiped(TRUE)
        /\ pc' = "boot_count"
        /\ UNCHANGED <<sd_status, lfs_status, faultVars>>
     \/ /\ Fault("format")
        /\ FailStart
        /\ (\E ok \in BOOLEAN : Wiped(ok)) \/ UNCHANGED cardVars
  /\ UNCHANGED <<sdmmc_init_last, sd_lfs_format, errors, queue, streamVars, locals, pageVars,
                 clientVars>>

\* The boot count is written, whether it works or not; then the card is ready.
BootCount ==
  /\ pc = "boot_count"
  /\ sd_status' = "ok"
  /\ pc' = IF lfs_status = "ok" THEN "setter" ELSE "top"
  /\ UNCHANGED <<lfs_status, sdmmc_init_last, sd_lfs_format, errors, queue, streamVars, locals,
                 pageVars, cardVars, clientVars, faultVars>>

-----------------------------------------------------------------------------
(* Data points.                                                            *)

Capped(n) == IF n > LIMIT THEN n ELSE n + 1

\* The last point of the buffer is copied out of it: the client may add others
\* while it is written.
TakePoint ==
  /\ pc = "setter"
  /\ IF queue = <<>>
     THEN pc' = "getter" /\ UNCHANGED <<hand, queue>>
     ELSE /\ hand' = queue[Len(queue)]
          /\ queue' = SubSeq(queue, 1, Len(queue) - 1)
          /\ pc' = "point"
  /\ UNCHANGED <<initVars, errors, streamVars, copied, chunk, page, pageVars, cardVars, clientVars, faultVars>>

\* A mutant: a failed point is put back whether there is room or not.
WritePointBlindly ==
  /\ pc = "point"
  /\ \/ /\ points' = points \cup {hand}
        /\ errors' = 0
        /\ UNCHANGED <<queue, faultVars>>
     \/ /\ Fault("io")
        /\ queue' = Append(queue, hand)
        /\ errors' = Capped(errors)
        /\ UNCHANGED points
  /\ hand' = 0
  /\ pc' = "getter"
  /\ UNCHANGED <<initVars, streamVars, copied, chunk, page, pageVars, sound, file, clientVars>>

\* A mutant: a point that could not be written is not put back.
WritePointOnce ==
  /\ pc = "point"
  /\ \/ /\ points' = points \cup {hand}
        /\ errors' = 0
        /\ UNCHANGED <<queue, faultVars>>
     \/ /\ Fault("io")
        /\ errors' = Capped(errors)
        /\ UNCHANGED <<queue, points>>
  /\ hand' = 0
  /\ pc' = "getter"
  /\ UNCHANGED <<initVars, streamVars, copied, chunk, page, pageVars, sound, file, clientVars>>

\* sd_write_wallbox_data_point, and what is done about its failure: one that is
\* only reported when the file is closed may have written the point.
WritePoint ==
  /\ pc = "point"
  /\ \/ /\ points' = points \cup {hand}
        /\ errors' = 0
        /\ UNCHANGED <<queue, faultVars>>
     \/ /\ Fault("io")
        /\ queue' = IF Len(queue) < QUEUE THEN Append(queue, hand) ELSE queue
        /\ errors' = Capped(errors)
        /\ points' \in {points, points \cup {hand}}
  /\ hand' = 0
  /\ pc' = "getter"
  /\ UNCHANGED <<initVars, streamVars, copied, chunk, page, pageVars, sound, file, clientVars>>

-----------------------------------------------------------------------------
(* Streams.                                                                *)

\* A chunk is read straight into the callback's buffer.
ReadInto(c) ==
  /\ chunk' = c
  /\ cbData' = 0
  /\ pc' = "read"

StartStream ==
  /\ pc = "getter"
  /\ \/ get /\ ReadInto(1) /\ UNCHANGED page
     \/ ~get /\ pc' = "pages" /\ page' = 1 /\ UNCHANGED <<chunk, cbData>>
  /\ UNCHANGED <<initVars, errors, queue, get, cb, cbOffset, hand, copied, pageVars, cardVars,
                 clientVars, faultVars>>

\* What the task does with a stream that it gives up for now: the storage is
\* next, and the stream starts over in the next round.
LeaveStream ==
  /\ errors' = Capped(errors)
  /\ pc' = "pages" /\ page' = 1

\* sd_read_wallbox_data_point
ReadChunk ==
  /\ pc = "read"
  /\ \/ /\ cbData' = chunk /\ cbOffset' = chunk
        /\ cb' = TRUE
        /\ errors' = 0
        /\ pc' = "wait"
        /\ UNCHANGED <<page, faultVars>>
     \/ /\ Fault("io")
        /\ LeaveStream
        /\ UNCHANGED <<cb, cbOffset, cbData>>
  /\ UNCHANGED <<initVars, queue, get, hand, copied, chunk, pageVars, cardVars, clientVars>>

\* A mutant: the next chunk is read without waiting for the callback.
NextChunkAtOnce ==
  /\ pc = "wait"
  /\ IF chunk < CHUNKS
     THEN ReadInto(chunk + 1) /\ UNCHANGED <<get, page>>
     ELSE /\ get' = FALSE
          /\ pc' = "pages" /\ page' = 1
          /\ UNCHANGED <<chunk, cbData>>
  /\ UNCHANGED <<initVars, errors, queue, cb, cbOffset, hand, copied, pageVars, cardVars,
                 clientVars, faultVars>>

\* A mutant: after the last chunk the task keeps waiting.
NextChunkStuck ==
  /\ pc = "wait" /\ ~cb
  /\ IF chunk < CHUNKS THEN ReadInto(chunk + 1) ELSE UNCHANGED <<pc, chunk, cbData>>
  /\ UNCHANGED <<initVars, errors, queue, get, page, cb, cbOffset, hand, copied, pageVars,
                 cardVars, clientVars, faultVars>>

\* The callback has been sent: go on, or finish the stream.
NextChunk ==
  /\ pc = "wait" /\ ~cb
  /\ IF chunk < CHUNKS
     THEN ReadInto(chunk + 1) /\ UNCHANGED <<get, page>>
     ELSE /\ get' = FALSE
          /\ pc' = "pages" /\ page' = 1
          /\ UNCHANGED <<chunk, cbData>>
  /\ UNCHANGED <<initVars, errors, queue, cb, cbOffset, hand, copied, pageVars, cardVars,
                 clientVars, faultVars>>

\* A second has gone by and the callback is still there.
StreamTimeout ==
  /\ pc = "wait" /\ cb
  /\ Fault("slow")
  /\ LeaveStream
  /\ UNCHANGED <<initVars, queue, streamVars, hand, copied, chunk, pageVars, cardVars, clientVars>>

-----------------------------------------------------------------------------
(* The data storage.                                                       *)

\* What sd_tick_task_handle_storage does after the page, the yield of the task
\* included when it was the last one.
Onward(p) == IF p + 1 \in Pages THEN pc' = "pages" /\ page' = p + 1
                                ELSE pc' = "top" /\ page' = 1

HandlePage ==
  /\ pc = "pages"
  /\ \/ /\ read_from_sd[page]
        /\ pc' = "load" /\ UNCHANGED page
     \/ /\ ~read_from_sd[page] /\ write_to_sd[page]
        /\ pc' = "save" /\ UNCHANGED page
     \/ /\ ~read_from_sd[page] /\ ~write_to_sd[page]
        /\ Onward(page)
  /\ UNCHANGED <<initVars, errors, queue, streamVars, hand, copied, chunk, pageVars, cardVars,
                 clientVars, faultVars>>

\* sd_read_storage; whether it worked does not matter to the flags.
LoadPage ==
  /\ pc = "load"
  /\ \/ /\ storage' = IF file[page] = 0 THEN storage ELSE [storage EXCEPT ![page] = file[page]]
        /\ UNCHANGED faultVars
     \/ /\ Fault("page")
        /\ UNCHANGED storage
  /\ read_from_sd' = [read_from_sd EXCEPT ![page] = FALSE]
  /\ write_to_sd' = [write_to_sd EXCEPT ![page] = FALSE]
  /\ Onward(page)
  /\ UNCHANGED <<initVars, errors, queue, streamVars, hand, copied, chunk, changed, cardVars, clientVars>>

\* sd_write_storage opens the file and copies the page into its buffer.
CopyPage ==
  /\ pc = "save"
  /\ copied' = storage[page]
  /\ pc' = "commit"
  /\ UNCHANGED <<initVars, errors, queue, streamVars, hand, chunk, page, pageVars, cardVars,
                 clientVars, faultVars>>

\* A mutant: a page that was written counts as unchanged.
CommitPageSettles ==
  /\ pc = "commit"
  /\ \/ /\ file' = [file EXCEPT ![page] = copied]
        /\ UNCHANGED faultVars
     \/ /\ Fault("page")
        /\ UNCHANGED file
  /\ write_to_sd' = [write_to_sd EXCEPT ![page] = FALSE]
  /\ changed' = [changed EXCEPT ![page] = FALSE]
  /\ copied' = 0
  /\ Onward(page)
  /\ UNCHANGED <<initVars, errors, queue, streamVars, hand, chunk, storage, read_from_sd,
                 sound, points, clientVars>>

\* Its end; a failure, with or without effect, is not noticed.
CommitPage ==
  /\ pc = "commit"
  /\ \/ UNCHANGED faultVars
     \/ Fault("page")
  /\ \/ file' = [file EXCEPT ![page] = copied]
     \/ faults' # faults /\ UNCHANGED file
  /\ write_to_sd' = [write_to_sd EXCEPT ![page] = FALSE]
  /\ copied' = 0
  /\ Onward(page)
  /\ UNCHANGED <<initVars, errors, queue, streamVars, hand, chunk, storage, changed, read_from_sd,
                 sound, points, clientVars>>

\* data_storage_tick: ten minutes after a change the page is due.  No file is
\* written for as long as that.
DataStorageTick(p) ==
  /\ changed[p]
  /\ ~(pc \in {"save", "commit"} /\ page = p)
  /\ changed' = [changed EXCEPT ![p] = FALSE]
  /\ write_to_sd' = [write_to_sd EXCEPT ![p] = TRUE]
  /\ UNCHANGED <<initVars, errors, queue, streamVars, pc, locals, storage, read_from_sd, cardVars,
                 clientVars, faultVars>>

-----------------------------------------------------------------------------
(* The client and the clock (external).                                    *)

AddPoint ==
  /\ added < MAX_POINTS /\ Usable /\ Len(queue) < QUEUE
  /\ added' = added + 1
  /\ queue' = Append(queue, added + 1)
  /\ UNCHANGED <<initVars, errors, streamVars, pc, locals, pageVars, cardVars, sets, lastSet,
                 gets, got, faultVars>>

\* A page is set when it has been loaded.
SetPage(p) ==
  /\ sets < MAX_SETS /\ ~read_from_sd[p]
  /\ sets' = sets + 1
  /\ storage' = [storage EXCEPT ![p] = sets + 2]
  /\ lastSet' = [lastSet EXCEPT ![p] = sets + 2]
  /\ changed' = [changed EXCEPT ![p] = TRUE]
  /\ UNCHANGED <<initVars, errors, queue, streamVars, pc, locals, write_to_sd, read_from_sd, cardVars,
                 added, gets, got, faultVars>>

AskStream ==
  /\ gets < MAX_GETS /\ Usable /\ ~get
  /\ gets' = gets + 1
  /\ get' = TRUE /\ got' = <<>>
  /\ UNCHANGED <<initVars, errors, queue, cb, cbOffset, cbData, pc, locals, pageVars, cardVars,
                 added, sets, lastSet, faultVars>>

\* The callback is sent: the announced offset with what is in the buffer.
SendCallback ==
  /\ cb
  /\ cb' = FALSE
  /\ got' = Append(got, <<cbOffset, cbData>>)
  /\ UNCHANGED <<initVars, errors, queue, get, cbOffset, cbData, pc, locals, pageVars, cardVars,
                 added, sets, lastSet, gets, faultVars>>

AskFormat ==
  /\ Fault("wipe")
  /\ sd_lfs_format' = TRUE
  /\ UNCHANGED <<sd_status, lfs_status, sdmmc_init_last, errors, queue, streamVars, pc, locals,
                 pageVars, cardVars, clientVars>>

SecondPasses ==
  /\ sdmmc_init_last = "running"
  /\ sdmmc_init_last' = "due"
  /\ UNCHANGED <<sd_status, lfs_status, sd_lfs_format, errors, queue, streamVars, pc, locals,
                 pageVars, cardVars, clientVars, faultVars>>

-----------------------------------------------------------------------------
Task ==
  \/ Top \/ SdmmcInit \/ FormatAsked \/ Mount \/ Reformat \/ BootCount
  \/ TakePoint \/ WritePoint
  \/ StartStream \/ ReadChunk \/ NextChunk \/ StreamTimeout
  \/ HandlePage \/ LoadPage \/ CopyPage \/ CommitPage

Clock == SecondPasses \/ \E p \in Pages : DataStorageTick(p)

Client ==
  \/ AddPoint
  \/ \E p \in Pages : SetPage(p)
  \/ AskStream
  \/ AskFormat

Next == Task \/ Clock \/ Client \/ SendCallback

Spec == Init /\ [][Next]_vars

\* The main loop goes on and with it the task, the clock and the callbacks.
Fairness ==
  /\ WF_vars(Task)
  /\ WF_vars(SecondPasses)
  /\ \A p \in Pages : SF_vars(DataStorageTick(p))
  /\ WF_vars(SendCallback)

FairSpec == Spec /\ Fairness

-----------------------------------------------------------------------------
(* Properties.                                                             *)

Status == {"unset", "ok", "error"}

\* The types of the fields; the buffer of data points never overflows.
TypeOK ==
  /\ {sd_status, lfs_status} \subseteq Status
  /\ sdmmc_init_last \in {"off", "running", "due"}
  /\ errors \in 0 .. LIMIT + 1
  /\ queue \in Seq(1 .. MAX_POINTS) /\ Len(queue) <= QUEUE
  /\ {sd_lfs_format, get, cb, sound} \subseteq BOOLEAN
  /\ {cbOffset, cbData, chunk} \subseteq 0 .. CHUNKS
  /\ page \in Pages
  /\ {changed, write_to_sd, read_from_sd} \subseteq [Pages -> BOOLEAN]
  /\ {storage, file, lastSet} \subseteq [Pages -> 0 .. MAX_SETS + 1]
  /\ points \subseteq 1 .. MAX_POINTS
  /\ hit \subseteq Faults /\ faults \in 0 .. MAX_FAULTS

Elements(s) == {s[i] : i \in DOMAIN s}
Held == Elements(queue) \cup {hand} \cup points

\* A data point taken from the client is in the buffer, in the task's hands or
\* on the card, until the card is started anew or formatted, or until the buffer
\* is full when the point has to be put back (sd_tick_task_handle_wallbox_data).
PointsAreKept ==
  [][\A d \in 1 .. added :
       d \in Held /\ d \notin Held' =>
         \/ pc' = "sdmmc" \/ pc \in {"format", "reformat"}
         \/ pc = "point" /\ Len(queue) = QUEUE]_vars

\* While the client sends its callbacks in time, each has the data it announces:
\* the buffer is not refilled under a callback (the wait for
\* new_sd_wallbox_data_points_cb in sd_tick_task_handle_wallbox_data).
ChunksAreWhole ==
  "slow" \in hit \/ \A i \in DOMAIN got : got[i][1] = got[i][2]

\* A page that was set is on the card in the end, unless its file operations
\* failed or the card was formatted (data_storage_tick: "10 minutes after data
\* storage change we write it to SD card").
PagesAreSaved == <>[](hit \cap {"page", "mount", "wipe"} # {} \/ file = lastSet)

\* The card comes back after any error but one of its file system (sd_tick_task's
\* error count and sdmmc_init_last).
CardComesBack == <>[](hit \cap {"blank", "mount", "format"} # {} \/ Usable)

\* A stream ends, whatever the task goes through meanwhile: a stream that is given
\* up is tried again (the new_sd_..._data_points flag stays set), but not for ever.
StreamsEnd == get ~> ~get

\* sd.c:1383 "We retry to initialize SD card once per second": a card that was not
\* usable at first gets into use, and back into use later.
StartIsRetried == []<>Usable
=============================================================================
