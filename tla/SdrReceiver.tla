---------------------------- MODULE SdrReceiver ----------------------------
(***************************************************************************)
(* An SDR receiver (sdr.py): the decoder process rtl_433, its pipe, the    *)
(* reader thread with its queue, the loop of the worker or of a probe, the *)
(* close that has to end all of it, and the process that started it: the   *)
(* supervisor for a worker (supervisor.py), the assistant for a probe      *)
(* (hardware.py).                                                          *)
(*                                                                         *)
(* A line is one chunk of the pipe, or two if it is longer than readline   *)
(* takes at once.  What becomes of a decoded line is the subject of        *)
(* SensorRouter; here `room' says whether the spool takes its event.       *)
(***************************************************************************)
EXTENDS Integers, Sequences

CONSTANTS
    Purposes,       \* what receivers are opened for: "run", "probe"
    MaxLines,       \* bound on the lines printed by one decoder
    QueueSize,      \* 64
    PipeSize        \* chunks the pipe holds

ASSUME SdrAssumption ==
    /\ Purposes \subseteq {"run", "probe"}
    /\ MaxLines \in Nat /\ {QueueSize, PipeSize} \subseteq Nat \ {0}

VARIABLES
    purpose,
    decoder, lines, \* the process rtl_433 and how many lines it printed
    pipe, sent,     \* chunks written and not read; history: the short lines written, by number
    oversized,      \* the reader is inside a long line
    reader, held,   \* the reader thread, and the line it wants to queue
    queue, closed,
    worker, heard,  \* the main thread; history: the chunks it decoded
    room,
    parent          \* the process that started it

decoderVars == <<decoder, lines, pipe, sent>>
readerVars == <<oversized, reader, held>>
workerVars == <<closed, worker, heard, room>>
sdrVars == <<purpose, decoderVars, readerVars, queue, workerVars, parent>>

Chunk == [line : 1..MaxLines, first : BOOLEAN, full : BOOLEAN, end : BOOLEAN]

Alive == {"up", "terminated"}       \* it holds the dongle and may write
Listening == {"loop", "get", "empty", "route"}
Closing == {"close", "poll", "term", "wait", "join"}
Gone == {"closed", "abandoned", "interrupted", "slain"}

SdrTypeOK ==
    /\ purpose \in Purposes \cup {"off"}
    /\ decoder \in Alive \cup {"killed", "exited", "reaped"} /\ lines \in 0..MaxLines
    /\ pipe \in Seq(Chunk) /\ Len(pipe) <= PipeSize
    /\ sent \subseteq 1..MaxLines /\ heard \in Seq(Chunk)
    /\ oversized \in BOOLEAN /\ closed \in BOOLEAN /\ room \in BOOLEAN
    /\ reader \in {"loop", "readline", "put", "done"}
    /\ held \in Seq(Chunk) /\ Len(held) <= 1
    /\ queue \in Seq(Chunk) /\ Len(queue) <= QueueSize
    /\ worker \in Listening \cup Closing \cup Gone
    /\ parent \in {"watches", "stopping", "signalled", "reaped", "ended"}

\* What Receiver.__init__ sets up.
Opened ==
    /\ decoder = "up" /\ lines = 0 /\ pipe = <<>> /\ sent = {}
    /\ oversized = FALSE /\ reader = "loop" /\ held = <<>>
    /\ queue = <<>> /\ closed = FALSE /\ worker = "loop" /\ heard = <<>> /\ room = TRUE
    /\ parent = "watches"

SdrInit == purpose \in Purposes /\ Opened

\* The worker of another kind of receiver.
SdrOff ==
    /\ purpose = "off" /\ decoder = "reaped" /\ lines = 0 /\ pipe = <<>> /\ sent = {}
    /\ oversized = FALSE /\ reader = "done" /\ held = <<>>
    /\ queue = <<>> /\ closed = TRUE /\ worker = "closed" /\ heard = <<>> /\ room = TRUE
    /\ parent = "ended"
-----------------------------------------------------------------------------
(* The decoder.                                                            *)

Piece(n, first, full, end) == [line |-> n, first |-> first, full |-> full, end |-> end]
Short(n) == <<Piece(n, TRUE, FALSE, TRUE)>>
Long(n) == <<Piece(n, TRUE, TRUE, FALSE), Piece(n, FALSE, FALSE, TRUE)>>
CutOff(n) == <<Piece(n, TRUE, FALSE, FALSE)>>

Write(line) ==
    /\ lines < MaxLines /\ Len(pipe) + Len(line) <= PipeSize
    /\ pipe' = pipe \o line
    /\ lines' = lines + 1

Prints ==
    /\ decoder \in Alive
    /\ \/ Write(Short(lines + 1)) /\ sent' = sent \cup {lines + 1}
       \/ Write(Long(lines + 1)) /\ UNCHANGED sent
    /\ UNCHANGED <<purpose, decoder, readerVars, queue, workerVars, parent>>

\* By itself, after a signal, or, in the middle of a line, with the dongle pulled.
DecoderExits ==
    /\ decoder \in Alive \cup {"killed"}
    /\ decoder' = "exited"
    /\ UNCHANGED <<lines, pipe>> \/ Write(CutOff(lines + 1))
    /\ UNCHANGED <<purpose, sent, readerVars, queue, workerVars, parent>>
-----------------------------------------------------------------------------
(* The reader thread.                                                      *)

ReaderLoops ==
    /\ reader = "loop"
    /\ reader' = IF closed THEN "done" ELSE "readline"
    /\ UNCHANGED <<purpose, decoderVars, oversized, held, queue, workerVars, parent>>

EndOfPipe ==
    /\ reader = "readline" /\ pipe = <<>> /\ decoder \in {"exited", "reaped"}
    /\ reader' = "done"
    /\ UNCHANGED <<purpose, decoderVars, oversized, held, queue, workerVars, parent>>

\* Mutant: the rest of a long line is taken for a line.
Excess_Chunk(c) == c.full
Excess(c) == c.full \/ oversized

ReadLine ==
    /\ reader = "readline" /\ pipe # <<>>
    /\ pipe' = Tail(pipe)
    /\ IF Excess(Head(pipe))
       THEN oversized' = ~Head(pipe).end /\ reader' = "loop" /\ UNCHANGED held
       ELSE held' = <<Head(pipe)>> /\ reader' = "put" /\ UNCHANGED oversized
    /\ UNCHANGED <<purpose, decoder, lines, sent, queue, workerVars, parent>>

\* Mutant: the queue has no bound.
Put_Unbounded ==
    /\ reader = "put" /\ ~closed
    /\ queue' = queue \o held
    /\ held' = <<>> /\ reader' = "loop"
    /\ UNCHANGED <<purpose, decoderVars, oversized, workerVars, parent>>

Put ==
    /\ reader = "put" /\ ~closed /\ Len(queue) < QueueSize
    /\ queue' = queue \o held
    /\ held' = <<>> /\ reader' = "loop"
    /\ UNCHANGED <<purpose, decoderVars, oversized, workerVars, parent>>

GiveUp == reader = "put" /\ closed

DropHeld ==
    /\ GiveUp
    /\ held' = <<>> /\ reader' = "loop"
    /\ UNCHANGED <<purpose, decoderVars, oversized, queue, workerVars, parent>>

ReaderStep == ReaderLoops \/ EndOfPipe \/ ReadLine \/ Put \/ DropHeld
-----------------------------------------------------------------------------
(* The main thread: run and probe.                                         *)

\* The stop file; a probe has none.
Stopped == purpose = "run" /\ parent # "watches"

Goes(from, to) ==
    /\ worker = from /\ worker' = to
    /\ UNCHANGED <<purpose, lines, pipe, sent, oversized, held, heard, parent>>

Quiet == UNCHANGED <<decoder, reader, queue, closed, room>>

Loops == Goes("loop", IF Stopped THEN "close" ELSE "get") /\ Quiet

\* decode refuses the line or gives an event.
Hear ==
    /\ worker = "get" /\ queue # <<>>
    /\ queue' = Tail(queue) /\ heard' = Append(heard, Head(queue))
    /\ worker' \in {"loop", "route"}
    /\ UNCHANGED <<purpose, decoderVars, readerVars, closed, room, parent>>

\* 0.25 s without a line.
TimesOut == queue = <<>> /\ Goes("get", "empty") /\ Quiet

ExitSeen == reader = "done"

\* rtl433_exited, or None.
LooksAtReader == Goes("empty", IF ExitSeen THEN "close" ELSE "loop") /\ Quiet

\* Mutant: the worker waits for room, whatever else happens.
Waits_ForRoom == ~room
Waits == ~room /\ ~Stopped

\* The spool takes the event, or a stop lets go of it; a probe writes it down.
Routes ==
    /\ ~Waits
    /\ Goes("route", IF purpose = "probe" THEN "close" ELSE "loop")
    /\ room' = room \/ room' = FALSE
    /\ UNCHANGED <<decoder, reader, queue, closed>>

\* The uploader made room.
RoomAppears ==
    /\ ~room /\ room' = TRUE
    /\ UNCHANGED <<purpose, decoderVars, readerVars, queue, closed, worker, heard, parent>>
-----------------------------------------------------------------------------
(* Receiver.close, in the finally of run and probe.                        *)

SetsClosed ==
    /\ Goes("close", "poll")
    /\ closed' = TRUE
    /\ UNCHANGED <<decoder, reader, queue, room>>

\* poll reaps a decoder that has exited.
PollsDecoder ==
    /\ IF decoder = "exited"
       THEN Goes("poll", "wait") /\ decoder' = "reaped"
       ELSE Goes("poll", "term") /\ decoder' = (IF decoder = "up" THEN "terminated" ELSE decoder)
    /\ UNCHANGED <<reader, queue, closed, room>>

WaitsTwoSeconds ==
    /\ Goes("term", "wait")
    /\ decoder' = (IF decoder = "exited" THEN "reaped" ELSE "killed")
    /\ UNCHANGED <<reader, queue, closed, room>>

\* A killed decoder that stays in the kernel: TimeoutExpired.
WaitsAgain ==
    /\ IF decoder \in {"exited", "reaped"}
       THEN Goes("wait", "join") /\ decoder' = "reaped"
       ELSE Goes("wait", "abandoned") /\ UNCHANGED decoder
    /\ UNCHANGED <<reader, queue, closed, room>>

\* Nothing lets it go on but others: a place in the queue, or a line.
ReaderIsStuck ==
    \/ reader = "put" /\ ~GiveUp
    \/ reader = "readline" /\ pipe = <<>> /\ decoder \in Alive \cup {"killed"}

\* join waits two seconds, longer than any step the reader can take by itself.
Joins ==
    /\ reader = "done" \/ ReaderIsStuck
    /\ Goes("join", "closed")
    /\ Quiet

CloseStep == SetsClosed \/ PollsDecoder \/ WaitsTwoSeconds \/ WaitsAgain \/ Joins
WorkerStep == Loops \/ Hear \/ TimesOut \/ LooksAtReader \/ Routes \/ CloseStep
-----------------------------------------------------------------------------
(* The parent.                                                             *)

\* An abrupt end of the worker alone (out of memory): no close.
WorkerDies ==
    /\ worker \notin Gone /\ worker' = "slain"
    /\ reader' = "done" /\ held' = <<>>
    /\ UNCHANGED <<purpose, decoderVars, oversized, queue, closed, heard, room, parent>>

\* killpg(SIGKILL) ends the worker, with its threads, and the decoder.
KillsGroup ==
    /\ worker' = IF worker \in Gone THEN worker ELSE "slain"
    /\ reader' = "done" /\ held' = <<>>
    /\ decoder' = IF decoder \in Alive THEN "killed" ELSE decoder
    /\ UNCHANGED <<purpose, lines, pipe, sent, oversized, queue, closed, heard, room>>

\* Mutant: nothing is left to kill of a worker that exited.
Reaps_Exited ==
    /\ parent = "watches" /\ (purpose = "probe" => worker \notin Gone)
    /\ parent' = "reaped"
    /\ IF worker \in Gone THEN UNCHANGED <<purpose, decoderVars, readerVars, queue, workerVars>>
       ELSE KillsGroup

\* poll: the watchdog, and `kill_child' after any exit; the timeout of a probe.
Reaps ==
    /\ parent = "watches" /\ (purpose = "probe" => worker \notin Gone)
    /\ parent' = "reaped" /\ KillsGroup

\* shutdown touches the stop file, and then sends SIGTERM.
Touches ==
    /\ purpose = "run" /\ parent = "watches"
    /\ parent' = "stopping"
    /\ UNCHANGED <<purpose, decoderVars, readerVars, queue, workerVars>>

\* The handler raises StopNow wherever the main thread is: out of the loop into
\* close, and out of close as well.
Signals ==
    /\ parent = "stopping" /\ parent' = "signalled"
    /\ worker' = CASE worker \in Listening -> "close"
                   [] worker \in Closing -> "interrupted"
                   [] OTHER -> worker
    /\ UNCHANGED <<purpose, decoderVars, readerVars, queue, closed, heard, room>>

KillsLate == parent = "signalled" /\ worker \notin Gone /\ parent' = "ended" /\ KillsGroup

ParentEnds ==
    /\ worker \in Gone
    /\ parent = "signalled" \/ (purpose = "probe" /\ parent = "watches")
    /\ parent' = "ended"
    /\ UNCHANGED <<purpose, decoderVars, readerVars, queue, workerVars>>

\* The assistant is interrupted while it waits: the probe goes on by itself.
Abandons ==
    /\ purpose = "probe" /\ parent = "watches"
    /\ parent' = "ended"
    /\ UNCHANGED <<purpose, decoderVars, readerVars, queue, workerVars>>

\* A new worker, or a new probe.
Reopens ==
    /\ parent \in {"reaped", "ended"} /\ worker \in Gone
    /\ purpose # "off"
    /\ decoder' = "up" /\ lines' = 0 /\ pipe' = <<>> /\ sent' = {}
    /\ oversized' = FALSE /\ reader' = "loop" /\ held' = <<>>
    /\ queue' = <<>> /\ closed' = FALSE /\ worker' = "loop" /\ heard' = <<>> /\ room' = TRUE
    /\ parent' = "watches"
    /\ UNCHANGED purpose
-----------------------------------------------------------------------------
ParentStep ==
    Reaps \/ Touches \/ Signals \/ KillsLate \/ ParentEnds \/ Abandons \/ Reopens

SdrNext ==
    \/ Prints \/ DecoderExits
    \/ ReaderStep \/ WorkerStep \/ WorkerDies \/ RoomAppears \/ ParentStep

SdrSpec == SdrInit /\ [][SdrNext]_sdrVars

\* Both threads go on; neither the decoder nor the parent has to do anything.
SdrFairness == WF_sdrVars(ReaderStep) /\ WF_sdrVars(WorkerStep)
SdrFairSpec == SdrSpec /\ SdrFairness
-----------------------------------------------------------------------------
IsShort(c) == c.first /\ ~c.full /\ c.end

\* What was written and neither lost nor refused, as far as it has come.
Way == heard \o queue \o held \o pipe

\* "Input lines are bounded to 64 KiB and the pipe queue to 64 lines"
\* (native-ingest-v3.md): as long as the worker listens, every line within the
\* bound is still on its way or was decoded, once and in order, however full
\* queue and spool are, and no piece of a longer line is decoded as a line.
LinesArriveInOrder ==
    worker \in Listening =>
        /\ {Way[i].line : i \in {j \in DOMAIN Way : IsShort(Way[j])}} = sent
        /\ \A i, j \in DOMAIN Way :
              i < j /\ IsShort(Way[i]) /\ IsShort(Way[j]) => Way[i].line < Way[j].line
        /\ \A i \in DOMAIN heard : heard[i].first /\ ~heard[i].full

\* A close that was let run to its end leaves neither a decoder nor a thread that
\* reads from the pipe it closes.
CloseIsComplete == worker = "closed" => decoder = "reaped" /\ reader = "done"

\* "restarting a receiver terminates its decoder process too" (native-ingest-v3.md):
\* however the worker ended, no decoder competes with the next one for the dongle.
RestartLeavesNoDecoder == parent = "reaped" => decoder \notin Alive

\* Neither a close nor the end of the worker leaves anything running.
NothingIsLeftRunning == CloseIsComplete /\ RestartLeavesNoDecoder

\* The same of an orderly shutdown ("Stopping, probing or restarting a receiver
\* terminates its decoder process too"; test_sdr.py: "Child is reaped during
\* orderly shutdown").
StopLeavesNoDecoder == parent = "ended" /\ worker # "slain" => decoder \notin Alive

\* The worker comes to its end after the stop file was touched: not even a full
\* spool, a full queue or a decoder that does not react holds it.
StopIsFollowed == Stopped ~> worker \in Gone

\* As long as the spool takes events, a worker does not outlive its decoder,
\* however many lines are still in the pipe.
ExitIsNoticed ==
    []<>room => (decoder = "exited" /\ worker \in Listening ~> worker \notin Listening)

\* A worker that is to end, or has nothing to listen to, does end.
WorkerEnds == StopIsFollowed /\ ExitIsNoticed
=============================================================================
