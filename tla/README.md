# Verification of the WeeWX → PHP collector

This directory holds TLA+ specifications of the collector in `src/weewx_php_ingest`
and of its installation: what its processes promise about a weather reading between
the sensor that made it and the PHP receiver that stores it, the model-checking runs
that exercise those specifications, and proofs of the most important results.

Contents: [1 The system](#1-the-system) · [2 Modules](#2-modules) · [3 Runs](#3-runs) ·
[4 Proofs](#4-proofs) · [5 Not modelled](#5-not-modelled-and-why) · [6 Plan](#6-plan)

## 1. The system

| Part | Source | State it keeps | Operations | Talks to |
|---|---|---|---|---|
| Spool | `spool.py` | one SQLite file per station: `events`, `usage` (kept by two triggers), `meta` | `append`, `candidates`, `acknowledge`, `defer`, `retry_quarantined`, `can_fit` | worker, uploader, `retry`, status, supervisor, each on a connection of its own |
| Uploader | `uploader.py` | rotation cursor, packet and byte limit, failures, next attempt; copies in every spool's `meta` | `tick`, `_batch`, `_global_delay` | all spools, transport, sensor discovery |
| Wire protocol | `protocol.py` | none | `event_from_loop`, `event_from_archive`, `envelope`, `decode_response` | worker, uploader |
| Transport | `transport.py` | none (token read per request) | `send` | receiver |
| Collector engine | `runtime.py` | archive period, `hardware` flag; `hardware_cursor`, `collection_state` in `meta` | `dispatchEvent`, `catch_up`, `check_loop`, `run_worker` | driver, spool |
| Supervisor | `supervisor.py` | per child: process, deadline, next start, failures, `permanent` | `poll`, `_start`, `shutdown` | workers and uploader through processes, heartbeats and the stop file |
| Sensor routing | `sensor_sources.py` | registry `sensors` in the parent spool; per sensor `radio_last`, `stream_*`, `rain_counter` | `Router.append`, `discover_spools` | network receivers, SDR, uploader |
| SDR receiver | `sdr.py` | the decoder `rtl_433`, reader thread, queue of 64 lines | `Receiver.read`, `close`, `run`, `probe` | routing, supervisor, assistant |
| GW1000 receiver | `gw1000.py`, parser of `_vendor/gw1000.py` | next poll; sensor table read twice per poll | `read`, `inventory`, `parse_values`, `split` | routing |
| WeatherFlow receiver | `weatherflow.py`, `network_sources.py` | socket | `read`, `decode` | routing |
| CLI and locks | `cli.py`, `locking.py` | lock files | `run`, `_worker`, `_upload`, `upload-once`, `retry`, `status` | all |
| Configuration | `config.py`, `configure.py`, `hardware.py`, `service_profiles.py`, `virtual.py` | configuration files | `load`, `setup`, `configure`, `preview_upload`, `probe_packet` | CLI, service manager |
| Installation | `install.sh`, `update.py`, the systemd unit | release directories, `current` link, unit file, `install.lock` | build, check, activate, roll back | service manager |
| Receiver | not in the repository (`docs/native-ingest-v1.md`) | receipts, admission of a station | one transaction per batch, one verdict per event | uploader |

The processes share nothing but files: the supervisor starts one worker per station
and one uploader, each opens the spools on connections of its own, and every
coordination goes through `meta` rows (heartbeat, `collection_state`, hold-back,
learned limits), process exit codes, lock files and the `stop` file. The commands
`configure` and `install.sh` meet the service only through systemd and the file system.

### What is hard about it, and what makes each part correct

| Part | Hard behaviour | Correct means |
|---|---|---|
| Spool | three writers interleave between transactions; counters kept by triggers; quarantined rows count | the counters are those of the table; the quotas hold; a reading leaves the table only by `acknowledge` |
| Batching | rotation, alternation and two limits act together | every station and both ends of its queue get their turn |
| Uploader | reads rows, blocks in HTTP, then settles row by row with what it read before; crash anywhere; request may arrive after it was given up; a second uploader without the lock; delay and limits written to many files one after the other | nothing is released without a receipt; a delay or limit once on disk is kept; a refused reading waits for an operator; a deliverable reading is delivered |
| Collector engine | blocks on a full spool in the middle of a driver callback while the device overwrites its memory; restarts at every point; drivers repeat records or lack half of the interface; packets from the future | the cursor covers exactly what was journaled; no record twice; a record that stays in reach arrives; a packet postpones the catch-up by its own error at most |
| Supervisor | decides with reads that are some statements old; children speak, hang, begin to wait and exit meanwhile; its own writes fail | one process per child; only silent processes are killed, and none that has waited for room since it was looked at; what ends is restarted, unless it returned 65; shutdown ends |
| Sensor routing | datagrams repeated, reordered, bundled; counters reset; registry written before the file; files found by another process; one spool whose rows nobody takes | rain adds up; ids are unique; reception goes on |
| SDR receiver | a child process, a pipe, a thread, a bounded queue and a full spool wait for each other; signals arrive while all this is closed | no line lost or joined; close ends everything; no decoder survives its worker |
| GW1000 receiver | the sensor table changes between the requests of one poll; common fields and counters have no owner; two parsers read one frame, the second by names that two fields share | a value is reported once, by the sensor that measured it; no rain beyond what fell; what is decoded is what was sent, and no field in part |
| WeatherFlow receiver | two kinds of packet of one device overtake each other; the hub's clock is wrong | each kind is ordered by itself; rain is added once; a wrong clock silences nothing for long |
| Setup, installation | two commands and the service manager, no common lock; failures and interruptions between any two steps | link, unit file and running service belong together; what was started once is enabled and not left stopped; a hardware test has its device |

`PROJECT.json` lists the hazards one by one, with the line where each bites and the
properties that would catch it.

## 2. Modules

| Module | Models | Built from |
|---|---|---|
| `Spool` | the spool files: one operator per transaction of `spool.py` | |
| `Batching` | `Spool.candidates` and `Uploader._batch` as pure operators | |
| `BatchingProofs` | proofs about what a batch holds | |
| `Receiver` | the contract of the PHP side (external) | |
| `Handoff` | the promise to a reading: taken, kept, stored, released | |
| `Delivery` | workers, uploaders, network, receiver, `retry`, clock | extends `Spool`, `Batching`; instantiates `Receiver`; implements `Handoff` |
| `MCDelivery` | instances of `Delivery` for TLC | |
| `DeliveryProofs` | proofs about `Spool` and `Delivery` | `BatchingProofs`, `NumberLemmas` |
| `UploadPacing` | what an uploader remembers: delays with their length, learned limits | |
| `BatchFairness`, `MCBatchFairness` | the uploader against a backlog and a live feed, without failures and without end | extends `Batching` |
| `MCUploader` | `UploadPacing` and `BatchFairness` in one run | |
| `UploaderProofs` | proofs about both and their composition | `BatchingProofs`, `NumberLemmas` |
| `Collector` | `runtime.py`: a worker with a hardware logger | |
| `CollectorProofs` | proofs about `Collector` | |
| `Supervisor` | `supervisor.py` and its children | |
| `Deployment` | `install.sh`, `configure`, the hardware test, the service manager | |
| `MCService` | `Supervisor` and `Deployment` in one run | |
| `ServiceProofs` | proofs about both and their composition | `NumberLemmas` |
| `SensorRouter` | `sensor_sources.py` and the loops of the network and SDR receivers | |
| `SdrReceiver` | `sdr.py` with the processes above and below it | |
| `GatewayReceiver` | the poll of a GW1000, `split`, its rain counters | |
| `GatewayFrames` | one answer of a GW1000 through `parse_values` and the vendored parser | |
| `GatewayProofs` | proofs about both | |
| `WeatherflowReceiver` | `weatherflow.py` between hub and journal | |
| `ReceiverProofs` | proofs about `SensorRouter`, `SdrReceiver`, `WeatherflowReceiver` and `MCReceivers` | `GatewayProofs` |
| `MCReceivers` | `SensorRouter` and the four receiver modules in one run | |
| `NumberLemmas` | least and greatest elements of finite sets of numbers | |

Definitions named `X_Something` directly above an `X` are plausible bugs in `X`.
They are used by no specification. Each property of each passing run is violated
when one of them takes the place of the original; `PROJECT.json` says which.

`MCUploader`, `MCService` and `MCReceivers` join parts that do not interact, or meet
only in what each models of the other. A variable `part`, chosen in the initial state
and constant afterwards, names the part that moves; the others stand still. The states
of the run are the sum, not the product, of the parts. Properties that tell two sides of
one promise are checked as one conjunction: `RainAddsUp` (nothing invented, nothing
missing), `ReceptionGoesOn`, `ChildrenComeBack` (hung or ended), `NothingIsLeftRunning`,
`WorkerEnds`, `QuarantineIsJustified` (how it is entered, how it is left).

### Spool and Delivery

| State | Code |
|---|---|
| `row` | the `events` tables of all spools, one function because an event belongs to one station for ever; `due` stands for `next_attempt <= now` |
| `usage` | the `usage` row that the triggers `count_insert` and `count_delete` keep |
| `heldBack`, `newestFirst`, `cursor` | `station_upload_after` in the future, `prefer_newest`, `hardware_cursor` |
| `phase` | where `Uploader.tick` stands: `idle` before `_batch`, `sent` in HTTP, `answered` with a response in hand, `settling` and `saving` in the two loops at its end, `delaying` in the loop of `_global_delay` |
| `batch`, `answer`, `hold` | the events of the request still to be settled, `results`, a hold-back that follows the `defer` just done |
| `limits`, `learned`, `unsaved` | `packet_limit` and `byte_limit`; their copies in every spool; the copies this tick has still to write |
| `late` | requests nobody waits for that the server may still commit |
| `committed` | history: all events any transaction inserted |

A tick is one action per transaction or statement that another process can tell
apart. The rows of a batch are settled in any order, which covers the order of
the list. `TakeBatch` joins the reads of `_batch`, its quarantining of rows that
fit into no request and its reversal of `prefer_newest`: the readings a worker
commits in between are those of a `Collect` before or after it.

Times are abstracted to bits: any row or station that waits may become due at any
moment (`RowElapses`, `StationElapses`). The delay after a failed request is not
a state, since an idle uploader that does not tick is one that has not taken its
next step yet. `UploadPacing` gives delays their length.

### UploadPacing

| State | Code |
|---|---|
| `memory` | `next_attempt`, `packet_limit`, `byte_limit` of the process |
| `disk` | `upload_next_attempt`, `upload_max_packets`, `upload_max_bytes` of every spool |
| `pc` | `down`; `idle` between ticks; `sent` in HTTP; `saving` in the loop that writes |
| `request` | the local `now` of the tick and the size of its batch |
| `unsaved` | writes still to be made, as sets of pairs of spool and key: `_global_delay` writes all keys of a spool in one transaction, the end of `tick` statement by statement |
| `binding` | history: the latest time that has reached some disk |

All answers are possible at any request: nothing usable, refusals with and without
Retry-After, 413, limits that are lower, too high or zero. `Tick` and
`ClockIsSetBack` move the clock; `Crash` may fall between any two writes.

### Batching and BatchFairness

`candidates` merges two SQL lists (oldest first, newest first) with `zip_longest`
and drops the second occurrence of a row. `Turn` is the resulting place of a row:
twice its distance from the end asked first, or one more than twice the distance
from the other end, whichever is less. `Pick` gives every candidate of every station
its place in the loop of `_batch` (the round of `zip_longest`, and within a round the
rotated station) and `Inspected` goes over them in the order of those places with
`Inspect`, the body of the loop. The length of some packets is the number of their
bytes: `BytesOf` is a set of pairs of packet and position, so that sums are
cardinalities, which the proofs can reason about. Both lists are those of one
snapshot; a worker that commits between the two SELECTs adds a row that only the
second list has, which changes the order only where the spool had no row before
(its first row comes at place 1 instead of 0).

`BatchFairness` runs `Pick` against queues without end: `SendTick` chooses and
acknowledges, `Arrive` appends. It keeps sequences instead of a finite set of
event names, so the live feed never dries up, which `Delivery` cannot say. `Without`
takes the sent rows out of a queue and leaves the others in their order.

### Collector

| State | Code |
|---|---|
| `phase` | `down`; `starting` until STARTUP; `loop` between PRE_LOOP and POST_LOOP; `catchUp` inside `catch_up`; `refused` after exit code 65 |
| `hand` | the packet or record between the driver and the commit of `append` |
| `startup`, `since`, `position` | the arguments of the generator, and how far it is |
| `hardware`, `hardwareState` | the nonlocal flag; meta `hardware_state` |
| `periodEnd`, `delayEnd` | `period_end`, `delay_end` |
| `logger`, `produced` | the memory of the device; history of its records |
| `committed`, `excused` | history: records journaled; records overwritten, expired, or skipped by `no_catchup` |

A driver may start at the lower bound it is given or at the beginning of its memory
(`position' \in {0, since'}`), as the guard in the code expects. `JournalPacket`
includes what `dispatchEvent` leads to, CHECK_LOOP and, when it breaks the loop,
POST_LOOP. The waiting loop on a full spool is the disabled `JournalPacket` or
`JournalRecord`; the device goes on meanwhile. `OddPacket` is a packet whose
`dateTime` is `MaxSkew` ahead of the clock.

### Supervisor

Time is counted in rounds of `poll`, in which the workers come before the uploader.
A child without a process has no heartbeat to compare (`IsGone`). The poll of a running
child is split where another process can come in between: `Look` (`process.poll`,
heartbeat), `AsksState` and `AsksRoom` (the two operands of `full`, each a read of the
spool), and the verdict some statements later (`LetRun`, `KillSilent`). `answer` is what
has been read; the verdict goes by it and by the deadline, not by what is true by then.

The state of a process tells `new` (before its lock and its first write), `up`, `blocked`
(full spool), `hung`, `stuck` (hung while `new`), `refusing` (has written
`invalid_packet`), and the two kinds of exit code. `orphans` are the processes of a
supervisor that was killed without its control group. Two histories are what the watchdog
is judged by: `quiet`, the rounds of silence, and `patient`, the workers that waited for
room at the look and have waited ever since. `WatchdogIsPatient` speaks of the latter
only: a worker that writes `spool_full` after `AsksState` and before the kill is killed
while it waits, and so is one for which room was found at the second read and taken away
before the kill.

Refusals of a write by the disk (`broken`) reach the worker as exit code 74 and the
supervisor as an exception; the statement that raises is the last one of starting,
reaping or killing, and `StorageEndsSupervisor` leaves the process as the statements
before it did. `shutdown` touches the stop file and signals all (`AsksAllToStop`), then
waits for one child after the other: it ends by itself, if it does (`Obeys`,
`ChildStopped`), or the time is over and it is killed (`ChildTimesOut`). At the end the
states are written, as far as the spools take them (`SupervisorEnds`).

### Deployment

| State | Code |
|---|---|
| `built` | the verified release directories, by number, each of some revision |
| `current`, `unit` | the link; the release from which the unit file was written |
| `enabled`, `service`, `serving` | what systemd knows: `failing` is a service that waits for `RestartSec`; the release that runs |
| `config` | none, the one `_initialize` writes and `check` refuses, or a valid one |
| `installer` | the step of `install.sh` it is about to make, with its variables `old_current`, the backup of the unit, `old_active`, `configured` |
| `assistant` | the same of `configure` and `setup`, with `was_active` and `succeeded` |
| `orphan` | a hardware test that goes on although its assistant was ended |
| `started` | history: a command has started the service once |
| `failedStarts`, `met` | history: releases that ended right after an installer started them; which disturbances have occurred |

Building and verifying a release, which changes nothing that runs, is the one step
`Builds`. After it every command of the script is an action, `systemctl enable` (`Enables`)
and `systemctl start` (`StartsService`) included; `Fails` lets any of them fail and runs
the trap, which does not undo the enabling and whose own start may be refused too
(`RestartsOld`), as may that of the assistant (`EnablesNow`). `Interrupts` ends bash
while it waits for a command: the trap then sees the status of the command before, which
is 0 behind `sleep 3`. The service starts, ends and is restarted by systemd between any
two steps. The two commands may run at the same time, since only `install.sh` takes `install.lock`. A service that
ends soon after its start does so within the `sleep 3` of the installer and before the
five seconds of `RestartSec`, so it is `failing` when it is examined.

`met` collects what the properties have to except, and each exception is a behaviour
the code really has:

| In `met` | Meaning |
|---|---|
| `paused` | a command asked for `is-active` while a failing service waited for its restart: it is taken for stopped |
| `overlap` | `configure` and `install.sh` ran at once |
| `edited` | an administrator edited the configuration, for better or worse |
| `refused` | systemd refused a start to the trap or to the assistant |
| `ctrl-c` | the assistant was ended in a hardware test, which goes on |
| `interrupted` | the terminal was closed, or the command ended by a signal |
| `power` | the power was lost |

### SensorRouter

`inbox` is what is left of one `read`; `Register`, `Open`, `Reject`, `Suppress` and
`JournalEvent` are the parts of `Router.append` between two durable writes.
`DropRead` is the `except ProtocolError` of `run`, outside its loop over packets.
A packet carries its counter, and, as history, the rain that had really fallen when
it was sent (`fell`): the properties compare the two. The digest of a packet is its
counter, so two packets of the same sensor differ exactly when their counters do.

`Discover` is one turn of the loop in `discover_spools`, `Upload` one row that is
acknowledged. `blocked` are the sensors that are pending or blocked on the website, which
an operator may change at any time (`Decides`): their rows are deferred or set apart
(`uploader.py:143-148`), so that no `Upload` frees a place in their spools. The promise of
the passing run is what is left of "reception goes on" then: `ReceptionGoesOn` ends in an
empty inbox or in a wait for the full spool of such a sensor. That this wait holds up the
other sensors too is the finding of `blocked_sensor`.

### SdrReceiver

| State | Code |
|---|---|
| `decoder`, `pipe` | the process `rtl_433` (`terminated`: it has the signal and does not react) and its stdout |
| `reader`, `held`, `oversized` | where the thread `_read` stands, its local `line`, its flag |
| `queue`, `closed` | `lines`, `closed` |
| `sent` | history: the numbers of the lines within the bound that were written |
| `worker` | where the main thread stands: `loop`, `get`, `empty` (between `queue.Empty` and `is_alive`), `route`, then each statement of `close`; how it ended |
| `room` | whether the spool takes the next event |
| `parent` | the supervisor in `poll` or in the steps of `shutdown`; for a probe the assistant |

A line is a chunk of the pipe, a line longer than `readline` takes is two. The
signal of `shutdown` reaches the worker anywhere, also inside `close`.

### GatewayReceiver and GatewayFrames

`GatewayReceiver` makes each request of `Receiver.read` an action (`ReadsMac`,
`ReadsBefore`, `ReadsValues`, `ReadsRain`, `ReadsAfter`), between which sensors are
registered, replaced, also for a moment only, silenced and their counters reset.
`restored` remembers the slots that were changed and changed back since the first
inventory, which the second cannot notice. The answer to the second command may lack
fields: their earlier values stay (`values.update`). A value carries, as history,
the sensors it may come from (`origins`) and a counter the rain that fell. `Split`
decides which station reports it (`OwnsGroup`, `OwnsChannel`); `Appends` is what
`Router.append` makes of the counters of a station. Which sensor a firmware takes a
common field from is external: any that is registered for it.

`GatewayFrames` follows one payload twice, as the code does: `Scans` is the loop of
`parse_values`, with the widths of the vendored tables, and `Parses` the loop of the
vendored `parse_addressed_data`, which stops at a tag it does not know and slices
what is there. The gateway may cut an answer off anywhere (`Sends`), within a field or
between two, and the connection may break before it is complete (`BreaksOff`). Values are
kept by `Name`, as `data.update` does: WH46 (0x6B) and WH45 (0x70) have their names in
common, and the later one replaces the earlier. The tables `Live` and `Rain` and the
decode functions they name are translated from `_vendor/gw1000.py`; a value is an integer,
four bytes, or nothing.

### WeatherflowReceiver

`made` are the rows the device has sent so far, stamped by the hub. `Listens`
receives any datagram of rows of one kind that `decode` lets through; a datagram it
refuses, or of another hub, is `ReadsNothing`, because it changes nothing that is
kept. `newest` is the meta `stream_...` of each kind, `reported` the rain of the
events, `showers` the rain that fell. A row of the past that is refused drops the
rest of its datagram (`DropsRest`), as the loop of `network_sources.run` does.

## 3. Runs

Each run finishes within a few minutes with two workers.

| Run | Instance | Shows |
|---|---|---|
| `delivery_two_uploaders` | 1 station, 2 readings, 2 uploaders, 1 fault, the station may be blocked | `DeliveryInv`, the inductive invariant of the proof; counters exact; `Handoff` implemented |
| `delivery_liveness` | 2 stations, 3 readings, room for one reading each, server refuses more than one packet per request and one of the readings, 1 fault | quotas hold; splitting condemns nothing; only a retry leaves quarantine; what is deliverable is released; a waiting reading is collected |
| `uploader` | pacing: 2 spools, 4 time units, delays of 1 to 3, limits lower and absurd, 2 crashes or settings of the clock. Rotation: 3 stations, spools of 3, requests of 1 | no request before a recorded delay is over or above a recorded limit; limits on disk only fall; a station waits less than a round, its newest row misses at most one of its batches; the backlog is sent |
| `batch_starvation` | 2 stations, one long reading, requests of 2 | **violated**: finding 1 |
| `collector` | logger of 3 records, age of 5, spool of 1, 8 time units, packets up to 3 ahead, 2 faults, starts with and without `no_catchup` and startup records | cursor and journal agree; no record twice; a packet from the future postpones the catch-up by its error at most; records in reach arrive |
| `service` | 1 worker and the uploader, timeouts of 1 round, 1 fault; 2 releases of 2 revisions, one of them unsound, 1 station, one kind of disturbance besides loss of power | one collector per child; a patient watchdog; hung and ended children come back; shutdown ends; link and unit match; what was started is enabled and not left stopped; the link names what runs; a test has its device |
| `supervisor_refusal` | 1 worker, 1 fault | **violated**: finding 2 |
| `supervisor_storage` | 2 workers, 1 fault | **violated**: finding 3 |
| `update_interrupted` | as `service`, without the supervisor | **violated**: finding 4 |
| `receivers` | routing: 2 sensors, registry of 1, reads of 2, spools of 1, or 1 sensor for 4 seconds with 2 units of rain. Over a network the rows of 1 sensor may be refused by the website. SDR: 2 lines or chunks, queue of 1, pipe of 3. Gateway: 3 slots, 2 ids, 2 changes, 1 unit of rain. Frames: 2 fields of 10 kinds. Hub: 2 rows per datagram, 2 time units, a clock 1 ahead, 2 restarts or changes of the clock | rain is neither invented nor lost; ids are unique; reception goes on, up to a sensor that is not adopted; lines arrive in order; close and restart leave nothing behind; values are reported once and by their sensor; frames are decoded as sent; rain of the hub is added once, and its wrong clock silences nothing for long |
| `decoder_survives` | 1 line, queue of 1 | **violated**: finding 5 |
| `blocked_sensor` | network, 2 sensors, spools of 1, 1 of them may be blocked | **violated**: finding 6 |

### Why the bounds are enough

*Delivery.* Rotation needs two stations; alternation needs two readings of one
station; a byte limit that binds needs readings of different length; 413 needs a
request of two. One fault is a crash, loss, HTTP error, omission or block at any
point. The proofs remove these bounds for what they cover.

*UploadPacing.* Two spools are the least that can disagree; a delay of 3 outlives the
shorter ones of 1 and 2; two faults are a crash between two writes and another, or a
clock set back, while the next process lives on what it read. Proved without bounds.

*BatchFairness.* With requests of one reading each station depends on its turn
alone; three stations tell "the next one" from "the other one".

*Collector.* An interval of 2 with a delay of 1 is the least in which `delay_end`
and `period_end` differ; eight time units hold four records, one more than the
logger keeps, and outlive the age of 5, so overwriting and expiry both occur; an
error of 3 is longer than an interval.

*Supervisor.* One worker and the uploader are two children in the order of a poll.
`MaxBackoff` of 1 makes every wait one round, the least that is not
none; timeouts of one round tell "silent" from "just started". What an orphan can
do to the next supervisor follows from the one kill that made it.
`supervisor_storage` needs a second worker to be innocent.

*Deployment.* An update needs a release before and a release after; one of the two
revisions does not start. Disturbances are bounded by kind, not by number: one kind at a
time, each as often as it likes, and loss of power at any point. The proofs remove these
bounds: they hold for any number of releases and revisions and any disturbances.

*SensorRouter.* The refusal of a sensor needs one more sensor than the registry
holds; four seconds are the radio's window of two and one on either side; two
packets per read are the least in which one drops the other, or holds it up. A spool of
one row is full as soon as one row of a sensor that is not adopted is in it. Two units of rain
and one reset let a counter fall below its baseline and rise again. Over the
radio a packet is received in the second in which it is sent, or not at all, so
`air` is emptied when the clock ticks.

*SdrReceiver.* With a queue of one the reader waits as soon as the worker does; two
lines, either of which may be long, let a cut-off line stand before a whole one.

*Gateway.* Slots 0 and 48 share common fields, slot 6 has a channel of its own, and
48 asks for the second command; two changes are a change and its neighbour around any
request. The ten tags of `GatewayFrames` cover each decode function of a live field,
a reserved field, the two fields with names in common and an unknown tag, with bytes that
are tags themselves; each answer may end after any of its bytes.

*WeatherflowReceiver.* Two rows per datagram are the least that can be out of order;
a window of one unit back and none ahead refuses exactly the rows of a hub that is
ahead, which become acceptable one unit later.

### Fairness

* The uploader's loop calls `tick` four times a second and the supervisor starts
  the uploader again, so every uploader takes its next step (`TurnTaken`,
  `Proceed`). The receiver answers (a lost answer is a fault, and faults are
  bounded). Time passes for every row and station that waits. Nobody has to retry
  or adopt; in `delivery_liveness` a worker whose reading fits appends it.
* The supervisor is one process: as long as one of its steps is possible it takes one
  (`SupervisorStep`), and `shutdown` is bounded by waits and kills. No child has to do
  anything.
* A worker goes on, the uploader makes room and the device's clock ticks
  (`Collector`); a fault excuses the record that was on its way, the next catch-up
  is asked for again. The worker of a receiver goes on, and the uploader discovers and
  uploads for every sensor it may upload for (`SensorRouter`): `Upload(s)` is not enabled
  for a sensor that is pending or blocked, so nothing is promised of it. Nothing has to be
  received and nobody has to adopt a sensor.
* Both threads of an SDR receiver go on; the decoder, the spool and the parent do
  not have to (`ExitIsNoticed` assumes that there is room again and again).

All conditions are weak: each is about one process that is never disabled by
another for longer than the step itself. `Deployment`, the gateway and the hub have
safety properties only and no fairness.

### Findings

1. **A reading that fits only alone can starve** (`batch_starvation`). `_batch`
   passes over a row that does not fit beside those already chosen and reverses
   `prefer_newest` of its station when another row of it was taken. With two
   stations the reversal keeps step with the rotation: the station is asked first
   exactly when it offers its newest row. `spool.py:144` says "neither a long backlog
   nor a busy live feed can starve".
2. **A refused station that says it restarts** (`supervisor_refusal`). A worker that
   returns 65 between the watchdog's `process.poll` and its verdict is made
   permanent by the next poll, with the `restarting` that the verdict wrote over
   `invalid_packet`. `operations.md:214` names `invalid_packet` as what the operator
   sees.
3. **One broken spool file ends all stations** (`supervisor_storage`). The
   supervisor writes to the spool of the child it reaps, starts or kills and does
   not catch `sqlite3.Error`. `operations.md:242` says "the worker exits and the
   supervisor retries", and line 243 "Only the affected process is restarted".
4. **An interrupted update keeps the release that failed** (`update_interrupted`). A
   signal that ends `install.sh` in its `sleep 3` reaches the trap with status 0, so
   nothing is restored; the repeated update finds its revision installed.
   `operations.md:24` says "If service startup fails, the previous release and
   service unit are restored."
5. **A decoder survives an orderly shutdown** (`decoder_survives`). `shutdown` touches
   the stop file and then sends SIGTERM; a worker that saw the file first is
   interrupted in `Receiver.close` and leaves `rtl_433` running.
   `native-ingest-v3.md:112` says "Stopping, probing or restarting a receiver
   terminates its decoder process too." Under systemd the control group ends it.
6. **One blocked sensor stops its receiver** (`blocked_sensor`). The rows of a pending or
   blocked sensor are never released. When its spool is full, the loop of
   `network_sources.run` (lines 37-44) retries the next packet of that sensor for ever;
   the packets behind it in the same read, and everything the other sensors send
   afterwards, are lost. `native-ingest-v3.md:13` says "Blocking one sensor does not block
   other sensors"; lines 106-107 say that reception pauses "until upload frees space",
   which for this sensor never happens. `sdr.py:207-214` has the same loop.

Not contradictions of any text, but worth knowing:

* A `spool_full` left behind by a worker that died is believed by the watchdog until its
  successor writes `starting`; `ChildrenComeBack` therefore excepts a child that hangs
  before that while its spool stays full (`HangsUnnoticed`).
* A worker that begins to wait for room between the watchdog's reads and its kill is
  killed with the reading it holds (see Supervisor).
* A first installation, or one over a stopped service, whose `systemctl start` fails
  leaves the unit enabled, although the trap restores everything else: the service is
  stopped now and started at the next boot. `StartedIsNotLeftStopped` is about services
  that were started once. What `met` lists under Deployment are its other exceptions.
* A gateway's answer that ends between two fields is accepted; the values of the fields it
  lacks are missing from the snapshot, or, for the second command, keep what the first one
  said.
* Two rain gauges of a gateway that take turns are each credited with the rain in
  between: the counter is the gateway's, the baseline the station's (`RainWithinFall`
  bounds each station by itself).

## 4. Proofs

All theorems hold for every value of the constants that meets the named
assumptions (`StationsAssumption`, `EventsAssumption`, `QuotaAssumption`,
`UploaderAssumption`, `FairnessAssumption`, `CollectorAssumption`, `PacingAssumption`,
`SupervisorAssumption`, `DeploymentAssumption`, `RouterAssumption`, `SdrAssumption`,
`GatewayAssumption`, `FrameAssumption`, `WeatherflowAssumption`): finitely many stations and events,
positive lengths and limits, an archive delay below its interval, places in the list of
spools that are a numbering of the spools, one rain counter per sensor, values of a
gateway that fit the bytes they are sent in. TLC evaluates
the assumptions in the runs. A theorem that needs more says so in its own `ASSUME`.

| Module | Theorems |
|---|---|
| `DeliveryProofs` | `TypeCorrect`, `DeliveryInvariant`, `NothingIsLost`, `CountersAreExact`, `QuotasAreKept`, `QuarantineInvariant`, `QuarantineHolds`, `HandoffIsImplemented` |
| `UploaderProofs` | `PacingInvariant`, `PacingTyped`, `DelaysAreKept`, `RequestsAreWithinLimits`, `LimitsOnlyTighten`, `RotationIsTyped`, `StationsTakeTurns`, `WaitsAreBounded`, `UploaderIsTyped` |
| `CollectorProofs` | `CollectorInvariant`, `StateIsTyped`, `RecordsAreJournaledOnce`, `NoRecordIsSkipped`, `CatchUpIsNear` |
| `ServiceProofs` | `SupervisorInvariant`, `OneProcessPerChild`, `WatchdogWaits`, `DeploymentInvariant`, `UpdateIsWhole`, `TestIsAlone`, `CurrentIsServed`, `StartedIsRestarted`, `DeploymentIsTyped`, `ServiceIsTyped` |
| `ReceiverProofs` | `RouterInvariant`, `SensorRainAddsUp`, `EventIdsAreUnique`, `SdrInvariant`, `LinesArrive`, `NothingIsLeft`, `HubIsTyped`, `HubCannotSilence`, `HubRainIsAddedOnce`, `ReceiversInvariant`, `ReceiversAreTyped`, `ReceiversAreSound` |
| `GatewayProofs` | `ValuesAreSplit`, `SensorsReportTheirOwn`, `GatewayIsTyped`, `RainIsWithinFall`, `FrameInvariant`, `FramesAreReadAsSent` |

`BatchingProofs` and `NumberLemmas` hold the lemmas the others rest on. Every invariant
below was checked by TLC on the run of its module before it was proved.

**Delivery.**

* `TypeCorrect`: `TypeOK`. The two facts that are not immediate are that the limits
  loaded after a crash are positive (`LoadedType`, by `MinIsMember`) and that an
  answer keeps them so (`TightenedType`).
* `DeliveryInvariant`, `NothingIsLost`. `NothingLost` is not inductive:
  `acknowledge` deletes a row because of an answer received some steps ago. The
  invariant adds that a confirmation still held by an uploader stands for a
  receipt (`ConfirmationsAreReceipts`) and that only committed readings travel
  (`OnlyCommittedTravels`). `StepsOnRows` says what any step does to the rows,
  `NextGrows` that receipts and commits only grow; both carry the argument without
  looking at single actions again.
* `HandoffIsImplemented`: `Delivery` implements `Handoff` with `committed`, `Held`
  and `receipts` for `taken`, `kept` and `stored`. Here a late request matters: what
  it stores must still be kept, which follows from `NothingLost`
  (`NewReceiptsAreHeld`).
* `CountersAreExact`, `QuotasAreKept`: the two are inductive together. A step inserts a
  row, deletes one, or changes neither rows nor counters (`StepsOnRows`);
  `OneMoreEvent` says by how much the number and the bytes of a set change, so a
  trigger that fires and a row that goes keep pace, and a second acknowledgement, which
  deletes nothing, counts nothing.
* `QuarantineInvariant`: `OnlyUndeliverableRest` needs to know why a verdict or a limit
  is what it is (`VerdictsAreDeserved`, `LimitsAreKnown`) and that a request keeps to
  the limits it was made for (`RequestsFit`, by `PickIsSound`): a server that answers
  413 to a single reading within its own limit would condemn it wrongly. This holds for
  any number of uploaders.
* `QuarantineHolds` is the action property for one uploader, the one that has
  `uploader.lock`. With a second (the preview upload of `configure`) a verdict may come
  late for a row that the other has meanwhile set apart, and `defer` puts it back into
  the queue, so the second half of the property is false there; `NoneOfBatchRests` is
  what one uploader adds.

**Batching.** `PickIsSound`: the chosen rows are due, no more than `limits.packets`, no
longer than `limits.bytes`, and what is set apart is longer than any request could be.
`PickInspectsTheOffered` turns the batch into `Inspected` of rows with places, and
`InspectedStepwise` says what one more row with the last place changes; that the fold is
defined for every set of rows is the induction of `MapThenFoldSet`, which is not
available as a theorem and therefore proved as a smallest counterexample (`LeastSet`).
`FirstIsChosen` and `EarlierIsChosen` say that a row is chosen as long as those with an
earlier place leave room for it; the latter, that a row is not passed over for a later one
where the byte limit holds as many rows of the greatest length as can be before it.

**Uploader.**

* Pacing. What is to be shown relates a request to the disks, which differ while writes
  are under way. `PacingInv` says what memory and disk know of each other: some spool
  holds the binding delay (`DelayIsOnDisk`), a running process knows a delay at least as
  long and limits at least as low as any disk (`MemoryIsCurrent`), and a request was made
  when memory allowed it (`RequestIsCurrent`). A new process reads the maximum of the
  delays and the minimum of the limits, so it starts with `MemoryIsCurrent`
  (`MaxIsMember`, `MinIsMember` of `NumberLemmas`).
* `StationsTakeTurns`: `WaitsItsTurn` says that the ticks a station was passed over and
  the stations still before it are fewer than the spools; a tick moves the front by one
  (`NextFrontIs`, `AheadIs`), and the station at the front is served
  (`NextStationIsServed`, by `FirstIsChosen`). It needs `ReadingsFit`: each reading fits
  into a request of its own; a longer one is set apart, which is no service.
* `WaitsAreBounded`: `NewestIsNext` says that a station whose newest row was left out
  asks for it first next time (`NewestIsServed`). The rows that a request inspects before
  the newest one of such a station are at most one per spool, the first of each, and at
  most `max_packets` of them are chosen: `BeginningsFit(longest)` says that no reading is
  longer than `longest` and that this many readings of that length fit into the byte limit
  (`BeginningsAreFew`, by `EarlierIsChosen`). It orders no lengths. With requests of one
  packet, as in the run, it says no more than that each reading fits; with the code's
  defaults of 128 packets and 262144 bytes, that no reading exceeds 2048 bytes, or, with
  ten spools, a tenth of the limit. Where it
  fails the theorem does too: the behaviour of `batch_starvation` is one in which two
  beginnings do not fit beside each other.
* `UploaderIsTyped` composes the two parts.

**Collector.**

* `CollectorInvariant`: the conjunction of `TypeOK`, `DeviceInv` (the memory holds
  every record that is not settled), `cursor <= now`, every journaled record is at
  or before the cursor, `HandInv` (a record in hand is the one last yielded, and
  newer than the cursor), `ReadingInv` (what the generator went past is settled or
  in hand) and `NothingSkipped`.
* `RecordsAreJournaledOnce` from `HandInv` and the bound on journaled records;
  `NoRecordIsSkipped` is a conjunct. The step that needs the strengthening is
  `JournalRecord`: the cursor jumps over all times between two records, and
  `ReadingInv` says that none of them was a record still to be read.
* `CatchUpIsNear` from `PeriodInv`, which bounds `periodEnd`, `delayEnd` and the packet
  in hand by the clock; `PeriodIsNear` is the arithmetic of `check_loop`.

**Service.**

* Supervisor. `SingleCollector` is kept because a child takes its lock before it is
  `up` and an orphan keeps it; `PollsInTurn` adds that between a look and its verdict
  the supervisor is there. `BackoffIsBounded` is the ceiling of a wait, for every number
  of failures. `WatchdogWaits` is an action property: `SilenceIsMeasured` relates the
  deadline, which the watchdog goes by, to the rounds in which a child was really
  silent; `BlockedSaysSo` says that a worker that waits for room has written
  `spool_full`, which no orphan writes over; and `PatienceIsSeen` that the reads of a poll,
  made one by one, find one that was waiting at the look and still is.
* Deployment. `Whole` follows the pair of link and unit file through the steps of
  the installer, together with what it has read; `Alone` says that an assistant that was
  not disturbed has the service stopped; `Served` that between the stop and the start of
  the installer nobody else starts it; `Restartable` that a service that was started is enabled, that whoever has
  stopped it knows that it was active, and that the configuration was valid, so that it will start
  it; `InBounds` that every number of a release stands for one that was
  built. Each holds as long as its disturbances are not in `met`.
* `ServiceIsTyped` composes both sides.

**Receivers.**

* Routing. `SensorRainAddsUp` rests on the account of a sensor (`RainIsAccounted`): what
  was journaled, the baseline and the last counter, compared with the rain that fell.
  A packet that may still become an event continues it (`NewIsLater`): over a network
  because it is later than the mark and the counters in the air are in sequence
  (`AirIsInSequence`), over the radio because a read has one counter of a sensor. A
  sensor has one stream with rain, as in the drivers (`RouterAssumption`): two would
  share a baseline. `EventIdsAreUnique` because ids are those of times up to the mark.
* SDR. `LinesArriveInOrder` is about the concatenation of four sequences; the invariant
  says it pairwise (`LinesAreInOrder`), adds that nothing is missing while the worker
  listens (`NoLineIsLost`), and that the two pieces of a long line are neighbours and
  `oversized` is set exactly between them (`LongLinesAreWhole`). `CloseIsInOrder` gives
  `NothingIsLeft`.
* Hub. What was read is within the window of a clock that has only gone forward since
  (`ReadIsNear`), and every mark is the time of a row that was read. For the rain,
  `ShowersAreRows`: every shower is in one row, and what was reported is in the rows that
  the mark of their kind has passed, so none is reported again.

**Gateway.** `ValuesAreSplit` and `SensorsReportTheirOwn` rest on `Snapshot`: as long
as a slot has not been changed since the table was read, or changed and changed back, the
values of its fields come from its sensor; `OwnerIsOrigin`
says that the owner `split` finds is the only sensor a value can come from.
`RainIsWithinFall` rests on `Covered`: neither a counter as it stands nor a value read
earlier would credit a station with more than fell, a bound that resets only lower.

**Frames.** `FramesAreReadAsSent` does not compute what the parsers return: it follows
where they stand. `FrameInv` says that there is a place `at[k]` for each field k of an
answer such that the payload has its tag there and its data behind it, as far as the
answer goes (`IsPlaced`), and that scan and parser stand at one of these places
(`IsScanned`).

* The scan can pass only a field that is whole, known and not repeated, because the
  width of its tag is the length of its data (`FieldIs`), so that what it leaves for the
  parser ends where a field ends (`ScansKeeps`, `ScanEndsKeeps`), wherever the answer was
  cut off.
* The parser then takes the same places, and slices exactly what was sent
  (`ParserIsAtField`). What it has decoded is what the fields so far have, less what a
  later field of the same names replaced (`AreRead`, `OneMoreIsRead`).
* What it makes of the slice is what was meant (`DecodedIsMeant`): the values of a field
  have places apart from each other (`PlacesAreApart`), so a part of the data is the
  bytes of one value (`PartIsEncoded`), and each conversion is the inverse of the
  other (`EncodedIsUnpacked`), for signed and unsigned integers of the width they have,
  and for `None`.

**Side by side.** `ReceiversInvariant` composes the inductive invariants of the five
receiver modules: a step of `MCReceivers` is a step or a stutter of each
(`ReceiversStep`). `ReceiversAreTyped` and `ReceiversAreSound` are the invariants of the
run `receivers`, under its own specification.

**Only model-checked.** Liveness (`BacklogIsSent`, `AdoptedStationDrains`,
`CollectionResumes`, `RecordsArrive`, `ChildrenComeBack`, `ShutdownEnds`,
`ReceptionGoesOn`, `WorkerEnds`): fairness and ENABLED are beyond the prover. Every other
property of a passing run is a theorem.

## 5. Not modelled, and why

* Texts: error reasons, logs, `status`; encodings of packets and envelopes; the JSON
  of WeatherFlow datagrams and of `rtl_433` lines; settings of the receivers.
* The free-space term of `can_fit`: it refuses an append like the quotas do, but may
  do so at any moment. Safety is unaffected; liveness of collection is claimed for
  a disk with room.
* Software record generation and the required auxiliary services of a station
  (`runtime.py`, first half of `dispatchEvent`): they run inside one callback and
  keep no state of the collector.
* What `Spool.__init__` binds a file to, and the refusal of a file of another station:
  one comparison when a process starts.
* `config.py`, the questions of `configure.py`, `service_profiles.py`, `virtual.py`:
  pure functions of their input, or dialogues with an operator; one process reads
  and checks the result once.
* Building and verifying a release (`verify_install.py`, the first half of
  `install.sh`), `uninstall.sh`, `scripts/sync_weewx.py`: they give a release or
  nothing, before anything that runs is touched.
* A clock of the collector that is set back, except in `UploadPacing`.
* Vendored WeeWX and drivers: only the order of the engine's callbacks, as used, and
  of the 8,886 lines of `_vendor/gw1000.py` the parser with its tables and decode
  functions. The rest of that driver (its services, its command line, its configuration)
  is never run by this program, so the models cover a small share of the lines of the
  tree although they cover most of what the program's own 3,800 lines do over time.

## 6. Plan

Done: the hand-off of a reading, pacing and fairness of the uploader, the worker, the
supervisor, installation and setup, routing and the receivers. Every safety property
that a passing run checks is a theorem.

To come: the identity of a spool file, and a collector whose clock is set back.
