# A TLA+ verification of the smart-cabin runtime

The repository is the program that runs in an elevator cabin on an Orange Pi: it
reads a camera, detects and recognises faces, tracks people, decides who is in
the cabin, calls the floor of a recognised resident over Socket.IO, records
clips of occupied periods, and keeps its residents in SQLite. The neural
networks and the image processing are numeric. What this directory models is
everything around them: threads, queues, timeouts, reconnections, sessions and
the state that several components share.

Paths below are relative to the repository root; line numbers are those of the
sources the modules were written from.

## 1. Inventory

The process has these threads: the *frame* (inference) thread, which is the main
loop of `src/main.cpp`; the *capture* thread (`video_io.cpp`); a *display*
thread; the *recorder worker*; the *Socket.IO worker*; the *edge worker*; the
*database writer*; and one that samples system metrics.

| Component | State it keeps | Operations | Called by / talks to | What is hard | What makes it correct |
|---|---|---|---|---|---|
| **FloorCallCoordinator** (`src/floor_call_coordinator.*`) | the current visit: decided residents, floor reservations, commands and their states, sequence | `on_presence`, `on_confirmed`, `on_transport_state` | frame thread, Socket.IO worker (callback); calls `enqueue_` with its mutex released | results arrive during a hand-over, after the visit, for refused commands | one command per floor and visit, one per resident; a floor stays reserved unless the command never left |
| **SocketIoClient** (`src/socketio_client.*`) | bounded queue, connection, namespace, command in flight | `enqueue_floor`, `worker_loop`, `close` | frame thread; the elevator service | lost connections, late, malformed or missing acknowledgements, expiry, lock order | at most one write of each request, in order; every request ends with the right result |
| **InteractionManager** (`src/interaction.*`) | a session per subject, a cooldown per resident | `update`, `drop_sessions` | frame thread | dropouts, identity switches, cooldowns that outlive sessions | a confirmation rests on a streak; cooldowns hold; nobody's confirmation is lost |
| **EventVideoRecorder** (`src/event_video_recorder.*`) | pre-roll, presence, session, work queue, open file | `push_frame`, `set_person_present`, `close`, worker | capture thread, frame thread, its own worker | two threads start and stop sessions, a third closes; the queue drops frames | frames once and in order, control items in step, every file finalized |
| **Resident catalog reload** (`src/resident_catalog.*`, `resident_reconcile.*`) | accepted version and fingerprint, back-off, generation | `poll`, `accept`, `reconcile_catalog_runtime` | frame thread; SQLite written by another process | version and snapshot are read separately; reader failures; identities already cached | the runtime converges to the last committed catalog; changed residents lose their sessions |
| **Reconciliation** (`src/resident_reconcile.*`) | none | `reconcile_catalog_runtime` | frame thread, after a poll found a candidate; trackers and sessions | identities on tracks out of sight | nothing refers to a resident the catalog no longer knows that way; the others are spared |
| **Enrolment** (`src/resident_enroll.*`, the synchronous API of `resident_db.*`) | one transaction | `write_resident_enrollment` | the tools, in processes of their own | failure or a kill between two statements, while the application reads | a reader sees all of an enrolment or nothing |
| **Resident database** (`src/resident_db.*`, `db/schema.sql`) | schema version, connection, write queue | `open` with schema and migrations; synchronous writes; asynchronous events and touches | frame thread, writer thread; the tools, in their own processes | failed BEGIN or COMMIT, shutdown with a full queue; a file that another process is creating or migrating, or was killed in | what was enqueued is written once, in order; who has opened the file works on the latest schema; nobody is lost |
| **EdgeClient** (`src/edge_client.*`) | bounded queue, socket | `enqueue`, worker, `close` | frame thread; a local service | drop-oldest together with put-back, reconnect, heartbeat, flush | order, no duplicate, nothing lost but what the bound drops |
| **ByteTracker** (`src/byte_tracker.*`, Kalman filter) | tracks, their states and identities | `update`, `predict`, identity votes | frame thread | occlusion, duplicates, a reload between frames | ids are unique, an identity is on one track, expiry |
| **Greedy tracker** (`src/tracker.*`, `src/tracker_greedy.*`) | tracks, ghosts; resident ids by track id | `update`, `record_recognition`, `reconcile` | frame thread, with `--tracker-mode greedy` | a track takes over the id of a ghost in the middle of a frame, while residents and sessions are kept by id | an id is on one track or ghost; a view names a resident as the catalog has him |
| **Face–track association** (`src/face_track_assoc.*`, `src/linear_assignment.*`) | the tableau of the Hungarian algorithm | `associate_faces_to_tracks`, `solve_linear_assignment` | frame thread, ByteTracker | forbidden pairs, more rows than columns | a matching that no other undercuts, and no forbidden pair |
| **Video input and display** (`src/video_io.*`) | latest frame, sequence number, stop flag, for each of two slots | capture worker, display worker, waits, shutdown | capture, frame, display threads; signals | lost wakeups, a source that drops out, stop requests at any time | no frame twice or before the recorder has it, reconnection, threads end |
| **Match engine, face database** | vectors | nearest neighbour | frame thread | numeric | not a state machine |
| **Detection, alignment, recognition** | network buffers | inference | frame thread | numeric | not a state machine |
| **Configuration** (`src/cabin_config.*`, `app_config`) | values; the cabin's row | `resolve_cabin_config`, `validate_cabin_patch` | start-up; the tool that edits the row | patches that are valid one by one; a value of the command line beside one of the row | the values the program runs with are in range and in order |
| **Enrolment tools** (`src/add_person.cpp`, `enroll_faces.cpp`, `migrate_fdb.cpp`) | one batch | a transaction per batch, or per person | the resident database, beside the running program | BEGIN that fails unnoticed, a failing statement or lookup in the middle | no resident, role or vector is lost that nobody asked to replace, unless a lookup has failed |
| **Logger**, **metrics**, **overlay**, **deploy/face_core** | – | – | – | I/O | not modelled |

The list of what is hard to test, line by line, is under `hazards` in
`PROJECT.json`; each entry names the properties that would catch it. Two more
depend on others and have no property: nothing expires while the namespace is not
open (`src/socketio_client.cpp:442`; it is what `Fairness` assumes of the
service), and the visit numbers restart at 1 with the program
(`src/floor_call_coordinator.h:107`; whether that matters is up to the elevator
service's memory of request ids).

## 2. The modules

| Module | Models | 
|---|---|
| `FloorCallCoordinator` | the state and the operations of the coordinator, each the part of a method that runs under its mutex |
| `SocketIoClient` | the client's queue and worker, with the network and the elevator service as its environment |
| `FloorCallSystem` | both together: the frame thread, the worker, the callback; the properties of the floor-call path |
| `FloorCallLifecycle` | abstract: a line of requests, one on its way at a time, each to one end |
| `Interaction` | `InteractionManager` |
| `EventVideoRecorder` | the recorder with its three callers and its worker |
| `ResidentStore` | the committed residents, the enrolment transaction, removals and audit commits |
| `CatalogReload` | the reloader and the part of the main loop that drives it, on `ResidentStore` |
| `ByteTracker` | the life of a track and its identity, as operators on the table of tracks |
| `RecognitionLoop` | the frame: reload and reconciliation, prediction, update, recognition, sessions |
| `EdgeClient` | the client of the Edge Core: queue, worker, connection, flush |
| `ResidentDbWriter` | the asynchronous writer of the resident database |
| `OutcomeSinks` | both together: the frame thread that feeds them with outcomes, and the shutdown |
| `GreedyTracker` | the tracker of `--tracker-mode greedy`, with its adapter |
| `FaceTrackAssoc` | the assignment of faces to tracks, one round of the algorithm at a time |
| `CabinConfig` | the configuration: resolution, ranges, patches |
| `VideoSlots` | capture, frame and display thread on their slots, with the configuration resolved at the start |
| `SchemaMigration` | opening, creating and migrating the database file, in several processes |
| `EnrolTools` | the batch tools on such a file |
| `MCFloorCall`, `MCInteraction`, `MCCatalogReload`, `MCRecognitionLoop`, `MCVideo`, `MCFaceTrackAssoc`, `MCEnrolTools` | constants for TLC |
| `FloorCallProofs`, `InteractionProofs`, `ReloadProofs`, `EdgeProofs`, `EnrolProofs`, `RecognitionProofs`, `TrackingProofs`, `VideoProofs` | the theorems and their proofs |

### The floor-call path

`FloorCallSystem` EXTENDS the two components and adds the position of the frame
thread. The correspondence:

| Code | Action |
|---|---|
| `on_presence` with and without subjects | `FramePresent`, `FrameEmpty` |
| `on_confirmed` up to the release of its mutex (109–171) | `ConfirmSuppressed`, `ConfirmQueued` |
| `enqueue_` → `enqueue_floor` (172) | `HandOver`, `HandOverRefused` |
| `on_transport_state(Rejected)` (173–176) | `GiveFloorBack` |
| `report()` → status callback → `on_transport_state` | `Deliver` |
| `worker_loop` | `Worker`: `Connect` … `Disconnect`, position `wpc` |
| `close()` | `Shutdown`, `Exit`; `Finished` when the worker is joined |

A step ends where a mutex is taken or released, where the clock is read, where
the socket is used and where a result is reported. So the worker reads the clock
(`ReadClock`), then looks at the queue (`Pick`), then writes (`WriteCommand`,
`WriteFails`): other threads may run in between, as they may in the code. The
results the worker reports are a sequence that `Deliver` empties before the
worker goes on. `MutexHeld` says when the worker keeps `mutex_` while it calls
back (503–513); then `HandOver` has to wait.

The request id `prefix:cabin:visit:sequence` is the pair `<<visit, sequence>>`.
An acknowledgement is a record with the Socket.IO ack id, the request it is for
and its kind; `malformed` stands for every payload the parser rejects. Ping and
pong, WebSocket frames, the handshake and the JSON text are left out: they
change no state but "the connection works". `send_floor`, which sends the
configured request id, is used by no caller when the coordinator is enabled.

The network (`linkUp`, `inbox`, `wire`) is external. It may break the
connection at any moment, together with what is in the network; the service may apply a
command and never answer, answer late, or answer something malformed.

History variables (`accepted`, `written`, `fate`, `rejected`, `issued`,
`applied`) record what happened for the properties; no action of the program
reads them.

### Interaction

`Frame(now, match)` is one call of `update`: reaping, opening, matching,
unknown, confirming, for all subjects of the frame. The code handles subjects
in the order of the faces; of two that would confirm the same resident in one
frame the first wins. `Confirming` leaves the order open and is the set of
possible outcomes. `DropSessions` is `drop_sessions`. Similarities only appear
in the outcome and are left out.

### Recorder

`push_frame` and `set_person_present` hold `state_mutex_` throughout, but enqueue
their items one at a time under `queue_mutex_`. The state they change is changed
in one action; the items still to be enqueued are `todo`, emptied by `Enqueue`,
and the lock counts as held until then (`LockFree`). `close()` is three actions,
because it does *not* hold the lock while it stops the session. The worker takes
an item and handles it.

### Catalog reload

`ResidentStore` has one action for each statement of
`write_resident_enrollment`. SQLite is external: a transaction works on a
`draft`, `BEGIN IMMEDIATE` needs the writer's reservation, `COMMIT` publishes the
draft and raises the change counter `commits`. `RollbackEnrolment` stands for
every error path after BEGIN and for a tool that is killed. A resident is a row
with its metadata and its embeddings; `Malformed` embeddings are those the
validator refuses. `completed` is a history: what the database held after each
finished change.

`CatalogReload` splits `poll` where another process can commit:

| Code (`resident_catalog.cpp`) | Action |
|---|---|
| `open` | `Open`, `OpenFails` |
| `poll` up to the scan (182–198), with `ensure_reader` | `PollInBackoff`, `PollCannotReopen`, `PollLosesReader`, `PollSkips`, `PollScans` |
| first SELECT of `load_active_snapshot` | `ReadResidents` (the read transaction is pinned here) |
| second SELECT, `build_resident_catalog`, comparison | `ScanFindsNoChange`, `ScanFindsCandidate`, `ScanFails` |
| `main.cpp` 575–582, `accept` | `Accept` |

`PRAGMA data_version` is a number of the connection: it grows when the
connection starts to read and finds `commits` moved, and every new connection
starts from the same number (`Refreshed`, `NewReader`). That is the worst case for
the code, because a number accepted on one connection can come again on
another. Deadlines are kept as the time left. The hashes of residents are their
content; collisions are left out. Statistics and `last_observed_version_`, which
only feeds them, are left out.

### Recognition

`ByteTracker` keeps what decides about an identity: state, hits, misses, times
and the identity. Boxes are left out; which track a detection is assigned
to and which pairs overlap is chosen freely, within what `associate` and
`solve_linear_assignment` guarantee (one detection for a track, confirmed
tracks first, low scores only for tracked ones). A removed track keeps its place
in the table so that ids are never reused. Times are the time since an event,
capped at the longest one compared with.

`RecognitionLoop` has one action for a reload at the boundary of two frames
(`Reload`, the swap of the matcher, the reconciliation and `accept` together: all
in the frame thread), and three for a frame: `Predict`, `Update` on every
`PersonEvery`-th frame, and `RecogniseTracked` or `RecogniseLargest`. Of
`Interaction` only the resident of a session and whether it was confirmed
matters here; a session may be confirmed or reaped in any frame. How the catalog
gets its content is the subject of `CatalogReload`, so here any catalog may
follow any other. `seenAs` and `triedWith` are histories.

### Outcomes

`EdgeClient` and `ResidentDbWriter` have the variables of the two classes under
their own names (`q_`, `fd_`, `sent_`, ... ; `queue_`, `stop_`); `sender` and
`writer` say where the two threads are. Each action is what a thread does
between two points where another can be seen: taking the mutex, a connection
attempt, a write, a statement. A message or a job is its number in the order of
making and its type. The Edge Core may refuse a connection or fail a write at any
time and for ever. A failed write delivers nothing: a partial frame is on a
connection that is closed at once, and the whole frame is written again.
SQLite may fail to prepare, begin, run or commit (`Fault`, at most `MaxFaults`
times in a run); a failed statement may take the transaction with it, after which
the remaining ones commit one by one, and a failed COMMIT may leave it open,
after which every BEGIN fails and every later batch is dropped, as the
code ignores the result (`src/resident_db.cpp:633`).

`OutcomeSinks` is the frame thread: for each outcome the event, the count if the
resident is confirmed, and the message, as separate steps (`main.cpp` 831–876),
then the shutdown in the order of `main.cpp` 981–1012. `Dies` is a kill at
any step: what is committed stays.

* `EdgeCountedFifo`: `Line`, all messages in the order received, being written,
  flushed, queued, ascends; until `close()`, made = in the line + `dropped_`.
* `TableFollowsEvents`: the committed jobs ascend whatever fails. As long as
  no statement failed, a resident's `match_count` is at most the number of the
  resident's rows, after a kill too, and equal after a regular end. With a failed
  statement only the order is left: a batch that is dropped may hold an event
  whose count is in the next batch.
* `QuitEnds`: both joins return.

### The greedy tracker

`GreedyTracker` has the tracks and ghosts as the sequences they are in the code,
because `kill_track` and the search for a ghost go through them in order.

| Code | Action |
|---|---|
| `Tracker::update` with detections (`tracker.cpp`) | `Update`: hits, misses, LOST, killed tracks to ghosts, new tracks |
| `predict_only` | `Skip` |
| `record_recognition` and the adapter around it | `Record` |
| the end of the frame, when the next one may begin | `EndFrame` |
| reload and `reconcile` between two frames | `Reload` |

Geometry is left out: any detection may match any track, and any number may be left
over. A name is what the code compares; two residents may share one, so that a
ghost of one can be taken over by a track of the other. `who`, `current` and
`triedAll` are histories.

### Video and configuration

`VideoSlots` separates the steps at which another thread can come in: the
predicate of a wait (`TestSlot`), the moment the mutex is released in it
(`Block`), the store and the notification (`Publish`, `NotifyMain`; `QuitKey`,
`WakeMain`). A notification wakes only who is asleep. The main thread's
mutex matters at one place: between its test and its sleep (`block`) the capture
thread cannot publish, but `QuitKey` and `OnSignal` store `g_stop` without it.
The camera may drop out and come back at any time; a drop-out kills the open
handle, so that only `Reopen` after the back-off gets images again. The other
threads' work on an image is left out.

`CabinConfig` has `resolve_cabin_config` and `validate_cabin_patch` as operators.
`Init` of `VideoSlots` takes any command line of `Clis` as `parse_args` leaves it
(`Parsed`). Either the configuration is resolved, with no row or any that two valid
patches of `Patches` have left, or it is the command line and the defaults as they
are (`Unresolved`): without a resident database, with one that does not open, and with
`--gst-pipeline`. `config.resolved` is `cabin_resolved`. The capture thread uses the
resulting back-off, in range or not; a double that is no `int` any more is any number
(`Doubled`, with `IntLimit`).

### Association

`FaceTrackAssoc` is the algorithm as the code has it: one row after the other, a
private dummy column for each row (so that a row can stay unmatched), potentials,
the search tree (`Scan` is a round of the inner loop), the path flipped back
(`Augment`). A forbidden pair costs more than the escape of a row, which costs more
than any allowed pair. The infinity `minv` starts from is a model value that no number
reaches (`Less`). The result is compared with all matchings, by definition:
`LinksAreOptimal`. What decides the
cost of a pair and the order of equal ones is left out.

### The database file

`SchemaMigration` is `ResidentDB::open` in several processes. A file is the set of
its tables, columns and version rows, with residents, roles and vectors.
`schema.sql` is run statement by statement, each committed on its own; the
migrations to versions 2 and 3 are transactions, for which SQLite lets one process
in at a time (`holder`, `draft`). `Abandon` is a failing statement or a kill, at any
point. Files of version 1 and 2, with or without residents, and no file at all are
where it starts.

`EnrolTools` adds the batch: `enroll_faces` and `migrate_fdb` with and without
`--replace`/`--overwrite`, on any set of persons. `BEGIN`'s result is ignored as in
the code, so every later statement may be inside the transaction or committed on its
own (`Write`). The tools know persons by name and the database by row, and several
rows may have one name. A lookup (`Found`) gives any of them, or nobody when the
SELECT fails: the tool looks first and `upsert_resident` again, and the two may
disagree. `batch.missed` remembers whom `enroll_faces` took for new although
`upsert_resident` found them. `add_person` writes one resident with `write_resident_enrollment`,
which is `ResidentStore`.

## 3. The runs

| Run | Question | Bounds | Result |
|---|---|---|---|
| `floor_call` | one command for a floor and a resident, floors kept and given back, results of the right request | one visit, two residents, floors 0–2 of which 1–2 are allowed, two commands at most, a queue of one, one broken connection | holds |
| `floor_call_live` | are requests written once and in order, as `FloorCallLifecycle` says? do they, `on_confirmed` and `close()` end? are a finished visit's results harmless? | two visits of one resident, a queue of two, all confirmed at the start, so every timeout can run out before the clock stops | holds |
| `interaction` | streaks, cooldowns, retries and unknown reports | two subjects, two residents, streak 2, cooldown 3, window 2, grace 1, six ticks | holds |
| `recorder` | order, pairing, stopping, closing | three frames of two sizes, queue of two, three ticks | holds |
| `catalog_reload` | is a skipped poll sound, is what is in use whole, does it follow the database? | one resident, two metadata, a good and a malformed embedding, two commits, poll every tick, back-off one or two ticks | holds |
| `outcome_sinks` | are outcomes recorded and sent once, in order, and does the end come? | two outcomes of one resident or nobody, two heartbeats, a queue of two, one failing statement | holds |
| `recognition` | do identities and sessions agree with the catalog in use? | two tracks of at most three matches, two residents with two digests each, detector on every other frame | holds |
| `greedy` | do ids stay unique while ghosts give them to new tracks, and do views and retries follow a reload? | three ids, two tracks at a time, two residents, two names, confirmed by two hits, LOST after one miss, killed after two, retries after two frames and one, ghosts of one frame | holds |
| `video` | order of the frames, reconnection, ranges of the configuration, the end of the threads | two images, one drop-out, reopening after two failed reads, three command lines, three patches (the bounds of the back-off between -1 and 3, in either order), `IntLimit` 8 | holds |
| `video_stop` | does a stop request always end the program? | as `video`, one image | violated |
| `assignment` | is the matching optimal, and why? | all matrices up to 3×3 over small sets of costs with forbidden pairs, any tracks no candidates | holds |
| `tools` | is the file complete after `open`, and is anybody lost? | two processes, two names, three rows of which two share one, two calls of `open` | holds |

Why the bounds suffice. In the floor-call path the interesting cases need two
requests, a second connection to be ambiguous on the first, and a clock that passes
every limit (both limits are one tick). What the two requests meet depends on the
queue: one of one place (`floor_call`) refuses the second while the first is in it,
one of two places (`floor_call_live`) lets both wait, so that the second could
overtake the first when its write fails; a refusal in `floor_call_live` would need a
third request, and giving the floor back has no guard that could keep it waiting. Resident 1 has a fixed floor and resident 2
any floor, so "same floor", "no floor", "floor changed between two
confirmations" and "limit reached" all occur. Two visits matter for late
reports, which need only one request in each. Ack ids wrap at `AckIds`, larger
than the number of writes, as `INT_MAX` is in the code: a repeated id would need
2^31 writes on one connection. `WordSize` = 64 stands for 2^64; it only has to
exceed the clock by more than the age limit, so that a negative difference is
recognised as a large one. `Replies` has the two answers the client treats
differently in what it learns; `duplicate` and `error` follow the same path as
`success`.

In `interaction`, six ticks let a session be confirmed, reaped, reopened and
confirmed again after the cooldown. Keys and residents are symmetric: the order
of faces is not in the model. In `recorder`, three frames are one more than the
queue holds and one more than the pre-roll needs, and two sizes suffice for one
change of resolution.

In `catalog_reload`, two commits suffice to have one between any two steps of a
poll and another before or after it: a poll has one version and one snapshot,
and the connection's number starts again with each connection. One resident can
be inserted, changed, merged, replaced and removed, and its metadata and
embeddings come from different commits if a snapshot is torn. In `recognition`,
two tracks are needed for a duplicate and for a track that is lost while another
is in view; three matches confirm a track (two) and order two by their hits;
two residents let a reload change one and spare the other; time steps of zero
and one let retry, grace and timeout run out in any order.

In `outcome_sinks`, a message being written and two in the queue are enough for
a put-back into a full queue, behind and before a heartbeat; a put-back message
can be dropped again by the next outcome. Two outcomes make up to four jobs, so
that an event, its count and the next event are in any division into batches, and
one failing statement hits any of them.

In `greedy`, a third id is needed for a track that takes over a ghost's while
another is in view, and two names for two residents that share one or do not. In
`video`, one image is enough for a lost wakeup, and the second is the one that is
processed after it; one drop-out has all points at which a read, a back-off or a
reopening can be hit; the patches and command lines leave bounds in the wrong
order, out of range, and in order, among them an upper bound of zero from a patch and
a negative one from the command line, resolved and not; one patch is refused. In `assignment`, an augmenting path with one
change needs two rows, one that ends in a dummy column needs more rows than
allowed columns; 3×3 has paths of two changes. In `tools`, two openings are the
application and the tool side by side, either after the other was killed, or the tool
restarted. Two names are a person whose vector makes the batch worth committing
and one without any; two rows of one name are what a failed lookup leaves behind.

Deadlock is checked in the floor-call runs (`Finished` is the only stop, after
the worker was joined), in `catalog_reload` (`Exited` is the only stop, when
the start-up failed), in `assignment` (`Done` is the only stop) and in `greedy`
(which never stops). In the other components the model stops where its clock, its
frames, its openings or its work end, or the program has, so their configurations
turn it off.

Several properties are conjunctions, so that one run asks one question:
`OneRequestEach` (one request for a resident, one for a floor), `CallsReturn`
(`on_confirmed` and `close()`), `ReportsSpaced` (cooldown of confirmations, window
of unknown reports), `ClipsAreFaithful` (frames once, in order, none skipped),
`CacheIsCurrent` (identities on tracks and sessions). Where a component's type
invariant is proved for every value of the constants (`TypeCorrect`,
`ReloadTypeCorrect`, `InteractionTypeCorrect`; `EdgeInv` and `IInv` of
`EnrolProofs` contain theirs), no run repeats it.

### Fairness

`Fairness` in `FloorCallSystem` assumes that the worker thread is scheduled, that
the frame thread finishes a method it has begun, that a result being reported
reaches the callback, and that time passes. Of the outside it assumes only what
the code itself needs before it can do anything: that a connection attempt
succeeds at last and that the service opens the namespace. It does not assume
that the service ever answers a command, or that the frame thread ever shows
another frame or calls `close()`. While the namespace is not open the code expires
nothing, so without these two assumptions `EveryRequestEnds` would be false.
`FairSpec` of the recorder assumes the same of its worker and of the
calls under way, and nothing of camera and tracker. `FairSpec` of
`CatalogReload` assumes that time passes and the main loop goes on (the timed
wait in `main.cpp` 558–562 wakes it even when no frame comes), and strong fairness
of the steps that can fail: opening the database, reading the version, each
SELECT. They may fail any number of times, but not for ever. It assumes nothing
of the writers. `FairSpec` of `OutcomeSinks` assumes that both workers are
scheduled and that the frame thread finishes an outcome and the shutdown: a
`send` returns after `SO_SNDTIMEO`, a statement after the busy timeout, the
waits are timed. It assumes nothing of the Edge Core. `FairSlotsSpec` of `VideoSlots`
assumes that the three threads are scheduled, that timed waits run out, and that
the capture thread gets the slot's mutex at last when the main thread takes it again
and again (strong fairness of `Capture`). It assumes nothing of keys, signals or
the camera. `Interaction`, `RecognitionLoop`, `GreedyTracker`, `FaceTrackAssoc`
and `EnrolTools` state no liveness: each is driven from outside, and nothing
obliges the camera or whoever starts a tool to go on.

### The disagreements found

* **A stop request nobody hears** (`video_stop`, `src/video_io.cpp:154`). The
  display thread, on a key, and the signal handler (`src/main.cpp:83`) store
  `g_stop` without the mutex of the slot on which the main thread waits, and the
  signal handler notifies nobody. Without the hot reload that wait has no timeout
  (`src/video_io.cpp:46`): when no further frame comes, because the camera is
  gone, the program sleeps on. `.kiro/specs/tracker-upgrade/requirements.md:253`
  says that q, ESC, SIGINT and SIGTERM end the pipeline and hang no join.

These further divergences were met while modelling. Each has a configuration beside
the runs' that checks one property, which TLC finds violated
(`tlc -config MCGreedyInherit.cfg GreedyTracker`, and so on):

* **Fresh commands can expire** (`MCFloorCallExpiry.cfg` of `MCFloorCall`,
  `src/socketio_client.cpp:444`). `now` is read before `mutex_` is taken. A
  command enqueued in between is younger than `now`; `now - enqueued_ms` is
  unsigned and huge, so the command is dropped as EXPIRED. The specification says
  EXPIRED is the end of a command whose time ran out before it was sent
  (`.kiro/specs/auto-floor-call/requirements.md:130`).
* **A floor nobody has called stays taken** (`MCFloorCallFloors.cfg` of `MCFloorCall`,
  `src/floor_call_coordinator.cpp:133-138` and `196-200`). Only the refusal of a full
  queue gives a floor back. One whose command EXPIRED unsent, or which the service
  refused, stays in `floor_request_ids_` to the end of the visit, and another resident
  of that floor is suppressed as `same_floor`. The requirements count a floor as
  requested in five states without EXPIRED and ACKED_ERROR
  (`.kiro/specs/auto-floor-call/requirements.md:50-51`) and let another resident use it
  after an error before sending (R4.4, line 92); R4.1, one command per floor and visit
  (line 88), is what the code keeps to. `FloorReserved` states what the code does.
* **Recognised and unknown** (`MCInteractionUnknown.cfg` of `MCInteraction`,
  `src/interaction.cpp:90`). The window starts with the session, not with the loss of
  the match: a resident who has been there for the window is reported unknown at the
  first frame without a match, which the comment above the code says does not happen
  (86–89).
* **The second identity** (`MCInteractionSwitch.cfg` of `MCInteraction`,
  `src/interaction.cpp:125`). A subject whose matches go from A to B without an
  unmatched frame stays CONFIRMED; B's streak is never confirmed
  (`src/interaction.h:15-17`).
* **Older messages kept for newer ones** (`MCEdgeRequeue.cfg` of `OutcomeSinks`,
  `src/edge_client.cpp:198`). A message whose write failed goes back to the front
  of the queue; if the queue is full, the next oldest is dropped for it. With a
  heartbeat this loses an event to keep a ping
  (`.kiro/specs/edge-core-uds/requirements.md:171-172`: the oldest packet is
  dropped).
* **A clip that does not stop** (`MCRecorderResize.cfg` of `EventVideoRecorder`,
  `src/event_video_recorder.cpp:230`). A change of resolution clears
  `last_person_ms_` and restarts the session on `person_present_` alone; if the
  person is gone before the tracker reports again, the empty timeout never
  starts (`README.md:172`).
* **A name that outlives its resident** (`MCGreedyInherit.cfg` of `GreedyTracker`,
  `src/tracker_greedy.cpp:80`). `record_recognition` may give the track the id of a
  ghost, and the resident is then stored under the id the track had before. A reload
  does not find it, and the track keeps the name of a resident who was removed
  (`.kiro/specs/resident-hot-reload/requirements.md:126`).
* **Taken for new** (`MCEnrolLookup.cfg` of `MCEnrolTools`,
  `src/enroll_faces.cpp:184`). `find_resident` answers -1 also when the SELECT fails
  (`src/resident_db.cpp:646-651`). If the lookup of `upsert_resident` then finds the
  resident and none of the images is of use, the tool removes the resident it believes
  it has created, which `enroll_faces.cpp:181-183` ("without deleting a pre-existing
  resident") excludes. `ResidentsSurvive` exempts exactly these residents
  (`batch.missed`). If the second lookup fails as well, a second row of the name is
  inserted.
* **Not left unchanged** (`MCEnrolReplace.cfg` of `MCEnrolTools`,
  `src/enroll_faces.cpp:254-255`). With `--replace` the vectors are cleared before
  the images are looked at: a person none of whose images is of use has lost them
  when the tool prints "existing resident left unchanged".
* **Half a schema** (`MCSchemaCrash.cfg` of `MCEnrolTools`, `src/resident_db.cpp:85-87`).
  The script is committed statement by statement. Killed after the first table, it is
  never run again, since `open` takes the table `residents` for the whole schema
  (`src/resident_db.h:107-108`).
* **A patch that turns the bounds round** (`MCVideoConfig.cfg` of `MCVideo`,
  `src/cabin_config.cpp:116-119` and `160-162`). A patch of `reconnect_max_ms` alone is
  not looked at, so zero passes; the minimum is raised to 1 before the bounds are put
  in order, not after, and the swap leaves a `reconnect_min_ms` of zero
  (`.kiro/specs/cabin-runtime-config/requirements.md:143`: at least 1). A
  `--reconnect-max-ms` below 1 does the same. `ConfigInRange` says that there is no
  other way out of range. It is about resolved configurations: without a database that
  opens, or with `--gst-pipeline`, the command line is used as it is, nothing is clamped
  and the bounds may be in either order (`src/main.cpp:116-127` and `161-163`).

## 4. The proofs

### The floor-call path

These theorems are about `Spec` of `FloorCallSystem` and hold for every set of
residents and floors, every limit, timeout, queue size, and any bound of the
model. They use the assumptions named in the modules
(`CoordinatorAssumption`, `TransportAssumption`, `SystemAssumption`, and those
that keep the model values apart from the data), which TLC evaluates on every
run.

`SystemInvariant` is the induction. None of the safety properties is inductive
alone:

* `InFlightIsHead` needs to know where the worker is while it holds a copy of
  the head (`HeadInv`): only the worker takes commands out,
  and the copy it writes is still the head because `enqueue_floor` appends.
* `SystemTypeOK` contains the bound of the sequence number. The code bounds
  the *number of records*, so `CoordinatorInv` says that the records of a visit
  are exactly the sequence numbers given out (`ShapeOf`), and
  `CommandCountIsSequence` counts them.
* `OneCommandPerFloor` relates two histories. It needs that the request being
  handed over is still "queued" and unknown to the transport (`HandOverInv`),
  that an accepted request of the current visit has a record that is not
  rejected (`AcceptedInv`), and that such a record holds its floor
  (`ReservedIn`). Then a second request for the floor finds it taken. The
  results the worker reports never reject an accepted request, because the worker
  never says "rejected".
* `OneRequestPerResident` needs that an issued request of the current visit has
  decided its resident, and that later visits have larger numbers (`IssuedInv`).

`FloorCallProofs` first shows what each operation of the two components preserves,
then joins them, with one lemma for each action of the composed system, and derives
the theorems listed in `PROJECT.json`. `ReportTouchesItsCommand` is an action property derived from the
invariant.

The rest of the module builds on `SystemInvariant`, in four parts:

* *The line.* `LineInv`: the accepted requests are distinct, the queue is the end of
  them (`QueueIsSuffix`), what is in the queue has no end yet (`FateInv`), and what
  was written lies before `Behind`, the place of the next command to write
  (`WrittenInv`). A write appends the element at `Behind`, so `WrittenOnceInOrder`
  follows (`WritesAreOnceInOrder`). The same invariant is what each step needs to be
  a step of `FloorCallLifecycle`, or to leave `Line` and `Status` alone: with
  `LineInit` this is the refinement, `LifecycleIsImplemented`.
* *Freshness.* Ages are subtracted modulo `WordSize`. `WritesAreFresh` needs that the
  word is larger than the clock by more than the age limit (`TransportAssumption`):
  then an entry that is newer than the reading of the clock looks expired and one that
  does not is really fresh.
* *Truth.* `TruthInv` follows a success back: the history from the answer, the answer
  from what the service selected, that from what was written; and a request expires
  only from the queue, before it was written. `RefusedInv`: a refused request keeps
  its record in the visit, as "rejected", so it is never handed over again.
  `ResultsAreTruthful` combines the two with the line.
* *Records.* `StepInv`: the results on their way are of different requests, each says
  what the history says (`Expected`) and finds its record open; all other records are
  right already. It holds because the worker takes no step while it has results to
  report, and because a request ends once. This is `CoordinatorStaysInStep`.

With these, every safety property of the floor-call runs is proved.

### Interaction

`InteractionProofs` is about `Spec` of `Interaction`, for any subjects, residents,
streak and times (`InteractionAssumption`). The properties are about histories, and
`IInv` ties these to what the code keeps: no confirmation of a resident is later than
`lastConfirmed` (`ConfirmsBounded`), nothing is remembered of the future
(`PastOnly`), an unknown report lies before the session or has set `unknownEmitted`
(`ReportedBefore`), and a CONFIRMED session has greeted somebody
(`ConfirmedGreeted`). A frame changes all sessions at once; the lemmas follow one
session through its reaping, opening, match and reports. The cooldown survives the
session because `lastConfirmed` is kept by resident, and `Confirming` picks at most one
subject for each resident. `ReportsAreSpaced` and `StreaksAreConfirmed` follow.

`EvidenceInv` says what a streak means by counting back from the end of a subject's
last matches: as many of them as the streak says name the resident, and the one
before does not (`Follows`). A frame either goes on with the run or begins one
(`RunGoesOn`); unmatched frames, reaping and reloads end it. Counting the run gives
`StreaksAreEvidence`. `NobodyAssumption` only says that the absent session is not a
session.

### The reloader

`ReloadProofs` is about `Spec` of `CatalogReload`, for any residents, metadata,
embeddings, intervals and number of commits (`StoreAssumption`,
`ReloadAssumption`). `ReloadInv` is the induction; neither `SkipIsSound` nor
`RuntimeIsWhole` is inductive alone:

* The number of the connection is at most one more than the counter it has seen
  (`ReaderInv`), so it never leaves its type and grows with every commit it
  notices.
* While a poll is under way, its version is at most the connection's number, and
  as long as the counter stands where the snapshot found it, the snapshot is the
  database (`PollInv`). The snapshot itself is always the outcome of whole
  enrolments, since a read transaction sees committed content only.
* If the accepted version is still the connection's number and the counter has
  not moved, the catalog in use is the database (`AcceptedInv`). Accepting the
  version read *before* the snapshot keeps this: a commit in between makes the
  number larger than the version, and the next poll scans again for nothing.
  Accepting a later number would break it, which is the mutant of `SkipIsSound`.

`SkipNeverMisses`, `RuntimeAlwaysWhole` and `UnchangedNeverReloads` (a candidate
always differs from what is in use) follow. The lemmas on `Content`
(functions from some residents to rows) are `ContentIntro`, `ContentElim`,
`WithRow` and `WithEmbeddings`; `WriterStep` says what any step of a writer does
to what a reader can see, so that `StorePreserves` needs no case for each.

### The Edge client and the table

`EdgeProofs` is about `Spec` of `OutcomeSinks`, for any queue size, back-off and
number of messages (`EdgeAssumption`). `EdgeCountedFifo` is about one long
sequence, and the induction (`EdgeInv`) takes it apart: each of the four parts
ascends (`Ascending`), every part comes before the next ones (`Before`), and
nothing has a number that is still to be given (`Below`, which makes a new message
the newest). `ConcatOrder` says how these compose under concatenation, so that a
step that moves a message between two parts needs no argument about
indices. A put-back keeps the order because the message taken was the head,
so everything queued since is newer. The count needs where the worker is
(`CountInv`): messages are lost uncounted only in the flush, which begins after
`stop_` is set.

The second half of `EdgeProofs` is about the resident database in the same system, for
any number of jobs, faults and connections (`WriterAssumption`). `TableInv` sees one
line: what is stored, what the open transaction holds, the batch in the worker's hand
and the queue. A number is on it once and in order (`TableOrder`), across retries and
the rollback of a transaction, and `ControlInv` says which parts may be filled while
the threads are where they are. `PairInv` speaks of the line as long as no fault has
happened: each event of it is followed by the touch of its resident (`Paired`,
`Touched`), except that the last may still be without one while the frame thread is
between the two calls (`Pending`). So when everything is stored there are as many
touches as events, which is `TableFollowsEvents`; the places of the two are compared
by an injection, not counted. What the writer leaves in the queue is `Without`, a
recursive function, whose equation is proved once (`WithoutByTurn`).

### The database file

`EnrolProofs` is about `Spec` of `EnrolTools`, for any processes, persons and calls of
`open`. `IInv` has three parts that hold only together. Every committed file and every
draft is sound: a version row implies what that version promises, and each version the
ones before (`FilesSound`). The place of a process says what it has seen committed
(`PlacesSound`), which nobody takes back, since a file's schema only grows. And a
draft keeps every resident, role and vector of the start, except between the DROP and
the RENAME of version 3, when the copy has them (`DraftKept`). The tool clears only
when it was asked to, and `enroll_faces` removes only whom it has created or whom its
own lookup missed (`ToolSound`): a row that `upsert_resident` inserts was not in the
file, and one that it finds is either known to the tool or in `batch.missed`. Whoever is in the tool
or ready is past `open`; `OpenedWorksOnLatest` and `NobodyIsLost` follow.

### Recognition

`RecognitionProofs` is about `Spec` of `RecognitionLoop`, for any residents, number of
tracks and limits (`TrackerAssumption`, `LoopAssumption`). A frame changes a whole
table, but each call changes a track in one of a few ways. `GoesOn` says of one track
what a prediction, a match, a miss, a removal may do to it: it keeps its identity, or it
ends, or it was never confirmed. `RecordedSound` and `ForgottenSound` say what
recognition and reconciliation do. The lemmas on the fields (`SetState` to
`ForgottenFields`) reduce each of these to arithmetic on single fields, and `TracksGoOn`
lifts them to the table and the cache.

`CacheIsCurrent` and `AdditionsAreTried` need `ModeInv`: with a tracker there is no
session under key 0, without one there are no tracks; and a track with a session has
been confirmed once. Without the latter a track confirmed only now could take over a
session that has an identity, and the view would name someone the track was not
compared with. `ReloadSparesOthers` and `SeenStaysTracked` are action properties from
the same invariant. The latter needs that of two overlapping tracks the stronger stays:
`DuplicatesByTurn` is the equation of the recursive function that removes duplicates,
and `DuplicatesAreOutdone` that a track is only removed for one that is kept.
`TrackerAssumption` asks for `MaxHits` of at least 1; a count of hits that cannot count
would confirm a track at its birth.

### The greedy tracker

`TrackingProofs` is about `Spec` of `GreedyTracker`, for any residents and names, any
number of tracks and thresholds (`GreedyAssumption`). Its three invariants are not
inductive alone. `ViewIsCurrent` speaks of the resident's id the adapter keeps by track
id, and ids move: a track that is recognised by the name of a ghost takes over the
ghost's id in the middle of a frame. If the adapter still had a resident under that id,
the track would show him. `TrackerInv` therefore says

* of a ghost (`GoodGhost`): its id is below the next one, and the adapter has no
  resident under it. It held one while the track lived; `LiveResidents` drops it in the
  same update in which the track is killed;
* of tracks and ghosts together (`IdsApart`): no two have the same id.
  `try_inherit_identity` does not check that the id it takes is free; this is why it is;
* of a track (`GoodTrack`): ids below the next one and states that fit the count of
  misses (`Fine`), the resident shown under a known name is who was recognised and is
  still in the catalog by that name (`Shown`), and a track that was compared and
  shows nobody was compared with all (`Tried`).

The state is two sequences of records, so most lemmas say what a step does to one field
of one element (`RecordByFields` to the lemmas on `Aged`, `Hit`, `Missed`), and that
selecting places of a sequence and joining two keeps what holds of each element and
keeps ids apart (`At`). `NameIsCurrent`, which also looks at the name, stays false for
the reason given under "A name that outlives its resident". `LostMissed` is at least 1
(it is 3 in the code): with 0 a confirmed track would be lost before it misses an update.

### Association

`TrackingProofs` is also about `AssocSpec` of `FaceTrackAssoc`, for any matrix of
integers and forbidden pairs that is not ragged (`AssocAssumption`), so for any number
of faces and tracks. `LinksStayOptimal` is the promise of the solver itself.

A pair's *slack* is its cost without its two potentials. `PotentialsAreFeasible` speaks
of the time between two rows; `AssocInv` carries it through the search and the path:

* `RowInv`, between two rows: no slack of a row inserted so far is negative
  (`Feasible`), each of these rows has one column (`Placed`), and a column that is taken
  has no slack, a free one no price (`Paid`);
* `ScanInv`, in the search: `minv` is the smallest slack of a column towards the rows on
  the tree, and `way` says towards which (`Searched`). This is what makes `Reduced`
  necessary: with it `minv` stays true when the potentials move, without it the next
  step would be too long and a slack negative. In the first round the new row's
  slacks may still be negative; the first step raises its potential (`FirstRound`);
* `AugmentInv`, on the path: a column that is still to be passed was reached over a pair
  without slack (`Reached`). That the path ends, and passes no column twice, needs
  the depth of a column in the tree; the code has no such number, so the invariant says
  that there is one (`Ranked`).

From `RowInv` after the last row, `LinksCostLeast` argues over sums: give any other
matching's unmatched rows the dummy columns beside it (`Cover`). A row pays no less
for its column there than its two potentials, and exactly that for its own (`Place`);
prices are not positive, and zero for the columns that are left, so the prices of any
columns sum up to no less than those of the result (`PricesOfRows`). A row given
a forbidden pair or a dummy column counts as unmatched; that is no dearer only because
a forbidden pair costs no less than the escape, which is all that is asked of
`BlockedCost`. The argument is exact; that rounding of floating point
numbers leaves it intact is not claimed.

### The recorder

The first part of `VideoProofs` is about `Spec` of `EventVideoRecorder`, for any size of
the pre-roll and of the queue, any frames, sizes, times and losses (`RecorderAssumption`). As with
the outcomes, everything still to be handled is one line: the queue and what the call
under way has yet to put there. A call appends, the worker takes the head, and a full
queue loses a frame from the middle.

* `OrderInv`: frames on the clips are older than those of the line, these than the
  pre-roll, these than the frame in the capture thread's hand.
* `SessionInv`: every frame of the line follows the Start of its session or a frame of
  it (`Chained`). This is what survives the loss of *any* frame, since the control items
  are never lost; "a frame is preceded by its Start" is not inductive. `InStep` says
  that the flag the calls look at is what the end of the line says, so that it and the
  worker agree when the line is empty; it needs that the pre-roll is empty while a
  session is active, and that nothing is active once `close` has asked for the end.
* `PersonInv`: what the caller remembers of the last person is what the recorder
  remembers, except after a change of resolution.

`RecorderIsTyped` includes the limit of the queue: a frame enters only after one has
left, and the number of frames is compared by injections (`Lacks`).
`ClipsFaithful`, `ControlsInStep` and `StopsWhenEmptyHolds` follow.

### Video and configuration

The rest of `VideoProofs` is about `CabinConfig` and `SlotsSpec` of `VideoSlots`, for any
command lines and patches of numbers, any number of images and drop-outs (`ConfigAssumption`,
`VideoAssumption`).

R4 does not hold as it is written, see "A patch that turns the bounds round" above.
`RangeIsTheMaximum` says exactly how far it fails: whatever the
command line and the row, the resolved values are in range if and only if the
`reconnect_max_ms` that was chosen is at least 1. No clamp and no patch check looks at
this value, and all others are brought into range. `ConfigIsInRange` carries this to the
program: it holds for every command line and any two valid patches, and says nothing of
a configuration that is not resolved. `VideoIsTyped` holds for either kind: a pause is the
lower bound or at most the upper one, in whatever order they are, and never shorter than
the lower one if they are in order and their double is an `int` (`BackoffOK`).

`OnlyNewer` holds with any configuration. `VideoInv` follows the number of an image: the
capture slot counts like the camera, and the recorder is never behind it
(`CaptureInv`); the main thread is not ahead of the slot, and the display slot has what the
main thread last saw unless that is still to be drawn (`MainInv`); the display thread is
behind in sequence numbers exactly when it is behind in images (`ShowInv`). The last is
why a test of the sequence number alone is enough, although the display slot counts
draws and the capture slot counts images.

### Recursion and induction

The induction theorems of the library take an operator as a parameter, which the
provers cannot instantiate. What is needed of recursive functions is proved by a least
counterexample instead (`Least`, `LeastOf`, from the well-foundedness of `<` on the
naturals): the definition by recursion is a function that satisfies its equation
(`DuplicatesByTurn`, `WithoutByTurn`, `SumsByTurn`), and a set of naturals that is not empty has a
least element.

### Only model-checked

Liveness (out of the prover's reach): `EveryRequestEnds`, `CallsReturn`,
`CloseFinalizes`, `Converges`, `QuitEnds`, `ReconnectsWhenBack`,
`StopEnds`. Every invariant and every other action property a run checks is proved.

## 5. The plan

In this order, the most important behaviour first:

1. *(done)* The floor-call path, with its abstract specification and proofs;
   `Interaction`; `EventVideoRecorder`; `ResidentStore` and `CatalogReload`, with
   proofs; `ByteTracker` and `RecognitionLoop`; `EdgeClient`, `ResidentDbWriter` and
   `OutcomeSinks`, with proofs for the former.
2. *(done)* The greedy tracker with its ghosts; face–track association against the
   definition of an optimal matching.
3. *(done)* `VideoSlots` with `CabinConfig`: condition variables, the stop flag, the
   configuration. `SchemaMigration` and `EnrolTools`: several processes on one file.
4. *(done)* Proofs: the refinement of `FloorCallLifecycle` and the rest of the
   floor-call path, `Interaction`, `EnrolTools`.
5. *(done)* Proofs: `RecognitionLoop`, the recorder, `TableFollowsEvents`, `OnlyNewer`
   and the configuration; `GreedyTracker`; that the assignment of `FaceTrackAssoc` is
   optimal.
6. `GreedyTracker` in the place of `ByteTracker` in the frame of `RecognitionLoop`,
   with its sessions: now each has its own reload.

## 6. What is not modelled, and why

* *Match engine and face database*, *detection and recognition models*, the *Kalman
  filter*: floating point on vectors, tensors and boxes. What they compute is a free
  choice in the modules of the frame (which resident a face matches, which
  detection is whose, which boxes overlap).
* *Logger*, *metrics*, *overlay*: nothing in the program depends on what they hold.
  The logger writes under a mutex of its own and takes no other there.
* `app_config` reads the command line once; `CabinConfig` starts from what it
  found, with the one value it raises (`Parsed`). The other modules assume limits in
  range, which a negative cooldown of a command line that is not resolved would not be. `capture_person` writes images, `probe_models` prints the tensors of a model:
  neither touches the database. The other tools are modelled by what they do to it.
* `deploy/face_core` is another program; `EdgeClient` has the connection to it.
* File names, encoders, disk space, SQL text, JSON text and drawing carry no state the
  properties are about.
* A restart of the program on the floor-call path: nothing of it is persisted, and
  the visit numbers restart at 1 (a hazard whose effect depends on the elevator
  service). Restarts are modelled where something is persisted: `SchemaMigration`,
  `EnrolTools`, `ResidentStore` and `OutcomeSinks`.
