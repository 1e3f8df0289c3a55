------------------------- MODULE EventVideoRecorder -------------------------
(***************************************************************************)
(* Clips of the cabin while somebody is in it, from                        *)
(* src/src/event_video_recorder.cpp.  Three threads meet here: the capture *)
(* thread brings every frame (push_frame), the inference thread says       *)
(* whether the tracker sees a person (set_person_present) and closes the   *)
(* recorder at the end, and the recorder's own worker writes the files.    *)
(* The first two hold state_mutex_ for a whole call, and the calls put     *)
(* their work into the queue item by item: "todo" is what the call under   *)
(* way has still to enqueue.  The reset of a decreasing timestamp is left  *)
(* out: both callers read the steady clock.                                *)
(***************************************************************************)
EXTENDS Integers, Sequences, FiniteSets

CONSTANTS
  Sizes,        \* frame sizes of the camera
  PreRoll,      \* pre_roll_ms, in clock ticks
  MaxPreRoll,   \* frames kept before a session: ceil(fps * pre_roll) + 2
  MaxQueued,    \* max_queued_frames_: ceil(fps) + 2
  EmptyStop,    \* empty_stop_ms, in clock ticks
  MaxFrames,    \* bound of the model: frames the camera delivers
  MaxClock,     \* bound of the model: the clock stops there
  NoFrame       \* a model value: the capture thread holds no frame

ASSUME RecorderAssumption ==
  /\ PreRoll \in Nat /\ EmptyStop \in Nat
  /\ MaxPreRoll \in Nat \ {0} /\ MaxQueued \in Nat \ {0}
  /\ MaxFrames \in Nat /\ MaxClock \in Nat

Picture == [n : 1 .. MaxFrames, at : 0 .. MaxClock, size : Sizes]
Item == [type : {"frame"}, frame : Picture]
          \cup [type : {"start"}, size : Sizes]
          \cup [type : {"stop", "shutdown"}]

ASSUME NoFrameAssumption == NoFrame \notin Picture

VARIABLES
  clock,        \* steady_clock
  taken,        \* frames read from the camera so far
  camera,       \* the frame the capture thread is about to push, or NoFrame
  preRoll,      \* pre_roll_
  present,      \* person_present_
  lastPerson,   \* last_person_ms_
  active,       \* session_active_
  sessionSize,  \* session_source_size_, only meaningful while active
  closing,      \* how far close() is: "no", "closed" (closed_), "ending", "join"
  todo,         \* items the call that holds the lock has still to enqueue
  queue,        \* work_queue_
  worker,       \* "idle", "open" (the writer is opened), "failed" to open it,
                \* or "exited"
  clips,        \* the files: their frames, and whether they are finalized
  dropped,      \* history: frames enqueue threw away
  skipped,      \* history: frames write_frame ignored in a session with a file
  seenAt,       \* history: when the tracker last saw a person, or -1
  resized       \* history: the session began with a change of resolution and
                \* the tracker has not seen a person since

callerVars == <<preRoll, present, lastPerson, active, sessionSize, seenAt,
                resized>>
workerVars == <<worker, clips, skipped>>
vars == <<clock, taken, camera, callerVars, closing, todo, queue, workerVars,
          dropped>>

RecorderTypeOK ==
  /\ clock \in 0 .. MaxClock
  /\ taken \in 0 .. MaxFrames
  /\ camera \in Picture \cup {NoFrame}
  /\ preRoll \in Seq(Picture) /\ Len(preRoll) <= MaxPreRoll
  /\ present \in BOOLEAN /\ active \in BOOLEAN /\ resized \in BOOLEAN
  /\ lastPerson \in -1 .. MaxClock /\ seenAt \in -1 .. MaxClock
  /\ sessionSize \in Sizes
  /\ closing \in {"no", "closed", "ending", "join"}
  /\ todo \in Seq(Item) /\ queue \in Seq(Item)
  /\ Cardinality({i \in 1 .. Len(queue) : queue[i].type = "frame"}) <= MaxQueued
  /\ worker \in {"idle", "open", "failed", "exited"}
  /\ clips \in Seq([size : Sizes, frames : Seq(Picture), final : BOOLEAN])
  /\ dropped \subseteq Picture /\ skipped \subseteq Picture

Init ==
  /\ clock = 0 /\ taken = 0 /\ camera = NoFrame
  /\ preRoll = <<>> /\ present = FALSE /\ lastPerson = -1
  /\ active = FALSE /\ sessionSize \in Sizes
  /\ closing = "no" /\ todo = <<>> /\ queue = <<>>
  /\ worker = "idle" /\ clips = <<>>
  /\ dropped = {} /\ skipped = {}
  /\ seenAt = -1 /\ resized = FALSE

-----------------------------------------------------------------------------
FrameItem(p) == [type |-> "frame", frame |-> p]
StartItem(s) == [type |-> "start", size |-> s]
StopItem == [type |-> "stop"]
ShutdownItem == [type |-> "shutdown"]

\* The frames from the first that is recent enough; one loop of buffer_frame
\* and the one of set_person_present.
Recent(frames, now) ==
  LET recent == {k \in 1 .. Len(frames) : frames[k].at >= now - PreRoll}
      first == CHOOSE k \in recent : \A j \in recent : k <= j
  IN IF recent = {} THEN <<>> ELSE SubSeq(frames, first, Len(frames))

\* Both loops of buffer_frame.
Fresh(frames, now) ==
  LET recent == Recent(frames, now)
      n == Len(recent)
  IN SubSeq(recent, IF n > MaxPreRoll THEN n - MaxPreRoll + 1 ELSE 1, n)

Buffered(frames, p) ==
  Fresh(Append(IF frames # <<>> /\ frames[Len(frames)].size # p.size
               THEN <<>> ELSE frames, p), p.at)

\* Slip: start_session leaves the pre-roll where it is.
StartKeepsPreRoll(frames, size) ==
  /\ preRoll' = frames
  /\ active' = TRUE /\ sessionSize' = size

\* start_session: the pre-roll moves into the queue.
Start(frames, size) ==
  /\ preRoll' = <<>>
  /\ active' = TRUE /\ sessionSize' = size

StartItems(frames, size) ==
  <<StartItem(size)>> \o [i \in 1 .. Len(frames) |-> FrameItem(frames[i])]

\* Slip: session_active_ is tested after it was cleared.
EndingForgotten == <<>>

\* stop_session: a Stop, if a session is active.
Ending == IF active THEN <<StopItem>> ELSE <<>>

LockFree == todo = <<>>

-----------------------------------------------------------------------------
(* The capture thread reads a frame and its time, then calls push_frame.    *)

TakePicture(size) ==
  /\ camera = NoFrame /\ taken < MaxFrames
  /\ taken' = taken + 1
  /\ camera' = [n |-> taken + 1, at |-> clock, size |-> size]
  /\ UNCHANGED <<clock, callerVars, closing, todo, queue, workerVars, dropped>>

PushIgnored ==
  /\ LockFree /\ camera # NoFrame /\ closing # "no"
  /\ camera' = NoFrame
  /\ UNCHANGED <<clock, taken, callerVars, closing, todo, queue, workerVars,
                 dropped>>

\* Not recording, or the resolution has changed: the frame is buffered, and
\* starts a session if somebody is in the cabin.
PushOutsideSession ==
  /\ LockFree /\ camera # NoFrame /\ closing = "no"
  /\ ~active \/ camera.size # sessionSize
  /\ LET frames == Buffered(preRoll, camera)
     IN IF present
        THEN /\ Start(frames, camera.size)
             /\ todo' = Ending \o StartItems(frames, camera.size)
        ELSE /\ preRoll' = frames
             /\ active' = FALSE /\ UNCHANGED sessionSize
             /\ todo' = Ending
  /\ lastPerson' = IF active THEN -1 ELSE lastPerson
  /\ resized' = active
  /\ camera' = NoFrame
  /\ UNCHANGED <<clock, taken, present, seenAt, closing, queue, workerVars,
                 dropped>>

\* Slip: the time without a person is counted from the frame before.
EmptyTimeoutLate(now) ==
  ~present /\ lastPerson >= 0 /\ now - lastPerson > EmptyStop

EmptyTimeout(now) ==
  ~present /\ lastPerson >= 0 /\ now - lastPerson >= EmptyStop

PushInSession ==
  /\ LockFree /\ camera # NoFrame /\ closing = "no"
  /\ active /\ camera.size = sessionSize
  /\ IF EmptyTimeout(camera.at)
     THEN /\ active' = FALSE /\ lastPerson' = -1
          /\ todo' = <<FrameItem(camera)>> \o Ending
     ELSE /\ todo' = <<FrameItem(camera)>>
          /\ UNCHANGED <<active, lastPerson>>
  /\ camera' = NoFrame
  /\ UNCHANGED <<clock, taken, preRoll, present, sessionSize, seenAt, resized,
                 closing, queue, workerVars, dropped>>

-----------------------------------------------------------------------------
(* The inference thread: set_person_present with the time of its frame.     *)

PersonLeft ==
  /\ LockFree /\ closing = "no" /\ present
  /\ present' = FALSE
  /\ UNCHANGED <<clock, taken, camera, preRoll, lastPerson, active, sessionSize,
                 seenAt, resized, closing, todo, queue, workerVars, dropped>>

PersonSeen ==
  /\ LockFree /\ closing = "no"
  /\ present' = TRUE
  /\ lastPerson' = clock /\ seenAt' = clock
  /\ LET frames == Recent(preRoll, clock)
     IN IF ~active /\ frames # <<>>
        THEN /\ Start(frames, frames[Len(frames)].size)
             /\ todo' = StartItems(frames, frames[Len(frames)].size)
        ELSE /\ preRoll' = frames
             /\ UNCHANGED <<active, sessionSize, todo>>
  /\ resized' = FALSE
  /\ UNCHANGED <<clock, taken, camera, closing, queue, workerVars, dropped>>

\* close(), after the main loop; stop_session runs without state_mutex_.
CloseBegins ==
  /\ LockFree /\ closing = "no"
  /\ closing' = "closed"
  /\ UNCHANGED <<clock, taken, camera, callerVars, todo, queue, workerVars,
                 dropped>>

CloseStops ==
  /\ closing = "closed"
  /\ closing' = "ending"
  /\ todo' = Ending
  /\ active' = FALSE
  /\ lastPerson' = IF active THEN -1 ELSE lastPerson
  /\ UNCHANGED <<clock, taken, camera, preRoll, present, sessionSize, seenAt,
                 resized, queue, workerVars, dropped>>

CloseEnds ==
  /\ closing = "ending" /\ LockFree
  /\ closing' = "join"
  /\ todo' = <<ShutdownItem>>
  /\ UNCHANGED <<clock, taken, camera, callerVars, queue, workerVars, dropped>>

-----------------------------------------------------------------------------
(* enqueue: a frame that finds the queue full pushes the oldest frames out. *)

\* Slip: one frame too many is kept.
RoomOffByOne(items, item) ==
  LET frames == {i \in 1 .. Len(items) : items[i].type = "frame"}
      oldest == CHOOSE i \in frames : \A j \in frames : i <= j
  IN IF item.type = "frame" /\ Cardinality(frames) > MaxQueued
     THEN SubSeq(items, 1, oldest - 1) \o SubSeq(items, oldest + 1, Len(items))
     ELSE items

Room(items, item) ==
  LET frames == {i \in 1 .. Len(items) : items[i].type = "frame"}
      over == item.type = "frame" /\ Cardinality(frames) >= MaxQueued
      oldest == CHOOSE i \in frames : \A j \in frames : i <= j
  IN IF over THEN SubSeq(items, 1, oldest - 1) \o SubSeq(items, oldest + 1, Len(items))
     ELSE items

Pictures(items) == {items[i].frame : i \in {j \in 1 .. Len(items) :
                                              items[j].type = "frame"}}

Enqueue ==
  /\ todo # <<>>
  /\ queue' = Append(Room(queue, Head(todo)), Head(todo))
  /\ dropped' = dropped
                  \cup (Pictures(queue) \ Pictures(Room(queue, Head(todo))))
  /\ todo' = Tail(todo)
  /\ UNCHANGED <<clock, taken, camera, callerVars, closing, workerVars>>

-----------------------------------------------------------------------------
(* worker_loop.  It takes an item under queue_mutex_ and handles it.        *)

\* Slip: a file without a frame is not renamed.
FinalizedIfShot(cs) ==
  IF worker = "open" /\ cs[Len(cs)].frames # <<>>
  THEN [cs EXCEPT ![Len(cs)].final = TRUE] ELSE cs

\* finish_segment
Finalized(cs) ==
  IF worker = "open" THEN [cs EXCEPT ![Len(cs)].final = TRUE] ELSE cs

\* open_segment; the directory or the file may not be writable.
WorkStart ==
  /\ queue # <<>> /\ Head(queue).type = "start"
  /\ queue' = Tail(queue)
  /\ \/ /\ worker' = "open"
        /\ clips' = Append(Finalized(clips),
                           [size |-> Head(queue).size, frames |-> <<>>,
                            final |-> FALSE])
     \/ /\ worker' = "failed"
        /\ clips' = Finalized(clips)
  /\ UNCHANGED <<clock, taken, camera, callerVars, closing, todo, dropped,
                 skipped>>

WorkFrame ==
  /\ queue # <<>> /\ Head(queue).type = "frame"
  /\ queue' = Tail(queue)
  /\ LET p == Head(queue).frame
         n == Len(clips)
         fits == worker = "open" /\ p.size = clips[n].size
     IN /\ clips' = IF fits THEN [clips EXCEPT ![n].frames = Append(@, p)] ELSE clips
        /\ skipped' = IF worker # "failed" /\ ~fits THEN skipped \cup {p} ELSE skipped
  /\ UNCHANGED <<clock, taken, camera, callerVars, closing, todo, worker,
                 dropped>>

WorkStop ==
  /\ queue # <<>> /\ Head(queue).type \in {"stop", "shutdown"}
  /\ queue' = Tail(queue)
  /\ clips' = Finalized(clips)
  /\ worker' = IF Head(queue).type = "shutdown" THEN "exited" ELSE "idle"
  /\ UNCHANGED <<clock, taken, camera, callerVars, closing, todo, dropped,
                 skipped>>

Worker == worker # "exited" /\ (WorkStart \/ WorkFrame \/ WorkStop)

Tick ==
  /\ clock < MaxClock
  /\ clock' = clock + 1
  /\ UNCHANGED <<taken, camera, callerVars, closing, todo, queue, workerVars,
                 dropped>>

Next ==
  \/ \E size \in Sizes : TakePicture(size)
  \/ PushIgnored \/ PushOutsideSession \/ PushInSession
  \/ PersonSeen \/ PersonLeft
  \/ CloseBegins \/ CloseStops \/ CloseEnds
  \/ Enqueue \/ Worker \/ Tick

Spec == Init /\ [][Next]_vars

(***************************************************************************)
(* The worker and a call that has begun are scheduled; nothing makes the   *)
(* camera deliver, the tracker change its mind or the program end.         *)
(***************************************************************************)
FairSpec ==
  /\ Spec
  /\ WF_vars(Worker) /\ WF_vars(Enqueue) /\ WF_vars(CloseStops) /\ WF_vars(CloseEnds)

-----------------------------------------------------------------------------
(* Properties.                                                              *)

Recorded == UNION {{<<c, i>> : i \in 1 .. Len(clips[c].frames)} : c \in 1 .. Len(clips)}
Shot(pos) == clips[pos[1]].frames[pos[2]].n

\* A frame is in at most one clip, once, and the clips show the frames in
\* the order they were taken, although pre-roll, sessions and drops overlap.
FramesOnceInOrder ==
  \A a, b \in Recorded :
    a[1] < b[1] \/ (a[1] = b[1] /\ a[2] < b[2]) => Shot(a) < Shot(b)

\* write_frame ignores no frame of a session whose file could be opened (156):
\* every frame comes after the Start of its session and has its size, and
\* no Stop is in between, whatever the queue threw away.
NoFrameSkipped == skipped = {}

\* The clips are what the camera saw: the two together.
ClipsAreFaithful == FramesOnceInOrder /\ NoFrameSkipped

\* recording() agrees with the last control item: the worker's state is
\* where the calls left it, once the queue is drained.
ControlInStep ==
  LET ahead == queue \o todo
      controls == {i \in 1 .. Len(ahead) : ahead[i].type # "frame"}
  IN closing = "no" =>
       /\ controls = {} => (worker \in {"open", "failed"} <=> active)
       /\ \A i \in controls :
            (\A j \in controls : j <= i) => (ahead[i].type = "start" <=> active)

\* A frame has been handled, the session goes on, and nobody has been there
\* for empty_stop_ms.
Overdue ==
  /\ active /\ ~present
  /\ \E p \in Pictures(todo) : p.at - seenAt >= EmptyStop

\* A clip never outlives an empty cabin (245-248), whatever the two threads do.
\* A session that a change of resolution restarted is excepted: it forgot
\* when the person was seen (92, 230).
StopsWhenEmpty == Overdue => resized

\* README.md 172, with no exception.
EveryClipStops == ~Overdue

\* After close() has begun the worker ends, with every file finalized.
CloseFinalizes ==
  closing # "no" ~>
    worker = "exited" /\ \A c \in 1 .. Len(clips) : clips[c].final
=============================================================================
