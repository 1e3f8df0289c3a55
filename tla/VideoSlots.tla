----------------------------- MODULE VideoSlots -----------------------------
(***************************************************************************)
(* The three threads of the program and the two one-place slots between    *)
(* them (video_io.cpp and the frame loop of main.cpp): the capture thread  *)
(* reads the camera and reopens it, the main thread processes the latest   *)
(* frame, the display thread shows the latest drawn frame and takes q and  *)
(* ESC.  SIGTERM only sets g_stop; SIGINT is ignored.                      *)
(*                                                                         *)
(* Images are numbered in the order the camera delivers them.  The camera  *)
(* may drop out, which kills the open handle, and come back.  A read       *)
(* returns, with or without an image.                                      *)
(*                                                                         *)
(* At startup the configuration of the cabin is resolved (CabinConfig), or *)
(* the values of the command line are taken as they are.  It bounds the    *)
(* capture thread's back-off, here in slices of 100 ms.                    *)
(***************************************************************************)
EXTENDS CabinConfig

CONSTANTS
  MaxImages,      \* bound of the model: images the camera delivers
  MaxDrops,       \* bound of the model: times the camera drops out
  FailThreshold,  \* fail_reopen_threshold
  IntLimit,       \* an int is below this: 2^31 ms, in slices
  Clis,           \* command lines: the fields that are passed
  Patches         \* patches of the cabin's row that are asked for

ASSUME VideoAssumption ==
  /\ MaxImages \in Nat /\ MaxDrops \in Nat
  /\ FailThreshold \in Nat \ {0}
  /\ IntLimit \in Nat \ {0}
  /\ \A cli \in Clis : WellFormed(cli, CliFields)
  /\ \A patch \in Patches : WellFormed(patch, Fields)

VARIABLES
  config,    \* eff and cabin_resolved; history: the values before the clamps
  slot,      \* FrameSlot: seq, latest and stop
  disp,      \* DisplaySlot: seq, latest and stop
  gStop,     \* g_stop
  cap,       \* the capture thread
  main,      \* the main thread
  show,      \* the display thread
  feed,      \* the source is there; the open handle works
  recorded,  \* the last image given to the event recorder
  reloads    \* the hot reload is enabled, so the main thread's wait is timed

slotsVars == <<config, slot, disp, gStop, cap, main, show, feed, recorded, reloads>>

Images == 0 .. MaxImages
BackoffMin == config.eff["reconnect_min_ms"]
BackoffMax == config.eff["reconnect_max_ms"]
Slot == [seq : Images, latest : Images, stop : BOOLEAN]

\* A back-off is the lower bound or at most the upper one, in whatever order
\* the configuration has them, and a thread sleeps no longer than that.  With
\* bounds in order, whose double is an int, no pause is shorter than the lower
\* one.
BackoffOK ==
  /\ cap.backoff = BackoffMin \/ cap.backoff <= BackoffMax
  /\ cap.slept # 0 => cap.slept <= cap.backoff
  /\ 0 <= BackoffMin /\ BackoffMin <= BackoffMax /\ 2 * BackoffMax < IntLimit
     => BackoffMin <= cap.backoff

VideoTypeOK ==
  /\ DOMAIN config.eff = Fields
  /\ \A f \in Fields \ {"source"} : config.eff[f] \in Int
  /\ slot \in Slot /\ disp \in Slot
  /\ gStop \in BOOLEAN /\ reloads \in BOOLEAN
  /\ cap \in [pc : {"read", "push", "publish", "notify", "backoff", "done"},
              local : Images,
              fails : 0 .. FailThreshold,
              backoff : Int,
              slept : Nat]
  /\ BackoffOK
  /\ main \in [pc : {"test", "block", "asleep", "frame", "notify", "next",
                     "close", "stop", "join", "stopDisplay", "joinDisplay",
                     "ended"},
               last : Images, frame : Images]
  /\ show \in [pc : {"test", "asleep", "key", "wake", "done"},
               last : Images, local : Images]
  /\ feed \in [there : BOOLEAN, handle : BOOLEAN, drops : 0 .. MaxDrops]
  /\ feed.handle => feed.there
  /\ recorded \in Images

\* The cabin's row as two valid patches left it, if the cabin is in the
\* database.
Rows ==
  {NoRow} \cup {Patched(Patched(Defaults, p), q) : p, q \in {r \in Patches : Passes(r)}}

\* With --resident-db, a recognition model and no --gst-pipeline the cabin's
\* row is read and the configuration resolved.  In every other mode, and when
\* the database does not open, eff stays as it was initialised.
Configured(cli) ==
  \/ \E row \in Rows :
       config = [resolved |-> TRUE, chosen |-> Selected(cli, row),
                 eff |-> Resolved(cli, row)]
  \/ config = [resolved |-> FALSE, chosen |-> Unresolved(cli),
               eff |-> Unresolved(cli)]

\* A stream need not be there yet when the program starts.
\* Without a preview there is no display thread, and what is put into its
\* slot is of no consequence.
SlotsInit ==
  /\ \E line \in Clis : Configured(Parsed(line))
  /\ slot = [seq |-> 0, latest |-> 0, stop |-> FALSE]
  /\ disp = slot
  /\ gStop = FALSE
  /\ cap = [pc |-> "read", local |-> 0, fails |-> 0, backoff |-> BackoffMin,
            slept |-> 0]
  /\ main = [pc |-> "test", last |-> 0, frame |-> 0]
  /\ show \in [pc : {"test", "done"}, last : {0}, local : {0}]
  /\ feed \in [there : BOOLEAN, handle : BOOLEAN, drops : {0}]
  /\ feed.handle = feed.there
  /\ recorded = 0
  /\ reloads \in BOOLEAN

-----------------------------------------------------------------------------
(* The capture thread.                                                      *)

Healthy == [cap EXCEPT !.fails = 0, !.backoff = BackoffMin, !.slept = 0]

CaptureStops == /\ cap.pc \in {"read", "backoff"} /\ slot.stop
                /\ cap' = [cap EXCEPT !.pc = "done"]
                /\ UNCHANGED <<config, slot, disp, gStop, main, show, feed, recorded,
                               reloads>>

ReadFrame ==
  /\ cap.pc = "read" /\ ~slot.stop
  /\ feed.handle /\ cap.local < MaxImages
  /\ cap' = [Healthy EXCEPT !.pc = "push", !.local = @ + 1]
  /\ UNCHANGED <<config, slot, disp, gStop, main, show, feed, recorded, reloads>>

\* Slip: a dead handle is read for ever.
ReadFailsForever ==
  /\ cap.pc = "read" /\ ~slot.stop
  /\ cap' = [cap EXCEPT !.fails = IF @ < FailThreshold THEN @ + 1 ELSE @]
  /\ UNCHANGED <<config, slot, disp, gStop, main, show, feed, recorded, reloads>>

\* A healthy source may hiccup, too.
ReadFails ==
  /\ cap.pc = "read" /\ ~slot.stop
  /\ cap' = [cap EXCEPT !.fails = @ + 1,
                        !.pc = IF cap.fails + 1 < FailThreshold THEN "read"
                               ELSE "backoff"]
  /\ UNCHANGED <<config, slot, disp, gStop, main, show, feed, recorded, reloads>>

PushToRecorder ==
  /\ cap.pc = "push"
  /\ recorded' = cap.local
  /\ cap' = [cap EXCEPT !.pc = "publish"]
  /\ UNCHANGED <<config, slot, disp, gStop, main, show, feed, reloads>>

\* Under the slot's mutex, which the main thread holds until it is asleep.
Publish ==
  /\ cap.pc = "publish" /\ main.pc # "block"
  /\ IF slot.stop THEN cap' = [cap EXCEPT !.pc = "done"] /\ UNCHANGED slot
     ELSE /\ slot' = [slot EXCEPT !.latest = cap.local, !.seq = @ + 1]
          /\ cap' = [cap EXCEPT !.pc = "notify"]
  /\ UNCHANGED <<config, disp, gStop, main, show, feed, recorded, reloads>>

\* cv_new of the capture slot: only a thread that is asleep notices.
Wakes(m) == IF m.pc = "asleep" THEN [m EXCEPT !.pc = "test"] ELSE m

NotifyMain ==
  /\ cap.pc = "notify"
  /\ main' = Wakes(main)
  /\ cap' = [cap EXCEPT !.pc = "read"]
  /\ UNCHANGED <<config, slot, disp, gStop, show, feed, recorded, reloads>>

\* One slice of the back-off; stop is looked at before each.
Doze ==
  /\ cap.pc = "backoff" /\ ~slot.stop /\ cap.slept < cap.backoff
  /\ cap' = [cap EXCEPT !.slept = @ + 1]
  /\ UNCHANGED <<config, slot, disp, gStop, main, show, feed, recorded, reloads>>

\* What backoff * 2 can be: undefined, so any int, when it is none.
Doubled(backoff) ==
  IF 2 * backoff \in -IntLimit .. (IntLimit - 1) THEN {2 * backoff}
  ELSE -IntLimit .. (IntLimit - 1)

Capped(backoff) == IF backoff < BackoffMax THEN backoff ELSE BackoffMax

Reopen ==
  /\ cap.pc = "backoff" /\ ~slot.stop /\ cap.slept >= cap.backoff
  /\ IF feed.there
     THEN cap' = [Healthy EXCEPT !.pc = "read"]
     ELSE \E twice \in Doubled(cap.backoff) :
            cap' = [cap EXCEPT !.backoff = Capped(twice), !.slept = 0]
  /\ feed' = [feed EXCEPT !.handle = feed.there]
  /\ UNCHANGED <<config, slot, disp, gStop, main, show, recorded, reloads>>

Capture == CaptureStops \/ ReadFrame \/ ReadFails \/ PushToRecorder \/ Publish
             \/ NotifyMain \/ Doze \/ Reopen

-----------------------------------------------------------------------------
(* The main thread.                                                         *)

\* Slip: the sequence number of the frame is not remembered.
TakenForgotten(m) == [m EXCEPT !.pc = "frame", !.frame = slot.latest]

Taken(m) == [m EXCEPT !.pc = "frame", !.frame = slot.latest, !.last = slot.seq]

\* wait_for_frame_or_deadline, with the mutex: the predicate, then the result.
\* If the predicate is false the thread is about to block.
TestSlot ==
  /\ main.pc = "test"
  /\ main' = IF slot.stop \/ gStop THEN [main EXCEPT !.pc = "close"]
             ELSE IF slot.seq # main.last THEN Taken(main)
             ELSE [main EXCEPT !.pc = "block"]
  /\ UNCHANGED <<config, slot, disp, gStop, cap, show, feed, recorded, reloads>>

\* Blocking releases the mutex.  What is stored and notified without the
\* mutex between the test and this step goes unnoticed.
Block ==
  /\ main.pc = "block"
  /\ main' = [main EXCEPT !.pc = "asleep"]
  /\ UNCHANGED <<config, slot, disp, gStop, cap, show, feed, recorded, reloads>>

\* The next poll of the database is due; the poll itself changes nothing here.
Deadline ==
  /\ main.pc = "asleep" /\ reloads
  /\ main' = [main EXCEPT !.pc = "test"]
  /\ UNCHANGED <<config, slot, disp, gStop, cap, show, feed, recorded, reloads>>

\* The frame is processed, drawn and given to the display.
Draw ==
  /\ main.pc = "frame"
  /\ disp' = [disp EXCEPT !.latest = main.frame, !.seq = @ + 1]
  /\ main' = [main EXCEPT !.pc = "notify"]
  /\ UNCHANGED <<config, slot, gStop, cap, show, feed, recorded, reloads>>

NotifyDisplay ==
  /\ main.pc = "notify"
  /\ show' = Wakes(show)
  /\ main' = [main EXCEPT !.pc = "next"]
  /\ UNCHANGED <<config, slot, disp, gStop, cap, feed, recorded, reloads>>

\* The end of the loop: g_stop, or (choice) --max-frames is reached.
NextFrame ==
  /\ main.pc = "next"
  /\ \E enough \in BOOLEAN :
       main' = [main EXCEPT !.pc = IF gStop \/ enough THEN "close" ELSE "test"]
  /\ UNCHANGED <<config, slot, disp, gStop, cap, show, feed, recorded, reloads>>

\* After event_recorder.close() and system_metrics.stop(): shutdown_capture.
StopCapture ==
  /\ main.pc = "close"
  /\ slot' = [slot EXCEPT !.stop = TRUE]
  /\ main' = [main EXCEPT !.pc = "join"]
  /\ UNCHANGED <<config, disp, gStop, cap, show, feed, recorded, reloads>>

JoinCapture ==
  /\ main.pc = "join" /\ cap.pc = "done"
  /\ feed' = [feed EXCEPT !.handle = FALSE]
  /\ main' = [main EXCEPT !.pc = "stopDisplay"]
  /\ UNCHANGED <<config, slot, disp, gStop, cap, show, recorded, reloads>>

\* Slip: the display thread is joined without being woken.
StopDisplayUnnoticed ==
  /\ main.pc = "stopDisplay"
  /\ disp' = [disp EXCEPT !.stop = TRUE]
  /\ main' = [main EXCEPT !.pc = "joinDisplay"]
  /\ UNCHANGED <<config, slot, gStop, cap, show, feed, recorded, reloads>>

StopDisplay ==
  /\ main.pc = "stopDisplay"
  /\ disp' = [disp EXCEPT !.stop = TRUE]
  /\ show' = Wakes(show)
  /\ main' = [main EXCEPT !.pc = "joinDisplay"]
  /\ UNCHANGED <<config, slot, gStop, cap, feed, recorded, reloads>>

JoinDisplay ==
  /\ main.pc = "joinDisplay" /\ show.pc = "done"
  /\ main' = [main EXCEPT !.pc = "ended"]
  /\ UNCHANGED <<config, slot, disp, gStop, cap, show, feed, recorded, reloads>>

Main == TestSlot \/ Block \/ Draw \/ NotifyDisplay \/ NextFrame \/ StopCapture
          \/ JoinCapture \/ StopDisplay \/ JoinDisplay

-----------------------------------------------------------------------------
(* The display thread.  What it waits for is only stored with the mutex of  *)
(* its slot, so its test and its blocking are one step.                     *)

TestDisplay ==
  /\ show.pc = "test"
  /\ show' = IF disp.seq = show.last /\ ~disp.stop
             THEN [show EXCEPT !.pc = "asleep"]
             ELSE IF disp.stop THEN [show EXCEPT !.pc = "done"]
             ELSE [pc |-> "key", last |-> disp.seq, local |-> disp.latest]
  /\ UNCHANGED <<config, slot, disp, gStop, cap, main, feed, recorded, reloads>>

NoKey ==
  /\ show.pc = "key"
  /\ show' = [show EXCEPT !.pc = "test"]
  /\ UNCHANGED <<config, slot, disp, gStop, cap, main, feed, recorded, reloads>>

\* q or ESC: the flag, then the notification, neither with the mutex of the
\* slot the main thread waits on.
QuitKey ==
  /\ show.pc = "key"
  /\ gStop' = TRUE
  /\ show' = [show EXCEPT !.pc = "wake"]
  /\ UNCHANGED <<config, slot, disp, cap, main, feed, recorded, reloads>>

WakeMain ==
  /\ show.pc = "wake"
  /\ main' = Wakes(main)
  /\ show' = [show EXCEPT !.pc = "done"]
  /\ UNCHANGED <<config, slot, disp, gStop, cap, feed, recorded, reloads>>

Display == TestDisplay \/ NoKey \/ QuitKey \/ WakeMain

-----------------------------------------------------------------------------
\* SIGTERM
OnSignal == /\ ~gStop /\ gStop' = TRUE
            /\ UNCHANGED <<config, slot, disp, cap, main, show, feed, recorded, reloads>>

DropOut == /\ feed.there /\ feed.drops < MaxDrops
           /\ feed' = [there |-> FALSE, handle |-> FALSE,
                         drops |-> feed.drops + 1]
           /\ UNCHANGED <<config, slot, disp, gStop, cap, main, show, recorded, reloads>>

ComeBack == /\ ~feed.there
            /\ feed' = [feed EXCEPT !.there = TRUE]
            /\ UNCHANGED <<config, slot, disp, gStop, cap, main, show, recorded, reloads>>

SlotsNext == Capture \/ Main \/ Deadline \/ Display \/ OnSignal \/ DropOut \/ ComeBack

SlotsSpec == SlotsInit /\ [][SlotsNext]_slotsVars

\* The three threads are scheduled, a read and a poll return, and a timed wait
\* ends.  The capture thread gets the mutex in the end although the main thread
\* takes it again and again: it is free for the whole of each wait.  Nobody
\* has to press a key, and the camera need not come back.
FairSlotsSpec == /\ SlotsSpec
            /\ SF_slotsVars(Capture) /\ WF_slotsVars(Main) /\ WF_slotsVars(Deadline)
            /\ WF_slotsVars(Display)

-----------------------------------------------------------------------------
\* R4 of cabin-runtime-config, as far as the code keeps to it: when the
\* configuration is resolved, the values are in range and the bounds in order
\* exactly if the upper bound of the back-off was at least 1 in the command
\* line, the row or the defaults, whichever it came from.  It is the one value
\* nobody looks at (cabin_config.cpp 106-120 and 160-162).
ConfigInRange ==
  config.resolved => (InRange(config.eff) <=> config.chosen["reconnect_max_ms"] >= 1)

\* R4 as .kiro/specs/cabin-runtime-config/requirements.md:143 has it.  A patch
\* of reconnect_max_ms alone may say zero, the swap makes it the lower bound
\* after that has been raised, and the capture thread reopens without a pause.
ConfigAlwaysInRange == config.resolved => InRange(config.eff)

\* No image is processed twice and none after a later one, and the same holds
\* of what is shown, although a slot is overwritten at any time.  Every image
\* the main thread takes was given to the recorder before (push_frame,
\* video_io.cpp 78-82).
OnlyNewer ==
  [][/\ main.pc # "frame" /\ main'.pc = "frame" =>
          main'.frame > main.frame /\ main'.frame <= recorded
     /\ show.pc # "key" /\ show'.pc = "key" => show'.local > show.local]_slotsVars

\* A source whose handle is dead is opened again once it is back, unless it
\* goes away again or the program stops.
ReconnectsWhenBack ==
  feed.there /\ ~feed.handle ~> feed.handle \/ ~feed.there \/ slot.stop

\* With the hot reload, a stop request ends the program, whenever it comes and
\* whatever the camera does.
StopEnds == gStop /\ reloads ~> main.pc = "ended"

\* What .kiro/specs/tracker-upgrade/requirements.md:253 says: q, ESC and
\* SIGTERM end the program.  Without the hot reload the wait for a frame is
\* not timed, and a stop that is stored after the test of the predicate, or by
\* a signal that notifies nobody, is only seen at the next frame.
StopAlwaysEnds == gStop ~> main.pc = "ended"
=============================================================================
