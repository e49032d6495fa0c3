# A verification project for drone_client

`drone_client` stands between an operator's station and a drone. The operator
edits attributes of a camera object on an *objrepr* server. The client turns
those edits into calls of the drone's radio library (*rfc*), publishes what the
drone reports back into the attributes, and streams the drone's video, a
directory of pictures or a video file over RTP. The C++ is in `src/`, mostly
without locks, with several threads per configuration.

This directory holds TLA+ modules translated from that code, TLC configurations
that check them on small instances, and machine-checked proofs, for every value of
the constants: of every safety property the passing runs check, in eight modules
`...Proofs`.

    tlc -workers 2 -config MCPingMonitor.cfg MCPingMonitor
    tlapm PublishingProofs.tla

## 1. Inventory

| Component | State | Operations | Talks to |
|---|---|---|---|
| `DroneController`, link supervision | `m_lastPingValFromDrone`, `m_lastPingAtMillisec`, `m_boardOnline`, `m_observers` | `checkPings`, `addObserver`, `threadMaintenance` | polls rfc, calls `ControlSignalReceiver::callbackBoardOnline` |
| `DroneController`, operator commands | cached angles and rates | `callbackSet*` | called by `ControlSignalReceiver`, calls rfc |
| `DroneController`, imitation | requested and imitated camera, imitated link, the board's circle | `droneActivityImitation` and the imitation branch of `callbackSet*` | publishes through `ControlSignalReceiver` |
| `DroneController`, telemetry slots | none | `slotBoardPosChanged`, `slotRpzLensChanged` | called by rfc, publish through `ControlSignalReceiver` |
| `ControlSignalReceiver` | attribute map, carrier and camera object, held object and its id | `callbackApprovePending`, `callbackObjectUpdated`, the publishing callbacks | called by objrepr, by the controller's thread and slots and by `VideoConvertor` |
| `VideoGenerator` | `SDataForTransfer` (`sourceId`, appsrc), pipeline | need-data, enough-data, push, connect, disconnect | asks an `IImageProvider` for pictures, feeds GStreamer |
| `ImageFromDrone` | current frame, its description and size | `slotLastFrameChanged`, `getImageData` | called by the video library and by `VideoGenerator`, signals `DroneClient` |
| `ImageFromFile` | pictures grouped by second, a cursor | `createImageTimeline`, `getImageData` | called by `VideoGenerator` |
| `VideoConvertor` | telemetry table, pipeline | `parseTelemetryFile`, `threadMaintenance`, `sendCurrentTelemetry` | publishes through `ControlSignalReceiver` |
| `DroneClient`, `main` | the wiring | `initSingletons`, `init`, `firstFrameFronDrone` | all of the above |
| `ConfigReader`, `AConfigReader` | the parameters, written once | `getConfigFilePath`, `parseBase`, `parse` | called by `main`, read by `DroneClient` |
| `ObjreprBus`, `Logger` | the library's context, the log | `init`, `initGlobal` | called by `main` |
| `DroneImitator`, network interface, command convertor, shared types | not used by this program | | |

**Threads.** The main thread runs `initSingletons`, `DroneClient::init` and then
the Qt event loop (rfc and video slots). An objrepr thread runs
`callbackApprovePending` and `callbackObjectUpdated`, from the moment these are
connected. The maintenance thread of `DroneController` starts inside `init`, before
its observer is registered. With a video file, `VideoConvertor` has a maintenance
thread of its own, which starts before its table is read. GStreamer's streaming
thread emits need-data, and the GLib main loop runs the idle source that pushes
pictures.

**What is hard here.** No variable that these threads share is locked, except
the current frame, and that one is used after the lock is gone. Threads are started
in the middle of what they depend on. The callbacks of objrepr carry a name, not a
value: the attribute is read later, when it may have been written again. An
object is set and pushed in two calls, by more than one thread. Time-outs are
decided by polling a bit. Two indexes walk a ragged table. Fractions of seconds are
rounded in floating point. Any of twenty calls of the start may fail.
`PROJECT.json` lists each of these hazards at its line, with the properties that
watch it.

**What makes each component correct.** The attribute "online" follows the drone
(on soon after a ping, off after a real silence and not much later). A command
that is completed from a cache ends on what the operator wrote last to this client.
While the drone holds an object, its target is where that object is, as closely as
floats and whole metres tell. An object that is selected while none is held is the
one that is held. The imitated
camera reaches the request and stays on its scale. What is published ends up on
the server, whole if there is one reporter, and the camera object shows the
orientation that was reported. The first good frame starts the video; the pipeline
is fed by exactly one source when it needs data, and by none when its consumer is
gone; the video never goes back. A recording plays every picture once per round.
Telemetry that is published after an answered query belongs to the picture shown. A client that runs is complete,
and none of its threads ever used what was not there.

## 2. Modules

### LinkStatus, PingMonitor, PingMonitorProofs

`LinkStatus` is the abstract specification of the "online" attribute: when it
may turn on, when it may turn off, and how long a silence may last while it is
still on. It knows nothing of threads.

`PingMonitor` is `threadMaintenance` with imitation off: `Detect`, `Latch` and
`Stamp` are the three statements of the ping detection
(`drone_controller.cpp:236-239`), in which the indicator is read twice;
`GoOffline`, `GoOnline` and `StayAsIs` are the decision; `IterBegin`, `IterEnd`
and `Notify` the walk over `m_observers` and the callback. `AddObserverStart`
and `AddObserverFinish` are the two pointer stores of the `push_back` that
`DroneClient::init` may still be executing; a walk that sees only one of them
runs over memory that is no vector (`crashed`). `Tick` is time: the age of a
time stamp is a variable that grows.

The refinement `ImplementsLink` maps the attribute to `shown` and the death of
the client to `alive`. With Slack = 2 MaxLag and Late = Timeout + 4 MaxLag it
says what polling costs: two passes of the loop on one side, four on the other.

### CameraCommands, HoldPoint and their proofs

Both model the path *operator writes an attribute -> objrepr queues a callback
with its name -> `callbackApprovePending` reads the value -> `DroneController`
-> rfc*. They are two modules because they share no variable.
`CameraCommands` has the angle and rate pairs with their caches, focus, zoom,
diaphragm and the service switches; `Init` starts from attributes that an
earlier client may have left. `console` is the set of attributes the operator
of a behaviour works with. The rates of focus and zoom may be no number (`NaN`), for
which the last branch of their handlers calls nothing (`Drive`); the cast of such a
value to the `int64_t` of an azimuth is undefined, and left out.

`HoldPoint` has the mode, the hold point, the positions of objects and their
deletion. `callbackSetTargetCoord( float, float, int )` is given doubles, so
`SendTarget` narrows the position: a coordinate is an integer, `Grain` of them are one
step of a float and `Unit` of them one metre, `AsFloat` takes the nearest float
(the even one of two) and `AsInt` cuts off. The grid of floats is the one near the
objects; a float's exponent, which changes it from place to place, is left out.

### CameraImitation, CameraImitationProofs

`droneActivityImitation` and the imitation branch of the commands. The thread
reads each unlocked request up to three times (`Differs`, `IsBelow`, `IsAbove`), then
moves (`MoveUp`, `MoveDown`), then publishes (`Publish`): each is an action of its own,
and the operator may write between any two. The 100 ms gate, the casts to `int`, the
half-degree steps of the rates, the double steps of the zoom and what each callback
publishes are kept. The rfc calls of the same handlers are in `CameraCommands`: the two
modules are two views of them, since with imitation on both happen and neither reads
what the other writes.

Two variables are auxiliary, read by no action's guard: `wanted` is the request as the
thread read it when it decided on the move it is about to make, `zoomAlone` says that
the zoom moved and no angle has since. `PublishedAgrees` needs the second: a move of an
angle publishes the focal length with the zoom of that moment, a move of the zoom only
the field of view.

### Publishing, PublishingProofs

The publishing callbacks of `ControlSignalReceiver` as what they are: a list of
fields that are set and pushed one after the other (`Set`, `Push`), by a thread
that may be overtaken between any two calls. `field` is where a thread is in its
report, `final` where the report ends; one push of the carrier object takes both
its point and its angles along (`Pushed`). Three threads report: the rfc slots
(`slotBoardPosChanged`, `slotRpzLensChanged`, with the guard that keeps them out
while a drone is imitated and the swapped angles of the lens),
`droneActivityImitation`, and `sendCurrentTelemetry` of a recording.
`CameraAngles` is the conversion at `control_signal_receiver.cpp:112-128`; what it
should keep is defined independently, as equality of orientations
(`SameOrientation`). Coordinates are numbers without a meaning, the angles are
degrees. `setValue` and `changePoint` return whether they took the value, which nobody
acts on: a field of `Refusing` may keep its old one and is pushed all the same.
`refused` remembers which did.

### VideoFeed, DroneFrames, VideoStream, VideoStreamProofs

`VideoFeed` is `VideoGenerator` between appsrc and the main loop: the streaming
thread tests `sourceId`, adds an idle source and stores its id in three steps;
the main loop pushes, is told "enough", removes the source and clears the id in
steps of its own. appsrc counts its queue as full by bytes and as empty by buffers:
`bytes` is how many of the buffers in `queue` have any, since the buffer of an empty
frame has none (`FetchedSize`). `Disconnect` and `QuitLoop` are the two halves of
`disconnectFromSource`. `DroneFrames` is a frame's way from the slot of
`ImageFromDrone` into a buffer: the frame is replaced, checked, described, the
pipeline connected; on the other side the pointer is fetched under the lock and
copied from outside it. A frame that was replaced meanwhile is freed memory:
the copy yields its bytes, garbage, or the end of the process.

`VideoStream` composes the two, EXTENDing the feed and INSTANCEing the frames. They
share the main loop: an idle source is dispatched together with the fetch of
the frame (`FetchFrame`), and pushed when the copy is made (`PushFrame`); the feed
exists once a frame has connected the pipeline, and ends with the process. The
runs, the invariants and the liveness of both are those of the composition.

### Playlist, ImageTimeline, TelemetryIndex, RecordingProofs

`Playlist` is the promise of `ImageFromFile`, a circular list. `ImageTimeline` is
the code: sorted names grouped by second, and a cursor of two indexes.
`TelemetryIndex` is the table of `VideoConvertor`, by second and tenth, with the
code's own arithmetic: 0.01f is a little less than a hundredth, so
`(fraction + 0.01f) * 10` cut off is `(ms + 9) div 100`. Its input is what
`parseCSVFile` makes of a file: full rows, rows that lack the columns that are
published ("short") or those of the camera only ("board": the board's position is
published before the camera's columns are read), and blank lines, which are rows
without any column. `position` is where the video really is; a query that fails
(`query`) makes the thread publish the row of zero instead. Its variable
`playback` and its specification have names of their own (`TelemetrySpec`), so that
one module can prove about both recordings.

### Startup, StartupProofs

The life of the process. `main` is the place of the main thread; each call of
`initSingletons` and of `DroneClient::init` is an action (`Call`) with its
outcomes: it succeeds and establishes its facts (`done`), it returns false up to
`main`, or it ends the process by an assertion or an exception. Where the
configuration is looked for, what can be wrong in it and in which order that is
noticed (`Checks`) are data; `Verdict` is what `parseBase` and `parse` make of
them. Three threads run beside the start from the moment it lets them:
objrepr's callbacks (`Approve`, `Observe`), the controller's edges (`Edge`,
`callbackBoardOnline`) and the convertor's polls (`Poll`,
`sendCurrentTelemetry`). While a vector of observers is being filled another thread
may see the observer, miss it or see half of it (`ObserveTorn`, `EdgeTorn`). `Kill`
and `ExitProcess` end a process at any point, `Start` begins the next, and the
attributes on the server survive.

The data of the callbacks are reduced to what the start can get wrong: whether a
write is delivered, whether "online" is told. Their content is in the modules above.

## 3. Runs

| Run | Checks | Instance and why it is enough | States |
|---|---|---|---|
| `ping_monitor` | `LinkStatus` refined, no phantom and no missed ping, the attribute agrees with the belief, both liveness properties | MaxLag 1, MinPeriod 2 and Cap 10 are the smallest numbers `PingAssumption` allows with Timeout 5, which leaves room for pings that come back before, at and after the time-out; the proofs do the rest | 31 000 |
| `camera_commands` | what the operator wrote to this client is what the drone was sent last | half degrees {-1, 0, 3} (both signs, both with a fraction) and rates that are no number, three queued callbacks: a write that overtakes two others. All four angle attributes together; attributes that share no state in twos and threes | 448 000 |
| `hold_point` | the target follows the held object, one object per hold, the last mode wins, a selection is caught | two objects; two positions, one between two floats, below zero and with a fraction of a metre; a mode that holds, one that does not and one that is unknown, three callbacks | 246 000 |
| `camera_imitation` | requests reached, camera on its scale, attributes agree | three half degrees per angle, pitch below zero and roll above, so that the cast cuts off in both directions; a zoom limit that is odd like the real 255. With both signs on one axis the model grows beyond the time; the proof has them | 373 000 |
| `publishing` | nothing stays unpushed, whole reports of a sole reporter but for refused values, the orientation is kept | every pair of threads a configuration allows; a camera that looks ahead and one that looks backwards, a yaw that the conversion turns beyond 180 degrees and one that it does not; the point and one attribute may refuse a value; the proofs do the rest | 3 627 000 |
| `video_stream` | the video starts, one source, no stall, a dead consumer ends the feed unless the frame is empty, frames in order, the last frame is streamed | queue full at 2 with room for the overshoot; 3 source ids: one live, one in `sourceId`, one fresh; four frames: two worthless ones, the first good one, one that replaces it during a copy; empty ones, whose buffers have no bytes, among them | 250 000 |
| `image_timeline` | types (the cursor lies inside), refines `Playlist` | every directory of up to five files of three seconds, one after a gap, and the empty one | 530 |
| `telemetry_index` | seamless recordings are parsed, no row lost, rows belong to the picture if the query was answered | up to four lines: nine times on both sides of every rounding edge, lines that lack all published columns or the camera's, a blank one; polled at nine positions, with queries that fail | 336 000 |
| `startup` | nothing is used before it is there, a running client is complete, "online" is stale only until the first edge, writes are heard | a configuration without a defect, with each defect and with two of them; every video source and context; two processes, so that the second finds what the first left; two writes, of which one may come before the observers and one after | 53 000 |

The counters that the code lets grow are bounded: ages at `Cap` (beyond every age
that is compared), queued callbacks at `MaxCalls`, buffers at `QueueCap`, frames
at `MaxFrames`, files and rows at `MaxFiles` and `MaxRows`, processes at `MaxStarts`,
writes during the start at `MaxWrites`; angles stay in the set
`Angles`, the code lets rates push them beyond any bound. Source ids are reused
only when they name nothing, as GLib does. `CHECK_DEADLOCK FALSE` is set where a
behaviour may end: the process died, the pipeline was disconnected, the last
start is over, or a finite supply of frames, rows or files was used up. `TypeOK`
is checked once per module.

### Findings (runs that must fail)

| Run | What the code does |
|---|---|
| `hold_not_found` | An unknown hold point is logged as an error, and two lines later the null object is used: the next update of any object ends the client (`control_signal_receiver.cpp:161-165`). |
| `zoom_stop` | The imitation takes the zoom rate 0, which the same handler calls "Stop", for zooming out (`drone_controller.cpp:432`). |
| `rounding` | A telemetry row in the last 9 ms of a second is rounded to tenth number ten of ten (`video_convertor.cpp:280`). |

More observations were made that have no run of their own:

- `want_azimut` is listed as a real attribute (`control_signal_receiver.cpp:358`) and
  read into an `int64_t` (line 220): the fraction is lost. `CommandsSettle` asks for
  less than a degree of error, and for none in the elevation.
- An angle that only an earlier client was given is sent as zero when this client is
  given the other one (`drone_controller.cpp:353`): the cache starts at zero, the
  attribute does not. `CommandsSettle` promises nothing of that half.
- A position query that fails publishes the telemetry of the beginning in the middle of
  the video (`video_convertor.cpp:66-77`). `SentIsCurrent` speaks of answered queries.
- Behind a failed pipeline an empty frame that stays is pushed without end: its buffers
  never make the queue full (`video_generator.cpp:132-152`). `DeadConsumerStopsFeed`
  says so.
- The mode `hold_to_aim` is accepted but missing from the same table (line 354).
- The comments beside the conversion of the camera's orientation
  (`control_signal_receiver.cpp:112,116`) give ranges that hold for a pitch above
  -90 degrees only. The orientation is right nevertheless: `OrientationKept`.
- An empty frame replaces the current one before "check data validity" and is
  streamed (`image_from_drone.cpp:115,136`).
- Nothing observes `ImageFromDrone`, so the field of view it computes for each
  frame (`image_from_drone.cpp:121`) is published nowhere.
- The ping time-out is configured and passed on, but `checkPings` compares with the
  literal 10000.

### Fairness

- *Threads*: weak fairness of a thread's steps, as the scheduler runs each of them.
  The maintenance thread loops without blocking, the GLib loop and the streaming
  thread (while the pipeline plays) likewise; a slot that has begun runs to its end.
  objrepr runs every callback it queued, also in `Startup`.
- *Time*: weak fairness of `Tick`, with `Tick` disabled when a pass of the loop is
  overdue. This is the assumption `MaxLag`: 10 ms of sleep plus what the machine adds.
- *Nothing else*: no fairness for the drone's pings, the operator, frames, pipeline
  failures, disconnection or the end of the process. Properties about them start with
  "if the drone keeps pinging" or "if the request no longer changes", or allow for
  the process to end.

### Assumptions about what is outside of src/

A shared variable without a lock is read and written one access at a time, in
program order, except for a vector of observers that is being filled, whose
stores have no order. objrepr runs callbacks one after another; a set and a push of
an object are one access each, and setting the angles of an object does not fail. The
build rounds a double that becomes a float to the nearest. rfc toggles its indicator
once per ping. The clock does not go back. appsrc emits enough-data before it appends
the buffer that found the queue full, and need-data when the streaming thread finds
it empty. The video library's signal passes a non-const reference and cannot
be queued, so the slot runs directly. The angles of a report lie within
-180 and 180 degrees (`PublishingAssumption`): the code wraps a yaw once, not
as often as it takes. Assertions are active, since `CMakeLists.txt` defines no
`NDEBUG`, and the logger is the one that file selects. Writing outside a
vector or through a null pointer leads to `crashed` or `undefined`, from which
nothing is claimed.

## 4. Proofs

### The link

`PingMonitorProofs` proves, for every timeout, lag and ping period that satisfy
`PingAssumption`:

| Theorem | Property |
|---|---|
| `TypeCorrect` | `TypeOK` |
| `PingsAreReal` | `NoPhantomPing` |
| `PingsAreSeen` | `NoMissedPing` |
| `ObserverIsTold` | `PublishedAgrees` |
| `AttributeKeepsPromise` | `ImplementsLink`, the refinement of `LinkStatus` |

The assumptions are `MinPeriod > MaxLag` (a ping lasts longer than a pass of the
loop: were it shorter, two toggles would cancel and both would be missed),
`Timeout > 2 MaxLag` (the time-out is longer than a detection) and
`Cap > Timeout + 4 MaxLag` (the counters of the model tell all compared ages
apart). With the real 10 ms and 10 000 ms they leave three orders of magnitude.

None of the properties is inductive: `NoPhantomPing` speaks of the time on
record, but the record is written two steps after the toggle was seen. `IInv`
adds what connects them:

- `UnseenIsRecent`: a toggle not yet latched is not older than the current pass;
- `ReactingIsRecent`: between detection and stamp the drone was just heard;
- `RecordIsReal`, `RecordCovers`: the record is a real ping, and no ping but an
  unseen one is newer;
- `LostIsOld`, `OnlineIsFresh`: while an edge is on its way, the reason for it
  still holds: the silence was real, or the ping recent (the drone may have come
  back, which is what `gap` remembers);
- `IterSees`, `Told`: an iterator that saw the observer proves it registered, and
  an attribute that was written agrees with `m_boardOnline` unless an edge is on
  its way.

`IInv` implies the three invariants. Each action has a lemma that preserves it,
with one step per conjunct it can disturb; only `PingStep` needs `MinPeriod >
MaxLag`. The refinement is proved action by action from `IInv`: `Ping` is
`Hear`, `Notify` is `ShowOnline` or `ShowOffline`, a torn walk is `Die`, and `Tick`
is allowed because `ShownIsTimely` bounds the silence while the attribute is on.

### What is published

`PublishingProofs` proves, for every set of reported points, angles and zooms that
satisfies `PublishingAssumption`:

| Theorem | Property |
|---|---|
| `TypeCorrect` | `TypeOK` |
| `NothingStaysUnpushed` | `PushedIsCurrent` |
| `ReportsAreWhole` | `OneReport` |
| `OrientationSurvives` | `OrientationKept` |

`PushedIsCurrent` and `OneReport` speak of moments at which no thread is
reporting; they say nothing of a report that is half made. `IInv` does:

- `Walks`: a thread goes up its fields from the first to the last of its report,
  and only a thread that the setup lets report is at work. Without a recording one
  thread at most can therefore be reporting the camera;
- `Owed`: a field that was set and not pushed has a thread in front of a push that
  takes it along. It need not be the thread that set it: the other thread's push of
  the same object is as good;
- `Whole`: without a recording, whoever reports the camera is at the latest
  report, and each field it has not still to write, and that did not refuse its value,
  shows that report already.

`NextSplits` reduces every handler to one of three steps, `Begin`, `Set` and `Push`,
with the fields it may begin and end at (`Shape`); each conjunct of `IInv` then has one
lemma per step. `OrientationKept` rests on `SameAngles`, the conversion by cases: a
camera beyond the vertical and one before it, with a yaw that is wrapped or not.

### What the operator commands

`HoldPointProofs` proves, for every set of objects, positions and modes, every
precision of the target and every length of the queue (`HoldAssumption`),
`CameraCommandsProofs` for every set of consoles, values and units
(`CommandAssumption`):

| Theorem | Property |
|---|---|
| `HoldPointProofs!TypeCorrect` | `TypeOK` |
| `TargetFollows` | `TargetCatchesUp` |
| `HoldsOneObject` | `OneObjectPerHold` |
| `ModeSettles` | `LastModeWins` |
| `CameraCommandsProofs!TypeCorrect` | `TypeOK` |
| `EveryCommandSettles` | `CommandsSettle` |

Both rest on two facts about the queue: a write adds its callback and removes none
(`QueueAdds`, `WriteQueues`), and a callback that runs is the only one that leaves
(`RunningRemoves`, `ApproveDequeues`). With the types, the properties of `HoldPoint`
are then inductive, once `TargetIsSent` has shown that a narrowed position is near the
one it was made from (`AsFloatIsNear`, `AsIntIsNear`); `CommandsSettle` is not, since a command is completed from a
cache. `CachesFollow` says when the cache may be trusted: unless a callback that will
refresh it is queued, it is the attribute as this client saw it: zero, until it was
written to this client. That is stronger than what `CommandsSettle` promises, and
`FractionIsSmall` is the step from one to the other. `PairKeepsRest` and
`SingleKeepsIInv` are the two shapes a handler has.

### The video stream

`VideoStreamProofs` proves, for the composition and every length of the queue, set of
source ids and number of frames (`FeedAssumption`, `StreamAssumption`):

| Theorem | Property |
|---|---|
| `TypeCorrect` | `StreamTypeOK` |
| `OneSourceFeeds` | `OneSource` |
| `VideoNeverGoesBack` | `FramesInOrder` |
| `NoThreadWaitsAlone` | `WaiterIsFed`, the safety part of `FeedNeverStalls` |

`StepSplits` takes a step of the composition apart into a step of the feed and one of
the frames, so that each part has an invariant of its own. `FeedInv` relates the places
of the two threads that share `sourceId`: who is about to add a source finds none named
(`AddsAlone`), a dispatched source stays attached until its own thread removes it
(`DispatchedIsLive`), and until it is cleared its id holds the other thread off
(`StopsItsOwn`). `NoFrameIsAhead` orders the frames: pushed, fetched, current.

`WaiterIsFed` says that while the streaming thread has asked for data and the queue is
empty, a source is attached or the main loop is about to append a buffer.
`NamedIsAttached` makes it inductive: a source that is named is attached, except between
its removal and the clearing of its id, which the buffer of the same push makes up for.

### The imitated drone

`CameraImitationProofs` proves, for every scale of angles and of zoom and every pace
of the imitated link (`ImitationAssumption`):

| Theorem | Property |
|---|---|
| `TypeCorrect` | `TypeOK` |
| `CameraStaysOnScale` | `CameraOnScale` |
| `AttributesFollow` | `PublishedAgrees` |
| `EveryMoveApproaches` | `MovesApproach`, the safety part of `RequestIsReached` |

A move is decided by the second or third reading of a request that the operator may
have changed since the first. Why it cannot leave the scale is not visible in
`CameraOnScale`: `OnGrid` adds that the camera moves by whole degrees and by
`ZOOM_STEP`, from zero, so that on the grid `<` leaves room for a whole step, and that
a requested zoom is on the grid too. The angles asked for are not, and `AngleMoves`
shows that the cast to `int` makes up for it. `OnScale` is `CameraOnScale` axis by
axis; `LensAgrees` and `LinkAgrees` are the
attributes, one part for each thread step that writes them. The same grid gives
`MovesApproach`: as the thread compares them, each move brings the camera a step nearer
to the request it was decided on (`wanted`) and never past it; the request itself may
have moved on, and the next pass makes up for that.

### The recordings

`RecordingProofs` EXTENDs both modules, which share no variable, and proves of the
pictures of a directory, for every set of seconds and number of files
(`TimelineAssumption`), and of the telemetry beside a video, for every set of lines, rows
and polled positions (`TelemetryAssumption`):

| Theorem | Property |
|---|---|
| `TypeCorrect` | `TypeOK` |
| `DirectoryIsPlayed` | `ImplementsPlaylist`, the refinement of `Playlist` |
| `TelemetryTypes` | `TelemetryTypeOK` |
| `SeamlessRecordingsPlay` | `SeamlessIsParsed` |
| `NoRowIsLost` | `NothingIsLost` |
| `SentRowIsCurrent` | `SentIsCurrent` |

The cursor of the directory has two indexes and the playlist one number. To count the
pictures before the cursor would take an induction over the groups; `Grouped` does
without: the numbers of the pictures are consecutive within a second and from the last
of a second to the first of the next, the first is 1 and the last is the number loaded.
`Cursor` then says of the picture under the cursor that it is the successor of the one
returned last, and each of the three ways the cursor moves keeps that.

The table is described from both sides. `Seated`: a row that was parsed has a seat in
the table, taken by itself or by a later row. `InPlace`: whoever has a seat is a row
that was parsed, of that second and that tenth. The two together are `NothingIsLost`
when the file is at its end, and `InPlace` at the place polled is `SentIsCurrent`,
with the arithmetic of the rounding in `TimeOfTenth`, where the place polled is the
video's own (`PollIsOfThePosition`). Both ways of adding a row are
one shape, `Added`, which keeps both sides (`AddedKeeps`). `NoHoles` is what
`SeamlessIsParsed` needs: if every second of a file comes after a row of the second
before it, the table never skips one, so every row finds room for ten.

### The start

`StartupProofs` proves, for every set of configuration files and every number of
processes and writes (`StartupAssumption`):

| Theorem | Property |
|---|---|
| `TypeCorrect` | `TypeOK` |
| `NothingIsUsedEarly` | `ReadyBeforeUse` |
| `ARunningClientIsComplete` | `RunningIsComplete` |
| `StaleOnlineEnds` | `StaleOnlyUntilTold` |
| `WritesReachTheDrone` | `NoWriteIsDropped`, the safety part of `WritesAreHeard` |

`RunningIsComplete` speaks of the event loop only. `Reached` says what is made, what is
still possible in the configuration and which source is configured at every place of
the main thread (`Made`, `Leads`), which gives it at the loop; that no defect is left
past the reader is `VerdictOk`. On the way out the main thread has no such place, but
the other threads still run: `Consistent` says wherever it is that a fact was
made on top of others, and `ReadyBeforeUse` needs no more. `SawObserver` says that a
thread which published has seen the observer that is being added. The calls of the
start are one shape: `CallKeeps` reduces each to where it leads, and `CallOnKeeps` to a
comparison of two rows of `Made`. `NoWriteIsDropped` follows from
`ARunningClientIsComplete`, because the main thread makes nothing more in the event loop
(`LoopIsTheEnd`): a write is queued there, and an approved attribute reaches the drone
library.

**Model-checked only**: the liveness properties `PingingStaysOnline`,
`SilentGoesOffline`, `SelectionIsCaught`, `RequestIsReached`, `VideoStarts`,
`FeedNeverStalls`, `DeadConsumerStopsFeed`, `LastFrameIsStreamed` and
`WritesAreHeard`: fairness and ENABLED are out of the prover's reach.

## 5. Not modelled

- *Pipeline texts, bus messages, overlays, dumps, the quoting of CSV*: wording or data
  that no property tells apart; the dump thread never runs, since nothing sets its
  option.
- *The values in the configuration*: of the parameters only those that decide how the
  start ends are in `Startup`.
- *DroneImitator, the network interface, the command convertor, the shared headers*:
  not instantiated, without an implementation here, or data types.
- *Operations without a caller*: `openContextAsync`, `closeContext` and
  `getContextNameById` of `ObjreprBus`, `getConfigExample`, `tick` of `ImageFromFile`;
  `VideoConvertor::disconnectFromSource` would run in a destructor that never does,
  as the singleton is not deleted.
- `callbackSwitchOn` and `connection_settings` lead to empty handlers.
- *Delivery over a restart*: an attribute that was approved when the process ended is
  not told to the next one. The step is in `Startup`; nothing promises more.
- *Not claimed*: `focal_length` between a move of the zoom and the next one of an angle
  (only the field of view is published then); an angle written to an earlier client
  only; telemetry after a query that failed; that a feed rests while an empty frame
  stays; fields that refused their value.

## 6. Plan

Order of work; all seven groups are done.

1. The link: `LinkStatus`, `PingMonitor`, its proofs.
2. The operator's side: `HoldPoint`, `CameraCommands`, `CameraImitation`.
3. The video side: `VideoFeed` and `DroneFrames`, composed in `VideoStream`;
   `ImageTimeline`, `TelemetryIndex`.
4. `Startup`: the calls of the start and their failures, the threads that run beside
   it, and the next process.
5. `Publishing` and its proofs.
6. Proofs of `VideoStream`, `HoldPoint` and `CameraCommands`.
7. Proofs of `Startup`, `CameraImitation`, `ImageTimeline` and `TelemetryIndex`: every
   invariant and every action property that a run checks is now a theorem, and both
   refinements are.

What is left: the liveness properties stay with the model checker. The safety parts of
`FeedNeverStalls`, `RequestIsReached` and `WritesAreHeard` are proved; those of
`DeadConsumerStopsFeed` (a dead consumer finds no new source) and `SelectionIsCaught`
(a queued callback that finds the object holds it) can still be.
