# StrixCam: a verification development of the camera firmware

StrixCam is the firmware of a two-camera sports recorder. A phone app drives it
over BLE, fetches preview and recordings over Wi-Fi Direct, and the camera
records one MP4 per match, optionally captures the raw frames of both sensors
and streams to an RTMP platform. This directory holds TLA+ models of the
program under `src/src`, TLC runs over small instances, and theorems checked by
TLAPS for every value of the constants. Paths below are relative to `src/`
(`src/app/...` in this text is `src/src/app/...` in PROJECT.json).

Contents: 1 inventory, 2 modules and code, 3 runs, 4 fairness, 5 proofs,
6 disagreements, 7 not modelled and assumptions, 8 plan.

## 1. Inventory

### Threads

| thread | created by | what it runs |
|---|---|---|
| main | process | start-up, `sigwait`, shutdown: join clock, `http.Stop`, `ble_transport.Stop` (which runs the disconnect hook), `pipeline.Stop` |
| event loop | `BluezBleTransport::Start` (sdbus) | `OnRawCommand` -> dispatcher -> handler, synchronously, one command at a time |
| clock | main | `MatchHandler::TickClock` once a second |
| producer, one a camera | `PipelineOrchestrator::Start` | `Capture`, preprocess, raw capture, `slot.Push` |
| consumer | `PipelineOrchestrator::Start` | slots -> decision -> postprocess -> overlay -> recording and streaming |
| raw writer, one a camera | `FilesystemRawCaptureSink::Start` | ring -> file |
| RTMP watcher | `GstRtmpStreamer::Start` | bus, back-off, rebuild |
| RTSP loop, RTSP clients | `GstRtspAppStreamServer::Start`, gst-rtsp-server | main loop, media-configure |
| HTTP listener and workers | `HttpDownloadServer::Start`, httplib | downloads |

### Components

For each: its state; its operations; who it talks to; what is hard; what makes
it correct.

- **Session lifecycle** (`app/session`). Phase (Idle, Connected, WifiReady,
  Configured, Ready, Recording), configuration, live match, behind one mutex.
  `OnConnect`, `OnWifiReady`, `OnSessionConfigured`, `OnOverlayConfigured`,
  `OnRecordingStart/Stop`, `OnWifiStopped`, `ApplyMatchUpdate`,
  `OnDisconnect`. Called by the event loop, the clock and main. Hard:
  `OnDisconnect` gives the mutex up between its check and its reset. Correct
  when phases are climbed one at a time and configuration and match live no
  longer than the phases that own them.
- **Session cleanup.** No state; finalizes the recording, stops streaming, tears
  Wi-Fi down. Hard: any step may throw and the rest must still run.
- **Dispatch and handlers** (`app/control/services`). No state of their own
  (but the banner ids); each handler is a sequence of calls on services that
  lock separately. Hard: failure half way, other threads in between. Correct
  when the phase stays backed by the services it describes.
- **BLE transport and chunk assembler** (`adapters/control/ble/bluez`).
  Reassembly map and eviction order, outbound transfers, `central_present_`.
  Hard: lost and repeated writes and notifications, eviction at the cap, an id
  that meets a second framing, the hook that runs beside the event loop.
  Correct when whole commands, and only those, run, acknowledged ones do, and
  replies keep to stop-and-wait.
- **Wi-Fi Direct manager, DHCP server** (`adapters/control/wifi`). Control
  socket, group interface, state, behind a mutex; dnsmasq's pid, behind none.
  Called by the event loop and by main's cleanup at once. Hard: replies and
  events on one socket, late ones, a start that fails after the group was
  accepted, `pid_` read again after a wait, a process that dies and leaves the
  group up. Correct when the group the app was told of is up and served,
  everything that is up can be removed, and no dnsmasq outlives an orderly end.
- **Frame buffers** (`domain/buffer`). Deque or slot, closed flag, counters,
  condition variable. Hard: wake-ups, close while consumers sleep, overflow.
  Correct when they implement `IFrameBuffer` and no sleeper is forgotten.
- **Pipeline and capture** (`app/pipeline`, `adapters/capture`). Running flag,
  threads, per-camera slot, last frame, snapshot. Hard: roll-back of Start,
  order of Stop, a camera that dies. Correct when nothing outlives what it
  uses and frames taken arrive.
- **Image processing** (`adapters/processing`, `domain/overlay`). Stateless
  arithmetic on planes, strides and geometries.
- **Overlay rendering** (`app/overlay/overlay-proto-mapper.cpp`,
  `adapters/overlay/cairo`). Elements drawn one after the other in one Cairo
  context. Hard: a clip, a group or an error that one element leaves behind
  spoils those after it; opacity through nested groups. Correct when each
  element is painted as if it were alone, in the order of the layers, with its
  opacity applied once.
- **Overlay state** (`app/overlay`, overlay and match handlers). Layout, binding
  data, banners, signature, cached picture. Hard: event loop and clock thread
  interleave between critical sections. Correct when the picture converges to
  the match and banners last their time.
- **Recording** (`app/storage`, `adapters/storage/gstreamer`). Service state,
  path, last frame; recorder running and paused; encoder queue; files. Hard:
  bounded wait for end-of-stream, full disk, thumbnail writer that throws.
  Correct when a playable file is complete and nothing accepted is lost.
- **Raw capture** (`adapters/storage/raw_capture`). Writers with ring and file,
  capturing flag. Hard: try-lock, stop and drain. Correct when every accepted
  frame is written or counted.
- **Streaming** (`app/streaming`, `adapters/streaming`). Map of platform
  streams, RTSP server, one shared mutex. Hard: stop against rebuild, stop
  against a loop that has not begun, viewers around a restart.
- **Downloads** (`app/network`, `adapters/network/http`). Tokens with an expiry,
  workers that read files the recorder writes. Hard: clock, overwritten files,
  Stop with transfers open. Correct when a token opens its own recording.
- **Process and configuration** (`main.cpp`, `app/config`, `adapters/config`). Configuration
  files read before anything starts, order of start and stop, signal mask.
- **Match state** (`match-state.handler.cpp`). Status and time left, derived
  from one snapshot of the session.
- **Read only**: system statistics, device, telemetry and thumbnail queries.

## 2. Modules and code

| module | code | state and actions |
|---|---|---|
| `SessionLifecycle` | what `session-manager.hpp` promises | abstract: phase, hasConfig, hasMatch; climbing, and three ways down |
| `SessionManager` | `session-manager.cpp` | one action per method with its result `ok`; `OnDisconnect` is `BeginDisconnect` and `EndDisconnect` |
| `ControlPlane` | handlers, `session-cleanup.cpp`, `bluez-ble-transport.cpp`, `main.cpp` | composes `SessionManager` with recorder (whose stop may throw), preview (whose stop may not return), DHCP (whose wait may not), group and socket; `pc` is the event loop's next call, `main` the main thread's |
| `FrameBuffer` | `frame-buffer.hpp` | abstract lossy queue |
| `DropOldestRing`, `LatestOnlySlot` | the two buffers | Push, Pop, Close, sleeping, waking, timing out, and the notification after the unlock as its own step |
| `BleLink` | `chunk-assembler.cpp`, `OnRawCommand` | a write is received and acked in one step, its handler is another (`RunHandler`, of the command in `task`); app and link external |
| `WpaLink` | `wpa-wifi-manager.cpp` | each call datagram by datagram; wpa_supplicant external |
| `WifiDirect` | `wifi-direct.handler.cpp`, cleanup of Wi-Fi, `dnsmasq-dhcp-server.cpp` | handlers on the event loop and the cleanup on main over `WpaLink` (EXTENDS) and over dnsmasq, whose `pid_` each of them accesses one read or write a step; the process dies and is started again |
| `WifiContract` | what callers of `IWifiManager` and `IDhcpServer` rely on | abstract: end of process, a DHCP server known, socket open, a group up or coming |
| `Pipeline` | `pipeline-orchestrator.cpp`, `gstreamer.cpp`, fan-out | producers, consumer, Start with roll-back, Stop step by step; `flaw` is the processing step that refuses a frame, every time it is given it |
| `RawCapture` | `filesystem-raw-capture-sink.cpp` | mutex, rings, writers, Start with roll-back, Stop with drain |
| `Recording` | `recording-service.cpp`, `gst-continuous-recorder.cpp`, disk guard | service, recorder, chain with queue, bus and disk |
| `RtmpUplink`, `RtspPreview` | the two streamers | each streamer with its watcher, back-off and rebuild (a start overlaps the join of a streamer taken off the map); server, loop thread, viewer |
| `Streaming` | `streaming-service.cpp` | composes the two (INSTANCE) behind the service's mutex |
| `MatchOverlay` | match, match-state and overlay handlers, controller, scene, sink | critical sections of two threads; what the app was answered last |
| `OverlayDrawing` | `overlay-proto-mapper.cpp`, `overlay-scene.cpp`, `cairo-overlay-renderer.cpp` | a layout mapped, sorted and drawn element by element; a Cairo context with clip, groups and sticky error is external |
| `DownloadServer` | `download-server.cpp`, `http-download-server.cpp` | tokens, workers, files, clock, Stop |
| `RawNaming` | `raw-capture-naming.hpp`, `Enumerate`, the files of `FilesystemRawCaptureSink::Start` | names as token sequences, written and parsed; a start opens its files one by one and may fail at each |
| `FramePath` | planes, `WrapNv12`, crop, fit, blend | one frame through the stages |
| `ProcessLife` | `main.cpp`, configuration loader and reader | configuration, start-up with its failures, mask, shutdown |
| `*Proofs` | | theorems about the module they are named after (`FrameProofs`: the buffers, the bytes of a frame, the overlay); most go on with those of another one, which they extend or take in with INSTANCE (section 5) |
| `MC*` | | constants for TLC |

Handlers appear where what they do is: session, Wi-Fi and recording handlers in
`ControlPlane` (Wi-Fi in detail in `WifiDirect`), match, match state and overlay
in `MatchOverlay`, raw capture in
`RawCapture`, streaming in `RtmpUplink`, downloads in `DownloadServer`.

A call that the code makes in one critical section is one action; a handler
that locks several times is several actions, with the other threads between.
`Pipeline` and `RawCapture` take a buffer operation as one step because
`DropOldestRing` (with theorem `RingImplementsBuffer`) and `LatestOnlySlot`
(theorem `SlotIsRingOfOne`) show that it may be taken so. `ControlPlane` takes
a Wi-Fi call as one step. What it assumes of these steps is `WifiContract`:
`WifiDirect`, where a call is a conversation, implements it
(`ImplementsContract`, by TLC and by theorem), and the steps of `ControlPlane` are steps of it
(`KeepsWifiContract`, by TLC and by theorem).

Definitions marked "Mutant" are variants of the definition that follows them with
a plausible mistake; they are used by no specification and serve to show that a
property can fail. Properties marked `[refuted]` or "Claimed" state what a
document or comment says and the code does not do (section 6).

## 3. Runs

`tlc -workers 2 -config X.cfg M` in this directory. Each bound below is named in
the module that has it.

| run | configuration | asks | bounds, and why they are enough |
|---|---|---|---|
| `control_plane` | MCControlPlane | Is the phase backed by the recorder and the configuration, whatever event loop, clock and shutdown do to each other? Are Wi-Fi calls used within their contract? Does shutdown release everything and end? | two configurations (a change is seen), scores 0..1, every cleanup step may throw, RECORDING_STOP too; either unbounded wait may occur; commands are unbounded, one shutdown. The app does not repeat StartWifiDirect (see 6) |
| `drop_oldest_ring` | MCDropOldestRing | Counters, wake-ups, contract | capacity 2, two producers, two consumers, four pushes: the ring overflows twice, two sleep at once, one times out as it is woken |
| `ble_link` | MCBleLink | Do only whole commands run, acknowledged ones once, do replies come in turn, does repetition get through? | three commands, any of one menu: with an id each, of one and two chunks and replies of one and three; with an id cut into two chunks and into three (the branch for another total); or into two twice, which the assembler cannot tell apart. One reassembly at a time so that eviction happens, one write and one notification lost, a second central on the same assembler |
| `pipeline` | MCPipeline | Does Start roll back, does Stop join before it takes apart, do frames get through a dying neighbour? | two cameras and two frames: one each, or two of camera 0, so that the second overtakes the first wherever it is; each frame is good or refused by one of the steps; one bad sample a camera, so one producer meets every outcome of Capture |
| `raw_capture` | RawCapture | Is every frame written or counted, in order, across Stop? | two cameras, rings of two, three frames a camera (a ring overflows), two captures (state left behind by the first) |
| `recording` | MCRecording | Is a playable file complete, is nothing accepted lost, whose is the thumbnail? | two outputs, one of which has no thumbnail type, a disk of four frames with one kept free, five frames, three recordings |
| `streaming` | MCStreaming | Do uplink and preview, which share a mutex, keep their own promises? | two streams, the second perhaps started while the first is being stopped, one doubling of the back-off (four in the code), two preview servers: each meets what the one before it left |
| `match_overlay` | MCMatchOverlay | Does the picture follow the match, do banners last their time? | two fonts, a score of two bits that clamps, banners of one and two seconds, periods named and not, one second long, four commands, three seconds, the clock ticking for ever |
| `downloads` | MCDownloadServer | Does a token open its recording, are bytes in order, does Stop return? | three files of which two share an id, two tokens, two takes, files of up to two slices, a clock that is set back |
| `wifi_direct` | WifiDirect | Is the group the app was told of up and served? Does a command return, does Stop remove what is up, does an end of the process leave a dnsmasq? Do the calls keep `WifiContract`? | two starts (the second meets what the first left), two reads a start for `kMaxEventReads` = 20 (the second is the last), one foreign event, one death of the process and one of dnsmasq |
| `algorithms` | MCAlgorithms | Plane arithmetic, listing of captures, drawing of layouts | every even and odd geometry of up to 8x6, with padded rows; group ids of up to three tokens that are delimiters, and a whole camera marker with its digits; a match without an id, one called like a capture and one like its stem; two starts of a capture, each of which may fail at any file; layouts of up to two elements (texts with and without box, colour and extents, boxes, circles, a shape unknown to the mapper, opacities below, within and above the range, two layers) with and without a banner: what one element leaves behind meets the next |
| `signal_kills` | ProcessLife | *violation*: can a signal end the process with a recording open? | the two signals of the mask, each raised once |

What the properties of these runs show:

- `RecordingHasRecorder`: the session believes in a recording only while a recorder
  makes it, but for the moments in which the thread that stopped it has yet to say
  so, and after a stop whose thumbnail writer threw (`stopThrew`): then nobody
  says so (section 6). `ShutdownCompletes`: nothing that the event loop does and
  nothing that throws keeps the process alive, but two waits that the code does not
  bound, each excepted only while it lasts for ever: for the thread of a preview that was
  stopped before its loop ran (`orphaned`), with the mutex of the streams held, and
  for a dnsmasq that does not end (`deaf`). `KeepsWifiContract`: the handlers and the cleanup never lose
  the means to remove a group. `ShutdownReleases` excepts what the event loop raced (variable `raced`) and
  the services whose cleanup threw. `ImplementsLifecycle` is the refinement to
  `SessionLifecycle`, under all callers.
- `Accounting` relates four counters and the queue at every step;
  `NoLostWakeup` says that a stored frame with a sleeper has a notification on
  its way; `ImplementsBuffer` is the refinement to `FrameBuffer`.
- `AckedCommandRan` ties what the app was told to what the camera did and says
  that a command of several chunks runs once; `NeverGarbled` that no command
  joins chunks of two, not even when the app gives one up and cuts it again under
  its id, except into as many chunks: the assembler sees the id and the number of
  chunks and joins these (without the exception, `HasTwin`, TLC refutes it). The
  other three speak of commands whose id was used once (`HasOwnId`). `CommandArrives`
  is `[]<>` of the command being handled that the app is on: each is begun once.
- `StopsCleanly` covers roll-back too: after a failed Start no camera is on.
  `TakenFramesArrive` excepts the frames that an OpenCV step refuses: the adapter
  hands the last frame out again and the step refuses it again, so nothing but a
  newer frame helps.
- `EveryFrameAccounted` is a sum over the files, the rings and what was dropped;
  it stops counting a camera whose disk has failed.
- `PlayableIsComplete` and `NothingLost` follow each frame from the service
  through the encoder queue to the file, with bounded waits that may end early.
- `FlushIsAlone`: nobody rebuilds the pipeline that Stop is flushing.
  `UplinkRecovers` holds also when the preview never returns its mutex.
- `PictureConverges` is `<>[]`: with commands bounded, the tick repairs what an
  overtaken handler left behind.
- `ToldGroupIsServed`: between the answer that names a group and its end, that
  group and its dnsmasq are up (unless dnsmasq died by itself), however late and
  mixed the datagrams. `StopRemovesGroup` holds also for a group that a failed
  start left, or a process before this one. `NoDnsmasqSurvives` excepts what
  two threads did in `DnsmasqDhcpServer` at once (variable `overlapped`, section
  6). `CommandReturns`: a handler answers although wpa_supplicant is silent, or
  talks for ever, or dnsmasq has to be waited for; not when a start comes to its
  preview while the shutdown stops the streams and does not return.
- `EachIsPainted`: an element is painted as if it were alone, whatever was drawn
  before it, and above those below it. `OpacityAppliedOnce`: to its box and its
  text together.
- `ListingIsFaithful`: whatever the app puts into a group id, the files that were
  opened are listed as captures of that group and their camera, and matches as
  matches, but for one without an id (its file `.mp4` has no extension). A group
  lacks a camera, and then all after it, only when a start of it failed or is not
  through.

Configurations outside the table, to be run by hand, are refutations:
`MCControlPlaneRetry` (`WifiPhaseHasGroup`), `MCDownloadServerSplice` (`OneRecording`),
`MCRecordingWedged` (`StopEndsIdle`), `MCStreamingStop` (`PreviewStopReturns`).
`ExitLeavesNoGroup` and `RecordingIsTrue` are refuted when they are added to
MCControlPlane. The modules state further properties (`HoldsNewest`, `NeverBackInTime`,
`RefusedForGood`, `GroupRemovable`, `WifiPhaseHasGroup`, `OrderMatchesInbound`,
`SleepersAreServed`, `OverlayIsFitted`, ...) that hold on the same instances, or
small variants of them, when added to the configuration.

Deadlock is checked in `control_plane`, whose specification stutters only once
the process has ended, and in `drop_oldest_ring`, where a consumer can always
call. The others stop when their bounds are used up and say
`CHECK_DEADLOCK FALSE`.

## 4. Fairness

Weak fairness says that a thread that can take its next step does: the
scheduler of Linux guarantees it for every thread that is not blocked, and a
mutex that is free is taken. Nothing makes the app send, a sensor expose, a
signal arrive, a client fetch, or anyone call Stop.

- `ControlPlane`: event loop and main thread. A call that waits for an orphaned
  preview or a deaf dnsmasq is not enabled, so fairness does not end it.
- `DropOldestRing`: pending notifications and woken consumers; no timeout, so
  the liveness does not lean on `wait_for`.
- `BleLink`: the camera (receiving and the handler), the app's listening, and strong fairness of `Repeat`:
  an app that keeps repeating, on a link whose losses are bounded. The app is
  outside the repository; `CommandArrives` is a promise under that condition.
- `Pipeline`: threads, weakly. Nothing makes a processing step succeed: which step
  refuses a frame is settled before the frame is exposed.
- `RawCapture`, `DownloadServer`, `MatchOverlay`: threads; in `MatchOverlay`
  also time and the tick of the clock thread.
- `Streaming`: threads; bus waits and rebuilds end (`kBusPollMs`,
  `kEosFlushSeconds`, GStreamer's state change); an endpoint that is tried for
  ever comes back, which only `UplinkRecovers` needs.
- `WifiDirect`: both threads (every receive is bounded by `kRecvTimeout`, a wait
  for dnsmasq is over when it has ended), wpa_supplicant handling what it was
  sent, and a dnsmasq that was sent SIGTERM ending. That dnsmasq ends, or the
  process dies, by itself is not assumed, nor that the cleanup comes back from
  stopping the streams.
- `ProcessLife`: main runs.

## 5. Proofs

`tlapm X.tla`. No assumption but the `ASSUME`s of the modules, which TLC
evaluates in the runs. Nothing in a proof refers to the bounds above.

- **`ControlPlaneProofs`**, first part: `SessionTypeCorrect`,
  `ConfigFollowsPhase`, `MatchDiesWithSession`, `ManagerImplementsLifecycle`, of
  `SessionManager` under every caller (`ManagerSpec`). The inductive invariant
  `SessionInv` joins the type, "configuration iff Configured or later" and "a
  match that differs from the empty one has a configuration"; the refinement
  mapping reads hasConfig and hasMatch off it.
- **`ControlPlaneProofs`**, second part: `ControlTypeCorrect`, `RecordingIsBacked`,
  `GroupStaysRemovable`, `ShutdownReleasesServices`, `StopWifiCleansUp` (an
  action property), and the three refinements `ControlImplementsManager`,
  `ControlImplementsLifecycle` and `ControlKeepsWifiContract`. None of the properties is inductive: each depends
  on what the event loop is about to do. `ControlInv` adds `Flow` (which `pc`
  belongs to which command and main step), `RecorderInv` (what has been
  established when the recorder handler is at each call; that an idle service has
  no recorder running; a start is marked with a recorder that runs, or the session
  has been reset since, or a stop threw), `WifiInv` (the same
  for the group), `PristineInv` (before the first session nothing runs) and
  `CleanupInv` (after cleanup step k the first k services are released unless
  they threw or the event loop raced). One lemma for each thread, one step per
  action; so also for the contract (`BleThreadKeepsContract`,
  `MainThreadKeepsContract`), for which the type invariant is enough: each call
  is one of its steps or changes nothing of it. `SessionKeepsItsGroup` is
  `WifiPhaseHasGroup` under the hypothesis `~AppRetriesStart`, without which it is
  false (section 6); `WifiBacked` says why: a start is handled below WifiReady
  only, so what it rolls back is not the group of a session.
- **`WifiDirectProofs`**: `WifiInvariant`, `ToldGroupStaysServed`,
  `OrderlyEndLeavesNoDnsmasq` and the refinement `WifiKeepsItsContract`, for any
  number of starts, events, reads, deaths of the process and deaths of dnsmasq.
  With `ControlKeepsWifiContract` both sides of `WifiContract` are proved. The
  argument is who may still speak of which group. `OnTheWay`: requests are in
  the order of the sockets that sent them, none is older than the socket
  wpa_supplicant has attached, and a removal comes from a socket before the one
  in use or from a call that is still waiting; so when the socket in use is
  attached nothing on its way takes the group down. `KnownIsUp`: a group the
  manager knows, or is about to read of, is the one that is up.
  `NothingStays`: a removal that was sent takes down whatever there is, also
  what a failed start will still form (`SupplicantBringsNoGroup`). For dnsmasq,
  `OneServer` says which process there is at each step of the two threads, as
  long as they were not in `DnsmasqDhcpServer` at once, and `OneGroup` ties the
  group, its dnsmasq and what the app was told until the cleanup begins. `WifiInv`
  was checked by TLC with two and with three starts before it was proved.
- **`RawCaptureProofs`**: `RawInvariant`, `RawTypeCorrect`,
  `CaptureAccountsForFrames`, `CaptureStopFlushes`, for any number of cameras,
  frames and captures and any capacity. `Phases` says what a camera's writer and
  file may be doing at each point of Start and Stop, `Order` that file, writer and
  ring hold older and newer frames in this order, `Accounts` that the sum is
  right; a camera whose disk has failed is left out of the sum, as in the run.
  Then `RawNaming`: `CapturesAreListed`, for any group ids, matches and cameras.
  The parser cuts a name at the *last* camera marker, and whatever the group id is
  made of, that one is the sink's own, since nothing but digits and the extension
  follows it (`MarkersOfFileName`); so a name is read back as it was meant
  (`NameIsReadBack`). By `NamingInv` the files are those of the cameras opened and of
  the recordings made, whether or not their start came through, so what is listed
  is all of them and nothing else; and a start opens the cameras in order
  (`OpeningInv`), so where a group lacks one it lacks all later ones and a start
  of it failed or is at work (`Wholeness`).
- **`RecordingProofs`**: `RecordingInvariant`, `ChainLosesNothing`,
  `PlayableFilesAreComplete`, `IdleServiceHoldsNothing` and the action property
  `ThumbnailIsOfItsRecording`, for any paths, disk and errors. `Content` is the
  heart: while the chain plays, the file continued by the queue is what was fed
  (`Continues`), or that with end-of-stream behind it (`Closing`), or all of it
  (`Closed`), so the moov atom is written when nothing is left. `Flow` had to
  say why a service that is not idle may be without a chain: only a thumbnail
  that throws leaves it there, so the path is one without an image type and a
  frame had been seen.
- **`StreamingProofs`**: `ServiceKeepsStreamers`, that the composition behind one
  mutex implements `RtmpUplink` and `RtspPreview`, and with their invariants
  `ListedStreamIsWatched`, `FlushHasNoRival`, `ViewerGetsItsServer`,
  `ServerOutlivesItsLoop`. `UplinkInv`, of each streamer by itself, needs that Stop takes the entry off the
  map first and that the watcher is joined before the flush; `PreviewInv` which
  server a media that is being configured belongs to.
  Then `DownloadServer`: `TokenOpensWhatItNames`, `SlicesAreTrue` and the action
  property `RefusedTokensStayRefused`, for any tokens, workers and recordings. A
  token that lives was never refused (`TokensAreTrue`) and a worker has its path
  from its token (`PathOfToken`); of what it sends, `Slice` keeps that takes only
  grow, so a file of another take than the one announced stays so.
- **`BleLinkProofs`**: `NothingGarbled` for any commands, framings, ids, caps and
  losses (no assumption on ids: the property itself names the one case); `AckedCommandsRan` and `RepliesInTurn` as long as every id belongs to one
  command in one framing (`OneFramingEach`, what section 7 says of the app), which
  is a hypothesis of these two theorems. `PartialsInv`: the parts of an entry are
  chunks of commands with its id and its number of chunks (`Alike`), which were
  begun (`BegunInv`), so a completed one is whole unless there are two of these. For the other
  two the difficulty is that a chunk may be under way, acked, stored, evicted or
  forgotten while its like is repeated. `LinkInv` says how far each side is: chunks
  of a command are under way in order (`InOrder`); the camera holds no chunk later
  than one still under way, and of a command that ran only the last chunk is left
  (`NoneOvertaken`), so it is not assembled twice; every chunk whose ack
  is under way or was heard is in its entry, or the command ran (`CameraKeepsUp`);
  and the app has every part of the reply before one that is under way
  (`AppKeepsUp`). TLC checked `LinkInv` before it was proved.
- **`PipelineProofs`**: `PipelineInvariant`, `PipelineTypeCorrect`,
  `PipelineStopsCleanly`, `RawSinkSeesFirst` and the action property
  `SinksNeverGoBack`, for any number of cameras, frames and bad samples.
  `ThreadsFollowMain` and `CamerasFollowMain` say what runs at each step of
  Start, its roll-back and Stop. For the order of frames the newest frame
  offered to the raw sink is the middle: from there back to the sensor frames get
  newer (`Upstream`), on to the sinks they get older (`Downstream`), although an
  adapter hands out its last frame again and a slot is emptied; that an adapter
  which is down holds no frame (`DownHoldsNothing`) is needed where Start primes it.
  Then `MatchOverlay`: `BannersLastTheirTime`, an action property. A refresh
  removes the banners whose end its thread has read to be past, so what it takes
  is that no thread is ahead of the clock (`ThreadsAreNeverAhead`): event loop and
  clock thread each hold a time they read at or before now, however long ago.
  At the end of the module `ProcessLife`, as `Life`: `ProcessStopsInOrder` and
  `ProcessReturnsClean`. `PartsFollowMain` says which parts run at each step of
  main and `RecorderNeedsBle` that only the transport records.
- **`FrameProofs`**: `RingAccounts`, `RingHoldsNewest`,
  `RingDeliversInOrder`, `RingImplementsBuffer`, for any capacity, any threads.
  `RingInv` needs that the queue is the run of numbers ending at the last
  accepted push (`HoldsNewest`) and that what was delivered is older
  (`SeenIsGone`). `RingLosesNoWakeup`: `NoLostWakeup` speaks of one notification,
  but a woken consumer takes one value and leaves the others, so what is kept is
  a count (`WakeupsSuffice`): while somebody sleeps there are as many
  notifications and woken consumers as values.
  `SlotIsRingOfOne`: the slot refines the ring of capacity one, so the theorems on
  the ring hold of the slot. It replaces a run.
  Then `FramePath`: `FrameReachesOpenCvWhole`, that `MatrixIsTheImage` holds for
  any geometry and any slack in the buffer, by the arithmetic of rows (`Paddings`,
  `RowsFollow`); and of `CompositeOverlay` `OverlayFits` and `BlendingIsExact`, for
  any two sizes and any alpha, also where doubles round a quotient down
  (`TruncatedIsClose`).
  Then `OverlayDrawing`: `LayoutIsPaintedInOrder` and `TranslucentOnce`, for any
  layouts and banners, of any length. What an element leaves behind decides: in a
  context without error, clip or group, drawing an element ends in such a context
  with at most one more unit (`ElementOnTop`, from what a save, a clip and a group
  do), which needs the opacity to be an alpha of Cairo, as the mapper's clamp
  makes it (`OpacityIsInRange`). So by `DrawingInv` the picture is at any time the
  units of the elements drawn so far, in an order of the layers; elements are
  known by their place, so which unit is whose can be read off it.

Every invariant and action property of the passing runs, and every refinement, is
stated by a theorem. Only model-checked: all liveness (`ShutdownCompletes`,
`CommandReturns`, `CommandArrives`, `StopRemovesGroup`, `StopTerminates`,
`TakenFramesArrive`, `StopReturns`, `UplinkRecovers`, `PictureConverges`), which
rests on fairness and is out of the prover's reach; and `OrderMatchesInbound` of
`BleLink`, which no run checks: it is about a sequence that is filtered
(`SelectSeq`), an induction over data.

## 6. Disagreements

Where the code does not do what a document, comment or test says. Each is stated
as a property of the module named, and TLC refutes it on an instance of that
module. `SignalFinalizes` is the one that is kept as a run; the others
with a configuration to be run by hand are listed in section 3.

- **OnlyDisconnectGoesBack** (`SessionManager`;
  src/app/session/services/session_manager/session-manager.cpp:60).
  OnWifiStopped moves the phase from any phase above Connected back to Connected
  (and OnRecordingStop from Recording to Ready);
  src/app/session/ports/session-manager.hpp:14 says "the only backward edge is
  OnDisconnect → Idle".
- **WifiPhaseHasGroup (with AppRetriesStart)** (`ControlPlane`;
  src/app/control/services/handlers/wifi-direct.handler.cpp:41). When
  StartWifiDirect is repeated with the group up and wpa_supplicant accepts
  P2P_GROUP_ADD, DnsmasqDhcpServer::Start refuses because dnsmasq runs already,
  and the handler rolls back with wifi_.Stop(): the live group is gone while the
  phase stays at WifiReady or above, and every later StartWifiDirect fails the
  same way until StopWifiDirect.
  src/app/session/services/session_manager/session-manager.cpp:44 says
  "re-affirming when already further along is a no-op success (the group is
  already up)", a path the handler cannot reach.
- **NoConfigWhileRecording** (`ControlPlane`;
  src/app/session/services/session_manager/session-manager.cpp:53).
  StopWifiDirect moves a recording session back to Connected without stopping
  the recorder; after StartWifiDirect a new PushSessionConfig is accepted
  although the recorder is still writing.
  src/app/session/services/session_manager/session-manager.cpp:72 says
  "Re-pushing config mid-recording is likewise rejected".
- **ExitLeavesNoGroup** (`ControlPlane`;
  src/adapters/control/ble/bluez/bluez-ble-transport.cpp:233).
  BluezBleTransport::Stop runs the disconnect hook while the D-Bus event loop
  still dispatches commands, so a StartWifiDirect in progress forms a group
  after the cleanup (or while the session is still Idle) and nothing removes it:
  WpaWifiManager's destructor only closes its socket. src/main.cpp:273 says
  "Destructors stop the pipeline + transport (which finalizes any active session
  via the disconnect hook)".
- **DisconnectEndsSession** (`ControlPlane`;
  src/adapters/control/ble/bluez/bluez-ble-transport.cpp:229). The disconnect
  hook is called only from Stop(); no signal of BlueZ reaches it, so a session
  survives its central for ever. src/app/control/ports/ble-transport.hpp:35 says
  "Invoked when the central disconnects, so the session can be finalized +
  cleaned up (R15). Also fires on transport Stop()."
- **RunsAtMostOnce** (`BleLink`;
  src/adapters/control/ble/bluez/chunk-assembler.cpp:37). A command of one chunk
  keeps no reassembly state, so its retransmission is handled a second time (a
  score is added twice, a toggle is undone).
  src/adapters/control/ble/bluez/chunk-assembler.hpp:50 says "A duplicate of an
  already-seen chunk is `accepted` (well-formed; the app may have retransmitted
  after a lost ack) but contributes nothing new."
- **NewCentralStartsClean** (`BleLink`;
  src/adapters/control/ble/bluez/bluez-ble-transport.cpp:270). Reset is called
  from Stop() only; nothing runs when a central goes away, so its partial
  commands and its pending reply stay in the assembler for the next one.
  src/adapters/control/ble/bluez/chunk-assembler.hpp:78 says "Called on
  disconnect so a new central never sees a previous session's half-assembled
  message or a stale outbound flow-control state".
- **CapturesNewFramesOnly** (`Pipeline`;
  src/adapters/capture/frame/gstreamer/gstreamer.cpp:364). With no new sample
  Capture returns last_frame_, never nullopt, so a producer does not sleep but
  preprocesses, forks to raw capture and pushes the same frame over and over
  until the next one comes.
  src/app/pipeline/services/orchestrator/pipeline-orchestrator.hpp:26 says
  "Polling interval used by a producer when Capture() returns nullopt (no new
  frame ready). Tight enough to not miss frames at 30+ fps, loose enough not to
  spin a core when the camera is idle."
- **LostOnlyToControl** (`RawCapture`;
  src/adapters/storage/raw_capture/filesystem-raw-capture-sink.cpp:97). Both
  producers try the same mutex, so a frame of one camera is dropped, uncounted,
  whenever the other camera is inside PushCamera, although the writers keep up.
  src/adapters/storage/raw_capture/filesystem-raw-capture-sink.cpp:91 says "if
  Start/Stop holds mtx_, drop this frame rather than stall the capture thread".
- **FailedStartLeavesNoFile** (`RawCapture`;
  src/adapters/storage/raw_capture/filesystem-raw-capture-sink.cpp:73). When a
  later file does not open, the writers are destroyed, which closes the files
  already created but does not remove them; DownloadServer::Enumerate lists them
  as recordings of the group (`RawNaming` has them in `ListingIsFaithful`).
  src/adapters/storage/raw_capture/filesystem-raw-capture-sink.cpp:73 says
  "writers (and their files) roll back as the vector dies".
- **SuccessIsPlayable** (`Recording`;
  src/adapters/storage/gstreamer/gst-continuous-recorder.cpp:158).
  GstContinuousRecorder::Stop returns true when the bus wait timed out or
  returned an ERROR (disk full), and RECORDING_STOP answers OK for an MP4
  without a moov atom. src/app/storage/ports/continuous-recorder.hpp:19 says
  "EOS the muxer and finalize a playable file. Returns false if not running."
- **StopEndsIdle** (`Recording`;
  src/app/storage/services/recording_service/recording-service.cpp:91).
  cv::imwrite throws for a thumbnail path without a known image extension; the
  path comes from the app. The exception leaves Stop after the recorder stopped
  and before state_ is reset, every later Stop throws again and every later
  START is refused until a reboot.
  src/app/storage/ports/recording-service.hpp:32 says "Finalize the recording
  (EOS + thumbnail). Idempotent — a no-op when idle, so the disconnect cleanup
  path can call it unconditionally."
- **RecordingIsTrue** (`ControlPlane`;
  src/app/control/services/handlers/recording.handler.cpp:53). The same exception
  ends the handler of RECORDING_STOP before it tells the session;
  CommandDispatcher::Dispatch catches it
  (src/app/control/services/dispatcher/command-dispatcher.cpp:55) and
  answers an error, so the phase stays Recording although nothing records, until
  StopWifiDirect or the end of the session.
  src/app/control/services/handlers/recording.handler.cpp:42 says "keep state consistent"
  of the roll-back, which goes through the same call.
- **PlayableSurvives** (`Recording`;
  src/app/storage/services/recording_service/recording-service.cpp:44). After
  RECORDING_STOP the session is Ready and a second RECORDING_START is accepted
  with the same output path; filesink truncates the finalized MP4.
  src/app/storage/ports/continuous-recorder.hpp:9 says "One continuous, playable
  MP4 per session."
- **BackoffGrows** (`RtmpUplink`;
  src/adapters/streaming/gst_rtmp/gst-rtmp-streamer.cpp:188). rtmp2sink connects
  after the transition to PLAYING, so BuildAndPlayLocked succeeds although the
  endpoint is down, the backoff is reset and the next error comes over the bus:
  the interval stays at 500 ms.
  src/adapters/streaming/gst_rtmp/gst-rtmp-streamer.cpp:140 says "Capped
  exponential backoff so a permanently-down endpoint can't spin into a reconnect
  storm".
- **StartIsAccepted** (`RtmpUplink`;
  src/app/control/services/handlers/streaming.handler.cpp:41). The handler never
  sets stream_key, GstRtmpStreamer::Start refuses an empty one
  (src/adapters/streaming/gst_rtmp/gst-rtmp-streamer.cpp:120), so
  STREAMING_START answers an error for every destination.
  src/app/control/services/handlers/streaming.handler.cpp:41 says "full RTMP URL
  (app supplies key inline)", and tests/streaming/streaming_handler.test.cpp:74
  "StartToDestinationThenStop" expects OK from it, with a fake streaming
  service.
- **PreviewStopReturns** (`Streaming`;
  src/adapters/streaming/gst_rtsp/gst-rtsp-app-stream-server.cpp:135). When Stop
  runs before the new thread reaches g_main_loop_run, the loop is not running,
  so it is not quit, and the thread then runs it for ever: join() never returns,
  with StreamingService::mtx_ held, and the event loop and the consumer stop.
  `ControlPlane` has it as `preview = "orphaned"`: commands and shutdown that
  come to the preview then stay there.
  src/adapters/streaming/gst_rtsp/gst-rtsp-app-stream-server.hpp:33 says
  "Lifecycle: Start() spins a dedicated GMainLoop thread; Stop() quits it."
- **NoFrameBeforeViewer** (`RtspPreview`;
  src/adapters/streaming/gst_rtsp/gst-rtsp-app-stream-server.cpp:242).
  OnMediaConfigure stores the appsrc although running_ was cleared, so after the
  next Start frames are pushed to the source of a stopped server until a viewer
  connects. src/adapters/streaming/gst_rtsp/gst-rtsp-app-stream-server.hpp:35
  says "Push() calls before any client connects are silently dropped."
- **PictureFollowsLayout** (`MatchOverlay`;
  src/app/overlay/services/overlay_controller/overlay-controller.cpp:41).
  Signature leaves out font_family, font_size, font_weight and text_align, which
  CairoOverlayRenderer draws with, so a layout pushed again with another font or
  alignment is answered OK and not rendered until a text changes.
  src/app/overlay/services/overlay_controller/overlay-controller.hpp:17 says "a
  new RGBA frame is rendered and pushed only when the resolved scene actually
  differs from the last one pushed", so that "identical updates don't thrash the
  pipeline".
- **AnsweredIsShown** (`MatchOverlay`;
  src/app/control/services/handlers/match.handler.cpp:42). SyncOverlay takes the
  snapshot, sets the binding data and refreshes in three critical sections; a
  tick of the clock thread that took its snapshot earlier overwrites the newer
  binding data, and the picture keeps the old score until the next tick.
  docs/brainstorms/2026-06-04-app-source-of-truth-firmware-refactor-requirements.md:81
  says "Data bindings auto-update from match events: BINDING_SCORE_A/B/VS from
  ScoreUpdate" (R18).
- **EndClearsOverlay** (`MatchOverlay`;
  src/app/session/services/session_manager/session-manager.cpp:159).
  OnDisconnect resets the SessionState only; layout, binding data and banners
  live in OverlayController and the picture in CachingOverlaySink, and nothing
  clears them.
  docs/brainstorms/2026-06-04-app-source-of-truth-firmware-refactor-requirements.md:68
  says "Session state (config, overlay layout, scores, clock, period) is held in
  memory only and is cleared whenever the session ends" (R11).
- **BannerIsRemoved** (`MatchOverlay`;
  src/app/control/services/handlers/match.handler.cpp:155). Banners expire in
  Refresh only, and TickClock refreshes only while a session is configured: a
  banner shown when the session ends stays on the frames.
  docs/brainstorms/2026-06-04-app-source-of-truth-firmware-refactor-requirements.md:82
  says BannerEventCommand "shows the template's elements, then removes them"
  (R19).
- **OneRecording** (`DownloadServer`;
  src/adapters/network/http/http-download-server.cpp:73). The content provider
  opens the file anew for every slice and nothing ties it to the recording the
  length was taken from: when the same match is recorded again (RECORDING_START
  truncates {match}.mp4) while it is being downloaded, the slice mixes the old
  and the new recording.
  docs/plans/2026-06-08-001-refactor-app-source-of-truth-firmware-plan.md:578
  says "A minted token authorizes a `Range:` GET for its recording and returns
  the correct byte slice".
- **FetchEnds** (`DownloadServer`;
  src/adapters/network/http/http-download-server.cpp:80). When the file has
  become shorter than the announced length, the provider reads nothing, writes
  nothing and returns true, so httplib calls it again without end and the worker
  spins until the client gives up or the server stops.
  docs/brainstorms/2026-06-04-app-source-of-truth-firmware-refactor-requirements.md:121
  says "File transferred over the local high-bandwidth link".
- **ReplyIsToTheCommand** (`WifiDirect`;
  src/adapters/control/wifi/wpa_supplicant/wpa-wifi-manager.cpp:105).
  SendCommand takes the next datagram on the socket for the reply, but the
  socket is attached, so an event sent between ATTACH and the reply to
  P2P_GROUP_ADD (or the reply to ATTACH, when it comes after the two seconds) is
  taken for it: the start fails although the group is being formed.
  src/adapters/control/wifi/wpa_supplicant/wpa-wifi-manager.hpp:15 says "and
  reading back OK/FAIL replies and unsolicited events".
- **NoHalfOpenGroup** (`WifiDirect`;
  src/adapters/control/wifi/wpa_supplicant/wpa-wifi-manager.cpp:148). When the
  P2P-GROUP-STARTED event comes late, is not among the first 20 datagrams or
  cannot be parsed, StartP2pGroupOwner answers nullopt without removing the
  group and the handler returns without wifi_.Stop(): the group stays up, the
  phase does not advance, and a repeated start is refused by wpa_supplicant
  until the session ends.
  src/app/control/services/handlers/wifi-direct.handler.cpp:43 says "leave a
  half-open state" of what a failing start must not do.
- **SignalFinalizes** (`ProcessLife`; src/main.cpp:279). SIGINT and SIGTERM are
  blocked with sigprocmask in the main thread only, after the threads of the
  pipeline, the transport, the HTTP server and the clock were created without
  the mask, and no handler is installed. Linux gives a signal for the process to
  main only while main is in sigwait: one that comes just before it, or a second
  one while main joins the clock or stops the HTTP server, is delivered to
  another thread, whose default action ends the process with the recording not
  finalized. src/main.cpp:273 says "Run until terminated (SIGINT/SIGTERM).
  Destructors stop the pipeline + transport (which finalizes any active session
  via the disconnect hook)."

- **NoDnsmasqSurvives without its exception** (`WifiDirect`;
  src/adapters/control/wifi/wpa_supplicant/dnsmasq-dhcp-server.cpp:84). The
  cleanup on main stops dnsmasq while the event loop may be starting or stopping
  one, and `pid_` has no lock: a `pid_ = -1` that comes late makes the server
  forget a dnsmasq started meanwhile, which then survives the process; and main,
  which reads `pid_` again for `waitpid`, can wait there for a dnsmasq that was
  started after its SIGTERM was sent and that nobody has told to end.
  src/adapters/control/wifi/wpa_supplicant/dnsmasq-dhcp-server.hpp:11 says "Stops the
  process on teardown".

Two things that no document rules out but a reader of the match state should
know: PERIOD_START does not reset the clock, so that in the second period
`time_remaining` is what is left of the first one's length
(src/app/control/services/handlers/match-state.handler.cpp:43, "Remaining
seconds in the current period"); and a clock that is resumed before any period
was named runs while the status says MATCH_NOT_STARTED.

Questions that are settled in the code's favour: binding the HTTP server to all
interfaces (`main.cpp`, deliberately, against the plan's KTD7) is not modelled,
since no property depends on the address.

## 7. Assumptions, and what is not modelled

Assumptions about what is not in the repository:

- the app: a correlation id belongs to one command in one framing, for
  `AckedCommandRan`, `ReplyInTurn` and `CommandArrives` (`NeverGarbled` does without;
  the theorems on the first two assume it of all ids, the run of the id in question); it sends one command at a time; match and group ids may be anything
  (`RawNaming`) but `DownloadServer` never has two recordings of one id except
  under two users, where the choice between them is left open;
- the BLE link keeps order, loses and repeats; BlueZ calls the event loop thread;
- wpa_supplicant handles requests in order, runs one group at a time and does not
  drop it by itself; while a group is up `WifiDirect` has it refuse another
  P2P_GROUP_ADD. What it does then is not in the repository, so `ControlPlane`
  leaves it open (`FormGroup`), and what follows when it accepts is
  `WifiPhaseHasGroup` in section 6; its restart is not modelled, nor is a send that fails. A
  process that starts over a group that an earlier one left is modelled; its
  first StopWifiDirect without a start does nothing, since it has no socket;
- dnsmasq ends when it is sent SIGTERM, for `CommandReturns` of `WifiDirect`
  (`ControlPlane` has the one that does not, `deaf`); the service manager ends the children of
  a process that died before it starts it again;
- Cairo keeps an error in the context and then draws nothing more, clips and
  restores as it documents; where Pango puts the glyphs makes no difference;
- GStreamer: a chain encodes in order, a bus has at most the errors and the EOS
  the models give it, a state change ends; httplib calls the content provider
  until it has what was announced and joins its workers in stop;
- OpenCV may refuse a frame, and refuses it again when it is given it again: the
  steps depend on the frame and the configuration only.

Assumptions between modules: `ControlPlane` takes a call on the recorder or the
preview as one step; that the recorder's stop may throw and leave the service not
idle, and that the preview's may never return, are results of `Recording` and
`RtspPreview`. Any RECORDING_STOP may throw there, while in `Recording` it depends
on the thumbnail path. Platform streams are not in `ControlPlane`. `WifiDirect` has
only the mutex of the streams, which StartAppStream waits for while the cleanup is in
StopAppStream. `ProcessLife` takes the transport's stop with its
hook as one step. main starts and stops the pipeline once. `RtmpUplink` has
callers with and without a stream key although the one handler never sets it.
`DownloadServer` has files that are never deleted, as in the code, so the
file-not-found branch is not reached, and ignores the path of the URL as the code does.
`FramePath` has the layouts the caps can describe.

Not modelled:

- device, telemetry and thumbnail queries (they change nothing; one action
  `HandleQuery` in `ControlPlane`); system statistics, the JPEG encoder; the
  single fields of the configuration, of which one stands for all;
- D-Bus registration (`gatt-application.cpp`), protobuf encoding, logging;
- the arguments of dnsmasq; colour conversion; the layout of text by Pango;
- RTSP connections that outlive Stop; destructors of services at process end
  but those that stop the DHCP server, close the control socket (`DestroyWifi`),
  stop the streams and the recorder (`ExitProcess`);
- `gst-overlay-compositor.cpp`, which main does not construct; the deprecated
  Python program; vendored code; build and deployment;
- memory that grows without bound (outbound transfers, expired tokens, the
  encoder's queue): the models have finite sets in their place.

## 8. Plan

Done: the modules above, in this order: session and control plane; buffers; BLE;
pipeline, raw capture, recording; streaming, overlay, downloads, Wi-Fi; frames,
names, process; Wi-Fi again with its handlers, dnsmasq and the death of the
process; overlay drawing, match state, configuration. Abstract specifications:
`SessionLifecycle`, `FrameBuffer`, `WifiContract`, `SessionManager` for
`ControlPlane`, `DropOldestRing` for `LatestOnlySlot`.

Next in the models:

1. `Recording` as the recorder of `ControlPlane`, in place of the steps that stand
   for its outcomes there; `ProcessLife` composed
   with `ControlPlane`, so that a signal meets a handler half way;
2. an abstract specification of a recording (a file that is absent, growing,
   playable) with a refinement from `Recording`;
3. RTSP connections that outlive Stop.

Next in the proofs:

the refinement from `Recording` to the abstract recording above.

Out of the prover's reach, and left to TLC: liveness under fairness, ENABLED, and
what recursive definitions compute.
