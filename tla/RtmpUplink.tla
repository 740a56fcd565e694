----------------------------- MODULE RtmpUplink -----------------------------
(***************************************************************************)
(* The platform stream: StreamingService's map of streamers, with its one  *)
(* entry kEgressStreamId, and GstRtmpStreamer (gst-rtmp-streamer.cpp).     *)
(*                                                                         *)
(* Threads: the event loop and the main thread start and stop the stream,  *)
(* the pipeline's consumer pushes frames, a streamer's watcher waits on    *)
(* the bus and rebuilds the GStreamer pipeline after an error.  Each start *)
(* makes a streamer of its own, so that one may be started while the one   *)
(* before it is still being stopped; a streamer that is gone is used       *)
(* again.  GstRtmpStreamer::mtx_ is held across a rebuild and across the   *)
(* flush of Stop; every other critical section is one step.                *)
(***************************************************************************)
EXTENDS Naturals

CONSTANTS
  Streamers,  \* as many as there are threads to stop them
  Keys,       \* does the caller's config have a stream key
  MaxLevel,   \* doublings from kBaseBackoff to kMaxBackoff (4)
  MaxStarts   \* bound of the model: calls of StartPlatformStream

VARIABLES
  listed,     \* the streamer platform_streams_ and active_names_ hold, if any
  running, watching,
  pipeline,   \* pipeline_ and appsrc_: none, up, or error once the bus has one
  watcher,    \* where the watcher thread is
  level,      \* backoff, as an exponent
  mutex,      \* holder of the streamer's mtx_
  control,    \* where the thread that stops the streamer is
  consumer,   \* where the consumer thread is
  starts,     \* calls of StartPlatformStream so far
  unhealthy   \* history: rebuilt since the bus was last silent for a tick

flags == <<listed, running, watching>>
vars == <<flags, pipeline, watcher, level, mutex, control, consumer, starts, unhealthy>>

UplinkTypeOK ==
  /\ listed \subseteq Streamers
  /\ running \in [Streamers -> BOOLEAN] /\ watching \in [Streamers -> BOOLEAN]
  /\ pipeline \in [Streamers -> {"none", "up", "error"}]
  /\ watcher \in [Streamers -> {"none", "top", "poll", "backoff", "lock", "rebuild", "exited"}]
  /\ level \in [Streamers -> 0..MaxLevel] /\ unhealthy \in [Streamers -> BOOLEAN]
  /\ starts \in 0..MaxStarts
  /\ mutex \in [Streamers -> {"free", "watcher", "control"}]
  /\ control \in [Streamers -> {"idle", "joining", "locking", "flushing"}]
  /\ consumer \in {"out", "pushing"}
  /\ \A s \in Streamers : /\ mutex[s] = "watcher" <=> watcher[s] = "rebuild"
                          /\ mutex[s] = "control" <=> control[s] = "flushing"

Each(value) == [s \in Streamers |-> value]

Init == /\ listed = {} /\ running = Each(FALSE) /\ watching = Each(FALSE)
        /\ pipeline = Each("none") /\ watcher = Each("none") /\ level = Each(0)
        /\ mutex = Each("free") /\ control = Each("idle") /\ consumer = "out"
        /\ starts = 0 /\ unhealthy = Each(FALSE)

Set(f, s, value) == [f EXCEPT ![s] = value]

-----------------------------------------------------------------------------
\* STREAMING_START and STREAMING_STOP on the event loop, or the cleanup of a
\* disconnect there or on the main thread.

\* The start of a streamer, by a thread that is not stopping one, when the map has
\* none; it is refused or fails otherwise and leaves nothing behind.
StartPlatformStream(key) ==
  \E s \in Streamers :
    /\ control[s] = "idle" /\ starts < MaxStarts /\ starts' = starts + 1
    /\ IF listed # {} \/ ~key
       THEN UNCHANGED <<flags, pipeline, watcher>>
       ELSE /\ listed' = {s}
            /\ running' = Set(running, s, TRUE) /\ watching' = Set(watching, s, TRUE)
            /\ pipeline' = Set(pipeline, s, "up") /\ watcher' = Set(watcher, s, "top")
    /\ UNCHANGED <<level, mutex, control, consumer, unhealthy>>

\* Mutant: the entry stays in the map.
BeginStopKeepsEntry(s) ==
  /\ control[s] = "idle" /\ s \in listed
  /\ consumer = "out"
  /\ watching' = Set(watching, s, FALSE) /\ control' = Set(control, s, "joining")
  /\ UNCHANGED <<listed, running, pipeline, watcher, level, mutex, consumer, starts, unhealthy>>

\* The entry leaves the map first; frames no longer reach the streamer, and the
\* rest is done without the mutex of the service.
BeginStop(s) ==
  /\ control[s] = "idle" /\ s \in listed
  /\ consumer = "out"
  /\ listed' = listed \ {s}
  /\ watching' = Set(watching, s, FALSE) /\ control' = Set(control, s, "joining")
  /\ UNCHANGED <<running, pipeline, watcher, level, mutex, consumer, starts, unhealthy>>

\* Mutant: the watcher is not waited for.
JoinNobody(s) ==
  /\ control[s] = "joining" /\ control' = Set(control, s, "locking")
  /\ UNCHANGED <<flags, pipeline, watcher, level, mutex, consumer, starts, unhealthy>>

JoinWatcher(s) ==
  /\ control[s] = "joining" /\ watcher[s] = "exited"
  /\ watcher' = Set(watcher, s, "none") /\ control' = Set(control, s, "locking")
  /\ UNCHANGED <<flags, pipeline, level, mutex, consumer, starts, unhealthy>>

BeginFlush(s) ==
  /\ control[s] = "locking" /\ mutex[s] = "free"
  /\ mutex' = Set(mutex, s, "control") /\ control' = Set(control, s, "flushing")
  /\ UNCHANGED <<flags, pipeline, watcher, level, consumer, starts, unhealthy>>

\* The bus answered end-of-stream or an error, or kEosFlushSeconds passed; the
\* streamer is destroyed with its state.
EndFlush(s) ==
  /\ control[s] = "flushing"
  /\ pipeline' = Set(pipeline, s, "none") /\ running' = Set(running, s, FALSE)
  /\ mutex' = Set(mutex, s, "free") /\ control' = Set(control, s, "idle")
  /\ level' = Set(level, s, 0) /\ unhealthy' = Set(unhealthy, s, FALSE)
  /\ UNCHANGED <<listed, watching, watcher, consumer, starts>>

-----------------------------------------------------------------------------
\* The watcher thread.

Goto(s, place) == watcher' = Set(watcher, s, place)

\* Mutant: without a bus the loop only starts over.
WatchTopSpins(s) ==
  /\ watcher[s] = "top" /\ mutex[s] = "free"
  /\ Goto(s, IF ~watching[s] THEN "exited" ELSE IF pipeline[s] # "none" THEN "poll" ELSE "top")
  /\ UNCHANGED <<flags, pipeline, level, mutex, control, consumer, starts, unhealthy>>

\* The head of the loop; there is no bus after a rebuild that failed.
WatchTop(s) ==
  /\ watcher[s] = "top" /\ mutex[s] = "free"
  /\ Goto(s, IF ~watching[s] THEN "exited" ELSE IF pipeline[s] # "none" THEN "poll" ELSE "backoff")
  /\ UNCHANGED <<flags, pipeline, level, mutex, control, consumer, starts, unhealthy>>

\* The bus stayed silent for kBusPollMs: the backoff starts over.
HealthyTick(s) ==
  /\ watcher[s] = "poll" /\ pipeline[s] = "up"
  /\ level' = Set(level, s, 0) /\ unhealthy' = Set(unhealthy, s, FALSE) /\ Goto(s, "top")
  /\ UNCHANGED <<flags, pipeline, mutex, control, consumer, starts>>

BusError(s) ==
  /\ watcher[s] = "poll" /\ pipeline[s] = "error" /\ Goto(s, "backoff")
  /\ UNCHANGED <<flags, pipeline, level, mutex, control, consumer, starts, unhealthy>>

\* The sleep ends with the backoff, or within a slice once watching_ is cleared.
BackoffEnds(s) ==
  /\ watcher[s] = "backoff" /\ Goto(s, "lock")
  /\ UNCHANGED <<flags, pipeline, level, mutex, control, consumer, starts, unhealthy>>

BeginRebuild(s) ==
  /\ watcher[s] = "lock" /\ mutex[s] = "free"
  /\ IF watching[s] /\ running[s]
     THEN Goto(s, "rebuild") /\ mutex' = Set(mutex, s, "watcher")
     ELSE Goto(s, "exited") /\ UNCHANGED mutex
  /\ UNCHANGED <<flags, pipeline, level, control, consumer, starts, unhealthy>>

EndRebuild(s, newPipeline, newLevel) ==
  /\ watcher[s] = "rebuild"
  /\ pipeline' = Set(pipeline, s, newPipeline) /\ level' = Set(level, s, newLevel)
  /\ unhealthy' = Set(unhealthy, s, TRUE)
  /\ Goto(s, "top") /\ mutex' = Set(mutex, s, "free")
  /\ UNCHANGED <<flags, control, consumer, starts>>

\* BuildAndPlayLocked succeeded.  rtmp2sink connects after the transition to
\* PLAYING, so this does not mean that the endpoint answered.
Rebuilt(s) == EndRebuild(s, "up", 0)

RebuildFails(s) == EndRebuild(s, "none", IF level[s] < MaxLevel THEN level[s] + 1 ELSE MaxLevel)

\* rtmp2sink posts an error: the connection was refused or is lost.
UplinkFails(s) ==
  /\ pipeline[s] = "up" /\ mutex[s] = "free"
  /\ pipeline' = Set(pipeline, s, "error")
  /\ UNCHANGED <<flags, watcher, level, mutex, control, consumer, starts, unhealthy>>

-----------------------------------------------------------------------------
\* The consumer thread, inside StreamingService::Push with its mutex: the
\* streamer's own mutex is only tried.

EnterPush ==
  /\ consumer = "out" /\ listed # {} /\ consumer' = "pushing"
  /\ UNCHANGED <<flags, pipeline, watcher, level, mutex, control, starts, unhealthy>>

\* The frame goes to appsrc, or is dropped because the mutex is taken.
LeavePush ==
  /\ consumer = "pushing" /\ consumer' = "out"
  /\ UNCHANGED <<flags, pipeline, watcher, level, mutex, control, starts, unhealthy>>

-----------------------------------------------------------------------------
StopStep(s) == BeginStop(s) \/ JoinWatcher(s) \/ BeginFlush(s) \/ EndFlush(s)
WatcherStep(s) == \/ WatchTop(s) \/ HealthyTick(s) \/ BusError(s) \/ BackoffEnds(s)
                  \/ BeginRebuild(s) \/ Rebuilt(s) \/ RebuildFails(s)
Next == \/ \E key \in Keys : StartPlatformStream(key)
        \/ \E s \in Streamers : StopStep(s) \/ WatcherStep(s) \/ UplinkFails(s)
        \/ EnterPush \/ LeavePush

\* Threads run, sleeps and bus waits are bounded.  A rebuild may hang in the
\* teardown of a stalled socket: nothing is assumed of it here.
Fairness ==
  /\ WF_vars(LeavePush)
  /\ \A s \in Streamers :
       /\ WF_vars(JoinWatcher(s)) /\ WF_vars(BeginFlush(s)) /\ WF_vars(EndFlush(s))
       /\ WF_vars(WatchTop(s)) /\ WF_vars(HealthyTick(s) \/ BusError(s))
       /\ WF_vars(BackoffEnds(s)) /\ WF_vars(BeginRebuild(s))

\* Rebuilds end and an endpoint that is tried for ever comes back.
Endpoint ==
  \A s \in Streamers : WF_vars(Rebuilt(s) \/ RebuildFails(s)) /\ SF_vars(Rebuilt(s))

Spec == Init /\ [][Next]_vars
StallSpec == Spec /\ Fairness
LiveSpec == Spec /\ Fairness /\ Endpoint

-----------------------------------------------------------------------------
\* Properties.

\* A stream that is listed to the app runs and has a watcher to rebuild it, and
\* one that is gone has neither thread nor pipeline, whichever other is being stopped
\* meanwhile (StartPlatformStream, StopPlatformStream, GstRtmpStreamer::Stop).
ListedIsWatched ==
  /\ \A s \in listed : running[s] /\ watching[s] /\ watcher[s] \notin {"none", "exited"}
  /\ \A s \in Streamers \ listed :
       control[s] = "idle" => ~running[s] /\ watcher[s] = "none" /\ pipeline[s] = "none"

\* Stop flushes a pipeline that no watcher can replace under it (the comment at
\* GstRtmpStreamer::Stop: "so its reconnect path can't race the teardown below").
FlushIsAlone ==
  \A s \in Streamers : control[s] \in {"locking", "flushing"} => watcher[s] = "none"

\* A push never waits for a rebuild, however long that takes, so the preview
\* that shares the consumer thread does not stall (GstRtmpStreamer::Push).
PushReturns == consumer = "pushing" ~> consumer = "out"

\* Stop returns, whatever the watcher is doing when it is called.
StopReturns == \A s \in Streamers : control[s] = "joining" ~> control[s] = "idle"

\* An uplink that is lost, or whose rebuild failed, is up again in the end unless
\* the stream is stopped (WatcherLoop: "otherwise the uplink would stay dead").
UplinkRecovers ==
  \A s \in Streamers : (s \in listed /\ pipeline[s] # "up") ~> (pipeline[s] = "up" \/ s \notin listed)

\* [refuted] An endpoint that never let the bus stay silent for a tick is tried
\* at growing intervals (WatcherLoop: "Capped exponential backoff so a
\* permanently-down endpoint can't spin into a reconnect storm").
BackoffGrows ==
  \A s \in Streamers : watcher[s] = "backoff" /\ unhealthy[s] => level[s] > 0

\* [refuted] [action] A STREAMING_START with a destination starts the stream
\* when none is active (streaming.handler.cpp: "full RTMP URL").
StartIsAccepted == [][starts' = starts + 1 /\ listed = {} => listed' # {}]_vars
=============================================================================
