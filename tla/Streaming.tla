------------------------------ MODULE Streaming ------------------------------
(***************************************************************************)
(* StreamingService (streaming-service.cpp) with its two streamers: the    *)
(* platform stream, RtmpUplink, and the app's preview, RtspPreview.  They  *)
(* share the service's mtx_:                                               *)
(*   - Push, on the pipeline's consumer thread, holds it over the preview  *)
(*     and the uplink;                                                     *)
(*   - StopAppStream holds it until the preview's thread is joined;        *)
(*   - StopPlatformStream takes the entry out under it and stops the       *)
(*     uplink after it is released.                                        *)
(* Callers are the event loop and, when it ends a session, the main        *)
(* thread, so that one may stop an uplink while the other is at the        *)
(* preview, or starts the next uplink.                                     *)
(***************************************************************************)
EXTENDS Naturals

CONSTANTS
  Streamers,   \* as many as there are callers
  Keys,        \* does the caller's config have a stream key
  MaxLevel,    \* doublings from kBaseBackoff to kMaxBackoff (4)
  MaxStreams,  \* bound of the model: calls of StartPlatformStream
  MaxServers   \* bound of the model: calls of StartAppStream that start a server

ASSUME StreamingAssumption ==
  Keys \subseteq BOOLEAN /\ MaxStreams \in Nat /\ MaxServers \in Nat

VARIABLES
  listed, running, watching, pipeline, watcher, level, mutex, streamControl, consumer,
  streams, unhealthy,
  serving, server, servers, thread, looping, appsrc, describing, previewControl,
  connected, pushed

uplinkVars == <<listed, running, watching, pipeline, watcher, level, mutex, streamControl,
                consumer, streams, unhealthy>>
previewVars == <<serving, server, servers, thread, looping, appsrc, describing,
                 previewControl, connected, pushed>>
vars == <<uplinkVars, previewVars>>

Uplink == INSTANCE RtmpUplink
            WITH control <- streamControl, starts <- streams, MaxStarts <- MaxStreams
Preview == INSTANCE RtspPreview
             WITH running <- serving, control <- previewControl, starts <- servers,
                  MaxStarts <- MaxServers

Init == Uplink!Init /\ Preview!Init

-----------------------------------------------------------------------------
\* mtx_ is free: neither Push nor StopAppStream is inside.
ServiceFree == consumer = "out" /\ previewControl = "idle"

StartPlatformStream(key) ==
  ServiceFree /\ Uplink!StartPlatformStream(key) /\ UNCHANGED previewVars

StopPlatformStream ==
  ServiceFree /\ (\E s \in Streamers : Uplink!BeginStop(s)) /\ UNCHANGED previewVars

\* The rest of the stop and the watcher, with no part in mtx_.
UplinkRuns ==
  /\ \E s \in Streamers : \/ Uplink!JoinWatcher(s) \/ Uplink!BeginFlush(s) \/ Uplink!EndFlush(s)
                         \/ Uplink!WatcherStep(s) \/ Uplink!UplinkFails(s)
  /\ UNCHANGED previewVars

StartAppStream == ServiceFree /\ Preview!Start /\ UNCHANGED uplinkVars

StopAppStream == ServiceFree /\ Preview!BeginStop /\ UNCHANGED uplinkVars

\* The rest of the stop, with mtx_ held, the loop thread and the viewers.
PreviewRuns ==
  /\ \/ Preview!JoinAndRelease \/ Preview!LoopRuns \/ Preview!LoopReturns
     \/ Preview!ViewerDescribes \/ Preview!OnMediaConfigure
  /\ UNCHANGED uplinkVars

\* The preview gets its frame, then the uplink, if it is there.
Push ==
  /\ ServiceFree
  /\ serving \/ listed # {}
  /\ IF serving THEN Preview!Push ELSE UNCHANGED previewVars
  /\ IF listed # {} THEN Uplink!EnterPush ELSE UNCHANGED uplinkVars

PushReturns == Uplink!LeavePush /\ UNCHANGED previewVars

Next == \/ \E key \in Keys : StartPlatformStream(key)
        \/ StopPlatformStream \/ UplinkRuns
        \/ StartAppStream \/ StopAppStream \/ PreviewRuns
        \/ Push \/ PushReturns

\* Threads run, bus waits are bounded, rebuilds end and an endpoint that is
\* tried for ever comes back.  No call has to come.
Fairness == Uplink!Fairness /\ Uplink!Endpoint /\ Preview!Fairness

Spec == Init /\ [][Next]_vars /\ Fairness

-----------------------------------------------------------------------------
\* A stream that is listed to the app runs and is watched, and one that is gone
\* has left neither a thread nor a pipeline (StreamingService's map,
\* GstRtmpStreamer::Stop).
ListedIsWatched == Uplink!ListedIsWatched

\* Nobody rebuilds the pipeline that Stop flushes ("so its reconnect path can't
\* race the teardown below", GstRtmpStreamer::Stop).
FlushIsAlone == Uplink!FlushIsAlone

\* Once a viewer is configured its frames go to the server it is connected to,
\* also when the media of an earlier server was configured late
\* (GstRtspAppStreamServer::OnMediaConfigure).
ViewerIsServed == Preview!ViewerIsServed

\* An uplink that is lost comes back when its endpoint does, also when the
\* preview's Stop never returns and keeps mtx_ (GstRtmpStreamer::WatcherLoop).
UplinkRecovers == Uplink!UplinkRecovers

\* [refuted] StopAppStream returns (gst-rtsp-app-stream-server.hpp: "Stop() quits
\* it").
PreviewStopReturns == Preview!StopReturns
=============================================================================
