----------------------------- MODULE RtspPreview -----------------------------
(***************************************************************************)
(* The app's preview: StreamingService's app stream and                    *)
(* GstRtspAppStreamServer (gst-rtsp-app-stream-server.cpp).                *)
(*                                                                         *)
(* Threads: the event loop starts the server when the Wi-Fi group is ready *)
(* and stops it when a session is cleaned up, both under                   *)
(* StreamingService::mtx_; the consumer pushes frames under the same       *)
(* mutex; the server has a GMainLoop thread; gst-rtsp-server answers a     *)
(* viewer's DESCRIBE in a thread of its own and emits media-configure from *)
(* there.  A server, and the media it makes, is the number of its Start.   *)
(***************************************************************************)
EXTENDS Naturals

CONSTANT MaxStarts   \* bound of the model: calls of Start

VARIABLES
  running,
  server,     \* server_, context_ and loop_: the number of the server, or 0
  starts,     \* servers started so far
  thread,     \* where the loop thread is
  looping,    \* the GMainLoop's is_running
  appsrc,     \* appsrc_: the server whose media it belongs to, or 0
  describing, \* the server for which media is being configured, or 0
  control,    \* where the event loop thread is in Stop
  connected,  \* a viewer has connected since the latest Start
  pushed      \* history: the latest frame went to an appsrc

vars == <<running, server, starts, thread, looping, appsrc, describing, control,
          connected, pushed>>

PreviewTypeOK ==
  /\ \A f \in {running, looping, connected, pushed} : f \in BOOLEAN
  /\ \A n \in {server, starts, appsrc, describing} : n \in 0..MaxStarts
  /\ thread \in {"none", "spawned", "loop", "exited"}
  /\ control \in {"idle", "joining"}
  /\ running => server = starts

Init == /\ running = FALSE /\ server = 0 /\ starts = 0
        /\ thread = "none" /\ looping = FALSE /\ appsrc = 0 /\ describing = 0
        /\ control = "idle" /\ connected = FALSE /\ pushed = FALSE

-----------------------------------------------------------------------------
\* The event loop thread.  Starting a running server changes nothing.
Start ==
  /\ control = "idle" /\ ~running /\ starts < MaxStarts
  /\ starts' = starts + 1 /\ server' = starts + 1 /\ running' = TRUE
  /\ thread' = "spawned" /\ looping' = FALSE
  /\ connected' = FALSE /\ pushed' = FALSE
  /\ UNCHANGED <<appsrc, describing, control>>

\* The first critical section of Stop.  g_main_loop_quit is called only when the
\* loop is running; quitting a loop that is not yet run would have no effect.
BeginStop ==
  /\ control = "idle" /\ running
  /\ appsrc' = 0 /\ looping' = FALSE /\ running' = FALSE /\ control' = "joining"
  /\ UNCHANGED <<server, starts, thread, describing, connected, pushed>>

\* The loop thread is joined; the second critical section releases the server.
JoinAndRelease ==
  /\ control = "joining" /\ thread = "exited"
  /\ thread' = "none" /\ server' = 0 /\ control' = "idle"
  /\ UNCHANGED <<running, starts, looping, appsrc, describing, connected, pushed>>

-----------------------------------------------------------------------------
\* The loop thread.  g_main_loop_run sets is_running on entry.
LoopRuns ==
  /\ thread = "spawned" /\ thread' = "loop" /\ looping' = TRUE
  /\ UNCHANGED <<running, server, starts, appsrc, describing, control, connected, pushed>>

LoopReturns ==
  /\ thread = "loop" /\ ~looping /\ thread' = "exited"
  /\ UNCHANGED <<running, server, starts, looping, appsrc, describing, control, connected, pushed>>

-----------------------------------------------------------------------------
\* A viewer connects; its connection is accepted by the loop.
ViewerDescribes ==
  /\ thread = "loop" /\ looping /\ describing = 0
  /\ describing' = server /\ connected' = TRUE
  /\ UNCHANGED <<running, server, starts, thread, looping, appsrc, control, pushed>>

\* Mutant: the pointer is set once and never replaced.
KeepFirstMedia ==
  /\ describing # 0 /\ describing' = 0
  /\ appsrc' = IF appsrc = 0 THEN describing ELSE appsrc
  /\ UNCHANGED <<running, server, starts, thread, looping, control, connected, pushed>>

\* Whether the server still runs is not looked at.
OnMediaConfigure ==
  /\ describing # 0
  /\ appsrc' = describing /\ describing' = 0
  /\ UNCHANGED <<running, server, starts, thread, looping, control, connected, pushed>>

\* The consumer, which waits for StreamingService::mtx_ while Stop has it.
Push ==
  /\ control = "idle" /\ running
  /\ pushed' = (appsrc # 0)
  /\ UNCHANGED <<running, server, starts, thread, looping, appsrc, describing, control, connected>>

-----------------------------------------------------------------------------
Next == \/ Start \/ BeginStop \/ JoinAndRelease
        \/ LoopRuns \/ LoopReturns
        \/ ViewerDescribes \/ OnMediaConfigure \/ Push

Fairness == /\ WF_vars(JoinAndRelease) /\ WF_vars(LoopRuns) /\ WF_vars(LoopReturns)
            /\ WF_vars(OnMediaConfigure)

Spec == Init /\ [][Next]_vars
LiveSpec == Spec /\ Fairness

-----------------------------------------------------------------------------
\* Properties.

\* The loop and its context outlive the thread that runs them: nothing is
\* released before the join (GstRtspAppStreamServer::Stop).
LoopOutlivesThread == thread \in {"spawned", "loop"} => server = starts /\ server # 0

\* Between sessions the server is gone: no thread and no listening socket, and
\* Start never overwrites a thread it has not joined.
StoppedIsGone == control = "idle" /\ ~running => thread = "none" /\ server = 0

\* Once a viewer of this server is configured, frames go to the media of this
\* server, even when an earlier one left its pointer behind (OnMediaConfigure).
ViewerIsServed == running /\ connected /\ describing = 0 => appsrc = server

\* [refuted] Stop returns (gst-rtsp-app-stream-server.hpp: "Start() spins a
\* dedicated GMainLoop thread; Stop() quits it").
StopReturns == control = "joining" ~> control = "idle"

\* [refuted] Frames go nowhere until a viewer connects to this server (the same
\* header: "Push() calls before any client connects are silently dropped").
NoFrameBeforeViewer == running /\ pushed => connected
=============================================================================
