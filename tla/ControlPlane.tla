---------------------------- MODULE ControlPlane ----------------------------
(***************************************************************************)
(* The control plane: the threads that drive a session and the services    *)
(* whose state the session phase is supposed to describe.                  *)
(*                                                                         *)
(*   - the D-Bus event loop thread of BluezBleTransport runs one command   *)
(*     at a time through CommandDispatcher and its handler.  A handler is  *)
(*     a sequence of calls on services that each take their own mutex, so  *)
(*     each call is one action and "pc" is the next call;                  *)
(*   - the main thread waits for a signal and then shuts down: it joins    *)
(*     the clock, takes the disconnect hook and runs                       *)
(*     SessionManager::OnDisconnect WHILE THE EVENT LOOP IS STILL RUNNING, *)
(*     and only then leaves the loop ("main" is its next call);            *)
(*   - the match-clock thread updates the match once a second.             *)
(*                                                                         *)
(* The session itself is SessionManager; "disconnecting" is TRUE while the *)
(* main thread is between the two critical sections of OnDisconnect.       *)
(***************************************************************************)
EXTENDS SessionManager

CONSTANTS
  MayThrow,          \* the cleanup steps that may throw (any subset of CleanupStep)
                     \* FinalizeRecording: the thumbnail writer, so RECORDING_STOP too
  AppRetriesStart    \* TRUE if the app may send StartWifiDirect with the group up

CleanupStep == {"FinalizeRecording", "StopStreaming", "TeardownWifiDirect"}

ASSUME ControlAssumption == /\ MayThrow \subseteq CleanupStep
                            /\ AppRetriesStart \in BOOLEAN

VARIABLES
  link,       \* a central is connected at the radio
  central,    \* central_present_ of BluezBleTransport
  op,         \* the command the event loop thread handles, or "none"
  pc,         \* its next call; "loop" between commands
  main,       \* the main thread's next call
  rec,        \* RecordingService: state_
  recorder,   \* GstContinuousRecorder: running_
  preview,    \* the app stream server: stopped, started, or in its main loop
  dhcp,       \* DnsmasqDhcpServer: pid_ > 0
  deaf,       \* a wait for that dnsmasq does not return (external)
  ctrl,       \* WpaWifiManager: the control socket is open
  group,      \* wpa_supplicant has a P2P group up (external)
  stopThrew,  \* history: RecordingService::Stop threw
  raced,      \* history: the event loop was busy after the disconnect hook was taken
  thrown      \* history: the cleanup steps that threw

sessionPart == <<phase, config, match, disconnecting>>
wifiPart    == <<dhcp, deaf, ctrl, group>>
recordPart  == <<rec, recorder, stopThrew>>
mediaPart   == <<rec, recorder, stopThrew, preview>>
history     == <<raced, thrown>>
vars == <<phase, config, match, disconnecting, link, central, op, pc, main,
          rec, recorder, stopThrew, preview, dhcp, deaf, ctrl, group, raced, thrown>>

Command == {"StartWifi", "StopWifi", "PushConfig", "PushOverlay", "UpdateMatch",
            "RecordingStart", "RecordingStop", "RecordingPause",
            "RecordingResume", "Query"}

BlePc == {"loop", "connect", "handle",
          "startRecorder", "markRecording", "rollBackRecorder", "markStopped",
          "startDhcp", "undoDhcp", "undoGroup", "wifiReady", "startPreview",
          "stopGroup", "wifiStopped"}

MainPc == {"running", "joinClock", "stopBle", "disconnect", "finalizeRecording",
           "stopStreaming", "teardownDhcp", "teardownGroup", "clear",
           "leaveLoop", "joinLoop", "stopPipeline", "destroyStreaming", "exit"}

\* The type invariant, by what the variables belong to.
ThreadTypeOK ==
  /\ disconnecting \in BOOLEAN
  /\ link \in BOOLEAN
  /\ central \in BOOLEAN
  /\ op \in Command \cup {"none"}
  /\ pc \in BlePc
  /\ main \in MainPc

ServiceTypeOK ==
  /\ rec \in {"Idle", "Recording", "Paused"}
  /\ recorder \in BOOLEAN
  /\ stopThrew \in BOOLEAN
  /\ preview \in {"off", "spawned", "serving", "orphaned"}
  /\ dhcp \in BOOLEAN
  /\ deaf \in BOOLEAN
  /\ ctrl \in BOOLEAN
  /\ group \in BOOLEAN

HistoryTypeOK == raced \in BOOLEAN /\ thrown \subseteq CleanupStep

TypeOK == SessionTypeOK /\ ThreadTypeOK /\ ServiceTypeOK /\ HistoryTypeOK

Init ==
  /\ ManagerInit
  /\ link = FALSE
  /\ central = FALSE
  /\ op = "none" /\ pc = "loop"
  /\ main = "running"
  /\ rec = "Idle" /\ recorder = FALSE /\ stopThrew = FALSE /\ preview = "off"
  /\ dhcp = FALSE /\ deaf = FALSE /\ ctrl = FALSE /\ group = FALSE
  /\ raced = FALSE /\ thrown = {}

\* The main thread has taken the disconnect hook from the transport.
HookTaken == main \notin {"running", "joinClock", "stopBle"}

\* Wrong on purpose (as is every definition below whose name says what it
\* forgets): the loop dispatches until it is joined.
LoopRunsUntilJoined == main \notin {"stopPipeline", "destroyStreaming", "exit"}

\* The event loop still dispatches writes.
LoopRuns == main \notin {"joinLoop", "stopPipeline", "destroyStreaming", "exit"}

-----------------------------------------------------------------------------
\* The BLE link and the event loop thread.

CentralConnects == /\ ~link
                   /\ link' = TRUE
                   /\ UNCHANGED <<sessionPart, central, op, pc, main, mediaPart,
                                  wifiPart, history>>

\* BlueZ sees the central go; no code of the transport is called.
CentralLeaves == /\ link
                 /\ link' = FALSE
                 /\ UNCHANGED <<sessionPart, central, op, pc, main, mediaPart,
                                wifiPart, history>>

\* What the app sends: anything, but with AppRetriesStart = FALSE no
\* StartWifiDirect once a session has its group.
AppSends(cmd) == cmd = "StartWifi" /\ phase >= WifiReady => AppRetriesStart

\* OnRawCommand up to the end of its critical section, for the write that
\* completes a command.  The first write of a central also surfaces the
\* connection, before the handler runs.
ReceiveCommand(cmd) ==
  /\ pc = "loop"
  /\ link
  /\ LoopRuns
  /\ AppSends(cmd)
  /\ op' = cmd
  /\ pc' = IF central THEN "handle" ELSE "connect"
  /\ central' = TRUE
  /\ raced' = IF HookTaken THEN TRUE ELSE raced
  /\ UNCHANGED <<sessionPart, link, main, mediaPart, wifiPart, thrown>>

\* The event loop thread's step leaves the other threads alone.
BleStep(from) ==
  /\ pc = from
  /\ UNCHANGED <<disconnecting, link, central, main, history>>

Handling(cmd) == op = cmd /\ BleStep("handle")

Continue(label) == pc' = label /\ UNCHANGED op

\* The handler returns: SendResponse, and back to the event loop.
Respond == pc' = "loop" /\ op' = "none"

SurfaceConnect ==
  /\ BleStep("connect")
  /\ \E ok \in BOOLEAN : OnConnect(ok)
  /\ Continue("handle")
  /\ UNCHANGED <<mediaPart, wifiPart>>

\* Commands that change nothing here: device, match-state and download queries,
\* thumbnails, banners, an unsupported command.
HandleQuery ==
  /\ Handling("Query")
  /\ Respond
  /\ UNCHANGED <<sessionVars, mediaPart, wifiPart>>

HandlePushConfig ==
  /\ Handling("PushConfig")
  /\ \E c \in Configs, dirsMade \in BOOLEAN, ok \in BOOLEAN :
        ApplySessionConfig(c, dirsMade, ok)
  /\ Respond
  /\ UNCHANGED <<mediaPart, wifiPart>>

HandlePushOverlay ==
  /\ Handling("PushOverlay")
  /\ \E ok \in BOOLEAN : OnOverlayConfigured(ok)
  /\ Respond
  /\ UNCHANGED <<mediaPart, wifiPart>>

HandleUpdateMatch ==
  /\ Handling("UpdateMatch")
  /\ \E m \in Matches, ok \in BOOLEAN : ApplyMatchUpdate(m, ok)
  /\ Respond
  /\ UNCHANGED <<mediaPart, wifiPart>>

-----------------------------------------------------------------------------
\* RecordingHandler.

\* RecordingService::Stop, which does nothing when idle.  Otherwise it stops the
\* recorder, and then either becomes idle or lets the exception of the thumbnail
\* writer through, before state_ is reset.  The path and the last frame stay, so
\* a stop after one that threw (the recorder no longer runs) throws again.
StopRecording(threw) ==
  \/ rec = "Idle" /\ ~threw /\ UNCHANGED recordPart
  \/ /\ rec # "Idle"
     /\ recorder' = FALSE
     /\ \/ ~threw /\ recorder /\ rec' = "Idle" /\ UNCHANGED stopThrew
        \/ threw /\ "FinalizeRecording" \in MayThrow /\ stopThrew' = TRUE /\ UNCHANGED rec

\* The phase is tested on a snapshot, before the recorder is touched.
GateRecordingStart ==
  /\ Handling("RecordingStart")
  /\ IF config # NoConfig /\ phase = Ready THEN Continue("startRecorder") ELSE Respond
  /\ UNCHANGED <<sessionVars, mediaPart, wifiPart>>

\* RecordingService::StartRecording; it refuses when it is not idle, and may
\* refuse for the path, the disk guard or the recorder.
StartRecorder ==
  /\ BleStep("startRecorder")
  /\ \/ rec = "Idle" /\ rec' = "Recording" /\ recorder' = TRUE /\ Continue("markRecording")
     \/ UNCHANGED <<rec, recorder>> /\ Respond
  /\ UNCHANGED <<sessionVars, stopThrew, preview, wifiPart>>

MarkRecording ==
  /\ BleStep("markRecording")
  /\ \/ OnRecordingStart(TRUE) /\ Respond
     \/ OnRecordingStart(FALSE) /\ Continue("rollBackRecorder")
  /\ UNCHANGED <<mediaPart, wifiPart>>

\* An exception ends the handler in the dispatcher, which answers an error.
RollBackRecorder ==
  /\ BleStep("rollBackRecorder")
  /\ \E threw \in BOOLEAN : StopRecording(threw)
  /\ Respond
  /\ UNCHANGED <<sessionVars, preview, wifiPart>>

\* Mutant: the session is not told that the recorder stopped.
StopRecorderForgetsSession ==
  /\ Handling("RecordingStop")
  /\ \E threw \in BOOLEAN : StopRecording(threw)
  /\ Respond
  /\ UNCHANGED <<sessionVars, preview, wifiPart>>

\* After an exception the session is not told: CommandDispatcher::Dispatch
\* catches it, and the phase stays where it was.
StopRecorder ==
  /\ Handling("RecordingStop")
  /\ \/ StopRecording(FALSE) /\ Continue("markStopped")
     \/ StopRecording(TRUE) /\ Respond
  /\ UNCHANGED <<sessionVars, preview, wifiPart>>

MarkStopped ==
  /\ BleStep("markStopped")
  /\ \E ok \in BOOLEAN : OnRecordingStop(ok)
  /\ Respond
  /\ UNCHANGED <<mediaPart, wifiPart>>

PauseRecorder ==
  /\ Handling("RecordingPause")
  /\ rec' = IF rec = "Recording" THEN "Paused" ELSE rec
  /\ Respond
  /\ UNCHANGED <<sessionVars, recorder, stopThrew, preview, wifiPart>>

ResumeRecorder ==
  /\ Handling("RecordingResume")
  /\ rec' = IF rec = "Paused" THEN "Recording" ELSE rec
  /\ Respond
  /\ UNCHANGED <<sessionVars, recorder, stopThrew, preview, wifiPart>>

-----------------------------------------------------------------------------
\* WifiDirectHandler over WpaWifiManager and DnsmasqDhcpServer.

\* WpaWifiManager::Stop.  Without a control socket there is nobody to ask to
\* remove the group.
StopWifiManager ==
  /\ group' = IF ctrl THEN FALSE ELSE group
  /\ ctrl' = FALSE

\* Mutant: a start that missed its event closes the socket.
FormGroupClosesSocketOnLostEvent ==
  /\ Handling("StartWifi")
  /\ \/ ~ctrl /\ UNCHANGED <<ctrl, group>> /\ Respond
     \/ ctrl' = TRUE /\ UNCHANGED group /\ Respond
     \/ ctrl' = FALSE /\ group' = TRUE /\ Respond
     \/ ctrl' = TRUE /\ group' = TRUE /\ Continue("startDhcp")
  /\ UNCHANGED <<sessionVars, mediaPart, dhcp, deaf>>

\* WpaWifiManager::StartP2pGroupOwner: the socket cannot be opened; or
\* P2P_GROUP_ADD is refused; or it is accepted but the event is lost or cannot
\* be parsed; or the group is formed.  wpa_supplicant is taken to run one group
\* at a time and may answer either way when it is up already.
FormGroup ==
  /\ Handling("StartWifi")
  /\ \/ ~ctrl /\ UNCHANGED <<ctrl, group>> /\ Respond
     \/ ctrl' = TRUE /\ UNCHANGED group /\ Respond
     \/ ctrl' = TRUE /\ group' = TRUE /\ Respond
     \/ ctrl' = TRUE /\ group' = TRUE /\ Continue("startDhcp")
  /\ UNCHANGED <<sessionVars, mediaPart, dhcp, deaf>>

\* DnsmasqDhcpServer::Start refuses when dnsmasq is already running, and may
\* fail to start it.  A dnsmasq that does not end on SIGTERM, or that the main
\* thread comes to wait for without having sent it one (WifiDirect has the race on
\* pid_), is one that is waited for in vain.
StartDhcp ==
  /\ BleStep("startDhcp")
  /\ \/ ~dhcp /\ dhcp' = TRUE /\ deaf' \in BOOLEAN /\ Continue("wifiReady")
     \/ UNCHANGED <<dhcp, deaf>> /\ Continue("undoGroup")
  /\ UNCHANGED <<sessionVars, mediaPart, ctrl, group>>

ConfirmWifi ==
  /\ BleStep("wifiReady")
  /\ \/ OnWifiReady(TRUE) /\ Continue("startPreview")
     \/ OnWifiReady(FALSE) /\ Continue("undoDhcp")
  /\ UNCHANGED <<mediaPart, wifiPart>>

\* DnsmasqDhcpServer::Stop.  A thread that waits for a deaf dnsmasq stays in its
\* step for ever.
StopServer == (dhcp => ~deaf) /\ dhcp' = FALSE /\ UNCHANGED deaf

UndoDhcp ==
  /\ BleStep("undoDhcp")
  /\ StopServer
  /\ Continue("undoGroup")
  /\ UNCHANGED <<sessionVars, mediaPart, ctrl, group>>

UndoGroup ==
  /\ BleStep("undoGroup")
  /\ StopWifiManager
  /\ Respond
  /\ UNCHANGED <<sessionVars, mediaPart, dhcp, deaf>>

\* A preview that does not start is logged and the command still succeeds.  The
\* service's mutex is held for ever by a Stop that does not return.
StartPreview ==
  /\ BleStep("startPreview")
  /\ preview # "orphaned"
  /\ \/ preview = "off" /\ preview' = "spawned"
     \/ UNCHANGED preview
  /\ Respond
  /\ UNCHANGED <<sessionVars, recordPart, wifiPart>>

\* The thread of the preview enters g_main_loop_run.
EnterPreviewLoop ==
  /\ preview = "spawned"
  /\ preview' = "serving"
  /\ UNCHANGED <<sessionPart, link, central, op, pc, main, recordPart, wifiPart, history>>

\* GstRtspAppStreamServer::Stop quits the loop if it is running, and then joins
\* the thread.  Before the thread has entered the loop there is nothing to quit,
\* and the join does not return: the caller stays in its step.
StopPreview == preview \in {"off", "serving"} /\ preview' = "off"
OrphanPreview == preview = "spawned" /\ preview' = "orphaned"

\* Mutant: nothing is stopped in a session whose Wi-Fi is not ready.
StopDhcpOnlyWhenReady ==
  /\ Handling("StopWifi")
  /\ IF phase >= WifiReady THEN StopServer /\ Continue("stopGroup")
                           ELSE UNCHANGED <<dhcp, deaf>> /\ Respond
  /\ UNCHANGED <<sessionVars, mediaPart, ctrl, group>>

StopDhcp ==
  /\ Handling("StopWifi")
  /\ StopServer
  /\ Continue("stopGroup")
  /\ UNCHANGED <<sessionVars, mediaPart, ctrl, group>>

StopGroup ==
  /\ BleStep("stopGroup")
  /\ StopWifiManager
  /\ Continue("wifiStopped")
  /\ UNCHANGED <<sessionVars, mediaPart, dhcp, deaf>>

MarkWifiStopped ==
  /\ BleStep("wifiStopped")
  /\ \E ok \in BOOLEAN : OnWifiStopped(ok)
  /\ Respond
  /\ UNCHANGED <<mediaPart, wifiPart>>

BleThread ==
  \/ SurfaceConnect \/ HandleQuery \/ HandlePushConfig \/ HandlePushOverlay
  \/ HandleUpdateMatch \/ GateRecordingStart \/ StartRecorder \/ MarkRecording
  \/ RollBackRecorder \/ StopRecorder \/ MarkStopped \/ PauseRecorder
  \/ ResumeRecorder \/ FormGroup \/ StartDhcp \/ ConfirmWifi \/ UndoDhcp
  \/ UndoGroup \/ StartPreview \/ StopDhcp \/ StopGroup \/ MarkWifiStopped

-----------------------------------------------------------------------------
\* The match-clock thread, until the main thread has joined it.

TickClock ==
  /\ main \in {"running", "joinClock"}
  /\ \E m \in Matches, ok \in BOOLEAN : ApplyMatchUpdate(m, ok)
  /\ UNCHANGED <<disconnecting, link, central, op, pc, main, mediaPart, wifiPart,
                 history>>

-----------------------------------------------------------------------------
\* The main thread, from the signal to the end of the process.

MainStep(from, to) ==
  /\ main = from
  /\ main' = to
  /\ UNCHANGED <<link, op, pc>>

ReceiveSignal == /\ MainStep("running", "joinClock")
                 /\ UNCHANGED <<sessionPart, central, mediaPart, wifiPart, history>>

JoinClock == /\ MainStep("joinClock", "stopBle")
             /\ UNCHANGED <<sessionPart, central, mediaPart, wifiPart, history>>

\* BluezBleTransport::Stop takes the hook and forgets the central, atomically.
TakeDisconnectHook ==
  /\ MainStep("stopBle", IF central THEN "disconnect" ELSE "leaveLoop")
  /\ central' = FALSE
  /\ raced' = IF pc = "loop" THEN FALSE ELSE TRUE
  /\ UNCHANGED <<sessionPart, mediaPart, wifiPart, thrown>>

\* Mutant: nothing is cleaned up before Wi-Fi is ready.
EnterOnDisconnectOnlyWhenReady ==
  /\ \E fanOut \in BOOLEAN :
        /\ (fanOut <=> phase >= WifiReady)
        /\ disconnecting' = fanOut
        /\ MainStep("disconnect", IF fanOut THEN "finalizeRecording" ELSE "leaveLoop")
  /\ UNCHANGED <<sessionVars, central, mediaPart, wifiPart, history>>

EnterOnDisconnect ==
  /\ \E fanOut \in BOOLEAN :
        /\ BeginDisconnect(fanOut)
        /\ disconnecting' = fanOut
        /\ MainStep("disconnect", IF fanOut THEN "finalizeRecording" ELSE "leaveLoop")
  /\ UNCHANGED <<central, mediaPart, wifiPart, history>>

\* One isolated cleanup step: an exception is swallowed and recorded.
Throws(step) == step \in MayThrow /\ thrown' = thrown \cup {step}

CleanupFinalizeRecording ==
  /\ MainStep("finalizeRecording", "stopStreaming")
  /\ \/ StopRecording(FALSE) /\ UNCHANGED thrown
     \/ StopRecording(TRUE) /\ Throws("FinalizeRecording")
  /\ UNCHANGED <<sessionPart, central, preview, wifiPart, raced>>

CleanupStopStreaming ==
  /\ \/ /\ MainStep("stopStreaming", "teardownDhcp")
        /\ \/ StopPreview /\ UNCHANGED thrown
           \/ Throws("StopStreaming") /\ preview # "orphaned" /\ UNCHANGED preview
     \/ /\ MainStep("stopStreaming", "stopStreaming")
        /\ OrphanPreview /\ UNCHANGED thrown
  /\ UNCHANGED <<sessionPart, central, recordPart, wifiPart, raced>>

\* TeardownWifiDirect is one step of two calls: a throw of the first skips the
\* second.
CleanupStopDhcp ==
  /\ \/ /\ MainStep("teardownDhcp", "teardownGroup")
        /\ StopServer /\ UNCHANGED thrown
     \/ /\ MainStep("teardownDhcp", "clear")
        /\ Throws("TeardownWifiDirect") /\ UNCHANGED <<dhcp, deaf>>
  /\ UNCHANGED <<sessionPart, central, mediaPart, ctrl, group, raced>>

CleanupStopGroup ==
  /\ MainStep("teardownGroup", "clear")
  /\ \/ StopWifiManager /\ UNCHANGED thrown
     \/ Throws("TeardownWifiDirect") /\ UNCHANGED <<ctrl, group>>
  /\ UNCHANGED <<sessionPart, central, mediaPart, dhcp, deaf, raced>>

LeaveOnDisconnect ==
  /\ MainStep("clear", "leaveLoop")
  /\ EndDisconnect
  /\ disconnecting' = FALSE
  /\ UNCHANGED <<central, mediaPart, wifiPart, history>>

\* leaveEventLoop asks the loop to exit, then joins its thread.
LeaveEventLoop ==
  /\ MainStep("leaveLoop", "joinLoop")
  /\ UNCHANGED <<sessionPart, central, mediaPart, wifiPart, history>>

JoinEventLoop ==
  /\ pc = "loop"
  /\ MainStep("joinLoop", "stopPipeline")
  /\ UNCHANGED <<sessionPart, central, mediaPart, wifiPart, history>>

\* pipeline.Stop, then the destructors at the end of main, the last built first:
\* dnsmasq is stopped, the control socket is closed, and nobody removes a group.
DestroyWifi ==
  /\ MainStep("stopPipeline", "destroyStreaming")
  /\ StopServer
  /\ ctrl' = FALSE
  /\ UNCHANGED <<sessionPart, central, mediaPart, group, history>>

\* The destructor of the streaming service stops the preview, and that of the
\* recording service the recorder; an exception in the latter ends the process
\* too.
ExitProcess ==
  /\ \/ /\ MainStep("destroyStreaming", "exit")
        /\ StopPreview
        /\ rec' = "Idle" /\ recorder' = FALSE /\ UNCHANGED stopThrew
     \/ /\ MainStep("destroyStreaming", "destroyStreaming")
        /\ OrphanPreview
        /\ UNCHANGED recordPart
  /\ UNCHANGED <<sessionPart, central, wifiPart, history>>

MainThread ==
  \/ JoinClock \/ TakeDisconnectHook \/ EnterOnDisconnect
  \/ CleanupFinalizeRecording \/ CleanupStopStreaming \/ CleanupStopDhcp
  \/ CleanupStopGroup \/ LeaveOnDisconnect \/ LeaveEventLoop \/ JoinEventLoop
  \/ DestroyWifi \/ ExitProcess

\* The process is gone; only the link may still change.
Exited == main = "exit" /\ UNCHANGED vars

Next ==
  \/ CentralConnects \/ CentralLeaves
  \/ \E cmd \in Command : ReceiveCommand(cmd)
  \/ BleThread
  \/ EnterPreviewLoop
  \/ TickClock
  \/ ReceiveSignal
  \/ MainThread
  \/ Exited

Spec == Init /\ [][Next]_vars

\* A thread that can take its next step eventually does.  Nothing makes the
\* app send, the central come or go, the clock tick or the signal arrive.
FairSpec == Spec /\ WF_vars(BleThread) /\ WF_vars(MainThread)

-----------------------------------------------------------------------------
\* Safety.

\* The phase Recording is backed by a recorder that runs, except while the thread
\* that stops the recorder is on its way to tell the session (RecordingHandler
\* after recording_.Stop(), or OnDisconnect after FinalizeRecording), and after
\* a thumbnail writer threw in RecordingService::Stop: then the session is never
\* told (see RecordingIsTrue).  A session that believes it records while nothing
\* does would lose the match silently.
RecordingHasRecorder ==
  phase = Recording /\ main # "exit" => \/ recorder
                                        \/ pc = "markStopped"
                                        \/ disconnecting
                                        \/ stopThrew

\* [refuted] The same without the exception ("keep state consistent",
\* recording.handler.cpp).
RecordingIsTrue ==
  phase = Recording /\ main # "exit" => recorder \/ pc = "markStopped" \/ disconnecting

\* A group that is up can be removed: WpaWifiManager::Stop sends the removal
\* only through an open control socket, so no path that leaves a group behind
\* may close the socket first, as long as the process lives.
GroupRemovable == group /\ main \notin {"destroyStreaming", "exit"} => ctrl

\* OnDisconnect, with its steps isolated from one another, stops the recorder,
\* releases every service whose step did not throw and clears the session,
\* whatever state the session was in when the signal came; provided the event loop was idle when
\* the hook was taken and no command came after that.
ShutdownReleases ==
  main \in {"leaveLoop", "joinLoop", "stopPipeline"} /\ ~raced =>
    /\ phase = Idle /\ config = NoConfig /\ match = EmptyMatch
    /\ ~recorder
    /\ "FinalizeRecording" \notin thrown => rec = "Idle"
    /\ "StopStreaming" \notin thrown => preview = "off"
    /\ "TeardownWifiDirect" \notin thrown => ~dhcp /\ ~ctrl /\ ~group

\* StopWifiDirect is the way back from every broken WiFi state: when the
\* command has been handled, whatever happened before, no group and no DHCP
\* server is left and the session holds no configuration.
StopWifiCleans ==
  [][op = "StopWifi" /\ op' = "none" => ~group' /\ ~dhcp' /\ config' = NoConfig]_vars

\* Between commands, a session at or above WifiReady has its group up and
\* served by DHCP ("the group is already up", session-manager.cpp).  It needs
\* AppRetriesStart = FALSE.
WifiPhaseHasGroup ==
  phase >= WifiReady /\ pc = "loop" /\ ~HookTaken => group /\ dhcp

\* A configuration is not replaced while a recorder writes to the paths of the
\* old one ("Re-pushing config mid-recording is likewise rejected").
NoConfigWhileRecording ==
  [][config' # config /\ config' # NoConfig => rec = "Idle"]_vars

\* Whatever the app does, a process that has shut down leaves no group behind.
ExitLeavesNoGroup == main = "exit" /\ thrown = {} => ~group

\* The handlers and the cleanup take no more of the Wi-Fi services than
\* WifiContract promises, which WifiDirect shows of their code: the group only
\* comes up with its control socket, and the socket goes with the group.
Wifi == INSTANCE WifiContract
          WITH life <- IF main \in {"destroyStreaming", "exit"} THEN 1 ELSE 0

KeepsWifiContract == Wifi!Spec

-----------------------------------------------------------------------------
\* Liveness.

\* The two waits of the services that the code does not bound: for the preview's
\* thread, and for a dnsmasq that does not end.
WaitsForEver == preview = "orphaned" \/ (dhcp /\ deaf)

\* The handler of a command always comes back to the event loop, but for the two
\* waits.
CommandsComplete == pc # "loop" ~> pc = "loop" \/ []WaitsForEver

\* A signal ends the process, whatever the event loop is busy with and whatever
\* has thrown, unless the preview was stopped before its thread had entered its
\* loop (PreviewStopReturns of Streaming), or the dnsmasq that is up does not end:
\* no other wait of main or the event loop keeps the process alive.
ShutdownCompletes == main # "running" ~> main = "exit" \/ []WaitsForEver

\* The session of a central that has gone for good ends ("Invoked when the
\* central disconnects, so the session can be finalized + cleaned up",
\* ble-transport.hpp).
DisconnectEndsSession ==
  ~link /\ phase # Idle ~> link \/ phase = Idle \/ HookTaken
=============================================================================
