------------------------- MODULE ControlPlaneProofs -------------------------
(***************************************************************************)
(* The safety of the control plane for every set of configurations and     *)
(* match values, every set of cleanup steps that may throw, and both       *)
(* habits of the app: first the session manager under any callers, then    *)
(* the control plane that calls it.                                        *)
(*                                                                         *)
(* The invariant is a conjunction of five parts.  Flow ties the program    *)
(* counters of the two threads to the command and to OnDisconnect; the     *)
(* others say, for each service, which program points may find it out of   *)
(* step with the phase.  They lean on one another only through Flow and    *)
(* SessionInv.                                                             *)
(***************************************************************************)
EXTENDS ControlPlane, TLAPS

-----------------------------------------------------------------------------
(***************************************************************************)
(* The session manager, for every set of callers.                          *)
(***************************************************************************)
\* The inductive invariant: the types, and the memory in step with the phase.
SessionInv == SessionTypeOK /\ ConfigMatchesPhase /\ NoLeftoverMatch

\* The methods and the phases they compare.
USE DEF Idle, Connected, WifiReady, Configured, Ready, Recording, SessionPhase

LEMMA SessionInitInv == ManagerInit => SessionInv
  BY SessionAssumption
  DEF ManagerInit, SessionInit, SessionInv, SessionTypeOK, ConfigMatchesPhase,
      NoLeftoverMatch

\* Every method keeps the invariant, whatever result it returns.
LEMMA MethodKeepsInv ==
  ASSUME SessionInv, NEW ok \in BOOLEAN, CallMethod(ok)
  PROVE  SessionInv'
<1> USE SessionAssumption
    DEF SessionInv, SessionTypeOK, ConfigMatchesPhase, NoLeftoverMatch, Rejected,
        sessionVars
<1>1. CASE OnConnect(ok)
  BY <1>1 DEF OnConnect
<1>2. CASE OnWifiReady(ok)
  BY <1>2 DEF OnWifiReady
<1>3. CASE OnWifiStopped(ok)
  BY <1>3 DEF OnWifiStopped
<1>4. ASSUME NEW c \in Configs, NEW dirsMade \in BOOLEAN,
             ApplySessionConfig(c, dirsMade, ok)
      PROVE  SessionInv'
  BY <1>4 DEF ApplySessionConfig
<1>5. CASE OnOverlayConfigured(ok)
  BY <1>5 DEF OnOverlayConfigured
<1>6. CASE OnRecordingStart(ok)
  BY <1>6 DEF OnRecordingStart
<1>7. CASE OnRecordingStop(ok)
  BY <1>7 DEF OnRecordingStop
<1>8. ASSUME NEW m \in Matches, ApplyMatchUpdate(m, ok)
      PROVE  SessionInv'
  BY <1>8 DEF ApplyMatchUpdate
<1>9. QED
  BY <1>1, <1>2, <1>3, <1>4, <1>5, <1>6, <1>7, <1>8 DEF CallMethod

LEMMA DisconnectKeepsInv ==
  ASSUME SessionInv, EndDisconnect
  PROVE  SessionInv'
  BY SessionAssumption
  DEF SessionInv, SessionTypeOK, ConfigMatchesPhase, NoLeftoverMatch, EndDisconnect

LEMMA SessionStepInv == SessionInv /\ [ManagerNext]_managerVars => SessionInv'
<1> SUFFICES ASSUME SessionInv, [ManagerNext]_managerVars PROVE SessionInv'
  OBVIOUS
<1>1. CASE CallOther
  BY <1>1, MethodKeepsInv DEF CallOther
<1>2. CASE CallDisconnect
  BY <1>2 DEF CallDisconnect, BeginDisconnect, SessionInv, SessionTypeOK,
              ConfigMatchesPhase, NoLeftoverMatch, sessionVars
<1>3. CASE FinishDisconnect
  BY <1>3, DisconnectKeepsInv DEF FinishDisconnect
<1>4. CASE UNCHANGED managerVars
  BY <1>4 DEF managerVars, SessionInv, SessionTypeOK, ConfigMatchesPhase,
              NoLeftoverMatch
<1>5. QED
  BY <1>1, <1>2, <1>3, <1>4 DEF ManagerNext

-----------------------------------------------------------------------------
\* The three variables always hold values of their types.
THEOREM SessionTypeCorrect == ManagerSpec => []SessionTypeOK
<1>1. SessionInv => SessionTypeOK
  BY DEF SessionInv
<1>2. QED
  BY <1>1, SessionInitInv, SessionStepInv, PTL DEF ManagerSpec

\* A configuration is held exactly from Configured upwards.
THEOREM ConfigFollowsPhase == ManagerSpec => []ConfigMatchesPhase
<1>1. SessionInv => ConfigMatchesPhase
  BY DEF SessionInv
<1>2. QED
  BY <1>1, SessionInitInv, SessionStepInv, PTL DEF ManagerSpec

\* No score or clock outlives the session it belongs to.
THEOREM MatchDiesWithSession == ManagerSpec => []NoLeftoverMatch
<1>1. SessionInv => NoLeftoverMatch
  BY DEF SessionInv
<1>2. QED
  BY <1>1, SessionInitInv, SessionStepInv, PTL DEF ManagerSpec

-----------------------------------------------------------------------------
\* Every step of the manager is a step of the abstract lifecycle or changes
\* nothing the lifecycle sees.

\* The lifecycle's actions, and the phases it names.
USE DEF Ladder!Idle, Ladder!Connected, Ladder!WifiReady, Ladder!Configured,
        Ladder!Ready, Ladder!Recording

LEMMA MethodIsLifecycleStep ==
  ASSUME SessionInv, NEW ok \in BOOLEAN, CallMethod(ok)
  PROVE  Ladder!LifecycleNext \/ UNCHANGED Ladder!lifecycleVars
<1> USE SessionAssumption
    DEF SessionInv, SessionTypeOK, ConfigMatchesPhase, NoLeftoverMatch, Rejected,
        sessionVars, Ladder!lifecycleVars
<1>1. CASE OnConnect(ok)
  BY <1>1 DEF OnConnect, Ladder!LifecycleNext, Ladder!Climb
<1>2. CASE OnWifiReady(ok)
  BY <1>2 DEF OnWifiReady, Ladder!LifecycleNext, Ladder!Climb
<1>3. CASE OnWifiStopped(ok)
  BY <1>3 DEF OnWifiStopped, Ladder!LifecycleNext, Ladder!LoseWifi
<1>4. ASSUME NEW c \in Configs, NEW dirsMade \in BOOLEAN,
             ApplySessionConfig(c, dirsMade, ok)
      PROVE  Ladder!LifecycleNext \/ UNCHANGED Ladder!lifecycleVars
  BY <1>4 DEF ApplySessionConfig, Ladder!LifecycleNext, Ladder!Climb
<1>5. CASE OnOverlayConfigured(ok)
  BY <1>5 DEF OnOverlayConfigured, Ladder!LifecycleNext, Ladder!Climb
<1>6. CASE OnRecordingStart(ok)
  BY <1>6 DEF OnRecordingStart, Ladder!LifecycleNext, Ladder!Climb
<1>7. CASE OnRecordingStop(ok)
  BY <1>7 DEF OnRecordingStop, Ladder!LifecycleNext, Ladder!EndRecording
<1>8. ASSUME NEW m \in Matches, ApplyMatchUpdate(m, ok)
      PROVE  Ladder!LifecycleNext \/ UNCHANGED Ladder!lifecycleVars
  BY <1>8 DEF ApplyMatchUpdate, Ladder!LifecycleNext, Ladder!UpdateMatch
<1>9. QED
  BY <1>1, <1>2, <1>3, <1>4, <1>5, <1>6, <1>7, <1>8 DEF CallMethod

LEMMA StepIsLifecycleStep ==
  SessionInv /\ [ManagerNext]_managerVars => [Ladder!LifecycleNext]_Ladder!lifecycleVars
<1> SUFFICES ASSUME SessionInv, [ManagerNext]_managerVars
             PROVE  Ladder!LifecycleNext \/ UNCHANGED Ladder!lifecycleVars
  OBVIOUS
<1>1. CASE CallOther
  BY <1>1, MethodIsLifecycleStep DEF CallOther
<1>2. CASE CallDisconnect
  BY <1>2 DEF CallDisconnect, BeginDisconnect, sessionVars, Ladder!lifecycleVars
<1>3. CASE FinishDisconnect
  BY <1>3, SessionAssumption
  DEF FinishDisconnect, EndDisconnect, SessionInv, SessionTypeOK,
      ConfigMatchesPhase, NoLeftoverMatch, Ladder!LifecycleNext,
      Ladder!EndSession, Ladder!lifecycleVars
<1>4. CASE UNCHANGED managerVars
  BY <1>4 DEF managerVars, Ladder!lifecycleVars
<1>5. QED
  BY <1>1, <1>2, <1>3, <1>4 DEF ManagerNext

\* The session manager implements the session lifecycle: rungs are climbed one
\* at a time, and the session's memory changes only in the steps that the
\* lifecycle names.
THEOREM ManagerImplementsLifecycle == ManagerSpec => ImplementsLifecycle
<1>1. ManagerInit => Ladder!LifecycleInit
  BY SessionAssumption DEF ManagerInit, SessionInit, Ladder!LifecycleInit
<1>2. QED
  BY <1>1, SessionInitInv, SessionStepInv, StepIsLifecycleStep, PTL
  DEF ManagerSpec, ImplementsLifecycle, Ladder!Lifecycle

HIDE DEF Idle, Connected, WifiReady, Configured, Ready, Recording, SessionPhase

-----------------------------------------------------------------------------
\* The control plane.

CleaningUp == {"finalizeRecording", "stopStreaming", "teardownDhcp", "teardownGroup",
               "clear"}

\* Which program points belong together.
Flow == /\ op = "none" <=> pc = "loop"
        /\ pc \in {"startDhcp", "undoDhcp", "undoGroup", "wifiReady", "startPreview"}
             => op = "StartWifi"
        /\ pc \in {"stopGroup", "wifiStopped"} => op = "StopWifi"
        /\ op = "StopWifi" => pc \in {"connect", "handle", "stopGroup", "wifiStopped"}
        /\ disconnecting <=> main \in CleaningUp
        /\ main \in {"stopPipeline", "destroyStreaming", "exit"} => pc = "loop"
        /\ HookTaken /\ ~raced => pc = "loop"

\* Where the recorder and the phase Recording may disagree.
RecorderInv ==
  /\ RecordingHasRecorder
  /\ rec = "Idle" => ~recorder
  /\ pc \in {"startRecorder", "markRecording"} => phase \in {Ready, Idle}
  /\ pc = "markRecording" => recorder \/ disconnecting \/ phase = Idle \/ stopThrew
  /\ pc = "rollBackRecorder" => phase = Idle

\* How far the handlers of WiFi have come.
WifiInv ==
  /\ GroupRemovable
  /\ pc = "stopGroup" => ~dhcp
  /\ pc = "wifiStopped" => ~dhcp /\ ~ctrl /\ ~group

\* No service holds anything of a session.
Released == rec = "Idle" /\ preview = "off" /\ ~dhcp /\ ~ctrl /\ ~group

\* Services are only used by a session that OnDisconnect will find open.
PristineInv ==
  /\ ~HookTaken /\ (~central \/ pc = "connect") => phase = Idle /\ Released
  /\ ~HookTaken /\ ~central => pc = "loop"
  /\ ~HookTaken /\ central /\ pc # "connect" => phase # Idle
  /\ main = "disconnect" /\ ~raced => phase # Idle

\* What OnDisconnect has released by the time it reaches each of its steps.
AtOrAfter(labels) == main \in labels \cup {"leaveLoop", "joinLoop", "stopPipeline"}

CleanupInv ==
  ~raced =>
    /\ AtOrAfter({"stopStreaming", "teardownDhcp", "teardownGroup", "clear"}) =>
         ~recorder /\ ("FinalizeRecording" \notin thrown => rec = "Idle")
    /\ AtOrAfter({"teardownDhcp", "teardownGroup", "clear"}) =>
         ("StopStreaming" \notin thrown => preview = "off")
    /\ main = "teardownGroup" => ~dhcp
    /\ AtOrAfter({"clear"}) => ("TeardownWifiDirect" \notin thrown => ~dhcp /\ ~ctrl /\ ~group)
    /\ AtOrAfter({}) => phase = Idle

ControlInv == /\ TypeOK /\ SessionInv
              /\ Flow /\ RecorderInv /\ WifiInv /\ PristineInv /\ CleanupInv

USE DEF Idle, Connected, WifiReady, Configured, Ready, Recording, SessionPhase,
        Command, BlePc, MainPc, CleanupStep, CleaningUp

\* What the steps of the proofs below expand.
USE DEF BleStep, Handling, Continue, Respond, MainStep, sessionPart, wifiPart,
        recordPart, mediaPart, history, sessionVars, Rejected, HookTaken, LoopRuns,
        StopRecording, StopServer, StopPreview, OrphanPreview

LEMMA ControlInitInv == Init => ControlInv
<1> SUFFICES ASSUME Init PROVE ControlInv
  OBVIOUS
<1> USE SessionAssumption DEF Init, ManagerInit, SessionInit
<1>1. SessionTypeOK
  BY DEF SessionTypeOK
<1>2. ThreadTypeOK
  BY DEF ThreadTypeOK
<1>3. ServiceTypeOK
  BY DEF ServiceTypeOK
<1>4. HistoryTypeOK
  BY DEF HistoryTypeOK
<1>5. SessionInv
  BY DEF SessionTypeOK, SessionInv, ConfigMatchesPhase, NoLeftoverMatch
<1>6. Flow
  BY DEF Flow
<1>7. RecorderInv
  BY DEF RecorderInv, RecordingHasRecorder, Flow
<1>8. WifiInv
  BY DEF WifiInv, GroupRemovable, Flow
<1>9. PristineInv
  BY DEF PristineInv, Released, Flow
<1>10. CleanupInv
  BY DEF CleanupInv, AtOrAfter, PristineInv, Released, WifiInv, Flow
<1>11. QED
  BY <1>1, <1>2, <1>3, <1>4, <1>5, <1>6, <1>7, <1>8, <1>9, <1>10
  DEF ControlInv, TypeOK

-----------------------------------------------------------------------------
\* Every action of the event loop thread keeps the invariant.
LEMMA BleThreadKeepsInv ==
  ASSUME ControlInv, BleThread
  PROVE  ControlInv'
<1> USE SessionAssumption
    DEF ControlInv, TypeOK, SessionTypeOK, ThreadTypeOK, ServiceTypeOK,
        HistoryTypeOK, SessionInv, ConfigMatchesPhase,
        NoLeftoverMatch, Flow, RecorderInv, RecordingHasRecorder, WifiInv,
        GroupRemovable, PristineInv, Released, CleanupInv, AtOrAfter
<1>1. CASE SurfaceConnect
  BY <1>1 DEF SurfaceConnect, OnConnect, Rejected
<1>2. CASE HandleQuery
  BY <1>2 DEF HandleQuery
<1>3. CASE HandlePushConfig
  BY <1>3 DEF HandlePushConfig, ApplySessionConfig, Rejected
<1>4. CASE HandlePushOverlay
  BY <1>4 DEF HandlePushOverlay, OnOverlayConfigured, Rejected
<1>5. CASE HandleUpdateMatch
  BY <1>5 DEF HandleUpdateMatch, ApplyMatchUpdate, Rejected
<1>6. CASE GateRecordingStart
  BY <1>6 DEF GateRecordingStart
<1>7. CASE StartRecorder
  <2> HIDE DEF TypeOK, SessionTypeOK, ThreadTypeOK, ServiceTypeOK, HistoryTypeOK,
               SessionInv, Flow, RecorderInv, WifiInv, PristineInv, CleanupInv
  <2>1. SessionTypeOK'
    BY <1>7
    DEF StartRecorder, TypeOK, SessionTypeOK
  <2>2. ThreadTypeOK'
    BY <1>7
    DEF StartRecorder, TypeOK, ThreadTypeOK
  <2>3. ServiceTypeOK'
    BY <1>7
    DEF StartRecorder, TypeOK, ServiceTypeOK
  <2>4. HistoryTypeOK'
    BY <1>7
    DEF StartRecorder, TypeOK, HistoryTypeOK
  <2>5. SessionInv'
    BY <1>7
    DEF StartRecorder, TypeOK, SessionTypeOK, SessionInv, ConfigMatchesPhase, NoLeftoverMatch
  <2>6. Flow'
    BY <1>7
    DEF StartRecorder, Flow
  <2>7. RecorderInv'
    BY <1>7
    DEF StartRecorder, RecorderInv, RecordingHasRecorder, Flow, TypeOK, ServiceTypeOK
  <2>8. WifiInv'
    BY <1>7
    DEF StartRecorder, WifiInv, GroupRemovable, Flow, TypeOK, ServiceTypeOK
  <2>9. PristineInv'
    BY <1>7
    DEF StartRecorder, PristineInv, Released, Flow
  <2>10. CleanupInv'
    BY <1>7
    DEF StartRecorder, CleanupInv, AtOrAfter, PristineInv, Released, WifiInv, Flow
  <2>11. QED
    BY <2>1, <2>2, <2>3, <2>4, <2>5, <2>6, <2>7, <2>8, <2>9, <2>10
    DEF ControlInv, TypeOK
<1>8. CASE MarkRecording
  BY <1>8 DEF MarkRecording, OnRecordingStart, Rejected
<1>9. CASE RollBackRecorder
  <2> HIDE DEF TypeOK, SessionTypeOK, ThreadTypeOK, ServiceTypeOK, HistoryTypeOK,
               SessionInv, Flow, RecorderInv, WifiInv, PristineInv, CleanupInv
  <2>1. SessionTypeOK'
    BY <1>9
    DEF RollBackRecorder, TypeOK, SessionTypeOK
  <2>2. ThreadTypeOK'
    BY <1>9
    DEF RollBackRecorder, TypeOK, ThreadTypeOK
  <2>3. ServiceTypeOK'
    BY <1>9
    DEF RollBackRecorder, TypeOK, ServiceTypeOK
  <2>4. HistoryTypeOK'
    BY <1>9
    DEF RollBackRecorder, TypeOK, HistoryTypeOK
  <2>5. SessionInv'
    BY <1>9
    DEF RollBackRecorder, TypeOK, SessionTypeOK, SessionInv, ConfigMatchesPhase, NoLeftoverMatch
  <2>6. Flow'
    BY <1>9
    DEF RollBackRecorder, Flow
  <2>7. RecorderInv'
    BY <1>9
    DEF RollBackRecorder, RecorderInv, RecordingHasRecorder, Flow, TypeOK, ServiceTypeOK
  <2>8. WifiInv'
    BY <1>9
    DEF RollBackRecorder, WifiInv, GroupRemovable, Flow, TypeOK, ServiceTypeOK
  <2>9. PristineInv'
    BY <1>9
    DEF RollBackRecorder, PristineInv, Released, Flow
  <2>10. CleanupInv'
    BY <1>9
    DEF RollBackRecorder, CleanupInv, AtOrAfter, PristineInv, Released, WifiInv, Flow
  <2>11. QED
    BY <2>1, <2>2, <2>3, <2>4, <2>5, <2>6, <2>7, <2>8, <2>9, <2>10
    DEF ControlInv, TypeOK
<1>10. CASE StopRecorder
  <2> HIDE DEF TypeOK, SessionTypeOK, ThreadTypeOK, ServiceTypeOK, HistoryTypeOK,
               SessionInv, Flow, RecorderInv, WifiInv, PristineInv, CleanupInv
  <2>1. SessionTypeOK'
    BY <1>10
    DEF StopRecorder, TypeOK, SessionTypeOK
  <2>2. ThreadTypeOK'
    BY <1>10
    DEF StopRecorder, TypeOK, ThreadTypeOK
  <2>3. ServiceTypeOK'
    BY <1>10
    DEF StopRecorder, TypeOK, ServiceTypeOK
  <2>4. HistoryTypeOK'
    BY <1>10
    DEF StopRecorder, TypeOK, HistoryTypeOK
  <2>5. SessionInv'
    BY <1>10
    DEF StopRecorder, TypeOK, SessionTypeOK, SessionInv, ConfigMatchesPhase, NoLeftoverMatch
  <2>6. Flow'
    BY <1>10
    DEF StopRecorder, Flow
  <2>7. RecorderInv'
    BY <1>10
    DEF StopRecorder, RecorderInv, RecordingHasRecorder, Flow, TypeOK, ServiceTypeOK
  <2>8. WifiInv'
    BY <1>10
    DEF StopRecorder, WifiInv, GroupRemovable, Flow, TypeOK, ServiceTypeOK
  <2>9. PristineInv'
    BY <1>10
    DEF StopRecorder, PristineInv, Released, Flow
  <2>10. CleanupInv'
    BY <1>10
    DEF StopRecorder, CleanupInv, AtOrAfter, PristineInv, Released, WifiInv, Flow
  <2>11. QED
    BY <2>1, <2>2, <2>3, <2>4, <2>5, <2>6, <2>7, <2>8, <2>9, <2>10
    DEF ControlInv, TypeOK
<1>11. CASE MarkStopped
  BY <1>11 DEF MarkStopped, OnRecordingStop, Rejected
<1>12. CASE PauseRecorder
  BY <1>12 DEF PauseRecorder
<1>13. CASE ResumeRecorder
  BY <1>13 DEF ResumeRecorder
<1>14. CASE FormGroup
  <2> HIDE DEF TypeOK, SessionTypeOK, ThreadTypeOK, ServiceTypeOK, HistoryTypeOK,
               SessionInv, Flow, RecorderInv, WifiInv, PristineInv, CleanupInv
  <2>1. SessionTypeOK'
    BY <1>14
    DEF FormGroup, TypeOK, SessionTypeOK
  <2>2. ThreadTypeOK'
    BY <1>14
    DEF FormGroup, TypeOK, ThreadTypeOK
  <2>3. ServiceTypeOK'
    BY <1>14
    DEF FormGroup, TypeOK, ServiceTypeOK
  <2>4. HistoryTypeOK'
    BY <1>14
    DEF FormGroup, TypeOK, HistoryTypeOK
  <2>5. SessionInv'
    BY <1>14
    DEF FormGroup, TypeOK, SessionTypeOK, SessionInv, ConfigMatchesPhase, NoLeftoverMatch
  <2>6. Flow'
    BY <1>14
    DEF FormGroup, Flow
  <2>7. RecorderInv'
    BY <1>14
    DEF FormGroup, RecorderInv, RecordingHasRecorder, Flow, TypeOK, ServiceTypeOK
  <2>8. WifiInv'
    BY <1>14
    DEF FormGroup, WifiInv, GroupRemovable, Flow, TypeOK, ServiceTypeOK
  <2>9. PristineInv'
    BY <1>14
    DEF FormGroup, PristineInv, Released, Flow
  <2>10. CleanupInv'
    BY <1>14
    DEF FormGroup, CleanupInv, AtOrAfter, PristineInv, Released, WifiInv, Flow
  <2>11. QED
    BY <2>1, <2>2, <2>3, <2>4, <2>5, <2>6, <2>7, <2>8, <2>9, <2>10
    DEF ControlInv, TypeOK
<1>15. CASE StartDhcp
  <2> HIDE DEF TypeOK, SessionTypeOK, ThreadTypeOK, ServiceTypeOK, HistoryTypeOK,
               SessionInv, Flow, RecorderInv, WifiInv, PristineInv, CleanupInv
  <2>1. SessionTypeOK'
    BY <1>15
    DEF StartDhcp, TypeOK, SessionTypeOK
  <2>2. ThreadTypeOK'
    BY <1>15
    DEF StartDhcp, TypeOK, ThreadTypeOK
  <2>3. ServiceTypeOK'
    BY <1>15
    DEF StartDhcp, TypeOK, ServiceTypeOK
  <2>4. HistoryTypeOK'
    BY <1>15
    DEF StartDhcp, TypeOK, HistoryTypeOK
  <2>5. SessionInv'
    BY <1>15
    DEF StartDhcp, TypeOK, SessionTypeOK, SessionInv, ConfigMatchesPhase, NoLeftoverMatch
  <2>6. Flow'
    BY <1>15
    DEF StartDhcp, Flow
  <2>7. RecorderInv'
    BY <1>15
    DEF StartDhcp, RecorderInv, RecordingHasRecorder, Flow, TypeOK, ServiceTypeOK
  <2>8. WifiInv'
    BY <1>15
    DEF StartDhcp, WifiInv, GroupRemovable, Flow, TypeOK, ServiceTypeOK
  <2>9. PristineInv'
    BY <1>15
    DEF StartDhcp, PristineInv, Released, Flow
  <2>10. CleanupInv'
    BY <1>15
    DEF StartDhcp, CleanupInv, AtOrAfter, PristineInv, Released, WifiInv, Flow
  <2>11. QED
    BY <2>1, <2>2, <2>3, <2>4, <2>5, <2>6, <2>7, <2>8, <2>9, <2>10
    DEF ControlInv, TypeOK
<1>16. CASE ConfirmWifi
  BY <1>16 DEF ConfirmWifi, OnWifiReady, Rejected
<1>17. CASE UndoDhcp
  <2> HIDE DEF TypeOK, SessionTypeOK, ThreadTypeOK, ServiceTypeOK, HistoryTypeOK,
               SessionInv, Flow, RecorderInv, WifiInv, PristineInv, CleanupInv
  <2>1. SessionTypeOK'
    BY <1>17
    DEF UndoDhcp, TypeOK, SessionTypeOK
  <2>2. ThreadTypeOK'
    BY <1>17
    DEF UndoDhcp, TypeOK, ThreadTypeOK
  <2>3. ServiceTypeOK'
    BY <1>17
    DEF UndoDhcp, TypeOK, ServiceTypeOK
  <2>4. HistoryTypeOK'
    BY <1>17
    DEF UndoDhcp, TypeOK, HistoryTypeOK
  <2>5. SessionInv'
    BY <1>17
    DEF UndoDhcp, TypeOK, SessionTypeOK, SessionInv, ConfigMatchesPhase, NoLeftoverMatch
  <2>6. Flow'
    BY <1>17
    DEF UndoDhcp, Flow
  <2>7. RecorderInv'
    BY <1>17
    DEF UndoDhcp, RecorderInv, RecordingHasRecorder, Flow, TypeOK, ServiceTypeOK
  <2>8. WifiInv'
    BY <1>17
    DEF UndoDhcp, WifiInv, GroupRemovable, Flow, TypeOK, ServiceTypeOK
  <2>9. PristineInv'
    BY <1>17
    DEF UndoDhcp, PristineInv, Released, Flow
  <2>10. CleanupInv'
    BY <1>17
    DEF UndoDhcp, CleanupInv, AtOrAfter, PristineInv, Released, WifiInv, Flow
  <2>11. QED
    BY <2>1, <2>2, <2>3, <2>4, <2>5, <2>6, <2>7, <2>8, <2>9, <2>10
    DEF ControlInv, TypeOK
<1>18. CASE UndoGroup
  <2> HIDE DEF TypeOK, SessionTypeOK, ThreadTypeOK, ServiceTypeOK, HistoryTypeOK,
               SessionInv, Flow, RecorderInv, WifiInv, PristineInv, CleanupInv
  <2>1. SessionTypeOK'
    BY <1>18
    DEF UndoGroup, StopWifiManager, TypeOK, SessionTypeOK
  <2>2. ThreadTypeOK'
    BY <1>18
    DEF UndoGroup, StopWifiManager, TypeOK, ThreadTypeOK
  <2>3. ServiceTypeOK'
    BY <1>18
    DEF UndoGroup, StopWifiManager, TypeOK, ServiceTypeOK
  <2>4. HistoryTypeOK'
    BY <1>18
    DEF UndoGroup, StopWifiManager, TypeOK, HistoryTypeOK
  <2>5. SessionInv'
    BY <1>18
    DEF UndoGroup, StopWifiManager, TypeOK, SessionTypeOK, SessionInv, ConfigMatchesPhase, NoLeftoverMatch
  <2>6. Flow'
    BY <1>18
    DEF UndoGroup, StopWifiManager, Flow
  <2>7. RecorderInv'
    BY <1>18
    DEF UndoGroup, StopWifiManager, RecorderInv, RecordingHasRecorder, Flow, TypeOK, ServiceTypeOK
  <2>8. WifiInv'
    BY <1>18
    DEF UndoGroup, StopWifiManager, WifiInv, GroupRemovable, Flow, TypeOK, ServiceTypeOK
  <2>9. PristineInv'
    BY <1>18
    DEF UndoGroup, StopWifiManager, PristineInv, Released, Flow
  <2>10. CleanupInv'
    BY <1>18
    DEF UndoGroup, StopWifiManager, CleanupInv, AtOrAfter, PristineInv, Released, WifiInv, Flow
  <2>11. QED
    BY <2>1, <2>2, <2>3, <2>4, <2>5, <2>6, <2>7, <2>8, <2>9, <2>10
    DEF ControlInv, TypeOK
<1>19. CASE StartPreview
  <2> HIDE DEF TypeOK, SessionTypeOK, ThreadTypeOK, ServiceTypeOK, HistoryTypeOK,
               SessionInv, Flow, RecorderInv, WifiInv, PristineInv, CleanupInv
  <2>1. SessionTypeOK'
    BY <1>19
    DEF StartPreview, TypeOK, SessionTypeOK
  <2>2. ThreadTypeOK'
    BY <1>19
    DEF StartPreview, TypeOK, ThreadTypeOK
  <2>3. ServiceTypeOK'
    BY <1>19
    DEF StartPreview, TypeOK, ServiceTypeOK
  <2>4. HistoryTypeOK'
    BY <1>19
    DEF StartPreview, TypeOK, HistoryTypeOK
  <2>5. SessionInv'
    BY <1>19
    DEF StartPreview, TypeOK, SessionTypeOK, SessionInv, ConfigMatchesPhase, NoLeftoverMatch
  <2>6. Flow'
    BY <1>19
    DEF StartPreview, Flow
  <2>7. RecorderInv'
    BY <1>19
    DEF StartPreview, RecorderInv, RecordingHasRecorder, Flow, TypeOK, ServiceTypeOK
  <2>8. WifiInv'
    BY <1>19
    DEF StartPreview, WifiInv, GroupRemovable, Flow, TypeOK, ServiceTypeOK
  <2>9. PristineInv'
    BY <1>19
    DEF StartPreview, PristineInv, Released, Flow
  <2>10. CleanupInv'
    BY <1>19
    DEF StartPreview, CleanupInv, AtOrAfter, PristineInv, Released, WifiInv, Flow
  <2>11. QED
    BY <2>1, <2>2, <2>3, <2>4, <2>5, <2>6, <2>7, <2>8, <2>9, <2>10
    DEF ControlInv, TypeOK
<1>20. CASE StopDhcp
  <2> HIDE DEF TypeOK, SessionTypeOK, ThreadTypeOK, ServiceTypeOK, HistoryTypeOK,
               SessionInv, Flow, RecorderInv, WifiInv, PristineInv, CleanupInv
  <2>1. SessionTypeOK'
    BY <1>20
    DEF StopDhcp, TypeOK, SessionTypeOK
  <2>2. ThreadTypeOK'
    BY <1>20
    DEF StopDhcp, TypeOK, ThreadTypeOK
  <2>3. ServiceTypeOK'
    BY <1>20
    DEF StopDhcp, TypeOK, ServiceTypeOK
  <2>4. HistoryTypeOK'
    BY <1>20
    DEF StopDhcp, TypeOK, HistoryTypeOK
  <2>5. SessionInv'
    BY <1>20
    DEF StopDhcp, TypeOK, SessionTypeOK, SessionInv, ConfigMatchesPhase, NoLeftoverMatch
  <2>6. Flow'
    BY <1>20
    DEF StopDhcp, Flow
  <2>7. RecorderInv'
    BY <1>20
    DEF StopDhcp, RecorderInv, RecordingHasRecorder, Flow, TypeOK, ServiceTypeOK
  <2>8. WifiInv'
    BY <1>20
    DEF StopDhcp, WifiInv, GroupRemovable, Flow, TypeOK, ServiceTypeOK
  <2>9. PristineInv'
    BY <1>20
    DEF StopDhcp, PristineInv, Released, Flow
  <2>10. CleanupInv'
    BY <1>20
    DEF StopDhcp, CleanupInv, AtOrAfter, PristineInv, Released, WifiInv, Flow
  <2>11. QED
    BY <2>1, <2>2, <2>3, <2>4, <2>5, <2>6, <2>7, <2>8, <2>9, <2>10
    DEF ControlInv, TypeOK
<1>21. CASE StopGroup
  <2> HIDE DEF TypeOK, SessionTypeOK, ThreadTypeOK, ServiceTypeOK, HistoryTypeOK,
               SessionInv, Flow, RecorderInv, WifiInv, PristineInv, CleanupInv
  <2>1. SessionTypeOK'
    BY <1>21
    DEF StopGroup, StopWifiManager, TypeOK, SessionTypeOK
  <2>2. ThreadTypeOK'
    BY <1>21
    DEF StopGroup, StopWifiManager, TypeOK, ThreadTypeOK
  <2>3. ServiceTypeOK'
    BY <1>21
    DEF StopGroup, StopWifiManager, TypeOK, ServiceTypeOK
  <2>4. HistoryTypeOK'
    BY <1>21
    DEF StopGroup, StopWifiManager, TypeOK, HistoryTypeOK
  <2>5. SessionInv'
    BY <1>21
    DEF StopGroup, StopWifiManager, TypeOK, SessionTypeOK, SessionInv, ConfigMatchesPhase, NoLeftoverMatch
  <2>6. Flow'
    BY <1>21
    DEF StopGroup, StopWifiManager, Flow
  <2>7. RecorderInv'
    BY <1>21
    DEF StopGroup, StopWifiManager, RecorderInv, RecordingHasRecorder, Flow, TypeOK, ServiceTypeOK
  <2>8. WifiInv'
    BY <1>21
    DEF StopGroup, StopWifiManager, WifiInv, GroupRemovable, Flow, TypeOK, ServiceTypeOK
  <2>9. PristineInv'
    BY <1>21
    DEF StopGroup, StopWifiManager, PristineInv, Released, Flow
  <2>10. CleanupInv'
    BY <1>21
    DEF StopGroup, StopWifiManager, CleanupInv, AtOrAfter, PristineInv, Released, WifiInv, Flow
  <2>11. QED
    BY <2>1, <2>2, <2>3, <2>4, <2>5, <2>6, <2>7, <2>8, <2>9, <2>10
    DEF ControlInv, TypeOK
<1>22. CASE MarkWifiStopped
  BY <1>22 DEF MarkWifiStopped, OnWifiStopped, Rejected
<1>23. QED
  BY ONLY BleThread,
     <1>1, <1>2, <1>3, <1>4, <1>5, <1>6, <1>7, <1>8, <1>9, <1>10, <1>11,
     <1>12, <1>13, <1>14, <1>15, <1>16, <1>17, <1>18, <1>19, <1>20, <1>21,
     <1>22
  DEF BleThread

\* So does every action of the main thread after the signal.
LEMMA MainThreadKeepsInv ==
  ASSUME ControlInv, MainThread
  PROVE  ControlInv'
<1> USE SessionAssumption
    DEF ControlInv, TypeOK, SessionTypeOK, ThreadTypeOK, ServiceTypeOK,
        HistoryTypeOK, SessionInv, ConfigMatchesPhase,
        NoLeftoverMatch, Flow, RecorderInv, RecordingHasRecorder, WifiInv,
        GroupRemovable, PristineInv, Released, CleanupInv, AtOrAfter
<1>1. CASE JoinClock
  BY <1>1 DEF JoinClock
<1>2. CASE TakeDisconnectHook
  <2> HIDE DEF TypeOK, SessionTypeOK, ThreadTypeOK, ServiceTypeOK, HistoryTypeOK,
               SessionInv, Flow, RecorderInv, WifiInv, PristineInv, CleanupInv
  <2>1. SessionTypeOK'
    BY <1>2
    DEF TakeDisconnectHook, TypeOK, SessionTypeOK
  <2>2. ThreadTypeOK'
    BY <1>2
    DEF TakeDisconnectHook, TypeOK, ThreadTypeOK
  <2>3. ServiceTypeOK'
    BY <1>2
    DEF TakeDisconnectHook, TypeOK, ServiceTypeOK
  <2>4. HistoryTypeOK'
    BY <1>2
    DEF TakeDisconnectHook, TypeOK, HistoryTypeOK
  <2>5. SessionInv'
    BY <1>2
    DEF TakeDisconnectHook, TypeOK, SessionTypeOK, SessionInv, ConfigMatchesPhase, NoLeftoverMatch
  <2>6. Flow'
    BY <1>2
    DEF TakeDisconnectHook, Flow
  <2>7. RecorderInv'
    BY <1>2
    DEF TakeDisconnectHook, RecorderInv, RecordingHasRecorder, Flow, TypeOK, ServiceTypeOK
  <2>8. WifiInv'
    BY <1>2
    DEF TakeDisconnectHook, WifiInv, GroupRemovable, Flow, TypeOK, ServiceTypeOK
  <2>9. PristineInv'
    BY <1>2
    DEF TakeDisconnectHook, PristineInv, Released, Flow
  <2>10. CleanupInv'
    BY <1>2
    DEF TakeDisconnectHook, CleanupInv, AtOrAfter, PristineInv, Released, WifiInv, Flow,
        RecorderInv
  <2>11. QED
    BY <2>1, <2>2, <2>3, <2>4, <2>5, <2>6, <2>7, <2>8, <2>9, <2>10
    DEF ControlInv, TypeOK
<1>3. CASE EnterOnDisconnect
  BY <1>3 DEF EnterOnDisconnect, BeginDisconnect
<1>4. CASE CleanupFinalizeRecording
  <2> HIDE DEF TypeOK, SessionTypeOK, ThreadTypeOK, ServiceTypeOK, HistoryTypeOK,
               SessionInv, Flow, RecorderInv, WifiInv, PristineInv, CleanupInv
  <2>1. SessionTypeOK'
    BY <1>4
    DEF CleanupFinalizeRecording, Throws, TypeOK, SessionTypeOK
  <2>2. ThreadTypeOK'
    BY <1>4
    DEF CleanupFinalizeRecording, Throws, TypeOK, ThreadTypeOK
  <2>3. ServiceTypeOK'
    BY <1>4
    DEF CleanupFinalizeRecording, Throws, TypeOK, ServiceTypeOK
  <2>4. HistoryTypeOK'
    BY <1>4
    DEF CleanupFinalizeRecording, Throws, TypeOK, HistoryTypeOK
  <2>5. SessionInv'
    BY <1>4
    DEF CleanupFinalizeRecording, Throws, TypeOK, SessionTypeOK, SessionInv, ConfigMatchesPhase, NoLeftoverMatch
  <2>6. Flow'
    BY <1>4
    DEF CleanupFinalizeRecording, Throws, Flow
  <2>7. RecorderInv'
    BY <1>4
    DEF CleanupFinalizeRecording, Throws, RecorderInv, RecordingHasRecorder, Flow, TypeOK, ServiceTypeOK
  <2>8. WifiInv'
    BY <1>4
    DEF CleanupFinalizeRecording, Throws, WifiInv, GroupRemovable, Flow, TypeOK, ServiceTypeOK
  <2>9. PristineInv'
    BY <1>4
    DEF CleanupFinalizeRecording, Throws, PristineInv, Released, Flow
  <2>10. CleanupInv'
    BY <1>4
    DEF CleanupFinalizeRecording, Throws, CleanupInv, AtOrAfter, PristineInv, Released, WifiInv, Flow,
        RecorderInv
  <2>11. QED
    BY <2>1, <2>2, <2>3, <2>4, <2>5, <2>6, <2>7, <2>8, <2>9, <2>10
    DEF ControlInv, TypeOK
<1>5. CASE CleanupStopStreaming
  <2> HIDE DEF TypeOK, SessionTypeOK, ThreadTypeOK, ServiceTypeOK, HistoryTypeOK,
               SessionInv, Flow, RecorderInv, WifiInv, PristineInv, CleanupInv
  <2>1. SessionTypeOK'
    BY <1>5
    DEF CleanupStopStreaming, Throws, TypeOK, SessionTypeOK
  <2>2. ThreadTypeOK'
    BY <1>5
    DEF CleanupStopStreaming, Throws, TypeOK, ThreadTypeOK
  <2>3. ServiceTypeOK'
    BY <1>5
    DEF CleanupStopStreaming, Throws, TypeOK, ServiceTypeOK
  <2>4. HistoryTypeOK'
    BY <1>5
    DEF CleanupStopStreaming, Throws, TypeOK, HistoryTypeOK
  <2>5. SessionInv'
    BY <1>5
    DEF CleanupStopStreaming, Throws, TypeOK, SessionTypeOK, SessionInv, ConfigMatchesPhase, NoLeftoverMatch
  <2>6. Flow'
    BY <1>5
    DEF CleanupStopStreaming, Throws, Flow
  <2>7. RecorderInv'
    BY <1>5
    DEF CleanupStopStreaming, Throws, RecorderInv, RecordingHasRecorder, Flow, TypeOK, ServiceTypeOK
  <2>8. WifiInv'
    BY <1>5
    DEF CleanupStopStreaming, Throws, WifiInv, GroupRemovable, Flow, TypeOK, ServiceTypeOK
  <2>9. PristineInv'
    BY <1>5
    DEF CleanupStopStreaming, Throws, PristineInv, Released, Flow
  <2>10. CleanupInv'
    BY <1>5
    DEF CleanupStopStreaming, Throws, CleanupInv, AtOrAfter, PristineInv, Released, WifiInv, Flow
  <2>11. QED
    BY <2>1, <2>2, <2>3, <2>4, <2>5, <2>6, <2>7, <2>8, <2>9, <2>10
    DEF ControlInv, TypeOK
<1>6. CASE CleanupStopDhcp
  <2> HIDE DEF TypeOK, SessionTypeOK, ThreadTypeOK, ServiceTypeOK, HistoryTypeOK,
               SessionInv, Flow, RecorderInv, WifiInv, PristineInv, CleanupInv
  <2>1. SessionTypeOK'
    BY <1>6
    DEF CleanupStopDhcp, Throws, TypeOK, SessionTypeOK
  <2>2. ThreadTypeOK'
    BY <1>6
    DEF CleanupStopDhcp, Throws, TypeOK, ThreadTypeOK
  <2>3. ServiceTypeOK'
    BY <1>6
    DEF CleanupStopDhcp, Throws, TypeOK, ServiceTypeOK
  <2>4. HistoryTypeOK'
    BY <1>6
    DEF CleanupStopDhcp, Throws, TypeOK, HistoryTypeOK
  <2>5. SessionInv'
    BY <1>6
    DEF CleanupStopDhcp, Throws, TypeOK, SessionTypeOK, SessionInv, ConfigMatchesPhase, NoLeftoverMatch
  <2>6. Flow'
    BY <1>6
    DEF CleanupStopDhcp, Throws, Flow
  <2>7. RecorderInv'
    BY <1>6
    DEF CleanupStopDhcp, Throws, RecorderInv, RecordingHasRecorder, Flow, TypeOK, ServiceTypeOK
  <2>8. WifiInv'
    BY <1>6
    DEF CleanupStopDhcp, Throws, WifiInv, GroupRemovable, Flow, TypeOK, ServiceTypeOK
  <2>9. PristineInv'
    BY <1>6
    DEF CleanupStopDhcp, Throws, PristineInv, Released, Flow
  <2>10. CleanupInv'
    BY <1>6
    DEF CleanupStopDhcp, Throws, CleanupInv, AtOrAfter, PristineInv, Released, WifiInv, Flow
  <2>11. QED
    BY <2>1, <2>2, <2>3, <2>4, <2>5, <2>6, <2>7, <2>8, <2>9, <2>10
    DEF ControlInv, TypeOK
<1>7. CASE CleanupStopGroup
  <2> HIDE DEF TypeOK, SessionTypeOK, ThreadTypeOK, ServiceTypeOK, HistoryTypeOK,
               SessionInv, Flow, RecorderInv, WifiInv, PristineInv, CleanupInv
  <2>1. SessionTypeOK'
    BY <1>7
    DEF CleanupStopGroup, Throws, StopWifiManager, TypeOK, SessionTypeOK
  <2>2. ThreadTypeOK'
    BY <1>7
    DEF CleanupStopGroup, Throws, StopWifiManager, TypeOK, ThreadTypeOK
  <2>3. ServiceTypeOK'
    BY <1>7
    DEF CleanupStopGroup, Throws, StopWifiManager, TypeOK, ServiceTypeOK
  <2>4. HistoryTypeOK'
    BY <1>7
    DEF CleanupStopGroup, Throws, StopWifiManager, TypeOK, HistoryTypeOK
  <2>5. SessionInv'
    BY <1>7
    DEF CleanupStopGroup, Throws, StopWifiManager, TypeOK, SessionTypeOK, SessionInv, ConfigMatchesPhase, NoLeftoverMatch
  <2>6. Flow'
    BY <1>7
    DEF CleanupStopGroup, Throws, StopWifiManager, Flow
  <2>7. RecorderInv'
    BY <1>7
    DEF CleanupStopGroup, Throws, StopWifiManager, RecorderInv, RecordingHasRecorder, Flow, TypeOK, ServiceTypeOK
  <2>8. WifiInv'
    <3>1. CASE StopWifiManager
      BY <1>7, <3>1 DEF CleanupStopGroup, StopWifiManager, WifiInv, GroupRemovable, Flow
    <3>2. CASE UNCHANGED <<ctrl, group>>
      BY <1>7, <3>2 DEF CleanupStopGroup, WifiInv, GroupRemovable, Flow
    <3>3. QED
      BY <1>7, <3>1, <3>2 DEF CleanupStopGroup
  <2>9. PristineInv'
    BY <1>7
    DEF CleanupStopGroup, Throws, StopWifiManager, PristineInv, Released, Flow
  <2>10. CleanupInv'
    BY <1>7
    DEF CleanupStopGroup, Throws, StopWifiManager, CleanupInv, AtOrAfter, PristineInv, Released, WifiInv, Flow
  <2>11. QED
    BY <2>1, <2>2, <2>3, <2>4, <2>5, <2>6, <2>7, <2>8, <2>9, <2>10
    DEF ControlInv, TypeOK
<1>8. CASE LeaveOnDisconnect
  <2> HIDE DEF TypeOK, SessionTypeOK, ThreadTypeOK, ServiceTypeOK, HistoryTypeOK,
               SessionInv, Flow, RecorderInv, WifiInv, PristineInv, CleanupInv
  <2>1. SessionTypeOK'
    BY <1>8
    DEF LeaveOnDisconnect, EndDisconnect, TypeOK, SessionTypeOK
  <2>2. ThreadTypeOK'
    BY <1>8
    DEF LeaveOnDisconnect, EndDisconnect, TypeOK, ThreadTypeOK
  <2>3. ServiceTypeOK'
    BY <1>8
    DEF LeaveOnDisconnect, EndDisconnect, TypeOK, ServiceTypeOK
  <2>4. HistoryTypeOK'
    BY <1>8
    DEF LeaveOnDisconnect, EndDisconnect, TypeOK, HistoryTypeOK
  <2>5. SessionInv'
    BY <1>8
    DEF LeaveOnDisconnect, EndDisconnect, TypeOK, SessionTypeOK, SessionInv, ConfigMatchesPhase, NoLeftoverMatch
  <2>6. Flow'
    BY <1>8
    DEF LeaveOnDisconnect, EndDisconnect, Flow
  <2>7. RecorderInv'
    BY <1>8
    DEF LeaveOnDisconnect, EndDisconnect, RecorderInv, RecordingHasRecorder, Flow, TypeOK, ServiceTypeOK
  <2>8. WifiInv'
    BY <1>8
    DEF LeaveOnDisconnect, EndDisconnect, WifiInv, GroupRemovable, Flow, TypeOK, ServiceTypeOK
  <2>9. PristineInv'
    BY <1>8
    DEF LeaveOnDisconnect, EndDisconnect, PristineInv, Released, Flow
  <2>10. CleanupInv'
    BY <1>8
    DEF LeaveOnDisconnect, EndDisconnect, CleanupInv, AtOrAfter, PristineInv, Released, WifiInv, Flow
  <2>11. QED
    BY <2>1, <2>2, <2>3, <2>4, <2>5, <2>6, <2>7, <2>8, <2>9, <2>10
    DEF ControlInv, TypeOK
<1>9. CASE LeaveEventLoop
  BY <1>9 DEF LeaveEventLoop
<1>10. CASE JoinEventLoop
  BY <1>10 DEF JoinEventLoop
<1>11. CASE DestroyWifi
  <2> HIDE DEF TypeOK, SessionTypeOK, ThreadTypeOK, ServiceTypeOK, HistoryTypeOK,
               SessionInv, Flow, RecorderInv, WifiInv, PristineInv, CleanupInv
  <2>1. SessionTypeOK'
    BY <1>11
    DEF DestroyWifi, TypeOK, SessionTypeOK
  <2>2. ThreadTypeOK'
    BY <1>11
    DEF DestroyWifi, TypeOK, ThreadTypeOK
  <2>3. ServiceTypeOK'
    BY <1>11
    DEF DestroyWifi, TypeOK, ServiceTypeOK
  <2>4. HistoryTypeOK'
    BY <1>11
    DEF DestroyWifi, TypeOK, HistoryTypeOK
  <2>5. SessionInv'
    BY <1>11
    DEF DestroyWifi, TypeOK, SessionTypeOK, SessionInv, ConfigMatchesPhase, NoLeftoverMatch
  <2>6. Flow'
    BY <1>11
    DEF DestroyWifi, Flow
  <2>7. RecorderInv'
    BY <1>11
    DEF DestroyWifi, RecorderInv, RecordingHasRecorder, Flow, TypeOK, ServiceTypeOK
  <2>8. WifiInv'
    BY <1>11
    DEF DestroyWifi, WifiInv, GroupRemovable, Flow, TypeOK, ServiceTypeOK
  <2>9. PristineInv'
    BY <1>11
    DEF DestroyWifi, PristineInv, Released, Flow
  <2>10. CleanupInv'
    BY <1>11
    DEF DestroyWifi, CleanupInv, AtOrAfter, PristineInv, Released, WifiInv, Flow
  <2>11. QED
    BY <2>1, <2>2, <2>3, <2>4, <2>5, <2>6, <2>7, <2>8, <2>9, <2>10
    DEF ControlInv, TypeOK
<1>12. CASE ExitProcess
  <2> HIDE DEF TypeOK, SessionTypeOK, ThreadTypeOK, ServiceTypeOK, HistoryTypeOK,
               SessionInv, Flow, RecorderInv, WifiInv, PristineInv, CleanupInv
  <2>1. SessionTypeOK'
    BY <1>12
    DEF ExitProcess, TypeOK, SessionTypeOK
  <2>2. ThreadTypeOK'
    BY <1>12
    DEF ExitProcess, TypeOK, ThreadTypeOK
  <2>3. ServiceTypeOK'
    BY <1>12
    DEF ExitProcess, TypeOK, ServiceTypeOK
  <2>4. HistoryTypeOK'
    BY <1>12
    DEF ExitProcess, TypeOK, HistoryTypeOK
  <2>5. SessionInv'
    BY <1>12
    DEF ExitProcess, TypeOK, SessionTypeOK, SessionInv, ConfigMatchesPhase, NoLeftoverMatch
  <2>6. Flow'
    BY <1>12
    DEF ExitProcess, Flow
  <2>7. RecorderInv'
    BY <1>12
    DEF ExitProcess, RecorderInv, RecordingHasRecorder, Flow, TypeOK, ServiceTypeOK
  <2>8. WifiInv'
    BY <1>12
    DEF ExitProcess, WifiInv, GroupRemovable, Flow, TypeOK, ServiceTypeOK
  <2>9. PristineInv'
    BY <1>12
    DEF ExitProcess, PristineInv, Released, Flow
  <2>10. CleanupInv'
    BY <1>12
    DEF ExitProcess, CleanupInv, AtOrAfter, PristineInv, Released, WifiInv, Flow
  <2>11. QED
    BY <2>1, <2>2, <2>3, <2>4, <2>5, <2>6, <2>7, <2>8, <2>9, <2>10
    DEF ControlInv, TypeOK
<1>13. QED
  BY ONLY MainThread,
     <1>1, <1>2, <1>3, <1>4, <1>5, <1>6, <1>7, <1>8, <1>9, <1>10, <1>11, <1>12
  DEF MainThread

LEMMA ControlStepInv == ControlInv /\ [Next]_vars => ControlInv'
<1> SUFFICES ASSUME ControlInv, [Next]_vars PROVE ControlInv'
  OBVIOUS
<1> USE SessionAssumption
    DEF ControlInv, TypeOK, SessionTypeOK, ThreadTypeOK, ServiceTypeOK,
        HistoryTypeOK, SessionInv, ConfigMatchesPhase,
        NoLeftoverMatch, Flow, RecorderInv, RecordingHasRecorder, WifiInv,
        GroupRemovable, PristineInv, Released, CleanupInv, AtOrAfter
<1>1. CASE CentralConnects
  BY <1>1 DEF CentralConnects
<1>2. CASE CentralLeaves
  <2> HIDE DEF TypeOK, SessionTypeOK, ThreadTypeOK, ServiceTypeOK, HistoryTypeOK,
               SessionInv, Flow, RecorderInv, WifiInv, PristineInv, CleanupInv
  <2>1. SessionTypeOK'
    BY <1>2
    DEF CentralLeaves, TypeOK, SessionTypeOK
  <2>2. ThreadTypeOK'
    <3>1. link' \in BOOLEAN
      BY <1>2 DEF CentralLeaves
    <3>2. UNCHANGED <<disconnecting, central, op, pc, main>>
      BY <1>2 DEF CentralLeaves
    <3>3. QED
      BY <3>1, <3>2 DEF TypeOK, ThreadTypeOK
  <2>3. ServiceTypeOK'
    BY <1>2
    DEF CentralLeaves, TypeOK, ServiceTypeOK
  <2>4. HistoryTypeOK'
    BY <1>2
    DEF CentralLeaves, TypeOK, HistoryTypeOK
  <2>5. SessionInv'
    BY <1>2
    DEF CentralLeaves, TypeOK, SessionTypeOK, SessionInv, ConfigMatchesPhase, NoLeftoverMatch
  <2>6. Flow'
    BY <1>2
    DEF CentralLeaves, Flow
  <2>7. RecorderInv'
    BY <1>2
    DEF CentralLeaves, RecorderInv, RecordingHasRecorder, Flow, TypeOK, ServiceTypeOK
  <2>8. WifiInv'
    BY <1>2
    DEF CentralLeaves, WifiInv, GroupRemovable, Flow, TypeOK, ServiceTypeOK
  <2>9. PristineInv'
    BY <1>2
    DEF CentralLeaves, PristineInv, Released, Flow
  <2>10. CleanupInv'
    BY <1>2
    DEF CentralLeaves, CleanupInv, AtOrAfter, PristineInv, Released, WifiInv, Flow
  <2>11. QED
    BY <2>1, <2>2, <2>3, <2>4, <2>5, <2>6, <2>7, <2>8, <2>9, <2>10
    DEF ControlInv, TypeOK
<1>3. ASSUME NEW cmd \in Command, ReceiveCommand(cmd)
      PROVE  ControlInv'
  <2> HIDE DEF TypeOK, SessionTypeOK, ThreadTypeOK, ServiceTypeOK, HistoryTypeOK,
               SessionInv, Flow, RecorderInv, WifiInv, PristineInv, CleanupInv
  <2>1. SessionTypeOK'
    BY <1>3
    DEF ReceiveCommand, TypeOK, SessionTypeOK
  <2>2. ThreadTypeOK'
    BY <1>3
    DEF ReceiveCommand, TypeOK, ThreadTypeOK
  <2>3. ServiceTypeOK'
    BY <1>3
    DEF ReceiveCommand, TypeOK, ServiceTypeOK
  <2>4. HistoryTypeOK'
    BY <1>3
    DEF ReceiveCommand, TypeOK, HistoryTypeOK
  <2>5. SessionInv'
    BY <1>3
    DEF ReceiveCommand, TypeOK, SessionTypeOK, SessionInv, ConfigMatchesPhase, NoLeftoverMatch
  <2>6. Flow'
    BY <1>3
    DEF ReceiveCommand, Flow
  <2>7. RecorderInv'
    BY <1>3
    DEF ReceiveCommand, RecorderInv, RecordingHasRecorder, Flow, TypeOK, ServiceTypeOK
  <2>8. WifiInv'
    BY <1>3
    DEF ReceiveCommand, WifiInv, GroupRemovable, Flow, TypeOK, ServiceTypeOK
  <2>9. PristineInv'
    BY <1>3
    DEF ReceiveCommand, PristineInv, Released, Flow
  <2>10. CleanupInv'
    BY <1>3
    DEF ReceiveCommand, CleanupInv, AtOrAfter, PristineInv, Released, WifiInv, Flow
  <2>11. QED
    BY <2>1, <2>2, <2>3, <2>4, <2>5, <2>6, <2>7, <2>8, <2>9, <2>10
    DEF ControlInv, TypeOK
<1>4. CASE BleThread
  BY ONLY <1>4, ControlInv, BleThreadKeepsInv
<1>5. CASE TickClock
  BY <1>5 DEF TickClock, ApplyMatchUpdate
<1>6. CASE ReceiveSignal
  BY <1>6 DEF ReceiveSignal
<1>7. CASE EnterPreviewLoop
  BY <1>7 DEF EnterPreviewLoop
<1>8. CASE MainThread
  BY ONLY <1>8, ControlInv, MainThreadKeepsInv
<1>9. CASE UNCHANGED vars
  BY <1>9 DEF vars
<1>10. QED
  BY ONLY [Next]_vars, <1>1, <1>2, <1>3, <1>4, <1>5, <1>6, <1>7, <1>8, <1>9
  DEF Next, Exited

-----------------------------------------------------------------------------
\* The invariants that the runs check.

\* The variables of the threads, the services and the history hold values of
\* their types at every interleaving of the three threads.
THEOREM ControlTypeCorrect == Spec => []TypeOK
<1>1. ControlInv => TypeOK
  BY DEF ControlInv
<1>2. QED
  BY <1>1, ControlInitInv, ControlStepInv, PTL DEF Spec

\* The session believes it is recording only while the recorder runs, but for the
\* moments in which the stopping thread has yet to tell it, and for a stop whose
\* thumbnail writer threw: the recorder has stopped then, and the dispatcher
\* ends the handler before it could tell the session.
THEOREM RecordingIsBacked == Spec => []RecordingHasRecorder
<1>1. ControlInv => RecordingHasRecorder
  BY DEF ControlInv, RecorderInv
<1>2. QED
  BY <1>1, ControlInitInv, ControlStepInv, PTL DEF Spec

\* No path of the WiFi code closes the control socket and leaves a group up.
THEOREM GroupStaysRemovable == Spec => []GroupRemovable
<1>1. ControlInv => GroupRemovable
  BY DEF ControlInv, WifiInv
<1>2. QED
  BY <1>1, ControlInitInv, ControlStepInv, PTL DEF Spec

\* OnDisconnect releases every service whose cleanup step did not throw, and
\* clears the session whatever was thrown.
THEOREM ShutdownReleasesServices == Spec => []ShutdownReleases
<1>1. ControlInv => ShutdownReleases
  BY DEF ControlInv, CleanupInv, AtOrAfter, ShutdownReleases, SessionInv,
         ConfigMatchesPhase, NoLeftoverMatch
<1>2. QED
  BY <1>1, ControlInitInv, ControlStepInv, PTL DEF Spec

-----------------------------------------------------------------------------
\* StopWifiDirect, from whatever state it is sent in, leaves no group, no DHCP
\* server and no configuration: Flow makes MarkWifiStopped the only step that
\* can end the command, and WifiInv says what it finds.
LEMMA StopWifiStep ==
  ASSUME ControlInv, [Next]_vars, op = "StopWifi", op' = "none"
  PROVE  ~group' /\ ~dhcp' /\ config' = NoConfig
<1> USE DEF ControlInv, Flow
<1>1. pc = "wifiStopped" => ~dhcp /\ ~ctrl /\ ~group
  BY DEF WifiInv
<1>2. CASE BleThread
  <2>1. MarkWifiStopped
    BY <1>2 DEF BleThread, SurfaceConnect, HandleQuery, HandlePushConfig,
       HandlePushOverlay, HandleUpdateMatch, GateRecordingStart, StartRecorder,
       MarkRecording, RollBackRecorder, StopRecorder, MarkStopped, PauseRecorder,
       ResumeRecorder, FormGroup, StartDhcp, ConfirmWifi, UndoDhcp, UndoGroup,
       StartPreview, StopDhcp, StopGroup
  <2>2. phase = Idle => config = NoConfig
    BY DEF SessionInv, ConfigMatchesPhase, TypeOK, SessionTypeOK
  <2>3. QED
    BY <1>1, <2>1, <2>2 DEF MarkWifiStopped, OnWifiStopped
<1>3. CASE MainThread
  BY <1>3 DEF MainThread, JoinClock, TakeDisconnectHook, EnterOnDisconnect,
     CleanupFinalizeRecording, CleanupStopStreaming, CleanupStopDhcp,
     CleanupStopGroup, LeaveOnDisconnect, LeaveEventLoop, JoinEventLoop, DestroyWifi,
     ExitProcess
<1>4. ~BleThread /\ ~MainThread => op' = op \/ op = "none"
  BY DEF Next, vars, CentralConnects, CentralLeaves, ReceiveCommand, TickClock,
     EnterPreviewLoop, ReceiveSignal, Exited
<1>5. QED
  BY <1>2, <1>3, <1>4

\* StopWifiDirect cleans up after every broken state of the WiFi stack.
THEOREM StopWifiCleansUp == Spec => StopWifiCleans
<1>1. ControlInv /\ [Next]_vars =>
        [op = "StopWifi" /\ op' = "none" => ~group' /\ ~dhcp' /\ config' = NoConfig]_vars
  BY StopWifiStep
<1>2. QED
  BY <1>1, ControlInitInv, ControlStepInv, PTL DEF Spec, StopWifiCleans

-----------------------------------------------------------------------------
\* The control plane uses the session manager only through its methods: every
\* step of a thread is a call of one, or leaves the session alone.

LEMMA BleThreadCallsManager ==
  ASSUME BleThread
  PROVE  CallOther \/ UNCHANGED managerVars
<1> USE DEF managerVars, CallOther, CallMethod
<1>1. CASE SurfaceConnect
  BY <1>1 DEF SurfaceConnect
<1>2. CASE HandlePushConfig
  BY <1>2 DEF HandlePushConfig
<1>3. CASE HandlePushOverlay
  BY <1>3 DEF HandlePushOverlay
<1>4. CASE HandleUpdateMatch
  BY <1>4 DEF HandleUpdateMatch
<1>5. CASE MarkRecording
  BY <1>5 DEF MarkRecording
<1>6. CASE MarkStopped
  BY <1>6 DEF MarkStopped
<1>7. CASE ConfirmWifi
  BY <1>7 DEF ConfirmWifi
<1>8. CASE MarkWifiStopped
  BY <1>8 DEF MarkWifiStopped
<1>9. CASE HandleQuery \/ GateRecordingStart \/ StartRecorder \/ RollBackRecorder
           \/ StopRecorder \/ PauseRecorder \/ ResumeRecorder
  BY <1>9 DEF HandleQuery, GateRecordingStart, StartRecorder, RollBackRecorder,
     StopRecorder, PauseRecorder, ResumeRecorder
<1>10. CASE FormGroup \/ StartDhcp \/ UndoDhcp \/ UndoGroup \/ StartPreview
            \/ StopDhcp \/ StopGroup
  BY <1>10 DEF FormGroup, StartDhcp, UndoDhcp, UndoGroup, StartPreview, StopDhcp,
     StopGroup
<1>11. QED
  BY ONLY BleThread, <1>1, <1>2, <1>3, <1>4, <1>5, <1>6, <1>7, <1>8, <1>9, <1>10
  DEF BleThread

LEMMA MainThreadCallsManager ==
  ASSUME ControlInv, MainThread
  PROVE  ManagerNext \/ UNCHANGED managerVars
<1> USE DEF managerVars, ManagerNext
<1>1. CASE EnterOnDisconnect
  BY <1>1 DEF EnterOnDisconnect, CallDisconnect, ControlInv, Flow
<1>2. CASE LeaveOnDisconnect
  BY <1>2 DEF LeaveOnDisconnect, FinishDisconnect, ControlInv, Flow
<1>3. CASE ~EnterOnDisconnect /\ ~LeaveOnDisconnect
  BY <1>3 DEF MainThread, JoinClock, TakeDisconnectHook, CleanupFinalizeRecording,
     CleanupStopStreaming, CleanupStopDhcp, CleanupStopGroup, LeaveEventLoop,
     JoinEventLoop, DestroyWifi, ExitProcess
<1>4. QED
  BY <1>1, <1>2, <1>3

\* The composition implements the session manager's interface, and with it the
\* lifecycle that ManagerImplementsLifecycle derives from it.
THEOREM ControlImplementsManager == Spec => ManagerSpec
<1>1. Init => ManagerInit
  BY DEF Init
<1>2. ControlInv /\ [Next]_vars => [ManagerNext]_managerVars
  <2> SUFFICES ASSUME ControlInv, [Next]_vars
               PROVE  ManagerNext \/ UNCHANGED managerVars
    OBVIOUS
  <2>1. CASE BleThread
    BY <2>1, BleThreadCallsManager DEF ManagerNext
  <2>2. CASE MainThread
    BY <2>2, MainThreadCallsManager
  <2>3. CASE TickClock
    BY <2>3 DEF TickClock, ManagerNext, CallOther, CallMethod
  <2>4. CASE ~BleThread /\ ~MainThread /\ ~TickClock
    BY <2>4 DEF Next, vars, managerVars, CentralConnects, CentralLeaves,
       ReceiveCommand, EnterPreviewLoop, ReceiveSignal, Exited
  <2>5. QED
    BY <2>1, <2>2, <2>3, <2>4
<1>3. QED
  BY <1>1, <1>2, ControlInitInv, ControlStepInv, PTL DEF Spec, ManagerSpec

\* So the phases, the configuration and the match of the running camera follow
\* the abstract lifecycle, whatever its threads do.
THEOREM ControlImplementsLifecycle == Spec => ImplementsLifecycle
  BY ControlImplementsManager, ManagerImplementsLifecycle

-----------------------------------------------------------------------------
\* The contract of the Wi-Fi services.

LEMMA BleThreadKeepsContract ==
  ASSUME TypeOK, BleThread
  PROVE  [Wifi!Next]_(Wifi!contractVars)
<1> USE DEF Wifi!contractVars, Wifi!Next, TypeOK, ServiceTypeOK, wifiPart
<1>1. CASE FormGroup
  BY <1>1 DEF FormGroup, Handling, BleStep, Wifi!FormGroup
<1>2. CASE StartDhcp
  BY <1>2 DEF StartDhcp, BleStep, Wifi!StartDhcp
<1>3. CASE UndoDhcp \/ StopDhcp
  BY <1>3 DEF UndoDhcp, StopDhcp, Handling, BleStep, Wifi!StopDhcp
<1>4. CASE UndoGroup \/ StopGroup
  BY <1>4 DEF UndoGroup, StopGroup, BleStep, StopWifiManager, Wifi!StopManager
<1>5. CASE SurfaceConnect \/ HandleQuery \/ HandlePushConfig \/ HandlePushOverlay
           \/ HandleUpdateMatch \/ GateRecordingStart \/ StartRecorder
  BY <1>5 DEF SurfaceConnect, HandleQuery, HandlePushConfig, HandlePushOverlay,
     HandleUpdateMatch, GateRecordingStart, StartRecorder, Handling, BleStep
<1>6. CASE MarkRecording \/ RollBackRecorder \/ StopRecorder \/ MarkStopped
           \/ PauseRecorder \/ ResumeRecorder \/ ConfirmWifi \/ StartPreview
           \/ MarkWifiStopped
  BY <1>6 DEF MarkRecording, RollBackRecorder, StopRecorder, MarkStopped, PauseRecorder,
     ResumeRecorder, ConfirmWifi, StartPreview, MarkWifiStopped, Handling, BleStep
<1>7. QED
  BY ONLY BleThread, <1>1, <1>2, <1>3, <1>4, <1>5, <1>6 DEF BleThread

LEMMA MainThreadKeepsContract ==
  ASSUME TypeOK, MainThread
  PROVE  [Wifi!Next]_(Wifi!contractVars)
<1> USE DEF Wifi!contractVars, Wifi!Next, TypeOK, ServiceTypeOK, wifiPart, MainStep
<1>1. CASE CleanupStopDhcp
  BY <1>1 DEF CleanupStopDhcp, Wifi!StopDhcp
<1>2. CASE CleanupStopGroup
  BY <1>2 DEF CleanupStopGroup, StopWifiManager, Wifi!StopManager
<1>3. CASE DestroyWifi
  BY <1>3 DEF DestroyWifi, Wifi!ProcessEnds
<1>4. CASE JoinClock \/ TakeDisconnectHook \/ EnterOnDisconnect
           \/ CleanupFinalizeRecording \/ CleanupStopStreaming \/ LeaveOnDisconnect
           \/ LeaveEventLoop \/ JoinEventLoop \/ ExitProcess
  BY <1>4 DEF JoinClock, TakeDisconnectHook, EnterOnDisconnect,
     CleanupFinalizeRecording, CleanupStopStreaming, LeaveOnDisconnect,
     LeaveEventLoop, JoinEventLoop, ExitProcess
<1>5. QED
  BY ONLY MainThread, <1>1, <1>2, <1>3, <1>4 DEF MainThread

\* What the handlers and the cleanup do with the manager and the DHCP server
\* stays within what WifiContract promises of them, at every interleaving.
THEOREM ControlKeepsWifiContract == Spec => KeepsWifiContract
<1>1. Init => Wifi!Init
  BY DEF Init, Wifi!Init
<1>2. TypeOK /\ [Next]_vars => [Wifi!Next]_(Wifi!contractVars)
  <2> SUFFICES ASSUME TypeOK, [Next]_vars
               PROVE  [Wifi!Next]_(Wifi!contractVars)
    OBVIOUS
  <2>1. CASE BleThread
    BY <2>1, BleThreadKeepsContract
  <2>2. CASE MainThread
    BY <2>2, MainThreadKeepsContract
  <2>3. CASE ~BleThread /\ ~MainThread
    BY <2>3 DEF Next, vars, wifiPart, CentralConnects, CentralLeaves, ReceiveCommand,
       TickClock, EnterPreviewLoop, ReceiveSignal, MainStep, Exited, Wifi!contractVars
  <2>4. QED
    BY <2>1, <2>2, <2>3
<1>3. ControlInv => TypeOK
  BY DEF ControlInv
<1>4. QED
  BY <1>1, <1>2, <1>3, ControlInitInv, ControlStepInv, PTL DEF Spec, KeepsWifiContract, Wifi!Spec

-----------------------------------------------------------------------------
\* The group of a session, until the shutdown begins.  A start is only handled
\* below WifiReady, so it takes nothing back from a session that has a group; and
\* StopWifiDirect is the one command that takes it away.
WifiBacked ==
  ~HookTaken =>
    /\ op = "StartWifi" /\ pc # "startPreview" => phase < WifiReady
    /\ phase >= WifiReady /\ op # "StopWifi" => group /\ dhcp
    /\ pc \in {"startDhcp", "wifiReady"} => group
    /\ pc = "wifiReady" => dhcp

LEMMA BleThreadKeepsGroup ==
  ASSUME ControlInv, WifiBacked, BleThread
  PROVE  WifiBacked'
<1>0. SessionTypeOK /\ Flow /\ UNCHANGED main
  BY DEF ControlInv, TypeOK, BleThread, SurfaceConnect, HandleQuery, HandlePushConfig,
         HandlePushOverlay, HandleUpdateMatch, GateRecordingStart, StartRecorder,
         MarkRecording, RollBackRecorder, StopRecorder, MarkStopped, PauseRecorder,
         ResumeRecorder, FormGroup, StartDhcp, ConfirmWifi, UndoDhcp, UndoGroup,
         StartPreview, StopDhcp, StopGroup, MarkWifiStopped
<1> USE <1>0 DEF WifiBacked, Flow, SessionTypeOK
<1>1. CASE SurfaceConnect
  BY <1>1 DEF SurfaceConnect, OnConnect
<1>2. CASE HandlePushConfig \/ HandlePushOverlay \/ HandleUpdateMatch
  BY <1>2 DEF HandlePushConfig, HandlePushOverlay, HandleUpdateMatch,
              ApplySessionConfig, OnOverlayConfigured, ApplyMatchUpdate
<1>3. CASE HandleQuery \/ GateRecordingStart \/ StartRecorder \/ RollBackRecorder
           \/ StopRecorder \/ PauseRecorder \/ ResumeRecorder
  BY <1>3 DEF HandleQuery, GateRecordingStart, StartRecorder, RollBackRecorder,
              StopRecorder, PauseRecorder, ResumeRecorder
<1>4. CASE MarkRecording \/ MarkStopped
  BY <1>4 DEF MarkRecording, MarkStopped, OnRecordingStart, OnRecordingStop
<1>5. CASE FormGroup
  BY <1>5 DEF FormGroup
<1>6. CASE StartDhcp \/ UndoDhcp
  BY <1>6 DEF StartDhcp, UndoDhcp
<1>7. CASE ConfirmWifi
  BY <1>7 DEF ConfirmWifi, OnWifiReady
<1>8. CASE UndoGroup
  BY <1>8 DEF UndoGroup, StopWifiManager
<1>9. CASE StartPreview
  BY <1>9 DEF StartPreview
<1>10. CASE StopDhcp \/ StopGroup
  BY <1>10 DEF StopDhcp, StopGroup, StopWifiManager
<1>11. CASE MarkWifiStopped
  BY <1>11 DEF MarkWifiStopped, OnWifiStopped
<1>12. QED
  BY ONLY BleThread, <1>1, <1>2, <1>3, <1>4, <1>5, <1>6, <1>7, <1>8, <1>9, <1>10, <1>11
     DEF BleThread

LEMMA StepKeepsGroup ==
  ASSUME ~AppRetriesStart, ControlInv, WifiBacked, [Next]_vars
  PROVE  WifiBacked'
<1> USE DEF WifiBacked
<1>1. CASE CentralConnects \/ CentralLeaves \/ EnterPreviewLoop \/ ReceiveSignal
  BY <1>1 DEF CentralConnects, CentralLeaves, EnterPreviewLoop, ReceiveSignal
<1>2. ASSUME NEW cmd \in Command, ReceiveCommand(cmd)
      PROVE  WifiBacked'
  <2>1. op = "none" /\ phase \in Nat
    BY <1>2 DEF ReceiveCommand, ControlInv, Flow, TypeOK, SessionTypeOK
  <2>2. cmd = "StartWifi" => phase < WifiReady
    BY <1>2, <2>1 DEF ReceiveCommand, AppSends
  <2>3. QED
    BY <1>2, <2>1, <2>2 DEF ReceiveCommand
<1>3. CASE BleThread
  BY <1>3, BleThreadKeepsGroup
<1>4. CASE TickClock
  BY <1>4 DEF TickClock, ApplyMatchUpdate
<1>5. CASE JoinClock
  BY <1>5 DEF JoinClock
<1>6. CASE MainThread /\ ~JoinClock
  <2>1. HookTaken'
    BY <1>6 DEF MainThread, TakeDisconnectHook, EnterOnDisconnect, CleanupFinalizeRecording,
                CleanupStopStreaming, CleanupStopDhcp, CleanupStopGroup, LeaveOnDisconnect,
                LeaveEventLoop, JoinEventLoop, DestroyWifi, ExitProcess
  <2>2. QED
    BY <2>1
<1>7. CASE Exited \/ UNCHANGED vars
  BY <1>7 DEF Exited, vars
<1>8. QED
  BY ONLY [Next]_vars, <1>1, <1>2, <1>3, <1>4, <1>5, <1>6, <1>7 DEF Next

\* Between commands a session at or above WifiReady has its group up and served
\* ("the group is already up", session-manager.cpp), if the app does not send
\* StartWifiDirect again while it has one: the handler rolls a live group back.
THEOREM SessionKeepsItsGroup ==
  ASSUME ~AppRetriesStart
  PROVE  Spec => []WifiPhaseHasGroup
<1>1. Init => WifiBacked
  BY DEF Init, ManagerInit, SessionInit, WifiBacked
<1>2. ControlInv /\ WifiBacked /\ [Next]_vars => WifiBacked'
  BY StepKeepsGroup
<1>3. ControlInv /\ WifiBacked => WifiPhaseHasGroup
  BY DEF WifiBacked, WifiPhaseHasGroup, ControlInv, Flow
<1>4. QED
  BY <1>1, <1>2, <1>3, ControlInitInv, ControlStepInv, PTL DEF Spec
=============================================================================
