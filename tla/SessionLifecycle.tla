-------------------------- MODULE SessionLifecycle --------------------------
(***************************************************************************)
(* What a session promises to the rest of the camera, without saying how   *)
(* the session manager keeps it: a ladder of six phases climbed one rung   *)
(* at a time, a configuration and a live match that exist only above the   *)
(* rung that provides them, and three ways down.                           *)
(*                                                                         *)
(* The phases are the enumerators of session-phase.hpp, with their values. *)
(***************************************************************************)
EXTENDS Naturals

Idle       == 0   \* no central connected
Connected  == 1   \* BLE connected, no WiFi group yet
WifiReady  == 2   \* autonomous WiFi Direct group up
Configured == 3   \* session config received and output directories prepared
Ready      == 4   \* overlay layout applied: ready to record or stream
Recording  == 5   \* recording in progress

SessionPhase == Idle..Recording

VARIABLES phase,       \* the current rung
          hasConfig,   \* a session configuration is held
          hasMatch     \* the live match differs from its initial value

lifecycleVars == <<phase, hasConfig, hasMatch>>

\* Nothing of a session is held while the camera is idle.
LifecycleInit == phase = Idle /\ ~hasConfig /\ ~hasMatch

\* Climb one rung.  The configuration appears with the rung Configured.
Climb == /\ phase < Recording
         /\ phase' = phase + 1
         /\ hasConfig' = (phase' >= Configured)
         /\ UNCHANGED hasMatch

\* The score or the clock moves, which only a configured session allows.
UpdateMatch == /\ phase >= Configured
               /\ hasMatch' \in BOOLEAN
               /\ UNCHANGED <<phase, hasConfig>>

\* A recording ends and the session may record again.
EndRecording == /\ phase = Recording
                /\ phase' = Ready
                /\ UNCHANGED <<hasConfig, hasMatch>>

\* The WiFi group goes away, and everything built on top of it.
LoseWifi == /\ phase > Connected
            /\ phase' = Connected
            /\ hasConfig' = FALSE
            /\ hasMatch' = FALSE

\* The session ends: all its memory is cleared at once.
EndSession == /\ phase # Idle
              /\ phase' = Idle
              /\ hasConfig' = FALSE
              /\ hasMatch' = FALSE

LifecycleNext == Climb \/ UpdateMatch \/ EndRecording \/ LoseWifi \/ EndSession

Lifecycle == LifecycleInit /\ [][LifecycleNext]_lifecycleVars
=============================================================================
